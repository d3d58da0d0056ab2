----------------------------- MODULE Descriptors -----------------------------
(***************************************************************************)
(* The configuration descriptor that the driver keeps of a device, and     *)
(* what selecting a configuration or an interface finds in it.  Operators  *)
(* only.                                                                   *)
(*                                                                         *)
(* A configuration is the sequence of the descriptors that follow its      *)
(* first one.  A descriptor is a record with its type; an interface has    *)
(* num, alt and eps (bNumEndpoints), an endpoint addr (with the direction  *)
(* bit), kind (of transfer), interval and size.  An offset in it is the    *)
(* number of descriptors passed.                                           *)
(***************************************************************************)
EXTENDS Integers, Sequences, FiniteSets, FiniteSetsExt

Isochronous == 1
HighSpeed == 3

(* seek_to_next_desc: the place of the next descriptor of a type, 0 if there *)
(* is none.                                                                  *)
SeekToNext(cfg, offset, type) ==
  LET hits == {i \in offset + 1 .. Len(cfg) : cfg[i].type = type}
  IN IF hits = {} THEN 0 ELSE Min(hits)

(* seek_to_one_intf_desc: interfaces and settings below the wanted one are  *)
(* passed over, the search stops at the first that is not.                  *)
Below(d, num, alt) == d.num < num \/ (d.num = num /\ d.alt < alt)
SeekToIntf(cfg, offset, num, alt) ==
  LET stops == {i \in offset + 1 .. Len(cfg) :
                  cfg[i].type = "interface" /\ ~Below(cfg[i], num, alt)}
      i == Min(stops)
  IN IF stops # {} /\ cfg[i].num = num /\ cfg[i].alt = alt THEN i ELSE 0

(* As it would be with two fields exchanged. *)
MakePipeSwapped(addr, kind, interval) == addr + (kind * 256) + (interval * 65536)

(* make_pipe, pipe2addr, pipe2direct, pipe2interval, pipe2type: a pipe's    *)
(* handle holds what the packets need to know of the endpoint.              *)
MakePipe(addr, kind, interval) == addr + (interval * 256) + (kind * 65536)
PipeAddr(handle) == handle % 128
PipeIn(handle) == (handle \div 128) % 2 = 1
PipeInterval(handle) == (handle \div 256) % 256
PipeKind(handle) == (handle \div 65536) % 256

(* set_pipe. *)
SetPipe(d, speed) ==
  [handle |-> MakePipe(d.addr, d.kind, d.interval),
   size |-> IF d.kind = Isochronous /\ speed = HighSpeed
            THEN (d.size % 2048) * (1 + ((d.size \div 2048) % 4))
            ELSE d.size]

(* The places of the n endpoint descriptors behind an offset, fewer if the *)
(* configuration ends before.                                              *)
NextEndpoints(cfg, offset, n) ==
  LET place[k \in 0 .. n] ==
        IF k = 0 THEN offset
        ELSE IF k > 1 /\ place[k - 1] = 0 THEN 0
        ELSE SeekToNext(cfg, place[k - 1], "endpoint")
  IN [k \in 1 .. n |-> place[k]]

Pipes(cfg, places, speed) ==
  [k \in DOMAIN places |-> SetPipe(cfg[places[k]], speed)]

(* What a selection gives: whether it succeeds, the pipes of the interface, *)
(* and how far the search has come.                                         *)
NotFound == [ok |-> FALSE, pipes |-> <<>>, offset |-> 0]
Endpoints(cfg, i, n, speed) ==
  LET places == NextEndpoints(cfg, i, n)
  IN IF \E k \in 1 .. n : places[k] = 0 THEN NotFound
     ELSE [ok |-> TRUE, pipes |-> Pipes(cfg, places, speed),
           offset |-> IF n = 0 THEN i ELSE places[n]]

(* post_select_interface: the request has room for so many pipes. *)
PostSelectInterface(cfg, num, alt, room, speed) ==
  LET i == SeekToIntf(cfg, 0, num, alt)
  IN IF cfg = <<>> \/ i = 0 THEN NotFound
     ELSE IF cfg[i].eps # room THEN NotFound
     ELSE Endpoints(cfg, i, room, speed)

(* proc_select_config: the interfaces are looked for in order, each from    *)
(* where the last one's endpoints ended.  wanted[i] is what the request has *)
(* for interface i - 1: its setting and its number of pipes.  The interfaces *)
(* behind the last one of the request are left out.                         *)
ProcSelectConfig(cfg, wanted, speed) ==
  LET step[k \in 0 .. Len(wanted)] ==
        IF k = 0 THEN [ok |-> TRUE, pipes |-> <<>>, offset |-> 0]
        ELSE LET before == step[k - 1]
                 w == wanted[k]
                 i == SeekToIntf(cfg, before.offset, w.num, w.alt)
             IN IF ~before.ok \/ i = 0 THEN NotFound
                ELSE IF cfg[i].eps # w.room \/ w.num # k - 1 \/ w.alt # 0
                     THEN NotFound
                ELSE Endpoints(cfg, i, w.room, speed)
  IN [k \in 1 .. Len(wanted) |-> step[k]]

-----------------------------------------------------------------------------
(* What they ought to find, said without a search: the interface with this *)
(* number and setting, and the endpoints that stand behind it before the   *)
(* next interface.                                                         *)
OwnEndpoints(cfg, i) ==
  {j \in i + 1 .. Len(cfg) :
     /\ cfg[j].type = "endpoint"
     /\ \A k \in i + 1 .. j : cfg[k].type # "interface"}

(* A configuration as the USB specification has it: interfaces by number   *)
(* and setting, settings from 0, endpoints counted; what make_pipe takes of *)
(* an endpoint are bytes.                                                  *)
Interfaces(cfg) == {i \in 1 .. Len(cfg) : cfg[i].type = "interface"}
Byte == 0 .. 255
WellFormed(cfg) ==
  /\ \A i \in 1 .. Len(cfg) : cfg[i].type = "endpoint" =>
       cfg[i].addr \in Byte /\ cfg[i].kind \in Byte /\ cfg[i].interval \in Byte
  /\ \A i, j \in Interfaces(cfg) : i < j => Below(cfg[i], cfg[j].num, cfg[j].alt)
  /\ \A i \in Interfaces(cfg) : cfg[i].eps = Cardinality(OwnEndpoints(cfg, i))
=============================================================================
