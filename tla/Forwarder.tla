------------------------------ MODULE Forwarder ------------------------------
(***************************************************************************)
(* The forwarder of the Windows client (usbip_windows.c) between the       *)
(* driver and the connection to the server: one thread, one asynchronous   *)
(* read of each side, and the slots of the OUT requests that are out,      *)
(* which tell it how long a reply is.                                      *)
(*                                                                         *)
(* The driver's side is the queue of one device with each critical section *)
(* whole (UrbQueue has its interleavings), but with what the packets are   *)
(* made of.  The server answers requests in any order.  The connection to  *)
(* the client is a stream of units: <<u, i>> is unit i of the reply to URB *)
(* u, and a unit that is not where it is expected is not recognised.       *)
(***************************************************************************)
EXTENDS Packets, Descriptors, SequencesExt

CONSTANTS
  Urbs,          (* the URBs of the function driver                         *)
  Settings,      (* the cases: what each URB may ask for (records as IsUrb) *)
                 (* and the number before the first packet's                *)
  Selections,    (* what a SELECT_CONFIGURATION may ask for                 *)
  DeviceConfig,  (* the device's configuration, as in Descriptors           *)
  Speed,         (* and its speed                                           *)
  Statuses,      (* the statuses the server may reply                       *)
  OutQLen,       (* OUT_Q_LEN                                               *)
  BigSize,       (* BIG_SIZE, the size of either buffer                     *)
  MaxSeq,        (* 2^32 - 1                                                *)
  Failed,        (* a read that was completed with an error                 *)
  None

(* A unit of a reply, a packet and a reply. *)
Units == Urbs \X Nat
PacketRecords == [in : BOOLEAN, len : Nat, lengths : Seq(Int), size : Nat,
                  urb : Urbs, seq : 0 .. MaxSeq]
ReplyRecords == [urb : Urbs, seq : 0 .. MaxSeq, status : Statuses \cup {"0"},
                 actual : Nat, offsets : Seq(Nat), actuals : Seq(Int),
                 npackets : Nat]

(* A sequence number is not used again while a request with it is out. *)
ASSUME ForwarderAssumption ==
  /\ \A s \in Settings : \A u \in Urbs : \A k \in s.kinds[u] : IsUrb(k) /\ k # None
  /\ \A s \in Settings : s.first \in 0 .. MaxSeq
  /\ OutQLen \in Nat \ {0} /\ BigSize \in Nat
  /\ MaxSeq \in Nat \ {0}
  /\ IsFiniteSet(Urbs) /\ Cardinality(Urbs) <= MaxSeq + 1
  /\ Failed # None /\ Failed \notin PacketRecords
  /\ None \notin Seq(Units) \cup PacketRecords \cup ReplyRecords
  /\ WellFormed(DeviceConfig) /\ Len(DeviceConfig) \in Nat
  /\ \A wanted \in Selections : wanted \in Seq([num : Nat, alt : Nat, room : Nat])

VARIABLES
  set,        (* the setting                                                *)
  present,    (* Present                                                    *)
  urb,        (* what each URB asks for                                     *)
  state,      (* new, queued (not sent), sent, done                         *)
  seq,        (* the number of each URB's packet, 0 before it is sent       *)
  seqNum,     (* seq_num of the device                                      *)
  queue,      (* ioctl_q                                                    *)
  reading,    (* pending_read_irp: the forwarder's read waits               *)
  readDone,   (* the completed read that the forwarder has not seen         *)
  result,     (* what the function driver got for each URB                  *)
  config,     (* dev_config                                                 *)
  pipes,      (* what the last selection gave the function driver           *)
  pc,         (* where the thread is                                        *)
  slots,      (* out_q_seqnum_array                                         *)
  sockReading,(* the read of the connection waits                           *)
  sockDone,   (* what it took, when the thread has not seen it              *)
  server,     (* the packets the server works on                            *)
  stream,     (* what the server has sent and nobody has received           *)
  replies,    (* what the server replied to each URB                        *)
  closed,     (* has the server closed the connection?                      *)
  short,      (* history: has a read ended within a header?                 *)
  deaf        (* history: has a first read failed, which is not looked at?  *)

driverVars == <<present, urb, state, seq, seqNum, queue, reading, readDone,
                result, config, pipes>>
loopVars == <<pc, slots, sockReading, sockDone, short, deaf>>
netVars == <<server, stream, replies, closed>>
systemVars == <<driverVars, loopVars, netVars>>
vars == <<set, systemVars>>

NoResult == [irp |-> "none", usbd |-> "none", data |-> <<>>]

Init ==
  /\ set \in Settings
  /\ present = TRUE
  /\ urb = [u \in Urbs |-> None]
  /\ state = [u \in Urbs |-> "new"]
  /\ seq = [u \in Urbs |-> 0]
  /\ seqNum = set.first
  /\ queue = <<>>
  /\ reading = FALSE /\ readDone = None
  /\ result = [u \in Urbs |-> NoResult]
  /\ config = <<>> /\ pipes = <<>>
  /\ pc = "first dev"
  /\ slots = [i \in 1 .. OutQLen |-> 0]
  /\ sockReading = FALSE /\ sockDone = None
  /\ server = {} /\ stream = <<>> /\ replies = [u \in Urbs |-> None]
  /\ closed = FALSE /\ short = FALSE /\ deaf = FALSE

-----------------------------------------------------------------------------
(* The driver. *)

(* As it would be without the wrap. *)
NextNumUnbounded == seqNum + 1

NextNum == (seqNum + 1) % (MaxSeq + 1)

(* The packet of URB u with a number, as the forwarder reads it. *)
PacketsOf(u, kind, num) ==
  {[in |-> p.in, len |-> p.len, lengths |-> p.lengths, size |-> p.size,
    urb |-> u, seq |-> num] : p \in SetReadIrpData(kind, BigSize)}

Complete(u, r) ==
  /\ state' = [state EXCEPT ![u] = "done"]
  /\ result' = [result EXCEPT ![u] = r]

(* Bus_Internal_IoCtl and try_addq.  A read that waits takes the packet; if *)
(* none can be made, the read and the URB both fail.                        *)
Submit(u, kind) ==
  /\ state[u] = "new"
  /\ urb' = [urb EXCEPT ![u] = kind]
  /\ UNCHANGED <<present, config, pipes, loopVars, netVars>>
  /\ \/ /\ ~present
        /\ Complete(u, Refused("not connected"))
        /\ UNCHANGED <<seq, seqNum, queue, reading, readDone>>
     \/ /\ present /\ ProcUrb(kind) # "pending"
        /\ Complete(u, Refused(ProcUrb(kind)))
        /\ UNCHANGED <<seq, seqNum, queue, reading, readDone>>
     \/ /\ present /\ ProcUrb(kind) = "pending" /\ ~reading
        /\ state' = [state EXCEPT ![u] = "queued"]
        /\ queue' = Append(queue, u)
        /\ UNCHANGED <<seq, seqNum, reading, readDone, result>>
     \/ /\ present /\ ProcUrb(kind) = "pending" /\ reading
        /\ reading' = FALSE /\ seqNum' = NextNum
        /\ \/ /\ PacketsOf(u, kind, NextNum) = {}
              /\ readDone' = Failed
              /\ Complete(u, Refused("invalid parameter"))
              /\ UNCHANGED <<seq, queue>>
           \/ \E p \in PacketsOf(u, kind, NextNum) :
              /\ readDone' = p
              /\ state' = [state EXCEPT ![u] = "sent"]
              /\ seq' = [seq EXCEPT ![u] = NextNum]
              /\ queue' = Append(queue, u)
              /\ UNCHANGED result

(* proc_select_config is answered from dev_config. *)
SelectConfig(wanted) ==
  LET found == ProcSelectConfig(config, wanted, Speed)
  IN /\ present /\ config # <<>>
     /\ \A k \in DOMAIN found : found[k].ok
     /\ pipes' = [k \in DOMAIN wanted |->
                    [num |-> wanted[k].num, alt |-> wanted[k].alt,
                     pipes |-> found[k].pipes]]
     /\ UNCHANGED <<present, urb, state, seq, seqNum, queue, reading, readDone,
                    result, config, loopVars, netVars>>

(* IoCancelIrp and cancel_irp.  Nothing is sent to the server. *)
Cancel(u) ==
  /\ state[u] \in {"queued", "sent"}
  /\ Complete(u, Refused("cancelled"))
  /\ \E i \in DOMAIN queue : queue[i] = u /\ queue' = RemoveAt(queue, i)
  /\ UNCHANGED <<present, urb, seq, seqNum, reading, readDone, config, pipes,
                 loopVars, netVars>>

(* bus_unplug_dev: the waiting read fails, the queue is emptied. *)
Drain ==
  /\ present' = FALSE
  /\ reading' = FALSE
  /\ queue' = <<>>
  /\ state' = [u \in Urbs |-> IF u \in Range(queue) THEN "done" ELSE state[u]]
  /\ result' = [u \in Urbs |-> IF u \in Range(queue)
                               THEN Refused("not connected") ELSE result[u]]
  /\ UNCHANGED <<urb, seq, seqNum, config, pipes>>

Unplug ==
  /\ present
  /\ Drain
  /\ readDone' = IF reading THEN Failed ELSE readDone
  /\ UNCHANGED <<loopVars, netVars>>

(* Bus_Write and process_write_irp: the first URB in the queue with the     *)
(* reply's number gets it; none is left if it was cancelled.                *)
BusWrite(r, written, data) ==
  LET hits == {i \in 1 .. Len(queue) : seq[queue[i]] = r.seq}
      u == queue[Min(hits)]
      kind == urb[u]
      selected == PostSelectInterface(config, kind.sel.num, kind.sel.alt,
                                      kind.sel.room, Speed)
      done == IF state[u] = "sent"
              THEN ProcessWrite(kind, r, written, data, selected.ok)
              ELSE Refused("invalid parameter")
      good == done.irp = "success"
  IN \/ /\ present /\ hits # {}
        /\ Complete(u, done)
        /\ queue' = RemoveAt(queue, Min(hits))
        /\ config' = IF /\ good /\ config = <<>> /\ IsIn(kind)
                        /\ TrySaveConfig(kind, r, Len(DeviceConfig))
                     THEN DeviceConfig ELSE config
        /\ pipes' = IF good /\ kind.fn = "select interface"
                    THEN <<[num |-> kind.sel.num, alt |-> kind.sel.alt,
                            pipes |-> selected.pipes]>>
                    ELSE pipes
        /\ UNCHANGED <<present, urb, seq, seqNum, reading, readDone>>
     \/ (~present \/ hits = {}) /\ UNCHANGED driverVars

-----------------------------------------------------------------------------
(* The forwarder: from the driver to the connection.                        *)
(* "first dev" and "first sock" are the calls before the loop, whose        *)
(* failure is not looked at; "dev" and "sock" are the same functions when   *)
(* the loop calls them.                                                     *)

Fail == /\ pc' = CASE pc = "first dev" -> "first sock"
                   [] pc = "first sock" -> "wait"
                   [] OTHER -> "ended"
        /\ deaf' = (deaf \/ pc \in {"first dev", "first sock"})
Pending == /\ pc' = IF pc = "first dev" THEN "first sock" ELSE "wait"
           /\ UNCHANGED deaf
(* As it would be if a completed read were not followed by another. *)
GoesOnOnce(where) == pc' = pc /\ UNCHANGED deaf

(* A read that was answered at once is followed by the next; the loop goes *)
(* on with the function that began it.                                     *)
GoesOn(where) == /\ pc' = IF pc = "wait" THEN where ELSE pc
                 /\ UNCHANGED deaf

Holding(num) == {i \in 1 .. OutQLen : slots[i] = num}
(* As they would be if the number were not stored, or not cleared. *)
RecordNothing(num) == slots
CheckOutKeeps(num) == slots

(* record_out: the first slot that holds 0; check_out: the first that holds *)
(* the number.                                                              *)
RecordOut(num) == [slots EXCEPT ![Min(Holding(0))] = num]
CheckOut(num) ==
  IF Holding(num) = {} THEN slots
  ELSE [slots EXCEPT ![Min(Holding(num))] = 0]

(* write_to_sock.  What is sent to a server that has closed may fail. *)
Expected(p) == Header + (IF p.in THEN 0 ELSE p.len) + Len(p.lengths) * IsoDesc
WriteToSock(p) ==
  \/ /\ p.size # Expected(p) \/ (~p.in /\ Holding(0) = {})
     /\ Fail
     /\ UNCHANGED <<slots, server>>
  \/ /\ p.size = Expected(p) /\ (p.in \/ Holding(0) # {})
     /\ slots' = IF p.in THEN slots ELSE RecordOut(p.seq)
     /\ \/ ~closed /\ server' = server \cup {p} /\ GoesOn("dev")
        \/ closed /\ UNCHANGED server /\ (GoesOn("dev") \/ Fail)

(* ReadFile in dev_read_async, answered by Bus_Read and process_read_irp:   *)
(* it takes the first URB that was not sent, or waits.  An URB that no      *)
(* packet can be made of is rejected, and the read with it.                 *)
Unsent == {i \in 1 .. Len(queue) : state[queue[i]] = "queued"}

DevReadLost ==
  /\ pc \in {"first dev", "dev"} /\ ~present
  /\ Fail
  /\ UNCHANGED <<driverVars, slots, sockReading, sockDone, short, netVars>>

DevReadWaits ==
  /\ pc \in {"first dev", "dev"} /\ present /\ Unsent = {}
  /\ reading' = TRUE
  /\ Pending
  /\ UNCHANGED <<present, urb, state, seq, seqNum, queue, readDone, result,
                 config, pipes, slots, sockReading, sockDone, short, netVars>>

DevReadRejected ==
  /\ pc \in {"first dev", "dev"} /\ present /\ Unsent # {}
  /\ LET u == queue[Min(Unsent)]
     IN /\ PacketsOf(u, urb[u], NextNum) = {}
        /\ Complete(u, Refused("invalid parameter"))
        /\ queue' = RemoveAt(queue, Min(Unsent))
  /\ seqNum' = NextNum
  /\ Fail
  /\ UNCHANGED <<present, urb, seq, reading, readDone, config, pipes, slots,
                 sockReading, sockDone, short, netVars>>

DevRead ==
  /\ pc \in {"first dev", "dev"} /\ present /\ Unsent # {}
  /\ LET u == queue[Min(Unsent)]
     IN \E p \in PacketsOf(u, urb[u], NextNum) :
          /\ state' = [state EXCEPT ![u] = "sent"]
          /\ seq' = [seq EXCEPT ![u] = NextNum]
          /\ WriteToSock(p)
  /\ seqNum' = NextNum
  /\ UNCHANGED <<present, urb, queue, reading, readDone, result, config, pipes,
                 sockReading, sockDone, short, stream, replies, closed>>

(* dev_read_completed. *)
DevReadCompleted ==
  /\ pc = "wait" /\ readDone # None
  /\ readDone' = None
  /\ \/ readDone = Failed /\ Fail /\ UNCHANGED <<slots, server>>
     \/ readDone # Failed /\ WriteToSock(readDone)
  /\ UNCHANGED <<present, urb, state, seq, seqNum, queue, reading, result,
                 config, pipes, sockReading, sockDone, short, stream, replies,
                 closed>>

-----------------------------------------------------------------------------
(* From the connection to the driver. *)

IsHeader(units) == units \in {[i \in 1 .. Header |-> <<u, i>>] : u \in Urbs}

(* write_to_dev, when it was given a header and this is left in the stream. *)
(* The length of what follows comes from the reply unless check_out finds   *)
(* the number.  usbip_recv waits for all of it, or for the connection's     *)
(* end.  What is taken for a header when it is none is not followed.        *)
WriteToDev(got, rest) ==
  LET r == replies[got[1][1]]
      inLen == IF Holding(r.seq) = {} THEN r.actual ELSE 0
      more == inLen + r.npackets * IsoDesc
  IN \/ /\ Len(got) < Header
        /\ Fail /\ stream' = rest /\ short' = (short \/ got # <<>>)
        /\ UNCHANGED <<driverVars, slots>>
     \/ /\ Len(got) = Header /\ ~IsHeader(got)
        /\ pc' = "lost" /\ stream' = rest
        /\ UNCHANGED <<driverVars, slots, short, deaf>>
     \/ /\ IsHeader(got)
        /\ slots' = CheckOut(r.seq)
        /\ UNCHANGED short
        /\ \/ /\ Header + more > BigSize \/ (Len(rest) < more /\ closed)
              /\ Fail /\ stream' = rest
              /\ UNCHANGED driverVars
           \/ /\ Header + more <= BigSize /\ Len(rest) >= more
              /\ stream' = SubSeq(rest, more + 1, Len(rest))
              /\ BusWrite(r, Header + more, SubSeq(rest, 1, inLen))
              /\ IF present THEN GoesOn("sock") ELSE Fail

(* ReadFile in sock_read_async: it waits, or takes at once what has come,   *)
(* no more than a header.                                                   *)
SockReadWaits ==
  /\ pc \in {"first sock", "sock"}
  /\ sockReading' = TRUE
  /\ pc' = "wait"
  /\ UNCHANGED <<driverVars, slots, sockDone, short, deaf, netVars>>

SockTakes(n) == n \in 1 .. Min({Header, Len(stream)})
                \/ (n = 0 /\ stream = <<>> /\ closed)
SockRead ==
  /\ pc \in {"first sock", "sock"}
  /\ \E n \in 0 .. Header :
       /\ SockTakes(n)
       /\ WriteToDev(SubSeq(stream, 1, n), SubSeq(stream, n + 1, Len(stream)))
  /\ UNCHANGED <<sockReading, sockDone, server, replies, closed>>

(* The system completes the read that waits. *)
SockArrives ==
  /\ sockReading
  /\ \E n \in 0 .. Header :
       /\ SockTakes(n)
       /\ sockDone' = SubSeq(stream, 1, n)
       /\ stream' = SubSeq(stream, n + 1, Len(stream))
  /\ sockReading' = FALSE
  /\ UNCHANGED <<driverVars, pc, slots, short, deaf, server, replies, closed>>

(* sock_read_completed; the driver's event goes before. *)
SockReadCompleted ==
  /\ pc = "wait" /\ sockDone # None /\ readDone = None
  /\ WriteToDev(sockDone, stream)
  /\ sockDone' = None
  /\ UNCHANGED <<sockReading, server, replies, closed>>

(* The flag of SIGINT is looked at each time the loop comes round. *)
Interrupt ==
  /\ pc = "wait"
  /\ pc' = "interrupted"
  /\ UNCHANGED <<driverVars, slots, sockReading, sockDone, short, deaf, netVars>>

(* attach_device returns and the process ends; the system closes its        *)
(* handles, and Bus_Cleanup unplugs the device.                             *)
Exit ==
  /\ pc \in {"ended", "interrupted"} /\ present
  /\ Drain
  /\ readDone' = None
  /\ UNCHANGED <<loopVars, netVars>>

-----------------------------------------------------------------------------
(* The server and the device. *)

SumOf(s) ==
  LET sum[n \in 0 .. Len(s)] == IF n = 0 THEN 0 ELSE sum[n - 1] + s[n]
  IN sum[Len(s)]

(* The statuses and lengths it may answer a packet with. *)
Answers(p) ==
  LET r == [urb |-> p.urb, seq |-> p.seq, status |-> "0", actual |-> p.len,
            offsets |-> urb[p.urb].offsets, actuals |-> p.lengths,
            npackets |-> Len(p.lengths)]
  IN IF p.lengths # <<>> /\ p.in
     THEN {[r EXCEPT !.actuals = x[1], !.actual = x[2]] :
             x \in {y \in [DOMAIN p.lengths -> 0 .. p.len] \X (0 .. p.len) :
                      /\ \A i \in DOMAIN p.lengths : y[1][i] <= p.lengths[i]
                      /\ y[2] = SumOf(y[1])}}
     ELSE IF urb[p.urb].fn = "config descriptor"
     THEN {[r EXCEPT !.actual = Min({p.len, Len(DeviceConfig)})]}
     ELSE {[r EXCEPT !.status = s, !.actual = IF s = "0" THEN p.len ELSE 0] :
             s \in Statuses}

UnitsOf(p, r) ==
  [i \in 1 .. Header + (IF p.in THEN r.actual ELSE 0) + r.npackets * IsoDesc |->
     <<p.urb, i>>]

(* What the server does when nobody receives any more is left out. *)
Connected == ~closed /\ pc \notin {"lost", "ended", "interrupted"}

(* A reply, or the part of one that a server that dies has sent. *)
Reply(p) ==
  /\ p \in server /\ Connected
  /\ server' = server \ {p}
  /\ \E r \in Answers(p) :
       /\ replies' = [replies EXCEPT ![p.urb] = r]
       /\ \/ stream' = stream \o UnitsOf(p, r) /\ UNCHANGED closed
          \/ /\ \E n \in 1 .. Len(UnitsOf(p, r)) - 1 :
                  stream' = stream \o SubSeq(UnitsOf(p, r), 1, n)
             /\ closed' = TRUE
  /\ UNCHANGED <<driverVars, loopVars>>

Close ==
  /\ Connected
  /\ closed' = TRUE
  /\ UNCHANGED <<driverVars, loopVars, server, stream, replies>>

-----------------------------------------------------------------------------
Loop == \/ DevReadLost \/ DevReadWaits \/ DevReadRejected \/ DevRead
        \/ DevReadCompleted \/ SockReadWaits \/ SockRead
        \/ SockReadCompleted

Step ==
  \/ Loop \/ SockArrives \/ Interrupt \/ Exit \/ Unplug \/ Close
  \/ \E u \in Urbs : Cancel(u) \/ \E k \in set.kinds[u] : Submit(u, k)
  \/ \E wanted \in Selections : SelectConfig(wanted)
  \/ \E p \in server : Reply(p)
Next == Step /\ UNCHANGED set

(* The thread runs, the system completes what has come and closes what a    *)
(* process leaves, the server answers.                                      *)
Fairness ==
  /\ WF_systemVars(Loop) /\ WF_systemVars(SockArrives) /\ WF_systemVars(Exit)
  /\ WF_systemVars(\E p \in server : Reply(p))

Spec == Init /\ [][Next]_vars /\ Fairness
-----------------------------------------------------------------------------
TypeOK ==
  /\ present \in BOOLEAN /\ reading \in BOOLEAN /\ sockReading \in BOOLEAN
  /\ closed \in BOOLEAN /\ short \in BOOLEAN /\ deaf \in BOOLEAN
  /\ state \in [Urbs -> {"new", "queued", "sent", "done"}]
  /\ \A u \in Urbs : urb[u] \in set.kinds[u] \cup {None}
  /\ seq \in [Urbs -> 0 .. MaxSeq] /\ seqNum \in 0 .. MaxSeq
  /\ slots \in [1 .. OutQLen -> 0 .. MaxSeq]
  /\ Range(queue) = {u \in Urbs : state[u] \in {"queued", "sent"}}
  /\ config \in {<<>>, DeviceConfig}
  /\ pc \in {"first dev", "first sock", "wait", "dev", "sock", "lost", "ended",
             "interrupted"}

(* The reply to a packet numbered 0 has been sent: 0 marks a free slot and  *)
(* an URB that was not sent.                                                *)
AnsweredZero == \E u \in Urbs : replies[u] # None /\ replies[u].seq = 0

(* The forwarder never takes anything else than a header for a header,      *)
(* unless a packet had the number 0: check_out(0) finds a free slot, and an *)
(* IN reply is read as if it had no data (check_out, write_to_dev).         *)
InStepUnlessZero == pc = "lost" => AnsweredZero

(* What an IN request brings: byte j of isochronous packet i at its offset, *)
(* from behind the bytes of the packets before; otherwise byte x at x.      *)
WantedData(u) ==
  LET r == replies[u]
      At(i, j) == <<u, Header + 1 + j
                       + SumOf([h \in 1 .. i - 1 |-> r.actuals[h]])>>
      places == {x \in (1 .. r.npackets) \X (0 .. r.actual) :
                   x[2] < r.actuals[x[1]]}
  IN IF urb[u].fn = "iso"
     THEN {<<r.offsets[x[1]] + x[2], At(x[1], x[2])>> : x \in places}
     ELSE {<<x - 1, <<u, Header + x>> >> : x \in 1 .. r.actual}

(* An URB that is completed with a reply has this reply's status and data,  *)
(* every byte where it belongs; and no reply that the server sent as it     *)
(* should is refused, but for a request that cannot take it (write_to_dev   *)
(* and process_write_irp agree on the length, copy_iso_data on the places). *)
RightResult ==
  \A u \in Urbs : replies[u] # None /\ state[u] = "done" =>
    LET done == result[u]
    IN /\ done.irp = "success" /\ urb[u].fn # "reset port" =>
            /\ done.usbd = TranUsbStatus(replies[u].status)
            /\ IsIn(urb[u]) => WantedData(u)
                                 = {<<x, done.data[x]>> : x \in DOMAIN done.data}
       /\ done.irp \in {"invalid parameter", "insufficient resources"} =>
            \/ urb[u].fn = "select interface" \/ ~urb[u].mapped
            \/ AnsweredZero

(* The OUT requests whose reply the forwarder has not read. *)
OutPending ==
  {u \in Urbs :
     /\ urb[u] # None /\ ~IsIn(urb[u])
     /\ \/ \E p \in server : p.urb = u
        \/ <<u, 1>> \in Range(stream)
        \/ sockDone # None /\ <<u, 1>> \in Range(sockDone)}

(* The loop ends only when a side is gone, a header came in two parts, an   *)
(* URB was queued that no packet can be made of, OUT_Q_LEN OUT requests     *)
(* are really out (no slot leaks), or a reply is longer than the buffer.    *)
EndsForAReason ==
  pc = "ended" =>
    \/ closed \/ ~present \/ short
    \/ \E u \in Urbs : /\ urb[u] # None /\ result[u].irp = "invalid parameter"
                       /\ SetReadIrpData(urb[u], BigSize) = NoPacket
    \/ Cardinality(OutPending) >= OutQLen
    \/ \E u \in Urbs : /\ replies[u] # None
                       /\ Header + replies[u].actual
                            + replies[u].npackets * IsoDesc > BigSize
    \/ AnsweredZero

HandleOf(h, d) ==
  /\ d.addr = PipeAddr(h) + (IF PipeIn(h) THEN 128 ELSE 0)
  /\ d.kind = PipeKind(h) /\ d.interval = PipeInterval(h)

(* A selection gives the function driver the endpoints of the interface it  *)
(* selected, all of them and in their order, and the handles tell what the  *)
(* packets need of them, as long as the device's descriptors are in order   *)
(* (seek_to_one_intf_desc, set_pipe).                                       *)
PipesAreTheDevices ==
  \A k \in DOMAIN pipes : \E i \in Interfaces(DeviceConfig) :
    LET own == OwnEndpoints(DeviceConfig, i)
        p == pipes[k].pipes
    IN /\ DeviceConfig[i].num = pipes[k].num
       /\ DeviceConfig[i].alt = pipes[k].alt
       /\ Len(p) = Cardinality(own)
       /\ \A j \in 1 .. Len(p) : \E e \in own :
            /\ Cardinality({x \in own : x <= e}) = j
            /\ HandleOf(p[j].handle, DeviceConfig[e])

(* Every URB that was queued ends: answered, cancelled, rejected, or taken  *)
(* down with the forwarder, unless the forwarder is out of step, or one of  *)
(* its first reads failed, which usbip_vbus_forward does not look at.       *)
EveryUrbEnds ==
  \A u \in Urbs : state[u] \in {"queued", "sent"}
                    ~> (state[u] = "done" \/ pc = "lost" \/ deaf)
=============================================================================
