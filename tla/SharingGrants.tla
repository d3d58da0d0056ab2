---------------------------- MODULE SharingGrants ---------------------------
(* The inductive invariant of usbipd and the runs of usbip in Sharing: who    *)
(* holds a connection, what is on its way in it, and which connections have   *)
(* not been used yet; for any number of devices, runs and ports.              *)
EXTENDS SharingProofs, SequenceTheorems

ProcRec == [pc : ProcPcs, dev : Devs \cup {0}, left : Nat, found : BOOLEAN,
            snap : SUBSET Ports, port : Ports \cup {0}]
Listed == [dev : Devs, free : BOOLEAN]
DaemonRec == [pc : DaemonPcs, c : Conns \cup {NoConn},
              op : {"none", "devlist", "import"}, edevs : Seq(Listed),
              unread : SUBSET Devs, error : BOOLEAN]

(* The shape of the state.                                                    *)
WireTypeOK ==
    /\ sv \in [Conns -> SUBSET {"daemon", "kernel"}]
    /\ toS = [c \in Conns |-> toS[c]] /\ toC \in [Conns -> Seq(Nat)]
    /\ backlog \in Seq(Conns)
    /\ port \in [Ports -> Conns \cup {NoConn}]
    /\ exported \in [Devs -> Conns \cup {NoConn}] /\ granted \subseteq Conns
ProgramTypeOK ==
    /\ set \in Settings
    /\ daemon \in DaemonRec /\ proc \in [Procs -> ProcRec]
    /\ cl \in [Conns -> SUBSET {"process", "kernel"}]
    /\ record \in [Ports -> Devs \cup {0}] /\ stale \in [Ports -> BOOLEAN]

(* usbipd has taken the header of the request from this connection.           *)
Taken(c) == daemon.c = c /\ daemon.pc # "common"
Lists(c) == daemon.c = c /\ daemon.pc = "list"
Held(c) == "daemon" \in sv[c]

(* What usbipd serves, and what waits for it, it holds; it knows of every     *)
(* device once; only the connection for the list is sent a list.              *)
DaemonInv ==
    /\ IF daemon.pc \in {"off", "dead", "poll"} THEN daemon.c = NoConn
       ELSE daemon.c \in Conns /\ Held(daemon.c)
    /\ daemon.pc \in {"refresh", "list", "reply"} =>
          daemon.op = IF daemon.c[2] = 0 THEN "devlist" ELSE "import"
    /\ daemon.pc = "list" => daemon.c[2] = 0
    /\ daemon.pc = "reply" => /\ daemon.c[2] # 0
                              /\ ~daemon.error => daemon.c \in granted
BacklogInv ==
    /\ \A i \in DOMAIN backlog : Held(backlog[i]) /\ backlog[i] # daemon.c
    /\ \A i, j \in DOMAIN backlog : i # j => backlog[i] # backlog[j]
ListedInv ==
    /\ \A k \in DOMAIN daemon.edevs : daemon.edevs[k].dev \notin daemon.unread
    /\ \A k, l \in DOMAIN daemon.edevs :
          k # l => daemon.edevs[k].dev # daemon.edevs[l].dev

(* What is on its way in a connection: for the list,                          *)
ListConnInv(c) ==
    /\ toS[c] \in {<<>>, <<"devlist">>}
    /\ Len(toC[c]) <= SockBuf
    /\ Held(c) /\ toC[c] # <<>> => Lists(c)
(* and for a device.                                                          *)
DevConnInv(c) ==
    /\ Len(toS[c]) <= 2
    /\ Held(c) => IF Taken(c) THEN toS[c] \in {<<>>, <<c[2]>>}
                  ELSE toS[c] \in {<<>>, <<"import">>, <<"import", c[2]>>}
    /\ toC[c] \in {<<>>, <<0>>, <<c[2]>>}
    /\ toC[c] = <<c[2]>> => c \in granted
    /\ Held(c) => toC[c] = <<>>

(* The devices and the ports: a connection that is exported is the kernel's,  *)
(* one that is in a port is not usbipd's any more and in no other port.       *)
ExportInv ==
    /\ \A d \in Devs : exported[d] # NoConn =>
          /\ exported[d][2] = d /\ exported[d] \in granted
          /\ "kernel" \in sv[exported[d]]
    /\ \A c \in Conns : "kernel" \in sv[c] => c[2] # 0 /\ exported[c[2]] = c
PortInv ==
    /\ \A i \in Ports : port[i] # NoConn =>
          port[i][2] # 0 /\ port[i] \in granted /\ ~Held(port[i])
    /\ \A i, j \in Ports : i # j /\ port[i] # NoConn => port[i] # port[j]

(* A connection that nobody has opened yet.                                   *)
Virgin(c) == /\ sv[c] = {} /\ toS[c] = <<>> /\ toC[c] = <<>>
             /\ \A i \in Ports : port[i] # c

(* The devices that attachall will still read from the list.                  *)
First(p) == IF In(p, "lcommon") THEN 2 ELSE 1
Places(p) == {i \in DOMAIN toC[ListConn(p)] : First(p) <= i}
Coming(p) == {toC[ListConn(p)][i] : i \in Places(p)}
             \cup {daemon.edevs[k].dev : k \in {l \in DOMAIN daemon.edevs : Lists(ListConn(p))}}
ComingInv(p) ==
    LET s == toC[ListConn(p)] IN
    /\ \A i, j \in Places(p) : i # j => s[i] # s[j]
    /\ Lists(ListConn(p)) => \A i \in Places(p), k \in DOMAIN daemon.edevs :
          s[i] # daemon.edevs[k].dev
    /\ \A d \in Coming(p) : d \in Devs /\ Virgin(<<p, d>>)

BeforeList == {"lconnect", "lsend", "lcommon"}
Attaching == {"connect", "send", "request", "reply", "open", "port", "attach"}

ListInv(p) ==
    /\ In(p, "lconnect") => Virgin(ListConn(p))
    /\ In(p, "lsend") => /\ toS[ListConn(p)] = <<>> /\ toC[ListConn(p)] = <<>>
                         /\ ~Taken(ListConn(p))
    /\ In(p, "lcommon") /\ Lists(ListConn(p)) => toC[ListConn(p)] # <<>>
    /\ Held(ListConn(p)) /\ ~Lists(ListConn(p)) => proc[p].pc \in {"lsend", "lcommon", "ended"}
    /\ proc[p].pc \in BeforeList => \A d \in Devs : Virgin(<<p, d>>)
    /\ In(p, "litem") /\ Cmd(p).do = "attach" => Virgin(DevConn(p))
AllInv(p) ==
    Cmd(p).do = "attachall" /\ proc[p].pc \notin {"lconnect", "lsend", "ended"} =>
          /\ ComingInv(p)
          /\ proc[p].pc \in Attaching => proc[p].dev \notin Coming(p)

AttachInv(p) ==
    /\ Cmd(p).do = "attach" => proc[p].dev \in Devs
    /\ proc[p].pc \in Attaching \cup {"record", "forward"} => proc[p].dev \in Devs
    /\ In(p, "connect") => Virgin(DevConn(p))
    /\ In(p, "send") => toS[DevConn(p)] = <<>> /\ ~Taken(DevConn(p))
    /\ In(p, "request") /\ Held(DevConn(p)) =>
          toS[DevConn(p)] = IF Taken(DevConn(p)) THEN <<>> ELSE <<"import">>
    /\ In(p, "send") \/ In(p, "request") => "kernel" \notin sv[DevConn(p)]
    /\ proc[p].pc \in Attaching => \A i \in Ports : port[i] # DevConn(p)
    /\ proc[p].pc \in {"open", "port", "attach"} =>
          DevConn(p) \in granted /\ ~Held(DevConn(p))
    /\ proc[p].pc \in {"attach", "record", "forward"} => proc[p].port \in Ports
    /\ proc[p].pc \in {"dopen", "detach"} => Cmd(p).do = "detach"

NetInv ==
    /\ WireTypeOK /\ ProgramTypeOK
    /\ DaemonInv /\ BacklogInv /\ ListedInv /\ ExportInv /\ PortInv
    /\ \A p \in Procs : ListConnInv(ListConn(p))
    /\ \A p \in Procs, d \in Devs : DevConnInv(<<p, d>>)
    /\ \A p \in Procs : ListInv(p) /\ AllInv(p) /\ AttachInv(p)

(* Who attached a port last has its record to write, or the record is of      *)
(* another.                                                                   *)
RecordInv ==
    \A p \in Procs : In(p, "record") =>
       stale[proc[p].port] \/ port[proc[p].port] \in {NoConn, DevConn(p)}

-----------------------------------------------------------------------------
(* Connections are pairs.                                                     *)
LEMMA Pairs ==
  /\ 0 \notin Devs
  /\ \A p \in Procs, d \in Devs \cup {0} :
       /\ <<p, d>> \in Conns /\ <<p, d>> # NoConn
       /\ <<p, d>>[1] = p /\ <<p, d>>[2] = d
  /\ \A c \in Conns : /\ c[1] \in Procs /\ c[2] \in Devs \cup {0}
                      /\ c = <<c[1], c[2]>> /\ c # NoConn
BY SharedAssumption DEF Conns, NoConn

(* What a run may notice of a step that is not its own: of its connections    *)
(* outside S nothing is received or sent, nobody takes hold of one, usbipd    *)
(* goes on with none, and none appears in a port.                             *)
SameConn(c) ==
    /\ toS'[c] = toS[c] /\ toC'[c] = toC[c] /\ sv'[c] \subseteq sv[c]
    /\ Taken(c)' => Taken(c)
    /\ Held(c)' => (Taken(c)' <=> Taken(c)) /\ (Lists(c)' <=> Lists(c))
    /\ Lists(c)' => Lists(c) /\ daemon'.edevs = daemon.edevs
SameFor(q, S) ==
    /\ \A d \in Devs \cup {0} : <<q, d>> \notin S => SameConn(<<q, d>>)
    /\ \A i \in Ports, d \in Devs \cup {0} : port'[i] = <<q, d>> => port[i] = <<q, d>>
    /\ set' = set /\ proc'[q] = proc[q] /\ granted \subseteq granted'

RunOK(p) == ListInv(p) /\ AllInv(p) /\ AttachInv(p)

LEMMA VirginStays ==
  ASSUME NEW q \in Procs, NEW S, SameFor(q, S), NEW d \in Devs \cup {0},
         <<q, d>> \notin S, Virgin(<<q, d>>)
  PROVE  Virgin(<<q, d>>)'
BY DEF SameFor, SameConn, Virgin

(* A run keeps its invariant in such a step.                                  *)
LEMMA RunStaysOK ==
  ASSUME WireTypeOK, NEW q \in Procs, RunOK(q), SameFor(q, {})
  PROVE  RunOK(q)'
<1> DEFINE c == ListConn(q)
<1>1. /\ ListConn(q)' = c /\ DevConn(q)' = DevConn(q) /\ Cmd(q)' = Cmd(q)
      /\ \A pc : In(q, pc)' <=> In(q, pc)
      /\ First(q)' = First(q)
  BY DEF SameFor, ListConn, DevConn, Cmd, In, First
<1>2. /\ SameConn(c)
      /\ \A d \in Devs : SameConn(<<q, d>>)
      /\ proc'[q] = proc[q] /\ granted \subseteq granted'
      /\ \A i \in Ports, d \in Devs \cup {0} : port'[i] = <<q, d>> => port[i] = <<q, d>>
  BY DEF SameFor, ListConn
<1>3. \A d \in Devs \cup {0} : Virgin(<<q, d>>) => Virgin(<<q, d>>)'
  BY VirginStays
<1>4. /\ Held(c)' => Held(c) 
      /\ \A d \in Devs : Held(<<q, d>>)' => Held(<<q, d>>)
  BY <1>2 DEF SameConn, Held
<1>5. ListInv(q)'
  <2>1. ListInv(q)
    BY DEF RunOK
  <2>2. /\ In(q, "lconnect")' => Virgin(c)'
        /\ proc'[q].pc \in BeforeList => \A d \in Devs : Virgin(<<q, d>>)'
    BY <1>1, <1>2, <1>3, <2>1 DEF ListInv, ListConn
  <2>3. In(q, "litem")' /\ Cmd(q)'.do = "attach" => Virgin(DevConn(q))'
    <3>1. SUFFICES ASSUME In(q, "litem"), Cmd(q).do = "attach" PROVE Virgin(DevConn(q))'
      BY <1>1
    <3>2. proc[q].dev \in Devs
      BY <3>1 DEF RunOK, AttachInv
    <3> QED BY <1>1, <1>2, <1>3, <2>1, <3>1, <3>2 DEF ListInv, DevConn
  <2>4. /\ In(q, "lsend")' => toS'[c] = <<>> /\ toC'[c] = <<>> /\ ~Taken(c)'
        /\ In(q, "lcommon")' /\ Lists(c)' => toC'[c] # <<>>
        /\ Held(c)' /\ ~Lists(c)' => proc'[q].pc \in {"lsend", "lcommon", "ended"}
    BY <1>1, <1>2, <1>4, <2>1 DEF ListInv, SameConn
  <2> QED BY <1>1, <2>2, <2>3, <2>4 DEF ListInv
<1>6. AllInv(q)'
  <2>1. SUFFICES ASSUME Cmd(q).do = "attachall",
                        proc[q].pc \notin {"lconnect", "lsend", "ended"}
                 PROVE  /\ ComingInv(q)'
                        /\ proc[q].pc \in Attaching => proc[q].dev \notin Coming(q)'
    BY <1>1, <1>2 DEF AllInv
  <2>2. ComingInv(q) /\ (proc[q].pc \in Attaching => proc[q].dev \notin Coming(q))
    BY <2>1 DEF RunOK, AllInv
  <2>3. toC'[c] = toC[c] /\ Places(q)' = Places(q)
    BY <1>1, <1>2 DEF SameConn, Places
  <2>4. Lists(c)' => Lists(c) /\ daemon'.edevs = daemon.edevs
    BY <1>2 DEF SameConn
  <2>5. Coming(q)' \subseteq Coming(q)
    BY <1>1, <2>3, <2>4 DEF Coming
  <2>6. \A d \in Coming(q)' : d \in Devs /\ Virgin(<<q, d>>)'
    BY <1>3, <2>2, <2>5 DEF ComingInv
  <2> QED BY <1>1, <2>2, <2>3, <2>4, <2>5, <2>6 DEF ComingInv
<1>7. AttachInv(q)'
  <2>1. AttachInv(q)
    BY DEF RunOK
  <2> DEFINE e == DevConn(q)
  <2>2. CASE proc[q].dev \in Devs
    <3>1. /\ SameConn(e) /\ (Held(e)' => Held(e)) /\ (Virgin(e) => Virgin(e)')
          /\ \A i \in Ports : port'[i] = e => port[i] = e
      BY <1>2, <1>3, <1>4, <2>2 DEF DevConn
    <3> HIDE DEF e
    <3>2. /\ Cmd(q)'.do = "attach" => proc'[q].dev \in Devs
          /\ proc'[q].pc \in Attaching \cup {"record", "forward"} => proc'[q].dev \in Devs
          /\ proc'[q].pc \in {"attach", "record", "forward"} => proc'[q].port \in Ports
          /\ proc'[q].pc \in {"dopen", "detach"} => Cmd(q)'.do = "detach"
      BY <1>1, <1>2, <2>1 DEF AttachInv
    <3>3. /\ In(q, "connect")' => Virgin(e)'
          /\ In(q, "send")' => toS'[e] = <<>> /\ ~Taken(e)'
          /\ In(q, "request")' /\ Held(e)' =>
                toS'[e] = IF Taken(e)' THEN <<>> ELSE <<"import">>
          /\ In(q, "send")' \/ In(q, "request")' => "kernel" \notin sv'[e]
      BY <1>1, <2>1, <3>1 DEF AttachInv, SameConn, e
    <3>4. /\ proc'[q].pc \in Attaching => \A i \in Ports : port'[i] # e
          /\ proc'[q].pc \in {"open", "port", "attach"} => e \in granted' /\ ~Held(e)'
      BY <1>2, <2>1, <3>1 DEF AttachInv, e
    <3> QED BY <1>1, <3>2, <3>3, <3>4 DEF AttachInv, e
  <2>3. CASE proc[q].dev \notin Devs
    BY <1>1, <1>2, <2>1, <2>3 DEF AttachInv, Attaching, In
  <2> QED BY <2>2, <2>3
<1> QED BY <1>5, <1>6, <1>7 DEF RunOK

-----------------------------------------------------------------------------
(* Steps in which nothing is sent and usbipd does not move                    *)

NetQuiet ==
    /\ UNCHANGED <<set, daemon, backlog, toS, toC, granted>>
    /\ \A c \in Conns : sv'[c] \subseteq sv[c] /\ (Held(c)' <=> Held(c))
    /\ \A i \in Ports : port'[i] \in {port[i], NoConn}

LEMMA QuietSame ==
  ASSUME NetQuiet, NEW q \in Procs, proc'[q] = proc[q]
  PROVE  SameFor(q, {})
<1>1. \A d \in Devs \cup {0} : <<q, d>> \in Conns /\ <<q, d>> # NoConn
  BY Pairs
<1>2. \A c \in Conns : SameConn(c)
  BY DEF NetQuiet, SameConn, Taken, Lists
<1> QED BY <1>1, <1>2 DEF SameFor, NetQuiet

LEMMA QuietStep ==
  ASSUME NetInv, NetQuiet, WireTypeOK', ProgramTypeOK', ExportInv',
         \A q \in Procs : proc'[q] # proc[q] => RunOK(q)'
  PROVE  NetInv'
<1>1. /\ WireTypeOK /\ DaemonInv /\ BacklogInv /\ ListedInv /\ PortInv
      /\ \A p \in Procs : ListConnInv(ListConn(p))
      /\ \A p \in Procs, d \in Devs : DevConnInv(<<p, d>>)
      /\ \A p \in Procs : RunOK(p)
  BY DEF NetInv, RunOK
<1>2. \A q \in Procs : RunOK(q)'
  BY <1>1, QuietSame, RunStaysOK
<1>3. DaemonInv' /\ ListedInv'
  BY <1>1 DEF NetQuiet, DaemonInv, ListedInv
<1>4. BacklogInv'
  <2>1. \A i \in DOMAIN backlog : backlog[i] \in Conns
    BY <1>1 DEF WireTypeOK
  <2> QED BY <1>1, <2>1 DEF NetQuiet, BacklogInv
<1>5. PortInv'
  BY <1>1 DEF NetQuiet, PortInv, WireTypeOK
<1>6. \A p \in Procs : ListConnInv(ListConn(p))'
  <2>1. SUFFICES ASSUME NEW p \in Procs PROVE ListConnInv(ListConn(p))'
    OBVIOUS
  <2>2. ListConn(p) \in Conns /\ ListConn(p)' = ListConn(p)
    BY Pairs DEF ListConn
  <2>3. ListConnInv(ListConn(p))
    BY <1>1
  <2> QED BY <2>2, <2>3 DEF NetQuiet, ListConnInv, Lists
<1>7. \A p \in Procs, d \in Devs : DevConnInv(<<p, d>>)'
  <2>1. SUFFICES ASSUME NEW p \in Procs, NEW d \in Devs PROVE DevConnInv(<<p, d>>)'
    OBVIOUS
  <2>2. PICK c \in Conns : c = <<p, d>>
    BY Pairs
  <2>3. DevConnInv(c)
    BY <1>1, <2>2
  <2>4. DevConnInv(c)'
    BY <2>3 DEF NetQuiet, DevConnInv, Taken
  <2> QED BY <2>2, <2>4
<1> QED BY <1>2, <1>3, <1>4, <1>5, <1>6, <1>7 DEF NetInv, RunOK

(* The stub driver loses a device or lets one go.                             *)
LEMMA ExportEnds ==
  ASSUME NetInv, NEW d \in Devs, EndExport(d),
         UNCHANGED <<set, cl, toS, toC, backlog, portVars, daemon, proc, granted>>
  PROVE  NetInv'
<1> USE DEF portVars
<1>1. WireTypeOK /\ ProgramTypeOK /\ ExportInv
  BY DEF NetInv
<1>2. \A c \in Conns : sv'[c] \subseteq sv[c] /\ (Held(c)' <=> Held(c))
  BY <1>1 DEF EndExport, Held, WireTypeOK
<1>3. NetQuiet
  BY <1>2 DEF NetQuiet
<1>4. ProgramTypeOK'
  BY <1>1 DEF ProgramTypeOK
<1>5. WireTypeOK'
  <2>1. sv' \in [Conns -> SUBSET {"daemon", "kernel"}]
    BY <1>1 DEF WireTypeOK, EndExport
  <2>2. exported' \in [Devs -> Conns \cup {NoConn}]
    BY <1>1 DEF WireTypeOK, EndExport
  <2> QED BY <1>1, <2>1, <2>2 DEF WireTypeOK
<1>6. ExportInv'
  <2>1. /\ exported'[d] = NoConn
        /\ \A e \in Devs \ {d} : exported'[e] = exported[e]
    BY <1>1 DEF WireTypeOK, EndExport
  <2>2. ASSUME NEW e \in Devs, exported'[e] # NoConn
        PROVE  /\ exported'[e][2] = e /\ exported'[e] \in granted'
               /\ "kernel" \in sv'[exported'[e]]
    <3>1. e # d /\ exported'[e] = exported[e] /\ exported[e] \in Conns
      BY <1>1, <2>1, <2>2 DEF WireTypeOK
    <3>2. exported[e][2] = e /\ exported[e] \in granted /\ "kernel" \in sv[exported[e]]
      BY <1>1, <2>2, <3>1 DEF ExportInv
    <3>3. exported[d] # exported[e]
      BY <1>1, <3>1, <3>2, Pairs DEF ExportInv
    <3> QED BY <3>1, <3>2, <3>3 DEF EndExport
  <2>3. ASSUME NEW c \in Conns, "kernel" \in sv'[c] PROVE c[2] # 0 /\ exported'[c[2]] = c
    <3>1. "kernel" \in sv[c] /\ c # exported[d]
      BY <2>3 DEF EndExport
    <3>2. c[2] # 0 /\ exported[c[2]] = c /\ c[2] \in Devs
      BY <1>1, <3>1, Pairs DEF ExportInv
    <3> QED BY <2>1, <3>1, <3>2
  <2> QED BY <2>2, <2>3 DEF ExportInv
<1> QED BY <1>3, <1>4, <1>5, <1>6, QuietStep

LEMMA NothingMoves ==
  ASSUME NetInv,
         UNCHANGED <<set, netVars, portVars, exported, daemon, proc, granted>>
  PROVE  NetInv'
<1> USE DEF netVars, portVars
<1>1. NetQuiet
  BY DEF NetQuiet, Held
<1>2. WireTypeOK' /\ ProgramTypeOK' /\ ExportInv'
  BY DEF NetInv, WireTypeOK, ProgramTypeOK, ExportInv
<1> QED BY <1>1, <1>2, QuietStep

(* bind-driver, the kernel's drivers, and a device that is pulled.            *)
LEMMA BindersQuiet ==
  ASSUME NetInv, plugged \subseteq Devs,
         \/ Probe \/ Pull \/ \E b \in Binders : Binder(b)
         \/ \E d \in Devs : Release(d)
         \/ UNCHANGED vars
  PROVE  NetInv'
<1> USE DEF netVars, portVars, stubVars
<1>1. ASSUME NEW d \in Devs, EndExport(d),
             UNCHANGED <<set, cl, toS, toC, backlog, portVars, daemon, proc, granted>>
      PROVE  NetInv'
  BY <1>1, ExportEnds
<1>2. ASSUME NEW d \in Devs, NEW i, NEW name, SetDriver(d, i, name),
             UNCHANGED <<set, cl, toS, toC, backlog, portVars, daemon, proc, granted>>
      PROVE  NetInv'
  BY <1>1, <1>2, NothingMoves DEF SetDriver
<1>3. ASSUME NothingInSysfs PROVE NetInv'
  BY <1>3, NothingMoves DEF NothingInSysfs, OnlyBinder
<1>4. \A b \in Binders : Dev(b) \in Devs
  BY BindAssumption DEF NetInv, ProgramTypeOK, Dev
<1>5. CASE Probe \/ UNCHANGED vars
  BY <1>5, NothingMoves DEF Probe, vars
<1>6. CASE Pull
  BY <1>1, <1>6 DEF Pull
<1>7. ASSUME NEW b \in Binders, Binder(b) PROVE NetInv'
  <2>1. ASSUME NEW add, NEW from, NEW ok, NEW ko, ModifyMatchBusid(b, add, from, ok, ko)
        PROVE  NetInv'
    BY <1>3, <2>1, NothingMoves DEF ModifyMatchBusid, OnlyBinder
  <2>2. CASE AddMatchBusid(b) \/ UndoMatch(b) \/ DelMatchBusid(b)
    BY <2>1, <2>2 DEF AddMatchBusid, UndoMatch, DelMatchBusid
  <2>3. CASE ReadAttributes(b) \/ GetDriver(b) \/ ReadAgain(b) \/ ReadConfig(b)
    BY <1>3, <2>3 DEF ReadAttributes, GetDriver, ReadAgain, ReadConfig
  <2>4. CASE UnbindInterface(b) \/ BindInterface(b)
    BY <1>2, <1>3, <1>4, <2>4 DEF UnbindInterface, BindInterface
  <2>5. CASE WriteConfig(b)
    BY <1>1, <1>3, <1>4, <2>5 DEF WriteConfig
  <2> QED BY <1>7, <2>2, <2>3, <2>4, <2>5 DEF Binder
<1>8. ASSUME NEW d \in Devs, Release(d) PROVE NetInv'
  BY <1>1, <1>8 DEF Release
<1> QED BY <1>5, <1>6, <1>7, <1>8

-----------------------------------------------------------------------------
(* Steps of usbipd: only the connection it serves is touched.                 *)

OnlyConn(c) ==
    /\ \A x \in Conns \ {c} : SameConn(x)
    /\ \A x \in Conns : Held(x)' => Held(x)
    /\ UNCHANGED <<set, proc, port>> /\ granted \subseteq granted'

LEMMA OnlyConnSame ==
  ASSUME NEW c, OnlyConn(c), NEW q \in Procs
  PROVE  SameFor(q, {c}) /\ ((\A d \in Devs \cup {0} : <<q, d>> # c) => SameFor(q, {}))
BY Pairs DEF OnlyConn, SameFor

(* A connection for a device that usbipd holds is in no port, and has been    *)
(* opened: only the run that opened it, and waits, notices what is received.  *)
LEMMA ServedDev ==
  ASSUME NetInv, NEW c \in Conns, c[2] # 0, Held(c), OnlyConn(c),
         In(c[1], "send") /\ DevConn(c[1]) = c => toS'[c] = <<>> /\ ~Taken(c)',
         In(c[1], "request") /\ DevConn(c[1]) = c /\ Held(c)' =>
            toS'[c] = IF Taken(c)' THEN <<>> ELSE <<"import">>,
         (In(c[1], "send") \/ In(c[1], "request")) /\ DevConn(c[1]) = c =>
            "kernel" \notin sv'[c],
         NEW q \in Procs
  PROVE  RunOK(q)'
<1>1. /\ WireTypeOK /\ RunOK(q) /\ PortInv
      /\ c[1] \in Procs /\ c[2] \in Devs /\ c = <<c[1], c[2]>> /\ c # NoConn
  BY Pairs DEF NetInv, RunOK
<1>2. CASE q # c[1]
  <2>1. \A d \in Devs \cup {0} : <<q, d>> # c
    BY <1>2, Pairs
  <2> QED BY <1>1, <2>1, OnlyConnSame, RunStaysOK
<1>3. CASE q = c[1]
  <2>1. SameFor(q, {c}) /\ SameConn(ListConn(q)) /\ ListConn(q) # c
    BY <1>1, Pairs, OnlyConnSame DEF OnlyConn, ListConn
  <2>2. /\ ListConn(q)' = ListConn(q) /\ DevConn(q)' = DevConn(q) /\ Cmd(q)' = Cmd(q)
        /\ \A pc : In(q, pc)' <=> In(q, pc)
        /\ proc'[q] = proc[q] /\ First(q)' = First(q) /\ port' = port
    BY DEF OnlyConn, ListConn, DevConn, Cmd, In, First
  <2>3. ~Virgin(c)
    BY DEF Held, Virgin
  <2>4. \A d \in Devs \cup {0} : Virgin(<<q, d>>) => Virgin(<<q, d>>)'
    BY <2>1, <2>3, VirginStays
  <2>5. ListInv(q)'
    <3>1. ListInv(q)
      BY <1>1 DEF RunOK
    <3>2. /\ In(q, "lconnect")' => Virgin(ListConn(q))'
          /\ proc'[q].pc \in BeforeList => \A d \in Devs : Virgin(<<q, d>>)'
      BY <2>2, <2>4, <3>1 DEF ListInv, ListConn
    <3>3. In(q, "litem")' /\ Cmd(q)'.do = "attach" => Virgin(DevConn(q))'
      BY <1>1, <2>2, <2>4, <3>1 DEF ListInv, DevConn, RunOK, AttachInv
    <3>4. LET l == ListConn(q) IN
          /\ In(q, "lsend")' => toS'[l] = <<>> /\ toC'[l] = <<>> /\ ~Taken(l)'
          /\ In(q, "lcommon")' /\ Lists(l)' => toC'[l] # <<>>
          /\ Held(l)' /\ ~Lists(l)' => proc'[q].pc \in {"lsend", "lcommon", "ended"}
      BY <2>1, <2>2, <3>1 DEF ListInv, SameConn, Held
    <3> QED BY <2>2, <3>2, <3>3, <3>4 DEF ListInv
  <2>6. AllInv(q)'
    <3>1. SUFFICES ASSUME Cmd(q).do = "attachall",
                          proc[q].pc \notin {"lconnect", "lsend", "ended"}
                   PROVE  /\ ComingInv(q)'
                          /\ proc[q].pc \in Attaching => proc[q].dev \notin Coming(q)'
      BY <2>2 DEF AllInv
    <3>2. ComingInv(q) /\ (proc[q].pc \in Attaching => proc[q].dev \notin Coming(q))
      BY <1>1, <3>1 DEF RunOK, AllInv
    <3>3. toC'[ListConn(q)] = toC[ListConn(q)] /\ Places(q)' = Places(q)
      BY <2>1, <2>2 DEF SameConn, Places
    <3>4. Lists(ListConn(q))' => Lists(ListConn(q)) /\ daemon'.edevs = daemon.edevs
      BY <2>1 DEF SameConn
    <3>5. Coming(q)' \subseteq Coming(q)
      BY <2>2, <3>3, <3>4 DEF Coming
    <3>6. \A d \in Coming(q)' : d \in Devs /\ Virgin(<<q, d>>)'
      BY <2>4, <3>2, <3>5 DEF ComingInv
    <3> QED BY <2>2, <3>2, <3>3, <3>4, <3>5, <3>6 DEF ComingInv
  <2>7. AttachInv(q)'
    <3>1. AttachInv(q)
      BY <1>1 DEF RunOK
    <3> DEFINE e == DevConn(q)
    <3>2. /\ Cmd(q)'.do = "attach" => proc'[q].dev \in Devs
          /\ proc'[q].pc \in Attaching \cup {"record", "forward"} => proc'[q].dev \in Devs
          /\ proc'[q].pc \in {"attach", "record", "forward"} => proc'[q].port \in Ports
          /\ proc'[q].pc \in {"dopen", "detach"} => Cmd(q)'.do = "detach"
          /\ proc'[q].pc \in Attaching => \A i \in Ports : port'[i] # e
      BY <2>2, <3>1 DEF AttachInv
    <3>3. In(q, "connect")' => Virgin(e)'
      BY <2>2, <2>4, <3>1 DEF AttachInv, In, Attaching, DevConn
    <3>4. CASE e = c
      BY <1>3, <2>2, <3>1, <3>2, <3>3, <3>4 DEF AttachInv
    <3>5. CASE e # c /\ proc[q].dev \in Devs
      <4>1. SameConn(e)
        BY <2>1, <3>5 DEF SameFor, DevConn
      <4> HIDE DEF e
      <4>2. /\ In(q, "send")' => toS'[e] = <<>> /\ ~Taken(e)'
            /\ In(q, "request")' /\ Held(e)' =>
                  toS'[e] = IF Taken(e)' THEN <<>> ELSE <<"import">>
            /\ In(q, "send")' \/ In(q, "request")' => "kernel" \notin sv'[e]
            /\ proc'[q].pc \in {"open", "port", "attach"} => e \in granted' /\ ~Held(e)'
        BY <2>2, <3>1, <4>1 DEF AttachInv, SameConn, e, Held, OnlyConn
      <4> QED BY <2>2, <3>2, <3>3, <4>2 DEF AttachInv, e
    <3>6. CASE proc[q].dev \notin Devs
      BY <2>2, <3>1, <3>6 DEF AttachInv, Attaching, In
    <3> QED BY <3>4, <3>5, <3>6
  <2> QED BY <2>5, <2>6, <2>7 DEF RunOK
<1> QED BY <1>2, <1>3

(* A connection for the list: its run waits for the header, or reads on.      *)
LEMMA ServedList ==
  ASSUME NetInv, NEW p \in Procs, NEW c, c = ListConn(p), OnlyConn(c), Held(c),
         In(p, "lsend") => toS'[c] = <<>> /\ toC'[c] = <<>> /\ ~Taken(c)',
         In(p, "lcommon") /\ Lists(c)' => toC'[c] # <<>>,
         Held(c)' /\ ~Lists(c)' => proc[p].pc \in {"lsend", "lcommon", "ended"},
         Cmd(p).do = "attachall" /\ proc[p].pc \notin {"lconnect", "lsend", "ended"} =>
            /\ \A i, j \in Places(p)' : i # j => toC'[c][i] # toC'[c][j]
            /\ Lists(c)' => \A i \in Places(p)', k \in DOMAIN daemon'.edevs :
                               toC'[c][i] # daemon'.edevs[k].dev
            /\ Coming(p)' \subseteq IF In(p, "lcommon") THEN Devs ELSE Coming(p),
         NEW q \in Procs
  PROVE  RunOK(q)'
<1>1. /\ WireTypeOK /\ RunOK(q)
      /\ c = <<p, 0>> /\ c \in Conns
  BY Pairs DEF NetInv, RunOK, ListConn
<1>2. CASE q # p
  <2>1. \A d \in Devs \cup {0} : <<q, d>> # c
    BY <1>1, <1>2
  <2> QED BY <1>1, <2>1, OnlyConnSame, RunStaysOK
<1>3. CASE q = p
  <2>1. SameFor(q, {c}) /\ \A d \in Devs : <<q, d>> # c /\ SameConn(<<q, d>>)
    BY <1>1, Pairs, OnlyConnSame DEF OnlyConn
  <2>2. /\ ListConn(q) = c
        /\ ListConn(q)' = ListConn(q) /\ DevConn(q)' = DevConn(q) /\ Cmd(q)' = Cmd(q)
        /\ \A pc : In(q, pc)' <=> In(q, pc)
        /\ proc'[q] = proc[q] /\ First(q)' = First(q) /\ port' = port
    BY <1>3 DEF OnlyConn, ListConn, DevConn, Cmd, In, First
  <2>3. ~Virgin(c)
    BY DEF Held, Virgin
  <2>4. \A d \in Devs \cup {0} : Virgin(<<q, d>>) => Virgin(<<q, d>>)'
    BY <2>1, <2>3, VirginStays
  <2>5. ListInv(q)'
    <3>1. ListInv(q)
      BY <1>1 DEF RunOK
    <3>2. /\ In(q, "lconnect")' => Virgin(ListConn(q))'
          /\ proc'[q].pc \in BeforeList => \A d \in Devs : Virgin(<<q, d>>)'
      BY <2>2, <2>3, <2>4, <3>1 DEF ListInv, ListConn
    <3>3. In(q, "litem")' /\ Cmd(q)'.do = "attach" => Virgin(DevConn(q))'
      BY <1>1, <2>2, <2>4, <3>1 DEF ListInv, DevConn, RunOK, AttachInv
    <3>4. /\ In(q, "lsend")' => toS'[c] = <<>> /\ toC'[c] = <<>> /\ ~Taken(c)'
          /\ In(q, "lcommon")' /\ Lists(c)' => toC'[c] # <<>>
          /\ Held(c)' /\ ~Lists(c)' => proc'[q].pc \in {"lsend", "lcommon", "ended"}
      BY <1>3, <2>2
    <3> QED BY <2>2, <3>2, <3>3, <3>4 DEF ListInv
  <2>6. AllInv(q)'
    <3>1. SUFFICES ASSUME Cmd(q).do = "attachall",
                          proc[q].pc \notin {"lconnect", "lsend", "ended"}
                   PROVE  /\ ComingInv(q)'
                          /\ proc[q].pc \in Attaching => proc[q].dev \notin Coming(q)'
      BY <2>2 DEF AllInv
    <3>2. ComingInv(q) /\ (proc[q].pc \in Attaching => proc[q].dev \notin Coming(q))
      BY <1>1, <3>1 DEF RunOK, AllInv
    <3>3. \A d \in Coming(q)' : d \in Devs /\ Virgin(<<q, d>>)'
      BY <1>1, <1>3, <2>4, <3>1, <3>2 DEF ComingInv, RunOK, ListInv, In, BeforeList
    <3>4. proc[q].pc \in Attaching => proc[q].dev \notin Coming(q)'
      BY <1>3, <3>1, <3>2 DEF In, Attaching
    <3> QED BY <1>3, <2>2, <3>1, <3>3, <3>4 DEF ComingInv
  <2>7. AttachInv(q)'
    <3>1. AttachInv(q)
      BY <1>1 DEF RunOK
    <3> DEFINE e == DevConn(q)
    <3>2. /\ Cmd(q)'.do = "attach" => proc'[q].dev \in Devs
          /\ proc'[q].pc \in Attaching \cup {"record", "forward"} => proc'[q].dev \in Devs
          /\ proc'[q].pc \in {"attach", "record", "forward"} => proc'[q].port \in Ports
          /\ proc'[q].pc \in {"dopen", "detach"} => Cmd(q)'.do = "detach"
          /\ proc'[q].pc \in Attaching => \A i \in Ports : port'[i] # e
      BY <2>2, <3>1 DEF AttachInv
    <3>3. In(q, "connect")' => Virgin(e)'
      BY <2>2, <2>4, <3>1 DEF AttachInv, In, Attaching, DevConn
    <3>4. CASE proc[q].dev \in Devs
      <4>1. SameConn(e)
        BY <2>1, <3>4 DEF DevConn
      <4> HIDE DEF e
      <4>2. /\ In(q, "send")' => toS'[e] = <<>> /\ ~Taken(e)'
            /\ In(q, "request")' /\ Held(e)' =>
                  toS'[e] = IF Taken(e)' THEN <<>> ELSE <<"import">>
            /\ In(q, "send")' \/ In(q, "request")' => "kernel" \notin sv'[e]
            /\ proc'[q].pc \in {"open", "port", "attach"} => e \in granted' /\ ~Held(e)'
        BY <2>2, <3>1, <4>1 DEF AttachInv, SameConn, e, Held, OnlyConn
      <4> QED BY <2>2, <3>2, <3>3, <4>2 DEF AttachInv, e
    <3>5. CASE proc[q].dev \notin Devs
      BY <2>2, <3>1, <3>5 DEF AttachInv, Attaching, In
    <3> QED BY <3>4, <3>5
  <2> QED BY <2>5, <2>6, <2>7 DEF RunOK
<1> QED BY <1>2, <1>3

LEMMA ServedStep ==
  ASSUME NetInv, NEW c, OnlyConn(c),
         WireTypeOK', ProgramTypeOK', DaemonInv', BacklogInv', ListedInv', ExportInv',
         \A p \in Procs : c = ListConn(p) => ListConnInv(c)',
         \A p \in Procs, d \in Devs : c = <<p, d>> => DevConnInv(c)',
         c \in Conns => \A q \in Procs : RunOK(q)'
  PROVE  NetInv'
<1>1. /\ WireTypeOK /\ PortInv /\ \A p \in Procs : RunOK(p)
      /\ \A p \in Procs : ListConnInv(ListConn(p))
      /\ \A p \in Procs, d \in Devs : DevConnInv(<<p, d>>)
  BY DEF NetInv, RunOK
<1>2. PortInv'
  BY <1>1 DEF PortInv, OnlyConn, WireTypeOK
<1>3. \A p \in Procs : ListConnInv(ListConn(p))'
  <2>1. SUFFICES ASSUME NEW p \in Procs, c # ListConn(p) PROVE ListConnInv(ListConn(p))'
    BY DEF ListConn
  <2>2. PICK x \in Conns : x = ListConn(p) /\ ListConn(p)' = x
    BY Pairs DEF ListConn
  <2>3. SameConn(x) /\ ListConnInv(x) /\ (Held(x)' => Held(x))
    BY <1>1, <2>1, <2>2 DEF OnlyConn
  <2>4. ListConnInv(x)'
    BY <2>3 DEF ListConnInv, SameConn
  <2> QED BY <2>2, <2>4
<1>4. \A p \in Procs, d \in Devs : DevConnInv(<<p, d>>)'
  <2>1. SUFFICES ASSUME NEW p \in Procs, NEW d \in Devs, c # <<p, d>>
                 PROVE  DevConnInv(<<p, d>>)'
    OBVIOUS
  <2>2. PICK x \in Conns : x = <<p, d>>
    BY Pairs
  <2>3. SameConn(x) /\ DevConnInv(x) /\ (Held(x)' => Held(x)) /\ granted \subseteq granted'
    BY <1>1, <2>1, <2>2 DEF OnlyConn
  <2>4. DevConnInv(x)'
    BY <2>3 DEF DevConnInv, SameConn
  <2> QED BY <2>2, <2>4
<1>5. ASSUME NEW q \in Procs PROVE RunOK(q)'
  <2>1. CASE c \in Conns
    BY <2>1
  <2>2. CASE c \notin Conns
    <3>1. \A d \in Devs \cup {0} : <<q, d>> # c
      BY <2>2, Pairs
    <3> QED BY <1>1, <3>1, OnlyConnSame, RunStaysOK
  <2> QED BY <2>1, <2>2
<1> QED BY <1>2, <1>3, <1>4, <1>5 DEF NetInv, RunOK

(* usbipd is left where it serves no connection.                              *)
LEMMA ServesNone ==
  ASSUME NetInv, UNCHANGED <<set, proc, port, toS, toC, granted>>,
         \A x \in Conns : sv'[x] \subseteq sv[x] /\ (Held(x)' => daemon.c # x),
         \A x \in Conns : daemon'.c = x => daemon'.pc = "common"
  PROVE  OnlyConn(NoConn)
<1>1. ASSUME NEW x \in Conns
      PROVE  SameConn(x) /\ (Held(x)' => Held(x))
  BY <1>1, Pairs DEF SameConn, Taken, Lists, Held
<1> QED BY <1>1 DEF OnlyConn

(* What a step of usbipd leaves alone.                                        *)
LEMMA DaemonType ==
  ASSUME NetInv, Rest, cl' = cl, daemon' \in DaemonRec
  PROVE  ProgramTypeOK'
BY DEF NetInv, ProgramTypeOK, Rest, portVars

LEMMA BacklogStays ==
  ASSUME NetInv, backlog' = backlog, daemon'.c \in {daemon.c, NoConn},
         \A x \in Conns : x # daemon.c => (Held(x) => Held(x)')
  PROVE  BacklogInv'
<1>1. \A i \in DOMAIN backlog : backlog[i] \in Conns /\ backlog[i] # NoConn
  BY Pairs DEF NetInv, WireTypeOK
<1> QED BY <1>1 DEF NetInv, BacklogInv

LEMMA ExportStays ==
  ASSUME NetInv, exported' = exported, granted \subseteq granted',
         \A x \in Conns : "kernel" \in sv'[x] <=> "kernel" \in sv[x]
  PROVE  ExportInv'
BY DEF NetInv, ExportInv, WireTypeOK

LEMMA StepOpen == ASSUME NetInv, StubDriverOpen PROVE NetInv'
<1>1. /\ daemon \in DaemonRec /\ daemon.c = NoConn /\ daemon.pc = "off"
      /\ DaemonInv /\ ListedInv /\ WireTypeOK
  BY DEF NetInv, ProgramTypeOK, StubDriverOpen, Serves, DaemonInv
<1>2. /\ daemon' \in DaemonRec /\ daemon'.c = NoConn
      /\ daemon'.pc \in {"poll", "dead"}
      /\ daemon'.edevs = daemon.edevs /\ daemon'.unread = daemon.unread
      /\ UNCHANGED <<exported, netVars, granted>>
  BY <1>1 DEF StubDriverOpen, DaemonRec, DaemonPcs
<1>3. UNCHANGED <<set, proc, port, toS, toC, granted, sv, backlog, cl, exported>> /\ Rest
  BY <1>2 DEF StubDriverOpen, Rest, portVars, netVars
<1>4. OnlyConn(NoConn)
  BY <1>1, <1>2, <1>3, ServesNone, Pairs
<1>5. DaemonInv' /\ ListedInv'
  BY <1>1, <1>2 DEF DaemonInv, ListedInv
<1>6. WireTypeOK' /\ ProgramTypeOK'
  BY <1>1, <1>2, <1>3, DaemonType DEF WireTypeOK
<1>7. BacklogInv' /\ ExportInv'
  BY <1>1, <1>2, <1>3, BacklogStays, ExportStays DEF Held
<1> QED BY <1>4, <1>5, <1>6, <1>7, ServedStep, Pairs DEF ListConn

LEMMA StepAccept == ASSUME NetInv, Accept PROVE NetInv'
<1>1. /\ daemon \in DaemonRec /\ daemon.c = NoConn /\ daemon.pc = "poll"
      /\ DaemonInv /\ BacklogInv /\ ListedInv /\ WireTypeOK
      /\ backlog \in Seq(Conns) /\ backlog # <<>>
  BY DEF NetInv, ProgramTypeOK, WireTypeOK, Accept, Serves, DaemonInv
<1>2. /\ Head(backlog) \in Conns /\ Head(backlog) = backlog[1] /\ 1 \in DOMAIN backlog
      /\ Tail(backlog) \in Seq(Conns) /\ DOMAIN Tail(backlog) = 1 .. Len(backlog) - 1
      /\ \A i \in DOMAIN Tail(backlog) : /\ Tail(backlog)[i] = backlog[i + 1]
                                         /\ i + 1 \in DOMAIN backlog /\ i \in Nat
  BY <1>1
<1>3. /\ daemon' \in DaemonRec /\ daemon'.c = Head(backlog)
      /\ daemon'.pc = "common" /\ daemon'.edevs = daemon.edevs
      /\ daemon'.unread = daemon.unread
  BY <1>1, <1>2 DEF Accept, DaemonRec, DaemonPcs
<1>4. /\ UNCHANGED <<set, proc, port, toS, toC, granted, sv, cl, exported>> /\ Rest
      /\ backlog' = Tail(backlog)
  BY DEF Accept, Rest, portVars
<1>5. OnlyConn(NoConn)
  BY <1>1, <1>3, <1>4, ServesNone, Pairs
<1>6. DaemonInv' /\ ListedInv'
  BY <1>1, <1>2, <1>3, <1>4 DEF DaemonInv, ListedInv, BacklogInv, Held
<1>7. WireTypeOK' /\ ProgramTypeOK'
  BY <1>1, <1>2, <1>3, <1>4, DaemonType DEF WireTypeOK
<1>8. BacklogInv'
  <2>1. ASSUME NEW i \in DOMAIN Tail(backlog)
        PROVE  /\ Held(backlog[i + 1]) /\ backlog[i + 1] # backlog[1]
               /\ \A j \in DOMAIN Tail(backlog) : i # j => backlog[i + 1] # backlog[j + 1]
    <3>1. i + 1 \in DOMAIN backlog /\ i \in Nat /\ i + 1 # 1
      BY <1>1, <1>2
    <3>2. ASSUME NEW j \in DOMAIN Tail(backlog), i # j
          PROVE  backlog[i + 1] # backlog[j + 1]
      <4>1. j + 1 \in DOMAIN backlog /\ j \in Nat /\ i + 1 # j + 1
        BY <1>2, <3>1, <3>2
      <4> QED BY <1>1, <3>1, <4>1 DEF BacklogInv
    <3> QED BY <1>1, <1>2, <3>1, <3>2 DEF BacklogInv
  <2>2. \A x : Held(x)' <=> Held(x)
    BY <1>4 DEF Held
  <2> QED BY <1>2, <1>3, <1>4, <2>1, <2>2 DEF BacklogInv
<1>9. ExportInv'
  BY <1>4, ExportStays
<1> QED BY <1>5, <1>6, <1>7, <1>8, <1>9, ServedStep, Pairs DEF ListConn

LEMMA IdleIs ==
  LET dead == [InitDaemon EXCEPT !.pc = "dead"]
  IN  /\ Idle \in DaemonRec /\ Idle.c = NoConn /\ Idle.pc = "poll" /\ Idle.edevs = <<>>
      /\ dead \in DaemonRec /\ dead.c = NoConn /\ dead.pc = "dead" /\ dead.edevs = <<>>
<1>1. NoConn \in Conns \cup {NoConn} /\ <<>> \in Seq(Listed)
  OBVIOUS
<1>2. InitDaemon \in DaemonRec /\ InitDaemon.c = NoConn /\ InitDaemon.edevs = <<>>
  BY <1>1 DEF InitDaemon, DaemonRec, DaemonPcs
<1> QED BY <1>2 DEF Idle, DaemonRec, DaemonPcs

(* The connection is closed: nothing is said of it any more.                  *)
LEMMA StepHangup ==
  ASSUME NetInv, NEW fails, Hangup(fails),
         daemon.pc \notin {"off", "dead", "poll"}
  PROVE  NetInv'
<1>1. /\ daemon \in DaemonRec /\ daemon.c \in Conns /\ WireTypeOK
  BY DEF NetInv, ProgramTypeOK, DaemonInv
<1>2. /\ daemon' = Idle
      /\ daemon' \in DaemonRec /\ daemon'.c = NoConn /\ daemon'.pc = "poll"
      /\ daemon'.edevs = <<>>
  BY IdleIs DEF Hangup, CloseSocket
<1>3. /\ UNCHANGED <<set, proc, port, toS, toC, granted, cl, exported, backlog>> /\ Rest
      /\ sv' = [sv EXCEPT ![daemon.c] = @ \ {"daemon"}]
  BY DEF Hangup, CloseSocket, Rest, portVars
<1>4. /\ \A x \in Conns : /\ sv'[x] \subseteq sv[x]
                          /\ "kernel" \in sv'[x] <=> "kernel" \in sv[x]
                          /\ x # daemon.c => (Held(x) => Held(x)')
                          /\ Held(x)' => daemon.c # x
      /\ sv' \in [Conns -> SUBSET {"daemon", "kernel"}]
  BY <1>1, <1>3 DEF WireTypeOK, Held
<1>5. OnlyConn(NoConn)
  BY <1>2, <1>3, <1>4, ServesNone, Pairs
<1>6. DaemonInv' /\ ListedInv'
  BY <1>2 DEF DaemonInv, ListedInv
<1>7. WireTypeOK' /\ ProgramTypeOK'
  BY <1>1, <1>2, <1>3, <1>4, DaemonType DEF WireTypeOK
<1>8. BacklogInv' /\ ExportInv'
  BY <1>2, <1>3, <1>4, BacklogStays, ExportStays
<1> QED BY <1>5, <1>6, <1>7, <1>8, ServedStep, Pairs DEF ListConn

LEMMA StepShutdown == ASSUME NetInv, Shutdown PROVE NetInv'
<1>1. /\ daemon \in DaemonRec /\ WireTypeOK
  BY DEF NetInv, ProgramTypeOK
<1>2. /\ daemon' \in DaemonRec /\ daemon'.c = NoConn /\ daemon'.pc = "dead"
      /\ daemon'.edevs = <<>>
  BY IdleIs DEF Shutdown
<1>3. /\ UNCHANGED <<set, proc, port, toS, toC, granted, cl, exported>> /\ Rest
      /\ sv' = [c \in Conns |-> sv[c] \ (IF c \in ToSet(backlog) \cup {daemon.c}
                                      THEN {"daemon"} ELSE {})]
      /\ backlog' = <<>>
  BY DEF Shutdown, Rest, portVars
<1>4. /\ \A x \in Conns : /\ sv'[x] \subseteq sv[x]
                          /\ "kernel" \in sv'[x] <=> "kernel" \in sv[x]
                          /\ Held(x)' => daemon.c # x
      /\ sv' \in [Conns -> SUBSET {"daemon", "kernel"}]
  BY <1>1, <1>3 DEF WireTypeOK, Held
<1>5. OnlyConn(NoConn)
  BY <1>2, <1>3, <1>4, ServesNone, Pairs
<1>6. DaemonInv' /\ ListedInv' /\ BacklogInv'
  BY <1>2, <1>3 DEF DaemonInv, ListedInv, BacklogInv
<1>7. WireTypeOK' /\ ProgramTypeOK'
  BY <1>1, <1>2, <1>3, <1>4, DaemonType DEF WireTypeOK
<1>8. ExportInv'
  BY <1>3, <1>4, ExportStays
<1> QED BY <1>5, <1>6, <1>7, <1>8, ServedStep, Pairs DEF ListConn

(* usbipd goes on with the connection it serves.                              *)
LEMMA ServesOne ==
  ASSUME NetInv, UNCHANGED <<set, proc, port>>, granted \subseteq granted',
         daemon.c \in Conns, daemon'.c \in {daemon.c, NoConn},
         \A x \in Conns \ {daemon.c} :
            toS'[x] = toS[x] /\ toC'[x] = toC[x] /\ sv'[x] \subseteq sv[x],
         Held(daemon.c)
  PROVE  OnlyConn(daemon.c)
<1>1. ASSUME NEW x \in Conns \ {daemon.c} PROVE SameConn(x) /\ (Held(x)' => Held(x))
  BY <1>1, Pairs DEF SameConn, Taken, Lists, Held
<1> QED BY <1>1 DEF OnlyConn

(* What is known of the connection that is served.                            *)
LEMMA Serving ==
  ASSUME NetInv, daemon.pc \notin {"off", "dead", "poll"}
  PROVE  /\ daemon \in DaemonRec /\ daemon.c \in Conns /\ Held(daemon.c)
         /\ daemon.c[1] \in Procs /\ daemon.c = <<daemon.c[1], daemon.c[2]>>
         /\ daemon.c[2] = 0 => daemon.c = ListConn(daemon.c[1]) /\ ListConnInv(daemon.c)
         /\ daemon.c[2] # 0 => daemon.c[2] \in Devs /\ DevConnInv(daemon.c)
         /\ WireTypeOK /\ RunOK(daemon.c[1])
<1>1. daemon \in DaemonRec /\ daemon.c \in Conns /\ Held(daemon.c) /\ WireTypeOK
  BY DEF NetInv, ProgramTypeOK, DaemonInv
<1>2. /\ daemon.c[1] \in Procs /\ daemon.c[2] \in Devs \cup {0}
      /\ daemon.c = <<daemon.c[1], daemon.c[2]>>
  BY <1>1, Pairs
<1>3. /\ ListConnInv(ListConn(daemon.c[1]))
      /\ \A d \in Devs : DevConnInv(<<daemon.c[1], d>>)
      /\ RunOK(daemon.c[1])
  BY <1>2 DEF NetInv, RunOK
<1>4. daemon.c[2] = 0 => daemon.c = ListConn(daemon.c[1])
  BY <1>2 DEF ListConn
<1>5. daemon.c[2] # 0 => daemon.c[2] \in Devs /\ daemon.c = <<daemon.c[1], daemon.c[2]>>
  BY <1>2
<1>6. daemon.c[2] = 0 => ListConnInv(daemon.c)
  BY <1>3, <1>4
<1>7. daemon.c[2] # 0 => DevConnInv(daemon.c)
  BY <1>3, <1>5
<1> QED BY <1>1, <1>2, <1>3, <1>4, <1>6, <1>7

(* Messages of one word and of two.                                           *)
LEMMA Messages ==
  \A a, b : /\ Head(<<a>>) = a /\ Tail(<<a>>) = <<>> /\ <<a>> # <<>>
            /\ Head(<<a, b>>) = a /\ Tail(<<a, b>>) = <<b>> /\ <<a, b>> # <<a>>
            /\ <<a, b>> # <<>> /\ Len(<<>>) = 0 /\ Len(<<a>>) = 1 /\ Len(<<a, b>>) = 2
            /\ Append(<<>>, a) = <<a>> /\ Append(<<a>>, b) = <<a, b>>
<1> SUFFICES ASSUME NEW a, NEW b
             PROVE  /\ Head(<<a>>) = a /\ Tail(<<a>>) = <<>> /\ <<a>> # <<>>
                    /\ Head(<<a, b>>) = a /\ Tail(<<a, b>>) = <<b>> /\ <<a, b>> # <<a>>
                    /\ <<a, b>> # <<>> /\ Len(<<>>) = 0 /\ Len(<<a>>) = 1 /\ Len(<<a, b>>) = 2
                    /\ Append(<<>>, a) = <<a>> /\ Append(<<a>>, b) = <<a, b>>
  OBVIOUS
<1>1. Head(<<a>>) = a /\ Head(<<a, b>>) = a
  OBVIOUS
<1>2. <<a>> # <<>> /\ <<a, b>> # <<a>> /\ <<a, b>> # <<>>
  OBVIOUS
<1>3. Len(<<>>) = 0 /\ Len(<<a>>) = 1 /\ Len(<<a, b>>) = 2
  OBVIOUS
<1>4. Append(<<>>, a) = <<a>>
  OBVIOUS
<1>5. Append(<<a>>, b) = <<a, b>>
  <2> DEFINE s == <<a>>
             t == Append(s, b)
  <2>1. s \in Seq({a, b}) /\ Len(s) = 1 /\ s[1] = a
    OBVIOUS
  <2> HIDE DEF s
  <2> DEFINE S == {a, b}
  <2>4. s \in Seq(S) /\ b \in S
    BY <2>1
  <2> HIDE DEF S
  <2>5. t \in Seq(S) /\ Len(t) = 2 /\ t[1] = a /\ t[2] = b
    <3>1. /\ t \in Seq(S) /\ Len(t) = Len(s) + 1 /\ t[Len(s) + 1] = b
          /\ \A i \in 1 .. Len(s) : t[i] = s[i]
      BY <2>4, AppendProperties
    <3> HIDE DEF t
    <3> QED BY <2>1, <3>1
  <2>2. t \in Seq({a, b}) /\ Len(t) = 2 /\ t[1] = a /\ t[2] = b
    BY <2>5 DEF S
  <2> HIDE DEF t
  <2>3. t = <<a, b>>
    <3>1. <<a, b>> \in Seq({a, b}) /\ Len(<<a, b>>) = 2 /\ 1 .. 2 = {1, 2}
      OBVIOUS
    <3> QED BY <2>2, <3>1, SeqEqual
  <2> QED BY <2>3 DEF s, t
<1>6. Tail(<<a>>) = <<>>
  OBVIOUS
<1>7. Tail(<<a, b>>) = <<b>>
  <2> DEFINE s == <<a, b>>
             t == Tail(s)
  <2>1. s \in Seq({a, b}) /\ Len(s) = 2 /\ s # <<>> /\ s[2] = b
    OBVIOUS
  <2> HIDE DEF s
  <2>2. t \in Seq({a, b}) /\ Len(t) = 1 /\ t[1] = b
    BY <2>1
  <2> HIDE DEF t
  <2>3. t = <<b>>
    BY <2>2
  <2> QED BY <2>3 DEF s, t
<1> QED BY <1>1, <1>2, <1>3, <1>4, <1>5, <1>6, <1>7

LEMMA ToServer ==
  ASSUME WireTypeOK, NEW c \in Conns, NEW v, toS' = [toS EXCEPT ![c] = v]
  PROVE  /\ toS'[c] = v /\ \A x \in Conns \ {c} : toS'[x] = toS[x]
         /\ toS' = [x \in Conns |-> toS'[x]]
<1>1. toS \in [Conns -> {toS[x] : x \in Conns}]
  BY DEF WireTypeOK
<1>2. toS' = [x \in Conns |-> IF x = c THEN v ELSE toS[x]]
  BY <1>1
<1> QED BY <1>1, <1>2

LEMMA StepRecvCommon == ASSUME NetInv, RecvCommon PROVE NetInv'
<1>0. PICK c, p : c = daemon.c /\ p = c[1]
  OBVIOUS
<1>1. daemon.pc = "common"
  BY DEF RecvCommon, Serves
<1>2. CASE Hangup(DaemonRecvFails(c))
  BY <1>0, <1>1, <1>2, StepHangup
<1>3. CASE ~Hangup(DaemonRecvFails(c))
  <2>1. /\ toS[c] # <<>>
        /\ daemon' = [daemon EXCEPT !.pc = "refresh", !.op = Head(toS[c]),
                         !.edevs = <<>>, !.unread = {d \in Devs : Bound(d) # {}}]
        /\ toS' = [toS EXCEPT ![c] = Tail(@)]
        /\ Rest /\ UNCHANGED <<exported, cl, sv, toC, granted, backlog>>
    BY <1>0, <1>3 DEF RecvCommon
  <2>2. /\ daemon \in DaemonRec /\ c \in Conns /\ Held(c) /\ WireTypeOK /\ p \in Procs
        /\ c[2] = 0 => c = ListConn(p) /\ ListConnInv(c)
        /\ c[2] # 0 => c[2] \in Devs /\ DevConnInv(c)
        /\ RunOK(p) /\ c = <<p, c[2]>>
    BY <1>0, <1>1, Serving
  <2>3. /\ c[2] = 0 => toS[c] = <<"devlist">> /\ toC[c] = <<>>
        /\ c[2] # 0 => toS[c] \in {<<"import">>, <<"import", c[2]>>}
    BY <1>0, <1>1, <2>1, <2>2 DEF ListConnInv, DevConnInv, Taken, Lists
  <2>4. /\ Head(toS[c]) = IF c[2] = 0 THEN "devlist" ELSE "import"
        /\ toS'[c] = Tail(toS[c]) /\ \A x \in Conns \ {c} : toS'[x] = toS[x]
        /\ toS' = [x \in Conns |-> toS'[x]]
    <3>1. /\ toS'[c] = Tail(toS[c]) /\ \A x \in Conns \ {c} : toS'[x] = toS[x]
          /\ toS' = [x \in Conns |-> toS'[x]]
      BY <2>1, <2>2, ToServer
    <3>2. CASE c[2] = 0
      BY <2>3, <3>1, <3>2, Messages
    <3>3. CASE c[2] # 0
      BY <2>3, <3>1, <3>3, Messages
    <3> QED BY <3>2, <3>3
  <2>5. /\ daemon' \in DaemonRec /\ daemon'.c = c /\ daemon'.pc = "refresh"
        /\ daemon'.op = IF c[2] = 0 THEN "devlist" ELSE "import"
        /\ daemon'.edevs = <<>> /\ UNCHANGED <<set, proc, port>>
        /\ (c[2] = 0 => toS'[c] = <<>>)
        /\ (c[2] # 0 => toS'[c] = IF toS[c] = <<"import">> THEN <<>> ELSE <<c[2]>>)
    <3>1. /\ daemon'.op = IF c[2] = 0 THEN "devlist" ELSE "import"
          /\ daemon'.c = c /\ daemon'.pc = "refresh" /\ daemon'.edevs = <<>>
      BY <1>0, <2>1, <2>2, <2>4 DEF DaemonRec
    <3>2. Head(toS[c]) \in {"none", "devlist", "import"} /\ <<>> \in Seq(Listed)
      BY <2>4
    <3>3. /\ c[2] = 0 => toS'[c] = <<>>
          /\ c[2] # 0 => toS'[c] = IF toS[c] = <<"import">> THEN <<>> ELSE <<c[2]>>
      <4>1. CASE c[2] = 0
        BY <2>3, <2>4, <4>1, Messages
      <4>2. CASE c[2] # 0
        <5>1. CASE toS[c] = <<"import">>
          BY <2>4, <4>2, <5>1, Messages
        <5>2. CASE toS[c] = <<"import", c[2]>>
          BY <2>4, <4>2, <5>2, Messages
        <5> QED BY <2>3, <4>2, <5>1, <5>2
      <4> QED BY <4>1, <4>2
    <3>4. daemon' \in DaemonRec
      BY <2>1, <2>2, <3>2 DEF DaemonRec, DaemonPcs
    <3> QED BY <2>1, <3>1, <3>3, <3>4 DEF Rest, portVars
  <2>6. OnlyConn(c)
    BY <1>0, <2>1, <2>2, <2>4, <2>5, ServesOne
  <2>7. /\ WireTypeOK' /\ ProgramTypeOK' /\ BacklogInv' /\ ExportInv'
        /\ DaemonInv' /\ ListedInv'
    <3>1. WireTypeOK' /\ ProgramTypeOK'
      BY <2>1, <2>2, <2>4, <2>5, DaemonType DEF WireTypeOK, Rest, portVars
    <3>2. BacklogInv' /\ ExportInv'
      BY <1>0, <2>1, <2>5, BacklogStays, ExportStays DEF Held
    <3>3. DaemonInv' /\ ListedInv'
      BY <1>0, <2>1, <2>2, <2>5 DEF DaemonInv, ListedInv, Held
    <3> QED BY <3>1, <3>2, <3>3
  <2>8. Held(c)' /\ Taken(c)' /\ ~Lists(c)' /\ ~Lists(c) /\ ~Taken(c)
    BY <1>0, <1>1, <2>1, <2>2, <2>5 DEF Held, Taken, Lists
  <2>9. CASE c[2] = 0
    <3>1. ListConnInv(c)' /\ c = ListConn(p)
      BY <2>1, <2>2, <2>3, <2>5, <2>8, <2>9 DEF ListConnInv
    <3>2. /\ ~In(p, "lsend")
          /\ proc[p].pc \in {"lsend", "lcommon", "ended"}
      BY <2>2, <2>3, <2>8, <2>9, Messages DEF RunOK, ListInv
    <3>3. ~Lists(ListConn(p))' /\ toC'[ListConn(p)] = <<>>
      BY <2>1, <2>3, <2>8, <2>9, <3>1 DEF ListConn
    <3>4. Places(p)' = {} /\ Coming(p)' = {}
      BY <3>3 DEF Places, Coming, ListConn
    <3>5. \A q \in Procs : RunOK(q)'
      BY <2>2, <2>6, <2>8, <3>1, <3>2, <3>4, ServedList
    <3>6. \A q \in Procs, d \in Devs : c # <<q, d>>
      BY <2>9, Pairs
    <3> QED BY <2>6, <2>7, <3>1, <3>5, <3>6, ServedStep
  <2>10. CASE c[2] # 0
    <3>1. DevConnInv(c)'
      BY <2>1, <2>2, <2>3, <2>5, <2>8, <2>10 DEF DevConnInv, Held
    <3>2. ASSUME DevConn(p) = c
          PROVE  /\ ~In(p, "send")
                 /\ In(p, "request") => toS'[c] = <<>> /\ "kernel" \notin sv'[c]
      BY <2>1, <2>2, <2>3, <2>5, <2>8, <2>10, <3>2 DEF RunOK, AttachInv, DevConn
    <3>3. \A q \in Procs : RunOK(q)'
      BY <1>0, <2>2, <2>6, <2>8, <2>10, <3>2, ServedDev
    <3>4. \A q \in Procs : c # ListConn(q)
      BY <2>10 DEF ListConn
    <3> QED BY <2>6, <2>7, <3>1, <3>3, <3>4, ServedStep
  <2> QED BY <2>9, <2>10
<1> QED BY <1>2, <1>3

LEMMA StepRefreshDevice == ASSUME NetInv, RefreshDevice PROVE NetInv'
<1> DEFINE e == daemon.edevs
<1>1. PICK d \in daemon.unread :
        daemon' = [daemon EXCEPT !.unread = @ \ {d},
              !.edevs = IF 0 \in Bound(d)
                        THEN <<[dev |-> d, free |-> exported[d] = NoConn]>> \o @ ELSE @]
  BY DEF RefreshDevice
<1>2. /\ daemon.pc = "refresh" /\ Rest /\ UNCHANGED <<exported, netVars, granted>>
      /\ UNCHANGED <<set, proc, port, toS, toC, granted, sv, backlog, cl, exported>>
  BY DEF RefreshDevice, Serves, Rest, portVars, netVars
<1>3. /\ daemon \in DaemonRec /\ DaemonInv /\ BacklogInv /\ ListedInv /\ WireTypeOK
      /\ e \in Seq(Listed) /\ daemon.unread \subseteq Devs
  BY DEF NetInv, ProgramTypeOK, DaemonRec
<1>4. PICK r \in Listed : r = [dev |-> d, free |-> exported[d] = NoConn]
  <2>1. (exported[d] = NoConn) \in BOOLEAN /\ d \in Devs
    BY <1>3
  <2> QED BY <2>1, Zenon DEF Listed
<1> DEFINE f == <<r>> \o e
<1>5. /\ f \in Seq(Listed) /\ Len(f) = Len(e) + 1 /\ Len(e) \in Nat
      /\ f[1] = r /\ \A k \in DOMAIN f : k # 1 => k - 1 \in DOMAIN e /\ f[k] = e[k - 1]
  <2>1. <<r>> \in Seq(Listed) /\ Len(<<r>>) = 1 /\ <<r>>[1] = r
    OBVIOUS
  <2>2. /\ f \in Seq(Listed) /\ Len(f) = 1 + Len(e) /\ Len(e) \in Nat
        /\ \A i \in 1 .. 1 + Len(e) : f[i] = IF i <= 1 THEN <<r>>[i] ELSE e[i - 1]
    BY <1>3, <2>1, ConcatProperties
  <2> HIDE DEF f, e
  <2>3. DOMAIN f = 1 .. Len(e) + 1 /\ DOMAIN e = 1 .. Len(e)
    BY <1>3, <2>2
  <2> QED BY <1>3, <2>1, <2>2, <2>3
<1> HIDE DEF f
<1>6. /\ daemon' \in DaemonRec /\ daemon'.c = daemon.c /\ daemon'.pc = "refresh"
      /\ daemon'.op = daemon.op /\ daemon'.unread = daemon.unread \ {d}
      /\ daemon'.edevs \in {e, f}
  <2>1. daemon'.c = daemon.c /\ daemon'.pc = daemon.pc /\ daemon'.op = daemon.op
        /\ daemon'.unread = daemon.unread \ {d} /\ daemon'.edevs \in {e, f}
    BY <1>1, <1>3, <1>4 DEF DaemonRec, f
  <2>2. daemon' \in DaemonRec
    BY <1>1, <1>3, <1>4, <1>5 DEF DaemonRec, f
  <2> QED BY <1>2, <2>1, <2>2
<1>7. OnlyConn(NoConn)
  <2>1. \A x \in Conns : SameConn(x) /\ (Held(x)' => Held(x))
    BY <1>2, <1>6 DEF SameConn, Taken, Lists, Held
  <2> QED BY <1>2, <2>1 DEF OnlyConn
<1>8. DaemonInv' /\ WireTypeOK' /\ ProgramTypeOK' /\ BacklogInv' /\ ExportInv'
  <2>1. DaemonInv'
    BY <1>2, <1>3, <1>6 DEF DaemonInv, Held
  <2>2. WireTypeOK' /\ ProgramTypeOK'
    BY <1>2, <1>3, <1>6, DaemonType DEF WireTypeOK
  <2>3. BacklogInv' /\ ExportInv'
    BY <1>2, <1>6, BacklogStays, ExportStays DEF Held
  <2> QED BY <2>1, <2>2, <2>3
<1>9. ListedInv'
  <2>1. CASE daemon'.edevs = e
    BY <1>3, <1>6, <2>1 DEF ListedInv
  <2>2. CASE daemon'.edevs = f
    <3>1. ASSUME NEW k \in DOMAIN f, k # 1 PROVE f[k].dev # d /\ f[k].dev \notin daemon.unread
      BY <1>3, <1>5, <3>1 DEF ListedInv
    <3>2. ASSUME NEW k \in DOMAIN f, NEW l \in DOMAIN f, k # l, k # 1, l # 1
          PROVE  f[k].dev # f[l].dev
      <4>1. k - 1 # l - 1
        BY <1>5, <3>2
      <4> QED BY <1>3, <1>5, <3>2, <4>1 DEF ListedInv
    <3>3. f[1].dev = d
      BY <1>4, <1>5
    <3>4. \A k \in DOMAIN f : f[k].dev \notin daemon.unread \ {d}
      BY <3>1, <3>3
    <3>5. \A k, l \in DOMAIN f : k # l => f[k].dev # f[l].dev
      BY <3>1, <3>2, <3>3
    <3> QED BY <1>6, <2>2, <3>4, <3>5 DEF ListedInv
  <2> QED BY <1>6, <2>1, <2>2
<1> QED BY <1>7, <1>8, <1>9, ServedStep, Pairs DEF ListConn

LEMMA StepRecvRequestDevlist == ASSUME NetInv, RecvRequestDevlist PROVE NetInv'
<1>0. PICK c, p : c = daemon.c /\ p = c[1]
  OBVIOUS
<1>1. daemon.pc = "refresh" /\ daemon.op = "devlist"
  BY DEF RecvRequestDevlist, Refreshed, Serves
<1>2. CASE Hangup(set.body /\ DaemonRecvFails(c))
  BY <1>0, <1>1, <1>2, StepHangup
<1>3. CASE ~Hangup(set.body /\ DaemonRecvFails(c))
  <2>1. /\ toC' = [toC EXCEPT ![c] = Append(@, Len(daemon.edevs))]
        /\ daemon' = [daemon EXCEPT !.pc = "list"]
        /\ Rest /\ UNCHANGED <<exported, cl, sv, toS, granted, backlog>>
    BY <1>0, <1>3 DEF RecvRequestDevlist
  <2>2. /\ daemon \in DaemonRec /\ c \in Conns /\ Held(c) /\ WireTypeOK /\ p \in Procs
        /\ c[2] = 0 => c = ListConn(p) /\ ListConnInv(c)
        /\ RunOK(p) /\ c = <<p, c[2]>>
        /\ DaemonInv /\ ListedInv
    BY <1>0, <1>1, Serving DEF NetInv
  <2>3. c[2] = 0 /\ c = ListConn(p)
    BY <1>0, <1>1, <2>2 DEF DaemonInv
  <2>4. /\ Taken(c) /\ ~Lists(c) /\ toC[c] = <<>>
    BY <1>0, <1>1, <2>2, <2>3 DEF ListConnInv, Taken, Lists
  <2> DEFINE n == Len(daemon.edevs)
  <2>5. daemon.edevs \in Seq(Listed) /\ n \in Nat
    BY <2>2 DEF DaemonRec
  <2>6. /\ toC' \in [Conns -> Seq(Nat)] /\ toC'[c] = <<n>> /\ Len(toC'[c]) = 1
        /\ \A x \in Conns \ {c} : toC'[x] = toC[x]
    BY <2>1, <2>2, <2>4, <2>5 DEF WireTypeOK
  <2> HIDE DEF n
  <2>7. /\ daemon' \in DaemonRec /\ daemon'.c = c /\ daemon'.pc = "list"
        /\ daemon'.op = daemon.op /\ daemon'.unread = daemon.unread
        /\ daemon'.edevs = daemon.edevs /\ UNCHANGED <<set, proc, port>>
    BY <1>0, <2>1, <2>2 DEF DaemonRec, DaemonPcs, Rest, portVars
  <2>8. OnlyConn(c)
    BY <1>0, <2>1, <2>2, <2>6, <2>7, ServesOne
  <2>9. /\ WireTypeOK' /\ ProgramTypeOK' /\ BacklogInv' /\ ExportInv'
        /\ DaemonInv' /\ ListedInv'
    <3>1. WireTypeOK' /\ ProgramTypeOK'
      BY <2>1, <2>2, <2>6, <2>7, DaemonType DEF WireTypeOK, Rest, portVars
    <3>2. BacklogInv' /\ ExportInv'
      BY <1>0, <2>1, <2>7, BacklogStays, ExportStays DEF Held
    <3>3. DaemonInv' /\ ListedInv'
      BY <1>0, <1>1, <2>1, <2>2, <2>3, <2>7 DEF DaemonInv, ListedInv, Held
    <3> QED BY <3>1, <3>2, <3>3
  <2>10. Lists(c)' /\ Taken(c)' /\ toC'[c] # <<>>
    BY <2>6, <2>7 DEF Taken, Lists
  <2>11. ListConnInv(c)'
    BY <2>1, <2>2, <2>3, <2>6, <2>10, SharedAssumption DEF ListConnInv
  <2>12. proc[p].pc \in {"lcommon", "ended"}
    BY <2>2, <2>3, <2>4 DEF RunOK, ListInv, In
  <2>13. In(p, "lcommon") => Places(p)' = {} /\ Coming(p)' \subseteq Devs
    <3>1. SUFFICES ASSUME In(p, "lcommon") PROVE Places(p)' = {} /\ Coming(p)' \subseteq Devs
      OBVIOUS
    <3>2. First(p)' = 2 /\ ListConn(p)' = c
      BY <2>3, <2>7, <3>1 DEF First, In, ListConn
    <3>3. DOMAIN toC'[c] = {1}
      BY <2>6
    <3>4. Places(p)' = {}
      BY <3>2, <3>3 DEF Places
    <3>5. \A k \in DOMAIN daemon'.edevs : daemon'.edevs[k].dev \in Devs
      <4>1. \A k \in DOMAIN daemon.edevs : daemon.edevs[k] \in Listed
        BY <2>5
      <4> QED BY <2>7, <4>1 DEF Listed
    <3> QED BY <3>4, <3>5 DEF Coming
  <2>14. \A q \in Procs : RunOK(q)'
    BY <2>2, <2>3, <2>8, <2>10, <2>12, <2>13, ServedList DEF In
  <2>15. \A q \in Procs, d \in Devs : c # <<q, d>>
    BY <2>3, Pairs
  <2> QED BY <2>8, <2>9, <2>11, <2>14, <2>15, ServedStep
<1> QED BY <1>2, <1>3

LEMMA StepSendReplyDevlist == ASSUME NetInv, SendReplyDevlist PROVE NetInv'
<1>0. PICK c, p, e : c = daemon.c /\ p = c[1] /\ e = daemon.edevs
  OBVIOUS
<1>1. daemon.pc = "list"
  BY DEF SendReplyDevlist, Serves
<1>2. CASE Hangup(daemon.edevs = <<>> \/ cl[daemon.c] = {})
  BY <1>1, <1>2, StepHangup
<1>3. CASE ~Hangup(daemon.edevs = <<>> \/ cl[daemon.c] = {})
  <2>1. /\ e # <<>> /\ Len(toC[c]) < SockBuf
        /\ toC' = [toC EXCEPT ![c] = Append(@, Head(e).dev)]
        /\ daemon' = [daemon EXCEPT !.edevs = Tail(@)]
        /\ Rest /\ UNCHANGED <<exported, cl, sv, toS, granted, backlog>>
    BY <1>0, <1>3 DEF SendReplyDevlist
  <2>2. /\ daemon \in DaemonRec /\ c \in Conns /\ Held(c) /\ WireTypeOK /\ p \in Procs
        /\ c[2] = 0 => c = ListConn(p) /\ ListConnInv(c)
        /\ RunOK(p) /\ c = <<p, c[2]>>
        /\ DaemonInv /\ ListedInv
    BY <1>0, <1>1, Serving DEF NetInv
  <2>3. c[2] = 0 /\ c = ListConn(p)
    BY <1>0, <1>1, <2>2 DEF DaemonInv
  <2>4. Taken(c) /\ Lists(c)
    BY <1>0, <1>1, <2>2 DEF Taken, Lists
  <2>5. /\ e \in Seq(Listed) /\ Tail(e) \in Seq(Listed) /\ Head(e) = e[1] /\ 1 \in DOMAIN e
        /\ \A k \in DOMAIN Tail(e) : /\ k + 1 \in DOMAIN e /\ k + 1 # 1
                                     /\ k \in Nat /\ Tail(e)[k] = e[k + 1]
    <3>1. e \in Seq(Listed)
      BY <1>0, <2>2 DEF DaemonRec
    <3> QED BY <2>1, <3>1
  <2>6. e[1].dev \in Devs /\ Devs \subseteq Nat
    <3>1. e[1] \in Listed
      BY <2>5
    <3> QED BY <3>1, SharedAssumption DEF Listed
  <2> DEFINE s == toC[c]
             t == toC'[c]
  <2>7. /\ toC' \in [Conns -> Seq(Nat)]
        /\ \A x \in Conns \ {c} : toC'[x] = toC[x]
        /\ s \in Seq(Nat) /\ t = Append(s, e[1].dev)
    BY <2>1, <2>2, <2>5, <2>6 DEF WireTypeOK
  <2>8. /\ Len(s) \in Nat /\ Len(t) = Len(s) + 1 /\ t # <<>>
        /\ t[Len(s) + 1] = e[1].dev /\ DOMAIN t = 1 .. Len(s) + 1
        /\ DOMAIN s = 1 .. Len(s) /\ \A i \in 1 .. Len(s) : t[i] = s[i]
    BY <2>6, <2>7, AppendProperties
  <2> HIDE DEF s, t
  <2>9. /\ daemon' \in DaemonRec /\ daemon'.c = c /\ daemon'.pc = "list"
        /\ daemon'.op = daemon.op /\ daemon'.unread = daemon.unread
        /\ daemon'.edevs = Tail(e) /\ UNCHANGED <<set, proc, port>>
    BY <1>0, <1>1, <2>1, <2>2, <2>5 DEF DaemonRec, DaemonPcs, Rest, portVars
  <2>10. OnlyConn(c)
    BY <1>0, <2>1, <2>2, <2>7, <2>9, ServesOne
  <2>11. ListedInv'
    <3>1. \A k \in DOMAIN Tail(e) : Tail(e)[k].dev \notin daemon.unread
      BY <1>0, <2>2, <2>5 DEF ListedInv
    <3>2. ASSUME NEW k \in DOMAIN Tail(e), NEW l \in DOMAIN Tail(e), k # l
          PROVE  Tail(e)[k].dev # Tail(e)[l].dev
      <4>1. k + 1 # l + 1
        BY <2>5, <3>2
      <4> QED BY <1>0, <2>2, <2>5, <3>2, <4>1 DEF ListedInv
    <3> QED BY <2>9, <3>1, <3>2 DEF ListedInv
  <2>12. WireTypeOK' /\ ProgramTypeOK' /\ BacklogInv' /\ ExportInv' /\ DaemonInv'
    <3>1. WireTypeOK' /\ ProgramTypeOK'
      BY <2>1, <2>2, <2>7, <2>9, DaemonType DEF WireTypeOK, Rest, portVars
    <3>2. BacklogInv' /\ ExportInv'
      BY <1>0, <2>1, <2>9, BacklogStays, ExportStays DEF Held
    <3>3. DaemonInv'
      BY <1>0, <1>1, <2>1, <2>2, <2>3, <2>9 DEF DaemonInv, Held
    <3> QED BY <3>1, <3>2, <3>3
  <2>13. Lists(c)' /\ Taken(c)'
    BY <2>9 DEF Taken, Lists
  <2>14. ListConnInv(c)'
    <3>1. Len(toC'[c]) <= SockBuf
      BY <2>1, <2>8, SharedAssumption DEF s, t
    <3> QED BY <2>1, <2>2, <2>3, <2>13, <3>1 DEF ListConnInv
  <2>15. ~In(p, "lsend") /\ t # <<>>
    BY <2>2, <2>3, <2>4, <2>8 DEF RunOK, ListInv, In
  <2>16. ASSUME Cmd(p).do = "attachall", proc[p].pc \notin {"lconnect", "lsend", "ended"}
         PROVE  /\ \A i, j \in Places(p)' : i # j => t[i] # t[j]
                /\ \A i \in Places(p)', k \in DOMAIN Tail(e) : t[i] # Tail(e)[k].dev
                /\ Coming(p)' \subseteq IF In(p, "lcommon") THEN Devs ELSE Coming(p)
    <3>1. ComingInv(p)
      BY <2>2, <2>16 DEF RunOK, AllInv
    <3>2. /\ Places(p) = {i \in DOMAIN s : First(p) <= i}
          /\ Places(p)' = {i \in DOMAIN t : First(p) <= i}
      BY <2>3, <2>9 DEF Places, First, In, ListConn, s, t
    <3>3. \A i \in Places(p)' : \/ i = Len(s) + 1 /\ t[i] = e[1].dev
                                \/ i \in Places(p) /\ t[i] = s[i]
      BY <2>8, <3>2
    <3>4. /\ \A i, j \in Places(p) : i # j => s[i] # s[j]
          /\ \A i \in Places(p), k \in DOMAIN e : s[i] # e[k].dev
      BY <1>0, <2>3, <2>4, <3>1 DEF ComingInv, s
    <3>5. \A i, j \in Places(p)' : i # j => t[i] # t[j]
      BY <2>5, <3>3, <3>4
    <3>6. \A k \in DOMAIN Tail(e) : Tail(e)[k].dev # e[1].dev
      BY <1>0, <2>2, <2>5 DEF ListedInv
    <3>7. \A i \in Places(p)', k \in DOMAIN Tail(e) : t[i] # Tail(e)[k].dev
      BY <2>5, <3>3, <3>4, <3>6
    <3>8. /\ Coming(p)' = {t[i] : i \in Places(p)'} \cup {Tail(e)[k].dev : k \in DOMAIN Tail(e)}
          /\ Coming(p) = {s[i] : i \in Places(p)} \cup {e[k].dev : k \in DOMAIN e}
      <4>1. /\ ListConn(p)' = c /\ Lists(ListConn(p))' /\ daemon'.edevs = Tail(e)
            /\ Lists(ListConn(p)) /\ daemon.edevs = e /\ ListConn(p) = c
        BY <1>0, <2>3, <2>4, <2>9, <2>13 DEF ListConn
      <4> QED BY <4>1 DEF Coming, s, t
    <3>9. Coming(p)' \subseteq Coming(p)
      BY <2>5, <3>3, <3>8
    <3>10. Coming(p) \subseteq Devs
      BY <3>1 DEF ComingInv
    <3> QED BY <3>5, <3>7, <3>9, <3>10
  <2>17. \A q \in Procs : RunOK(q)'
    BY <2>2, <2>3, <2>9, <2>10, <2>13, <2>15, <2>16, ServedList DEF t
  <2>18. \A q \in Procs, d \in Devs : c # <<q, d>>
    BY <2>3, Pairs
  <2> QED BY <2>10, <2>11, <2>12, <2>14, <2>17, <2>18, ServedStep
<1> QED BY <1>2, <1>3

LEMMA StepRecvRequestImport == ASSUME NetInv, RecvRequestImport PROVE NetInv'
<1>0. PICK c, p, d : c = daemon.c /\ p = c[1] /\ d = c[2]
  OBVIOUS
<1>1. daemon.pc = "refresh" /\ daemon.op = "import"
  BY DEF RecvRequestImport, Refreshed, Serves
<1>2. CASE Hangup(DaemonRecvFails(c))
  BY <1>0, <1>1, <1>2, StepHangup
<1>3. CASE ~Hangup(DaemonRecvFails(c))
  <2>20. PICK x : x = Head(toS[c])
    OBVIOUS
  <2>21. PICK a \in BOOLEAN : a = (Found(x) /\ Free(x) /\ Available(x))
    BY Zenon
  <2>1. /\ toS[c] # <<>> /\ x = Head(toS[c])
        /\ a = (Found(x) /\ Free(x) /\ Available(x))
        /\ IF a
           THEN /\ exported' = [exported EXCEPT ![x] = c]
                /\ sv' = [sv EXCEPT ![c] = @ \cup {"kernel"}]
                /\ granted' = granted \cup {c}
           ELSE UNCHANGED <<exported, sv, granted>>
        /\ daemon' = [daemon EXCEPT !.pc = "reply", !.error = ExportError(x, a)]
        /\ toS' = [toS EXCEPT ![c] = Tail(@)]
        /\ Rest /\ UNCHANGED <<cl, toC, backlog>>
    BY <1>0, <1>3, <2>20, <2>21 DEF RecvRequestImport
  <2>2. /\ daemon \in DaemonRec /\ c \in Conns /\ Held(c) /\ WireTypeOK /\ p \in Procs
        /\ c[2] # 0 => d \in Devs /\ DevConnInv(c)
        /\ RunOK(p) /\ c = <<p, d>>
        /\ DaemonInv /\ ListedInv /\ ExportInv
    BY <1>0, <1>1, Serving DEF NetInv
  <2>3. d # 0 /\ d \in Devs /\ DevConnInv(c) /\ c[2] # 0 /\ c[2] = d /\ c # NoConn
    BY <1>0, <1>1, <2>2, Pairs DEF DaemonInv
  <2>4. Taken(c) /\ toS[c] = <<d>> /\ toC[c] = <<>>
    BY <1>0, <1>1, <2>1, <2>2, <2>3 DEF DevConnInv, Taken
  <2>5. /\ x = d /\ toS'[c] = <<>> /\ \A y \in Conns \ {c} : toS'[y] = toS[y]
        /\ toS' = [y \in Conns |-> toS'[y]]
    <3>1. toS' = [toS EXCEPT ![c] = Tail(toS[c])]
      BY <2>1, Zenon
    <3>2. Tail(toS[c]) = <<>> /\ Head(toS[c]) = d
      BY <2>4, Messages
    <3> QED BY <2>2, <2>20, <3>1, <3>2, ToServer
  <2>6. (a => exported[d] = NoConn) /\ a \in BOOLEAN
    <3>1. a => Available(x)
      BY <2>21, Zenon
    <3> QED BY <2>5, <3>1 DEF Available
  <2>7. /\ exported' \in [Devs -> Conns \cup {NoConn}]
        /\ sv' \in [Conns -> SUBSET {"daemon", "kernel"}]
        /\ granted \subseteq granted' /\ granted' \subseteq Conns
        /\ \A y \in Conns \ {c} : sv'[y] = sv[y]
        /\ sv'[c] = sv[c] \cup IF a THEN {"kernel"} ELSE {}
        /\ \A y \in Devs \ {d} : exported'[y] = exported[y]
        /\ exported'[d] = IF a THEN c ELSE exported[d]
        /\ a => c \in granted'
    <3>1. CASE a
      <4>1. /\ exported' = [exported EXCEPT ![d] = c]
            /\ sv' = [sv EXCEPT ![c] = @ \cup {"kernel"}]
            /\ granted' = granted \cup {c}
        BY <2>1, <2>5, <3>1, Zenon
      <4> QED BY <2>2, <2>3, <3>1, <4>1 DEF WireTypeOK
    <3>2. CASE ~a
      <4>1. UNCHANGED <<exported, sv, granted>>
        BY <2>1, <3>2, Zenon
      <4> QED BY <2>2, <2>3, <3>2, <4>1 DEF WireTypeOK
    <3> QED BY <3>1, <3>2
  <2>8. /\ daemon' \in DaemonRec /\ daemon'.c = c /\ daemon'.pc = "reply"
        /\ daemon'.op = daemon.op /\ daemon'.unread = daemon.unread
        /\ daemon'.edevs = daemon.edevs /\ UNCHANGED <<set, proc, port>>
        /\ ~daemon'.error => a
    <3>1. ExportError(x, a) \in BOOLEAN /\ (~ExportError(x, a) => a)
      BY Zenon DEF ExportError
    <3>2. daemon' \in DaemonRec /\ daemon'.error = ExportError(x, a)
      BY <2>1, <2>2, <3>1 DEF DaemonRec, DaemonPcs
    <3>3. /\ daemon'.c = c /\ daemon'.pc = "reply"
          /\ daemon'.op = daemon.op /\ daemon'.unread = daemon.unread
          /\ daemon'.edevs = daemon.edevs
      BY <1>0, <2>1, <2>2 DEF DaemonRec
    <3> QED BY <2>1, <3>1, <3>2, <3>3 DEF Rest, portVars
  <2>9. OnlyConn(c)
    BY <1>0, <2>1, <2>2, <2>5, <2>7, <2>8, ServesOne
  <2>10. Taken(c)' /\ Held(c)' /\ ~Lists(c)'
    BY <2>2, <2>7, <2>8 DEF Taken, Held, Lists
  <2>11. WireTypeOK' /\ ProgramTypeOK' /\ BacklogInv' /\ DaemonInv' /\ ListedInv'
    <3>1. WireTypeOK' /\ ProgramTypeOK'
      BY <2>1, <2>2, <2>5, <2>7, <2>8, DaemonType DEF WireTypeOK, Rest, portVars
    <3>2. BacklogInv'
      BY <1>0, <2>1, <2>7, <2>8, BacklogStays DEF Held
    <3>3. DaemonInv' /\ ListedInv'
      BY <1>0, <1>1, <2>2, <2>3, <2>7, <2>8, <2>10 DEF DaemonInv, ListedInv
    <3> QED BY <3>1, <3>2, <3>3
  <2>12. ExportInv'
    <3>1. ASSUME NEW y \in Devs, exported'[y] # NoConn
          PROVE  /\ exported'[y][2] = y /\ exported'[y] \in granted'
                 /\ "kernel" \in sv'[exported'[y]]
      <4>1. CASE y = d /\ a
        BY <2>3, <2>7, <4>1
      <4>2. CASE ~(y = d /\ a)
        <5>1. exported'[y] = exported[y] /\ exported[y] \in Conns
          BY <2>2, <2>7, <3>1, <4>2 DEF WireTypeOK
        <5> QED BY <2>2, <2>7, <3>1, <5>1 DEF ExportInv
      <4> QED BY <4>1, <4>2
    <3>2. ASSUME NEW y \in Conns, "kernel" \in sv'[y]
          PROVE  y[2] # 0 /\ exported'[y[2]] = y
      <4>1. CASE y = c /\ a
        BY <2>3, <2>7, <4>1
      <4>2. CASE ~(y = c /\ a)
        <5>1. y[2] # 0 /\ exported[y[2]] = y /\ y[2] \in Devs /\ y # NoConn
          BY <2>2, <2>7, <3>2, <4>2, Pairs DEF ExportInv
        <5> QED BY <2>6, <2>7, <5>1
      <4> QED BY <4>1, <4>2
    <3> QED BY <3>1, <3>2 DEF ExportInv
  <2>13. DevConnInv(c)'
    BY <2>1, <2>3, <2>4, <2>5, <2>10, Messages DEF DevConnInv
  <2>14. ASSUME DevConn(p) = c PROVE ~In(p, "send") /\ ~In(p, "request")
    BY <2>2, <2>3, <2>4, <2>14, Messages DEF RunOK, AttachInv, DevConn
  <2>15. \A q \in Procs : RunOK(q)'
    BY <1>0, <2>2, <2>3, <2>9, <2>14, ServedDev
  <2>16. \A q \in Procs : c # ListConn(q)
    BY <2>3 DEF ListConn
  <2> QED BY <2>9, <2>11, <2>12, <2>13, <2>15, <2>16, ServedStep
<1> QED BY <1>2, <1>3

LEMMA StepSendReplyImport == ASSUME NetInv, SendReplyImport PROVE NetInv'
<1>0. PICK c, p, d : c = daemon.c /\ p = c[1] /\ d = c[2]
  OBVIOUS
<1>1. daemon.pc = "reply"
  BY DEF SendReplyImport, Serves
<1>2. PICK w : w = IF daemon.error THEN 0 ELSE d
  OBVIOUS
<1>3. /\ toC' = [toC EXCEPT ![c] = Append(@, w)]
      /\ daemon' = Idle /\ sv' = [sv EXCEPT ![c] = @ \ {"daemon"}]
      /\ Rest /\ UNCHANGED <<exported, cl, toS, granted, backlog>>
  BY <1>0, <1>2 DEF SendReplyImport, CloseSocket
<1>4. /\ daemon \in DaemonRec /\ c \in Conns /\ Held(c) /\ WireTypeOK /\ p \in Procs
      /\ c[2] # 0 => d \in Devs /\ DevConnInv(c)
      /\ RunOK(p) /\ c = <<p, d>> /\ DaemonInv
  BY <1>0, <1>1, Serving DEF NetInv
<1>5. /\ d \in Devs /\ DevConnInv(c) /\ c[2] # 0 /\ c[2] = d
      /\ w \in {0, d} /\ w \in Nat /\ (w = d => c \in granted)
  BY <1>0, <1>1, <1>2, <1>4, SharedAssumption DEF DaemonInv
<1>6. Taken(c) /\ toC[c] = <<>>
  BY <1>0, <1>1, <1>4, <1>5 DEF DevConnInv, Taken
<1>7. /\ toC' \in [Conns -> Seq(Nat)] /\ toC'[c] = <<w>>
      /\ \A y \in Conns \ {c} : toC'[y] = toC[y]
  BY <1>3, <1>4, <1>5, <1>6 DEF WireTypeOK
<1>8. /\ sv' \in [Conns -> SUBSET {"daemon", "kernel"}]
      /\ \A y \in Conns \ {c} : sv'[y] = sv[y]
      /\ sv'[c] = sv[c] \ {"daemon"}
  BY <1>3, <1>4 DEF WireTypeOK
<1>9. /\ daemon' \in DaemonRec /\ daemon'.c = NoConn /\ daemon'.pc = "poll"
      /\ daemon'.edevs = <<>> /\ UNCHANGED <<set, proc, port>>
  BY <1>3, IdleIs DEF Rest, portVars
<1>10. OnlyConn(c)
  BY <1>0, <1>3, <1>4, <1>7, <1>8, <1>9, ServesOne
<1>11. /\ WireTypeOK' /\ ProgramTypeOK' /\ BacklogInv' /\ DaemonInv' /\ ListedInv'
       /\ ExportInv'
  <2>1. WireTypeOK' /\ ProgramTypeOK'
    BY <1>3, <1>4, <1>7, <1>8, <1>9, DaemonType DEF WireTypeOK, Rest, portVars
  <2>2. BacklogInv' /\ ExportInv'
    BY <1>0, <1>3, <1>4, <1>8, <1>9, BacklogStays, ExportStays DEF Held
  <2>3. DaemonInv' /\ ListedInv'
    BY <1>9 DEF DaemonInv, ListedInv
  <2> QED BY <2>1, <2>2, <2>3
<1>12. ~Held(c)'
  BY <1>8 DEF Held
<1>13. DevConnInv(c)'
  BY <1>3, <1>5, <1>7, <1>12 DEF DevConnInv
<1>14. ASSUME DevConn(p) = c
       PROVE  ~In(p, "send") /\ (In(p, "request") => "kernel" \notin sv'[c])
  BY <1>4, <1>6, <1>8, <1>14 DEF RunOK, AttachInv
<1>15. \A q \in Procs : RunOK(q)'
  BY <1>0, <1>4, <1>5, <1>10, <1>12, <1>14, ServedDev
<1>16. \A q \in Procs : c # ListConn(q)
  BY <1>5 DEF ListConn
<1> QED BY <1>10, <1>11, <1>13, <1>15, <1>16, ServedStep

LEMMA StepDaemon == ASSUME NetInv, Daemon \/ Shutdown PROVE NetInv'
BY StepOpen, StepAccept, StepRecvCommon, StepRefreshDevice, StepRecvRequestDevlist,
   StepSendReplyDevlist, StepRecvRequestImport, StepSendReplyImport, StepShutdown
   DEF Daemon

-----------------------------------------------------------------------------
(* Steps of usbip                                                             *)

LEMMA EndedOK ==
  ASSUME NEW p \in Procs, RunOK(p), set' = set,
         proc'[p].pc = "ended", proc'[p].dev = proc[p].dev
  PROVE  RunOK(p)'
BY DEF RunOK, ListInv, AllInv, AttachInv, In, BeforeList, Attaching, Cmd

(* A run that goes on after its list, or without one, and sends nothing.      *)
LEMMA QuietMove ==
  ASSUME NetInv, NEW p \in Procs, NetQuiet,
         proc[p].pc \notin BeforeList \cup {"ended"},
         proc'[p].pc \notin BeforeList, proc'[p].dev = proc[p].dev,
         proc'[p].pc \in Attaching =>
            proc[p].pc \in Attaching \/ Cmd(p).do # "attachall",
         proc'[p].pc = "litem" => Cmd(p).do # "attach",
         AttachInv(p)'
  PROVE  RunOK(p)'
<1>1. RunOK(p)
  BY DEF NetInv, RunOK
<1>2. /\ ListConn(p)' = ListConn(p) /\ Cmd(p)' = Cmd(p)
      /\ First(p) = 1 /\ First(p)' = 1
      /\ ListConn(p) \in Conns
  BY Pairs DEF ListConn, Cmd, First, In, BeforeList, NetQuiet
<1>3. /\ \A c \in Conns : /\ Held(c)' <=> Held(c)
                          /\ Lists(c)' <=> Lists(c)
                          /\ toC'[c] = toC[c]
      /\ \A d \in Devs : Virgin(<<p, d>>) => Virgin(<<p, d>>)'
  <2>1. \A c \in Conns : /\ Held(c)' <=> Held(c)
                         /\ Lists(c)' <=> Lists(c)
                         /\ toC'[c] = toC[c]
    BY DEF NetQuiet, Lists
  <2>2. \A c \in Conns : Virgin(c) => Virgin(c)'
    BY Pairs DEF NetQuiet, Virgin
  <2> QED BY <2>1, <2>2, Pairs
<1>4. ListInv(p)'
  BY <1>1, <1>2, <1>3 DEF RunOK, ListInv, In, BeforeList
<1>5. AllInv(p)'
  <2>1. SUFFICES ASSUME Cmd(p).do = "attachall"
                 PROVE  /\ ComingInv(p)'
                        /\ proc'[p].pc \in Attaching => proc'[p].dev \notin Coming(p)'
    BY <1>2 DEF AllInv
  <2>2. ComingInv(p) /\ (proc[p].pc \in Attaching => proc[p].dev \notin Coming(p))
    BY <1>1, <2>1 DEF RunOK, AllInv, BeforeList
  <2>3. Places(p)' = Places(p) /\ Coming(p)' = Coming(p) /\ daemon' = daemon
    BY <1>2, <1>3 DEF Places, Coming, NetQuiet
  <2>4. ComingInv(p)'
    BY <1>2, <1>3, <2>2, <2>3 DEF ComingInv
  <2> QED BY <2>1, <2>2, <2>3, <2>4
<1> QED BY <1>4, <1>5 DEF RunOK

(* Nothing changes but the run, its record and its hold of sockets and ports. *)
LEMMA QuietRun ==
  ASSUME NetInv, NEW p \in Procs,
         UNCHANGED <<set, daemon, backlog, toS, toC, granted, sv, exported>>,
         port' \in [Ports -> Conns \cup {NoConn}],
         \A i \in Ports : port'[i] \in {port[i], NoConn},
         cl' \in [Conns -> SUBSET {"process", "kernel"}],
         record' \in [Ports -> Devs \cup {0}], stale' \in [Ports -> BOOLEAN],
         proc' \in [Procs -> ProcRec],
         \A q \in Procs \ {p} : proc'[q] = proc[q],
         RunOK(p)'
  PROVE  NetInv'
<1>1. NetQuiet
  BY DEF NetQuiet, Held
<1>2. WireTypeOK' /\ ProgramTypeOK'
  BY DEF NetInv, WireTypeOK, ProgramTypeOK
<1>3. ExportInv'
  BY DEF NetInv, ExportInv
<1> QED BY <1>1, <1>2, <1>3, QuietStep

(* The record of a run after a step of it.                                    *)
OnlyRun(p, pc, dev) ==
    /\ proc' \in [Procs -> ProcRec] /\ proc'[p].pc = pc /\ proc'[p].dev = dev
    /\ \A q \in Procs \ {p} : proc'[q] = proc[q]

LEMMA MovesTo ==
  ASSUME NetInv, NEW p \in Procs, NEW pc \in ProcPcs
  PROVE  /\ Goto(p, pc) => OnlyRun(p, pc, proc[p].dev) /\ proc'[p].port = proc[p].port
         /\ \A S \in SUBSET Ports : proc' = [proc EXCEPT ![p].snap = S, ![p].pc = pc]
               => OnlyRun(p, pc, proc[p].dev)
         /\ \A i \in Ports : proc' = [proc EXCEPT ![p].pc = pc, ![p].port = i]
               => OnlyRun(p, pc, proc[p].dev) /\ proc'[p].port = i
<1>1. proc \in [Procs -> ProcRec]
  BY DEF NetInv, ProgramTypeOK
<1>2. Goto(p, pc) => OnlyRun(p, pc, proc[p].dev) /\ proc'[p].port = proc[p].port
  BY <1>1 DEF OnlyRun, Goto, ProcRec
<1>3. ASSUME NEW S \in SUBSET Ports, proc' = [proc EXCEPT ![p].snap = S, ![p].pc = pc]
      PROVE  OnlyRun(p, pc, proc[p].dev)
  BY <1>1, <1>3 DEF OnlyRun, ProcRec
<1>4. ASSUME NEW i \in Ports, proc' = [proc EXCEPT ![p].pc = pc, ![p].port = i]
      PROVE  OnlyRun(p, pc, proc[p].dev) /\ proc'[p].port = i
  BY <1>1, <1>4 DEF OnlyRun, ProcRec
<1> QED BY <1>2, <1>3, <1>4

LEMMA Leaves ==
  ASSUME NetInv, NEW p \in Procs, NEW at, Leave(p, at), Others,
         UNCHANGED <<sv, toS, toC, record, backlog>>
  PROVE  NetInv'
<1>1. WireTypeOK /\ ProgramTypeOK /\ RunOK(p)
  BY DEF NetInv, RunOK
<1>2. /\ proc' \in [Procs -> ProcRec] /\ proc'[p].pc = "ended"
      /\ proc'[p].dev = proc[p].dev /\ \A q \in Procs \ {p} : proc'[q] = proc[q]
  BY MovesTo DEF Leave, OnlyRun, Goto, ProcPcs
<1>3. cl' \in [Conns -> SUBSET {"process", "kernel"}]
  BY <1>1 DEF Leave, ProgramTypeOK
<1>4. /\ port' \in [Ports -> Conns \cup {NoConn}]
      /\ \A i \in Ports : port'[i] \in {port[i], NoConn}
  BY <1>1 DEF Leave, WireTypeOK
<1>5. stale' \in [Ports -> BOOLEAN]
  <2>1. \A i \in Ports : (stale[i] \/ (at = "record" /\ port[i] = DevConn(p))) \in BOOLEAN
    BY Zenon
  <2> QED BY <2>1, Zenon DEF Leave
<1>6. record' \in [Ports -> Devs \cup {0}]
  BY <1>1 DEF ProgramTypeOK
<1>7. UNCHANGED <<set, daemon, backlog, toS, toC, granted, sv, exported>>
  BY DEF Others
<1>8. RunOK(p)'
  BY <1>1, <1>2, <1>7, EndedOK
<1> QED BY <1>2, <1>3, <1>4, <1>5, <1>6, <1>7, <1>8, QuietRun

LEMMA StepExit == ASSUME NetInv, NEW p \in Procs, Exit(p) PROVE NetInv'
BY Leaves DEF Exit

LEMMA StepKill == ASSUME NetInv, NEW p \in Procs, Kill(p) PROVE NetInv'
BY Leaves DEF Kill

(* A step that moves the run to another place and changes no socket or port.  *)
LEMMA GoesTo ==
  ASSUME NetInv, NEW p \in Procs, Others, NoNet, UNCHANGED portVars,
         proc' \in [Procs -> ProcRec], \A q \in Procs \ {p} : proc'[q] = proc[q],
         RunOK(p)'
  PROVE  NetInv'
<1>1. UNCHANGED <<set, daemon, backlog, toS, toC, granted, sv, exported, port, cl,
                  record, stale>>
  BY DEF Others, NoNet, netVars, portVars
<1>2. WireTypeOK /\ ProgramTypeOK
  BY DEF NetInv
<1> QED BY <1>1, <1>2, QuietRun DEF WireTypeOK, ProgramTypeOK

LEMMA StepAttachFails ==
  ASSUME NetInv, NEW p \in Procs, AttachFails(p), proc[p].pc \in Attaching
  PROVE  NetInv'
<1>1. CASE Cmd(p).do = "attachall"
  <2>1. /\ proc' = [proc EXCEPT ![p].pc = "litem"]
        /\ Others /\ NoNet /\ UNCHANGED portVars
    BY <1>1 DEF AttachFails, Goto
  <2>2. /\ proc' \in [Procs -> ProcRec] /\ proc'[p].pc = "litem"
        /\ proc'[p].dev = proc[p].dev /\ \A q \in Procs \ {p} : proc'[q] = proc[q]
    BY <2>1, MovesTo DEF OnlyRun, Goto, ProcPcs
  <2>3. NetQuiet
    BY <2>1 DEF NetQuiet, Others, NoNet, netVars, portVars, Held
  <2>4. Cmd(p)' = Cmd(p)
    BY <2>3 DEF NetQuiet, Cmd
  <2>5. AttachInv(p)'
    BY <1>1, <2>2, <2>4 DEF AttachInv, In, Attaching
  <2>6. RunOK(p)'
    BY <1>1, <2>2, <2>3, <2>5, QuietMove DEF Attaching, BeforeList
  <2> QED BY <2>1, <2>2, <2>6, GoesTo
<1>2. CASE Cmd(p).do # "attachall"
  BY <1>2, StepExit DEF AttachFails
<1> QED BY <1>1, <1>2

LEMMA StepDriverOpen == ASSUME NetInv, NEW p \in Procs, DriverOpen(p) PROVE NetInv'
<1>1. /\ proc' = [proc EXCEPT ![p].snap = Used, ![p].pc = "port"]
      /\ Others /\ NoNet /\ UNCHANGED portVars /\ proc[p].pc = "open"
  BY DEF DriverOpen, ReadStatus, In
<1>2. /\ proc' \in [Procs -> ProcRec] /\ proc'[p].pc = "port"
      /\ proc'[p].dev = proc[p].dev /\ \A q \in Procs \ {p} : proc'[q] = proc[q]
  <2>1. Used \in SUBSET Ports /\ "port" \in ProcPcs
    BY DEF Used, ProcPcs
  <2> QED BY <1>1, <2>1, MovesTo DEF OnlyRun
<1>3. NetQuiet
  BY <1>1 DEF NetQuiet, Others, NoNet, netVars, portVars, Held
<1>4. Cmd(p)' = Cmd(p) /\ DevConn(p)' = DevConn(p) /\ port' = port /\ sv' = sv
  BY <1>1, <1>2 DEF Cmd, DevConn, Others, portVars, NoNet, netVars
<1>5. AttachInv(p)'
  BY <1>1, <1>2, <1>3, <1>4 DEF NetInv, AttachInv, In, Attaching, NetQuiet, Held
<1>6. RunOK(p)'
  BY <1>1, <1>2, <1>3, <1>5, QuietMove DEF Attaching, BeforeList
<1> QED BY <1>1, <1>2, <1>6, GoesTo

LEMMA StepDetachOpen == ASSUME NetInv, NEW p \in Procs, DetachOpen(p) PROVE NetInv'
<1>1. /\ proc' = [proc EXCEPT ![p].snap = Used, ![p].pc = "detach"]
      /\ Others /\ NoNet /\ UNCHANGED portVars /\ proc[p].pc = "dopen"
  BY DEF DetachOpen, ReadStatus, In
<1>2. /\ proc' \in [Procs -> ProcRec] /\ proc'[p].pc = "detach"
      /\ proc'[p].dev = proc[p].dev /\ \A q \in Procs \ {p} : proc'[q] = proc[q]
  <2>1. Used \in SUBSET Ports /\ "detach" \in ProcPcs
    BY DEF Used, ProcPcs
  <2> QED BY <1>1, <2>1, MovesTo DEF OnlyRun
<1>3. NetQuiet
  BY <1>1 DEF NetQuiet, Others, NoNet, netVars, portVars, Held
<1>4. Cmd(p)' = Cmd(p)
  BY <1>3 DEF Cmd, NetQuiet
<1>5. AttachInv(p)'
  BY <1>1, <1>2, <1>4 DEF NetInv, AttachInv, In, Attaching
<1>6. RunOK(p)'
  BY <1>1, <1>2, <1>3, <1>5, QuietMove DEF Attaching, BeforeList
<1> QED BY <1>1, <1>2, <1>6, GoesTo

LEMMA StepGetFreePort == ASSUME NetInv, NEW p \in Procs, GetFreePort(p) PROVE NetInv'
<1>1. proc[p].pc = "port"
  BY DEF GetFreePort, In
<1>2. CASE AttachFails(p)
  BY <1>1, <1>2, StepAttachFails DEF Attaching
<1>3. CASE ~AttachFails(p)
  <2>1. PICK i \in FreePorts(p) :
          /\ proc' = [proc EXCEPT ![p].pc = "attach", ![p].port = i]
          /\ Others /\ NoNet /\ UNCHANGED portVars
    BY <1>3 DEF GetFreePort
  <2>2. i \in Ports
    BY CommandAssumption DEF FreePorts, NetInv, ProgramTypeOK
  <2>3. /\ proc' \in [Procs -> ProcRec] /\ proc'[p].pc = "attach" /\ proc'[p].port = i
        /\ proc'[p].dev = proc[p].dev /\ \A q \in Procs \ {p} : proc'[q] = proc[q]
    BY <2>1, <2>2, MovesTo DEF OnlyRun, ProcPcs
  <2>4. NetQuiet
    BY <2>1 DEF NetQuiet, Others, NoNet, netVars, portVars, Held
  <2>5. Cmd(p)' = Cmd(p) /\ DevConn(p)' = DevConn(p) /\ port' = port /\ sv' = sv
    BY <2>1, <2>3 DEF Cmd, DevConn, Others, portVars, NoNet, netVars
  <2>6. AttachInv(p)'
    BY <1>1, <2>2, <2>3, <2>4, <2>5 DEF NetInv, AttachInv, In, Attaching, NetQuiet, Held
  <2>7. RunOK(p)'
    BY <1>1, <2>3, <2>4, <2>6, QuietMove DEF Attaching, BeforeList
  <2> QED BY <2>1, <2>3, <2>7, GoesTo
<1> QED BY <1>2, <1>3

LEMMA StepRecordConnection ==
  ASSUME NetInv, NEW p \in Procs, RecordConnection(p)
  PROVE  NetInv'
<1> DEFINE i == proc[p].port
<1>1. WireTypeOK /\ ProgramTypeOK /\ RunOK(p) /\ proc[p].pc = "record"
  BY DEF NetInv, RunOK, RecordConnection, In
<1>2. i \in Ports /\ proc[p].dev \in Devs
  BY <1>1 DEF RunOK, AttachInv
<1>3. /\ record' \in [Ports -> Devs \cup {0}] /\ stale' \in [Ports -> BOOLEAN]
  <2>1. CASE record' = [record EXCEPT ![i] = Recorded(p)] /\ UNCHANGED stale
    BY <1>1, <1>2, <2>1 DEF ProgramTypeOK, Recorded
  <2>2. CASE /\ stale' = [stale EXCEPT ![i] = @ \/ port[i] = DevConn(p)]
             /\ UNCHANGED record
    <3>1. PICK b \in BOOLEAN : b = (stale[i] \/ port[i] = DevConn(p))
      BY Zenon
    <3>2. stale' = [stale EXCEPT ![i] = b]
      BY <2>2, <3>1, Zenon
    <3> QED BY <1>1, <2>2, <3>2 DEF ProgramTypeOK
  <2> QED BY <2>1, <2>2 DEF RecordConnection
<1>4. /\ UNCHANGED <<set, daemon, backlog, toS, toC, granted, sv, exported, port>>
      /\ Others
  BY DEF RecordConnection, Others
<1>5. cl' \in [Conns -> SUBSET {"process", "kernel"}]
  BY <1>1 DEF RecordConnection, ProgramTypeOK
<1>6. NetQuiet
  BY <1>4 DEF NetQuiet, Held
<1>7. CASE Cmd(p).do = "attachall"
  <2>1. OnlyRun(p, "litem", proc[p].dev)
    BY <1>7, MovesTo DEF RecordConnection, ProcPcs
  <2>2. Cmd(p)' = Cmd(p)
    BY <1>6 DEF NetQuiet, Cmd
  <2>3. AttachInv(p)'
    BY <1>7, <2>1, <2>2 DEF AttachInv, In, Attaching, OnlyRun
  <2>4. RunOK(p)'
    BY <1>1, <1>6, <1>7, <2>1, <2>3, QuietMove DEF Attaching, BeforeList, OnlyRun
  <2> QED BY <1>1, <1>3, <1>4, <1>5, <2>1, <2>4, QuietRun DEF WireTypeOK, OnlyRun
<1>8. CASE Cmd(p).do # "attachall"
  <2>1. OnlyRun(p, "ended", proc[p].dev)
    BY <1>8, MovesTo DEF RecordConnection, ProcPcs
  <2>2. RunOK(p)'
    BY <1>1, <1>4, <2>1, EndedOK DEF OnlyRun
  <2> QED BY <1>1, <1>3, <1>4, <1>5, <2>1, <2>2, QuietRun DEF WireTypeOK, OnlyRun
<1> QED BY <1>7, <1>8

LEMMA StepForwardEnds == ASSUME NetInv, NEW p \in Procs, ForwardEnds(p) PROVE NetInv'
BY StepExit DEF ForwardEnds

LEMMA StepDetachPort == ASSUME NetInv, NEW p \in Procs, DetachPort(p) PROVE NetInv'
<1>1. CASE Exit(p)
  BY <1>1, StepExit
<1>2. CASE ~Exit(p)
  <2>1. PICK i : /\ port[i] # NoConn
                 /\ port' = [port EXCEPT ![i] = NoConn]
                 /\ cl' = [cl EXCEPT ![port[i]] = @ \ {"kernel"}]
                 /\ Goto(p, "ended")
                 /\ Others /\ UNCHANGED <<sv, toS, toC, backlog, record, stale>>
    BY <1>2 DEF DetachPort
  <2>2. WireTypeOK /\ ProgramTypeOK /\ RunOK(p)
    BY DEF NetInv, RunOK
  <2>3. OnlyRun(p, "ended", proc[p].dev)
    BY <2>1, MovesTo DEF ProcPcs
  <2>4. /\ port' \in [Ports -> Conns \cup {NoConn}]
        /\ \A j \in Ports : port'[j] \in {port[j], NoConn}
        /\ cl' \in [Conns -> SUBSET {"process", "kernel"}]
    BY <2>1, <2>2 DEF WireTypeOK, ProgramTypeOK
  <2>5. UNCHANGED <<set, daemon, backlog, toS, toC, granted, sv, exported, record, stale>>
    BY <2>1 DEF Others
  <2>6. RunOK(p)'
    BY <2>2, <2>3, <2>5, EndedOK DEF OnlyRun
  <2> QED BY <2>2, <2>3, <2>4, <2>5, <2>6, QuietRun DEF ProgramTypeOK, OnlyRun
<1> QED BY <1>1, <1>2

(* attach on Windows has seen its device in the list.                         *)
LEMMA StepListRead == ASSUME NetInv, NEW p \in Procs, ListRead(p) PROVE NetInv'
<1>1. CASE Exit(p)
  BY <1>1, StepExit
<1>2. CASE ~Exit(p)
  <2>1. /\ In(p, "litem") /\ Cmd(p).do = "attach"
        /\ cl' = [cl EXCEPT ![ListConn(p)] = {}]
        /\ Goto(p, "connect")
        /\ Others /\ UNCHANGED <<sv, toS, toC, backlog, portVars>>
    BY <1>2 DEF ListRead
  <2>2. WireTypeOK /\ ProgramTypeOK /\ RunOK(p)
    BY DEF NetInv, RunOK
  <2>3. OnlyRun(p, "connect", proc[p].dev)
    BY <2>1, MovesTo DEF ProcPcs
  <2>4. UNCHANGED <<set, daemon, backlog, toS, toC, granted, sv, exported, record,
                    stale, port>>
    BY <2>1 DEF Others, portVars
  <2>5. NetQuiet
    BY <2>4 DEF NetQuiet, Held
  <2>6. cl' \in [Conns -> SUBSET {"process", "kernel"}]
    BY <2>1, <2>2 DEF ProgramTypeOK
  <2>7. Virgin(DevConn(p)) /\ proc[p].dev \in Devs
    BY <2>1, <2>2 DEF RunOK, ListInv, AttachInv
  <2>8. Cmd(p)' = Cmd(p) /\ DevConn(p)' = DevConn(p)
    BY <2>3, <2>4 DEF Cmd, DevConn, OnlyRun
  <2>9. AttachInv(p)'
    BY <2>1, <2>3, <2>4, <2>7, <2>8 DEF AttachInv, In, OnlyRun, Virgin
  <2>10. RunOK(p)'
    BY <2>1, <2>3, <2>5, <2>9, QuietMove DEF BeforeList, OnlyRun, In
  <2> QED BY <2>2, <2>3, <2>4, <2>6, <2>10, QuietRun
             DEF WireTypeOK, ProgramTypeOK, OnlyRun
<1> QED BY <1>1, <1>2

LEMMA StepLost == ASSUME NetInv, NEW i \in Ports, Lost(i) PROVE NetInv'
<1>1. WireTypeOK /\ ProgramTypeOK
  BY DEF NetInv
<1>2. /\ UNCHANGED <<set, daemon, backlog, toS, toC, granted, sv, exported, record,
                     stale, proc>>
      /\ port' = [port EXCEPT ![i] = NoConn]
      /\ cl' = [cl EXCEPT ![port[i]] = @ \ {"kernel"}]
  BY DEF Lost
<1>3. /\ port' \in [Ports -> Conns \cup {NoConn}]
      /\ \A j \in Ports : port'[j] \in {port[j], NoConn}
      /\ cl' \in [Conns -> SUBSET {"process", "kernel"}]
  BY <1>1, <1>2 DEF WireTypeOK, ProgramTypeOK
<1>4. NetQuiet
  BY <1>2, <1>3 DEF NetQuiet, Held
<1>5. WireTypeOK' /\ ProgramTypeOK'
  BY <1>1, <1>2, <1>3 DEF WireTypeOK, ProgramTypeOK
<1>6. ExportInv'
  BY <1>2 DEF NetInv, ExportInv
<1> QED BY <1>2, <1>4, <1>5, <1>6, QuietStep

(* A step of a run in one of its own connections.                             *)
OnlyOwn(p, c) ==
    /\ UNCHANGED <<set, granted, exported, daemon>>
    /\ \A x \in Conns \ {c} : toS'[x] = toS[x] /\ toC'[x] = toC[x] /\ sv'[x] = sv[x]
    /\ \A i \in Ports : port'[i] \in {port[i], c}
    /\ \A q \in Procs \ {p} : proc'[q] = proc[q]

LEMMA OwnStep ==
  ASSUME NetInv, NEW p \in Procs, NEW dv \in Devs \cup {0}, OnlyOwn(p, <<p, dv>>),
         WireTypeOK', ProgramTypeOK', DaemonInv', BacklogInv', ExportInv', PortInv',
         dv = 0 => ListConnInv(<<p, dv>>)',
         dv # 0 => DevConnInv(<<p, dv>>)',
         RunOK(p)'
  PROVE  NetInv'
<1> DEFINE c == <<p, dv>>
<1>1. /\ WireTypeOK /\ ListedInv
      /\ \A q \in Procs : ListConnInv(ListConn(q)) /\ RunOK(q)
      /\ \A q \in Procs, d \in Devs : DevConnInv(<<q, d>>)
      /\ c \in Conns /\ c[2] = dv /\ 0 \notin Devs
  BY Pairs DEF NetInv, RunOK
<1>2. ListedInv'
  BY <1>1 DEF ListedInv, OnlyOwn
<1>3. \A q \in Procs : RunOK(q)'
  <2>1. SUFFICES ASSUME NEW q \in Procs, q # p PROVE RunOK(q)'
    OBVIOUS
  <2>2. ASSUME NEW d \in Devs \cup {0}
        PROVE  /\ <<q, d>> \in Conns \ {c} /\ SameConn(<<q, d>>)
               /\ \A i \in Ports : port'[i] = <<q, d>> => port[i] = <<q, d>>
    <3>1. <<q, d>> \in Conns /\ <<q, d>> # c
      BY <2>1, Pairs
    <3> QED BY <3>1 DEF OnlyOwn, SameConn, Taken, Lists, Held
  <2>3. SameFor(q, {})
    BY <2>1, <2>2 DEF SameFor, OnlyOwn
  <2> QED BY <1>1, <2>3, RunStaysOK
<1>4. \A q \in Procs : ListConnInv(ListConn(q))'
  <2>1. SUFFICES ASSUME NEW q \in Procs, ListConn(q) # c PROVE ListConnInv(ListConn(q))'
    BY <1>1 DEF ListConn
  <2>2. PICK x \in Conns \ {c} : x = ListConn(q) /\ ListConn(q)' = x
    BY <2>1, Pairs DEF ListConn
  <2>3. ListConnInv(x)
    BY <1>1, <2>2
  <2>4. ListConnInv(x)'
    BY <2>3 DEF ListConnInv, OnlyOwn, Held, Lists
  <2> QED BY <2>2, <2>4
<1>5. \A q \in Procs, d \in Devs : DevConnInv(<<q, d>>)'
  <2>1. SUFFICES ASSUME NEW q \in Procs, NEW d \in Devs, <<q, d>> # c
                 PROVE  DevConnInv(<<q, d>>)'
    BY <1>1
  <2>2. PICK x \in Conns \ {c} : x = <<q, d>>
    BY <2>1, Pairs
  <2>3. DevConnInv(x)
    BY <1>1, <2>2
  <2>4. DevConnInv(x)'
    BY <2>3 DEF DevConnInv, OnlyOwn, Held, Taken
  <2> QED BY <2>2, <2>4
<1> QED BY <1>2, <1>3, <1>4, <1>5 DEF NetInv, RunOK

(* A connection is opened.                                                    *)
LEMMA Opens ==
  ASSUME NetInv, NEW p \in Procs, NEW d \in Devs \cup {0}, NEW pc \in ProcPcs,
         Virgin(<<p, d>>),
         cl' = [cl EXCEPT ![<<p, d>>] = {"process"}],
         sv' = [sv EXCEPT ![<<p, d>>] = {"daemon"}],
         backlog' = Append(backlog, <<p, d>>),
         Goto(p, pc), Others, UNCHANGED <<toS, toC, portVars>>,
         RunOK(p)'
  PROVE  NetInv'
<1> DEFINE c == <<p, d>>
<1>1. /\ WireTypeOK /\ ProgramTypeOK /\ DaemonInv /\ BacklogInv /\ ExportInv /\ PortInv
      /\ c \in Conns /\ c[2] = d /\ c[1] = p /\ 0 \notin Devs /\ c # NoConn
      /\ ListConnInv(ListConn(p)) /\ \A e \in Devs : DevConnInv(<<p, e>>)
  BY Pairs DEF NetInv
<1>2. OnlyRun(p, pc, proc[p].dev)
  BY MovesTo
<1> HIDE DEF c
<1>3. /\ sv' \in [Conns -> SUBSET {"daemon", "kernel"}] /\ sv'[c] = {"daemon"}
      /\ \A x \in Conns \ {c} : sv'[x] = sv[x]
      /\ cl' \in [Conns -> SUBSET {"process", "kernel"}]
  BY <1>1 DEF WireTypeOK, ProgramTypeOK, c
<1>4. UNCHANGED <<set, granted, exported, daemon, toS, toC, port, record, stale>>
  BY DEF Others, portVars
<1>5. OnlyOwn(p, c)
  BY <1>2, <1>3, <1>4 DEF OnlyOwn, OnlyRun
<1>6. /\ toS[c] = <<>> /\ toC[c] = <<>> /\ ~Held(c) /\ Held(c)' /\ sv[c] = {}
      /\ \A i \in Ports : port[i] # c
      /\ \A x \in Conns : Held(x) => x # c /\ Held(x)'
  BY <1>3 DEF Virgin, Held, c
<1>7. /\ backlog' \in Seq(Conns) /\ Len(backlog') = Len(backlog) + 1
      /\ backlog'[Len(backlog) + 1] = c /\ Len(backlog) \in Nat
      /\ \A i \in 1 .. Len(backlog) : backlog'[i] = backlog[i] /\ backlog[i] \in Conns
      /\ DOMAIN backlog = 1 .. Len(backlog) /\ DOMAIN backlog' = 1 .. Len(backlog) + 1
  <2>1. backlog \in Seq(Conns) /\ backlog' = Append(backlog, c)
    BY <1>1 DEF WireTypeOK, c
  <2> QED BY <1>1, <2>1, AppendProperties
<1>8. WireTypeOK' /\ ProgramTypeOK'
  BY <1>1, <1>2, <1>3, <1>4, <1>7 DEF WireTypeOK, ProgramTypeOK, OnlyRun
<1>9. DaemonInv'
  BY <1>1, <1>4, <1>6 DEF DaemonInv
<1>10. c # daemon.c
  BY <1>1, <1>6 DEF DaemonInv
<1>11. BacklogInv'
  <2>0. PICK B, n : B = backlog' /\ n = Len(backlog)
    OBVIOUS
  <2>1. \A i \in 1 .. n : /\ "daemon" \in sv'[backlog[i]] /\ backlog[i] # daemon.c
                          /\ backlog[i] # c
    BY <1>1, <1>6, <1>7, <2>0 DEF BacklogInv, Held
  <2>2. /\ n \in Nat /\ DOMAIN B = 1 .. n + 1 /\ B[n + 1] = c
        /\ \A i \in 1 .. n : B[i] = backlog[i]
        /\ \A i \in DOMAIN B : i \in 1 .. n \/ i = n + 1
    BY <1>7, <2>0
  <2>3. \A i, j \in 1 .. n : i # j => backlog[i] # backlog[j]
    BY <1>1, <1>7, <2>0 DEF BacklogInv
  <2>4. \A i \in DOMAIN B : "daemon" \in sv'[B[i]] /\ B[i] # daemon.c
    BY <1>6, <1>10, <2>1, <2>2 DEF Held
  <2>5. \A i, j \in DOMAIN B : i # j => B[i] # B[j]
    <3>1. SUFFICES ASSUME NEW i \in DOMAIN B, NEW j \in DOMAIN B, i # j
                   PROVE  B[i] # B[j]
      OBVIOUS
    <3>2. CASE i \in 1 .. n /\ j \in 1 .. n
      BY <2>2, <2>3, <3>1, <3>2
    <3>3. CASE i = n + 1 /\ j \in 1 .. n
      BY <2>1, <2>2, <3>3
    <3>4. CASE i \in 1 .. n /\ j = n + 1
      BY <2>1, <2>2, <3>4
    <3> QED BY <2>2, <3>1, <3>2, <3>3, <3>4
  <2> QED BY <1>4, <2>0, <2>4, <2>5 DEF BacklogInv, Held
<1>12. ExportInv'
  <2>1. \A x \in Conns : "kernel" \in sv'[x] <=> "kernel" \in sv[x]
    BY <1>3, <1>6
  <2> QED BY <1>4, <2>1, ExportStays
<1>13. PortInv'
  BY <1>1, <1>3, <1>4, <1>6 DEF PortInv, WireTypeOK, Held
<1>14. d = 0 => ListConnInv(c)'
  BY <1>1, <1>4, <1>6, Messages, SharedAssumption DEF ListConnInv, ListConn, c
<1>15. d # 0 => DevConnInv(c)'
  BY <1>1, <1>4, <1>6, Messages DEF DevConnInv
<1> QED BY <1>1, <1>5, <1>8, <1>9, <1>11, <1>12, <1>13, <1>14, <1>15, OwnStep DEF c

LEMMA StepConnectForList ==
  ASSUME NetInv, NEW p \in Procs, ConnectForList(p)
  PROVE  NetInv'
<1>1. CASE Exit(p)
  BY <1>1, StepExit
<1>2. CASE ~Exit(p)
  <2> DEFINE c == ListConn(p)
  <2>1. /\ In(p, "lconnect")
        /\ cl' = [cl EXCEPT ![c] = {"process"}]
        /\ sv' = [sv EXCEPT ![c] = {"daemon"}]
        /\ backlog' = Append(backlog, c)
        /\ Goto(p, "lsend")
        /\ Others /\ UNCHANGED <<toS, toC, portVars>>
    BY <1>2 DEF ConnectForList, Connect
  <2>2. /\ WireTypeOK /\ RunOK(p) /\ DaemonInv /\ c = <<p, 0>> /\ c \in Conns
        /\ c # NoConn /\ \A d \in Devs : <<p, d>> \in Conns \ {c}
    BY Pairs DEF NetInv, RunOK, ListConn
  <2>3. OnlyRun(p, "lsend", proc[p].dev)
    BY <2>1, MovesTo DEF ProcPcs
  <2>4. UNCHANGED <<set, granted, exported, daemon, toS, toC, port>>
    BY <2>1 DEF Others, portVars
  <2>5. Virgin(c) /\ \A d \in Devs : Virgin(<<p, d>>)
    BY <2>1, <2>2 DEF RunOK, ListInv, In, BeforeList
  <2>6. ~Held(c) /\ ~Taken(c)
    BY <2>2, <2>5 DEF Virgin, Held, Taken, DaemonInv
  <2>7. Cmd(p)' = Cmd(p) /\ ListConn(p)' = c
    BY <2>4 DEF Cmd, ListConn
  <2>8. \A d \in Devs : Virgin(<<p, d>>)'
    BY <2>1, <2>2, <2>4, <2>5 DEF Virgin, WireTypeOK
  <2>9. ListInv(p)'
    BY <2>3, <2>4, <2>5, <2>6, <2>7, <2>8 DEF ListInv, In, OnlyRun, Virgin, Taken
  <2>10. AllInv(p)' /\ AttachInv(p)'
    BY <2>2, <2>3, <2>7 DEF AllInv, RunOK, AttachInv, In, Attaching, OnlyRun
  <2>11. RunOK(p)' /\ "lsend" \in ProcPcs /\ 0 \in Devs \cup {0}
    BY <2>9, <2>10 DEF RunOK, ProcPcs
  <2> QED BY <2>1, <2>2, <2>5, <2>11, Opens
<1> QED BY <1>1, <1>2

(* While a run attaches a device, what it does is nothing to its list, and    *)
(* the device is not one that is still to come.                               *)
LEMMA OwnMove ==
  ASSUME NetInv, NEW p \in Procs, OnlyOwn(p, DevConn(p)), proc[p].pc \in Attaching,
         proc'[p].pc \in Attaching \cup {"record", "forward"}, proc'[p].dev = proc[p].dev
  PROVE  ListInv(p)' /\ AllInv(p)'
<1>1. PICK c, d : c = DevConn(p) /\ d = proc[p].dev
  OBVIOUS
<1>2. d \in Devs /\ c = <<p, d>> /\ RunOK(p)
  BY <1>1 DEF NetInv, AttachInv, RunOK, DevConn
<1>3. ListConn(p) \in Conns \ {c} /\ \A e \in Devs \ {d} : <<p, e>> \in Conns \ {c}
  BY <1>2, Pairs DEF ListConn
<1>4. /\ Cmd(p)' = Cmd(p) /\ ListConn(p)' = ListConn(p)
      /\ First(p) = 1 /\ First(p)' = 1 /\ daemon' = daemon
  BY DEF OnlyOwn, Cmd, ListConn, First, In, Attaching
<1>5. /\ Held(ListConn(p))' <=> Held(ListConn(p))
      /\ Lists(ListConn(p))' <=> Lists(ListConn(p))
      /\ toC'[ListConn(p)] = toC[ListConn(p)]
  BY <1>1, <1>3, <1>4 DEF OnlyOwn, Held, Lists
<1>6. \A e \in Devs \ {d} : Virgin(<<p, e>>) => Virgin(<<p, e>>)'
  BY <1>1, <1>3 DEF OnlyOwn, Virgin
<1>7. ListInv(p)'
  BY <1>2, <1>4, <1>5 DEF RunOK, ListInv, In, BeforeList, Attaching
<1>8. AllInv(p)'
  <2>1. SUFFICES ASSUME Cmd(p).do = "attachall"
                 PROVE  ComingInv(p)' /\ proc'[p].dev \notin Coming(p)'
    BY <1>4 DEF AllInv
  <2>2. ComingInv(p) /\ d \notin Coming(p)
    BY <1>1, <1>2, <2>1 DEF RunOK, AllInv, Attaching
  <2>3. Places(p)' = Places(p) /\ Coming(p)' = Coming(p)
    BY <1>4, <1>5 DEF Places, Coming
  <2> QED BY <1>1, <1>4, <1>5, <1>6, <2>2, <2>3 DEF ComingInv
<1> QED BY <1>7, <1>8

LEMMA StepConnectForImport ==
  ASSUME NetInv, NEW p \in Procs, ConnectForImport(p)
  PROVE  NetInv'
<1>0. In(p, "connect")
  BY DEF ConnectForImport, Connect
<1>1. CASE AttachFails(p)
  BY <1>0, <1>1, StepAttachFails DEF Attaching, In
<1>2. CASE ~AttachFails(p)
  <2>0. PICK c, d : c = DevConn(p) /\ d = proc[p].dev
    OBVIOUS
  <2>1. /\ cl' = [cl EXCEPT ![c] = {"process"}]
        /\ sv' = [sv EXCEPT ![c] = {"daemon"}]
        /\ backlog' = Append(backlog, c)
        /\ Goto(p, "send")
        /\ Others /\ UNCHANGED <<toS, toC, portVars>>
    BY <1>2, <2>0 DEF ConnectForImport, Connect
  <2>2. /\ WireTypeOK /\ RunOK(p) /\ DaemonInv /\ c = <<p, d>> /\ d \in Devs
        /\ c \in Conns /\ c # NoConn
        /\ ListConn(p) \in Conns \ {c} /\ \A e \in Devs \ {d} : <<p, e>> \in Conns \ {c}
    <3>1. d \in Devs /\ c = <<p, d>>
      BY <1>0, <2>0 DEF NetInv, AttachInv, In, Attaching, DevConn
    <3> QED BY <3>1, Pairs DEF NetInv, RunOK, ListConn
  <2>3. OnlyRun(p, "send", d)
    BY <2>0, <2>1, MovesTo DEF ProcPcs
  <2>4. UNCHANGED <<set, granted, exported, daemon, toS, toC, port>>
    BY <2>1 DEF Others, portVars
  <2>5. Virgin(c)
    BY <1>0, <2>0, <2>2 DEF RunOK, AttachInv
  <2>6. ~Held(c) /\ ~Taken(c) /\ sv'[c] = {"daemon"}
        /\ \A x \in Conns \ {c} : sv'[x] = sv[x]
    <3>1. ~Held(c) /\ ~Taken(c)
      BY <2>2, <2>5 DEF Virgin, Held, Taken, DaemonInv
    <3>2. sv'[c] = {"daemon"} /\ \A x \in Conns \ {c} : sv'[x] = sv[x]
      BY <2>1, <2>2 DEF WireTypeOK
    <3> QED BY <3>1, <3>2
  <2>7. Cmd(p)' = Cmd(p) /\ DevConn(p)' = c
    BY <2>0, <2>2, <2>3, <2>4 DEF Cmd, DevConn, OnlyRun
  <2>8. OnlyOwn(p, c)
    BY <2>3, <2>4, <2>6 DEF OnlyOwn, OnlyRun
  <2>9. ListInv(p)' /\ AllInv(p)'
    BY <1>0, <2>0, <2>3, <2>8, OwnMove DEF In, Attaching, OnlyRun
  <2>10. AttachInv(p)'
    BY <2>2, <2>3, <2>4, <2>5, <2>6, <2>7 DEF AttachInv, In, OnlyRun, Virgin, Taken
  <2>11. RunOK(p)' /\ "send" \in ProcPcs
    BY <2>9, <2>10 DEF RunOK, ProcPcs
  <2> QED BY <2>1, <2>2, <2>5, <2>11, Opens
<1> QED BY <1>1, <1>2

(* A word is sent in a connection, or taken from it.                          *)
LEMMA Traffic ==
  ASSUME NetInv, NEW p \in Procs, NEW d \in Devs \cup {0},
         Others, UNCHANGED <<cl, sv, backlog, portVars>>,
         toS' = [x \in Conns |-> toS'[x]], toC' \in [Conns -> Seq(Nat)],
         \A x \in Conns \ {<<p, d>>} : toS'[x] = toS[x] /\ toC'[x] = toC[x],
         proc' \in [Procs -> ProcRec], \A q \in Procs \ {p} : proc'[q] = proc[q],
         d = 0 => ListConnInv(<<p, d>>)',
         d # 0 => DevConnInv(<<p, d>>)',
         RunOK(p)'
  PROVE  NetInv' /\ OnlyOwn(p, <<p, d>>)
<1>1. /\ WireTypeOK /\ ProgramTypeOK /\ DaemonInv /\ BacklogInv /\ ExportInv /\ PortInv
  BY DEF NetInv
<1>2. UNCHANGED <<set, granted, exported, daemon, sv, cl, backlog, port, record, stale>>
  BY DEF Others, portVars
<1>3. OnlyOwn(p, <<p, d>>)
  BY <1>2 DEF OnlyOwn
<1>4. WireTypeOK' /\ ProgramTypeOK' /\ DaemonInv' /\ BacklogInv' /\ ExportInv' /\ PortInv'
  BY <1>1, <1>2
     DEF WireTypeOK, ProgramTypeOK, DaemonInv, BacklogInv, ExportInv, PortInv, Held
<1> QED BY <1>3, <1>4, OwnStep

LEMMA StepSendDevlist == ASSUME NetInv, NEW p \in Procs, SendDevlist(p) PROVE NetInv'
<1>1. CASE Exit(p)
  BY <1>1, StepExit
<1>2. CASE ~Exit(p)
  <2>0. PICK c : c = ListConn(p)
    OBVIOUS
  <2>1. /\ In(p, "lsend")
        /\ toS' = [toS EXCEPT ![c] = Append(toS[c], "devlist")]
        /\ Goto(p, "lcommon")
        /\ Others /\ UNCHANGED <<cl, sv, toC, backlog, portVars>>
    BY <1>2, <2>0 DEF SendDevlist, Send
  <2>2. /\ WireTypeOK /\ RunOK(p) /\ c = <<p, 0>> /\ c \in Conns
        /\ \A d \in Devs : <<p, d>> \in Conns \ {c}
    BY <2>0, Pairs DEF NetInv, RunOK, ListConn
  <2>3. toS[c] = <<>> /\ toC[c] = <<>> /\ ~Taken(c) /\ \A d \in Devs : Virgin(<<p, d>>)
    BY <2>0, <2>1, <2>2 DEF RunOK, ListInv, In, BeforeList
  <2>4. /\ toS'[c] = <<"devlist">> /\ \A x \in Conns \ {c} : toS'[x] = toS[x]
        /\ toS' = [x \in Conns |-> toS'[x]]
    BY <2>1, <2>2, <2>3, Messages, ToServer
  <2>5. OnlyRun(p, "lcommon", proc[p].dev)
    BY <2>1, MovesTo DEF ProcPcs
  <2>6. UNCHANGED <<set, granted, exported, daemon, sv, toC, port>>
    BY <2>1 DEF Others, portVars
  <2>7. Cmd(p)' = Cmd(p) /\ ListConn(p)' = c /\ ~Lists(c)' /\ ~Taken(c)'
    BY <2>0, <2>3, <2>6 DEF Cmd, ListConn, Lists, Taken
  <2>8. ListConnInv(c)'
    BY <2>3, <2>4, <2>6, Messages, SharedAssumption DEF ListConnInv
  <2>9. \A d \in Devs : Virgin(<<p, d>>)'
    BY <2>2, <2>3, <2>4, <2>6 DEF Virgin
  <2>10. ListInv(p)'
    BY <2>5, <2>7, <2>9 DEF ListInv, In, OnlyRun
  <2>11. AllInv(p)'
    <3>1. DOMAIN toC'[c] = {}
      BY <2>3, <2>6
    <3>2. Places(p)' = {} /\ Coming(p)' = {}
      BY <2>7, <3>1 DEF Places, Coming
    <3> QED BY <2>5, <2>7, <3>2 DEF AllInv, ComingInv, OnlyRun, Attaching
  <2>12. AttachInv(p)'
    BY <2>2, <2>5, <2>7 DEF RunOK, AttachInv, In, Attaching, OnlyRun
  <2>13. RunOK(p)' /\ toC' \in [Conns -> Seq(Nat)]
    BY <2>2, <2>6, <2>10, <2>11, <2>12 DEF RunOK, WireTypeOK
  <2> QED BY <2>1, <2>2, <2>4, <2>5, <2>6, <2>8, <2>13, Traffic DEF OnlyRun
<1> QED BY <1>1, <1>2

LEMMA StepSendImport ==
  ASSUME NetInv, NEW p \in Procs, SendImport(p) \/ SendRequest(p)
  PROVE  NetInv'
<1>0. In(p, "send") \/ In(p, "request")
  BY DEF SendImport, SendRequest, Send
<1>1. CASE AttachFails(p)
  BY <1>0, <1>1, StepAttachFails DEF Attaching, In
<1>2. CASE ~AttachFails(p)
  <2>0. PICK c, d : c = DevConn(p) /\ d = proc[p].dev
    OBVIOUS
  <2>14. PICK w, pc : /\ w = IF In(p, "send") THEN "import" ELSE d
                      /\ pc = IF In(p, "send") THEN "request" ELSE "reply"
    OBVIOUS
  <2>1. /\ toS' = [toS EXCEPT ![c] = Append(toS[c], w)]
        /\ \/ In(p, "send") /\ w = "import" /\ pc = "request"
           \/ In(p, "request") /\ w = d /\ pc = "reply"
        /\ Goto(p, pc) /\ sv[c] # {}
        /\ Others /\ UNCHANGED <<cl, sv, toC, backlog, portVars>>
    <3>1. CASE SendImport(p)
      BY <1>2, <2>0, <2>14, <3>1 DEF SendImport, Send
    <3>2. CASE SendRequest(p)
      <4>1. In(p, "request") /\ ~In(p, "send")
        BY <3>2 DEF SendRequest, Send, In
      <4> QED BY <1>2, <2>0, <2>14, <3>2, <4>1 DEF SendRequest, Send
    <3> QED BY <3>1, <3>2
  <2>2. /\ WireTypeOK /\ RunOK(p) /\ c = <<p, d>> /\ d \in Devs /\ c \in Conns
        /\ c[2] = d /\ DevConnInv(c)
    <3>1. d \in Devs /\ c = <<p, d>>
      BY <1>0, <2>0 DEF NetInv, AttachInv, In, Attaching, DevConn
    <3> QED BY <3>1, Pairs DEF NetInv, RunOK
  <2>3. /\ Held(c) /\ "kernel" \notin sv[c] /\ \A i \in Ports : port[i] # c
        /\ In(p, "send") => toS[c] = <<>> /\ ~Taken(c)
        /\ In(p, "request") => toS[c] = IF Taken(c) THEN <<>> ELSE <<"import">>
    <3>1. AttachInv(p) /\ sv[c] \subseteq {"daemon", "kernel"}
      BY <2>2 DEF RunOK, WireTypeOK
    <3>2. "kernel" \notin sv[c] /\ \A i \in Ports : port[i] # c
      BY <1>0, <2>0, <3>1 DEF AttachInv, In, Attaching
    <3>3. Held(c)
      BY <2>1, <3>1, <3>2 DEF Held
    <3> QED BY <2>0, <3>1, <3>2, <3>3 DEF AttachInv
  <2>4. /\ In(p, "send") => toS'[c] = <<"import">>
        /\ In(p, "request") => toS'[c] = IF Taken(c) THEN <<d>> ELSE <<"import", d>>
        /\ \A x \in Conns \ {c} : toS'[x] = toS[x]
        /\ toS' = [x \in Conns |-> toS'[x]]
    <3>1. /\ toS'[c] = Append(toS[c], w) /\ \A x \in Conns \ {c} : toS'[x] = toS[x]
          /\ toS' = [x \in Conns |-> toS'[x]]
      BY <2>1, <2>2, ToServer
    <3>2. In(p, "send") => toS'[c] = <<"import">>
      BY <2>1, <2>3, <3>1, Messages DEF In
    <3>3. In(p, "request") /\ Taken(c) => toS'[c] = <<d>>
      BY <2>1, <2>3, <3>1, Messages DEF In
    <3>4. ASSUME In(p, "request"), ~Taken(c) PROVE toS'[c] = <<"import", d>>
      <4>1. w = d /\ toS[c] = <<"import">>
        BY <2>1, <2>3, <3>4 DEF In
      <4> QED BY <3>1, <4>1, Messages
    <3> QED BY <3>1, <3>2, <3>3, <3>4
  <2>5. OnlyRun(p, pc, d)
    <3>1. pc \in ProcPcs /\ Goto(p, pc)
      BY <2>1 DEF ProcPcs
    <3> QED BY <2>0, <3>1, MovesTo
  <2>6. UNCHANGED <<set, granted, exported, daemon, sv, toC, port>>
    BY <2>1 DEF Others, portVars
  <2>7. /\ Cmd(p)' = Cmd(p) /\ DevConn(p)' = c /\ Held(c)'
        /\ Taken(c)' <=> Taken(c)
    BY <2>0, <2>2, <2>3, <2>5, <2>6 DEF Cmd, DevConn, OnlyRun, Held, Taken
  <2>8. OnlyOwn(p, c)
    BY <2>4, <2>5, <2>6 DEF OnlyOwn, OnlyRun
  <2>9. ListInv(p)' /\ AllInv(p)'
    BY <1>0, <2>0, <2>1, <2>5, <2>8, OwnMove DEF In, Attaching, OnlyRun
  <2>10. AttachInv(p)'
    BY <1>0, <2>1, <2>2, <2>3, <2>4, <2>5, <2>6, <2>7 DEF AttachInv, In, OnlyRun
  <2>11. DevConnInv(c)'
    BY <1>0, <2>2, <2>3, <2>4, <2>6, <2>7, Messages DEF DevConnInv
  <2>12. RunOK(p)' /\ toC' \in [Conns -> Seq(Nat)]
    BY <2>2, <2>6, <2>9, <2>10 DEF RunOK, WireTypeOK
  <2>13. d # 0
    BY <2>2, Pairs
  <2> QED BY <2>1, <2>2, <2>4, <2>5, <2>6, <2>11, <2>12, <2>13, Traffic DEF OnlyRun
<1> QED BY <1>1, <1>2

(* A word of the list is taken: of the devices that are still to come none is *)
(* new, and the one that was the first is none of them.                       *)
LEMMA ListTakes ==
  ASSUME NetInv, NEW p \in Procs, NEW c, c = ListConn(p), toC[c] # <<>>,
         proc[p].pc \in {"lcommon", "litem"}, proc'[p].pc \in {"litem", "connect"},
         toC' = [toC EXCEPT ![c] = Tail(toC[c])],
         Others, UNCHANGED <<cl, sv, toS, backlog, portVars>>
  PROVE  /\ c = <<p, 0>> /\ c \in Conns
         /\ toC' \in [Conns -> Seq(Nat)] /\ \A x \in Conns \ {c} : toC'[x] = toC[x]
         /\ Head(toC[c]) = toC[c][1] /\ Head(toC[c]) \in Nat
         /\ ListConnInv(c)' /\ (Held(c)' => Lists(c)')
         /\ \A d \in Devs : Virgin(<<p, d>>) => Virgin(<<p, d>>)'
         /\ Cmd(p).do = "attachall" =>
               /\ ComingInv(p)'
               /\ In(p, "litem") => /\ toC[c][1] \in Coming(p)
                                    /\ toC[c][1] \notin Coming(p)'
<1>1. /\ WireTypeOK /\ RunOK(p) /\ c = <<p, 0>> /\ c \in Conns /\ ListConnInv(c)
      /\ \A d \in Devs : <<p, d>> \in Conns \ {c}
  BY Pairs DEF NetInv, RunOK, ListConn
<1>2. PICK s, t : s = toC[c] /\ t = Tail(s)
  OBVIOUS
<1>3. /\ s \in Seq(Nat) /\ t \in Seq(Nat) /\ Head(s) = s[1] /\ s[1] \in Nat
      /\ Len(t) = Len(s) - 1 /\ Len(s) \in Nat /\ 1 \in DOMAIN s
      /\ \A i \in DOMAIN t : i \in Nat \ {0} /\ i + 1 \in DOMAIN s /\ t[i] = s[i + 1]
  <2>1. s \in Seq(Nat) /\ s # <<>>
    BY <1>1, <1>2 DEF WireTypeOK
  <2> QED BY <1>2, <2>1
<1>4. toC' \in [Conns -> Seq(Nat)] /\ toC'[c] = t /\ \A x \in Conns \ {c} : toC'[x] = toC[x]
  BY <1>1, <1>2, <1>3 DEF WireTypeOK
<1>5. UNCHANGED <<set, daemon, sv, toS, port>>
  BY DEF Others, portVars
<1>6. Held(c) => Lists(c)
  BY <1>1 DEF ListConnInv
<1>7. ListConnInv(c)' /\ (Held(c)' => Lists(c)')
  <2>1. Len(t) <= SockBuf
    BY <1>1, <1>2, <1>3, SharedAssumption DEF ListConnInv
  <2>2. (Held(c)' <=> Held(c)) /\ (Lists(c)' <=> Lists(c))
    BY <1>5 DEF Held, Lists
  <2> QED BY <1>1, <1>4, <1>5, <1>6, <2>1, <2>2 DEF ListConnInv
<1>8. \A d \in Devs : Virgin(<<p, d>>) => Virgin(<<p, d>>)'
  BY <1>1, <1>4, <1>5 DEF Virgin
<1>9. ASSUME Cmd(p).do = "attachall"
      PROVE  /\ ComingInv(p)'
             /\ In(p, "litem") => s[1] \in Coming(p) /\ s[1] \notin Coming(p)'
  <2>1. ComingInv(p)
    BY <1>1, <1>9 DEF RunOK, AllInv
  <2>2. /\ ListConn(p) = c /\ ListConn(p)' = c /\ First(p)' = 1
        /\ First(p) = IF In(p, "lcommon") THEN 2 ELSE 1
        /\ Lists(c)' <=> Lists(c)
    BY <1>5 DEF ListConn, First, In, Lists
  <2>3. /\ Places(p) = {i \in DOMAIN s : First(p) <= i}
        /\ Places(p)' = {i \in DOMAIN t : 1 <= i}
    BY <1>2, <1>4, <2>2 DEF Places
  <2>4. \A i \in Places(p)' : i \in Nat \ {0} /\ i + 1 \in Places(p) /\ t[i] = s[i + 1]
    BY <1>3, <2>2, <2>3
  <2>5. /\ \A i, j \in Places(p) : i # j => s[i] # s[j]
        /\ Lists(c) => \A i \in Places(p), k \in DOMAIN daemon.edevs :
                          s[i] # daemon.edevs[k].dev
    BY <1>2, <2>1, <2>2 DEF ComingInv
  <2>6. \A i, j \in Places(p)' : i # j => t[i] # t[j]
    <3>1. SUFFICES ASSUME NEW i \in Places(p)', NEW j \in Places(p)', i # j
                   PROVE  t[i] # t[j]
      OBVIOUS
    <3>2. i + 1 # j + 1
      BY <2>4, <3>1
    <3> QED BY <2>4, <2>5, <3>1, <3>2
  <2>7. Lists(c)' => \A i \in Places(p)', k \in DOMAIN daemon'.edevs :
                        t[i] # daemon'.edevs[k].dev
    BY <1>5, <2>2, <2>4, <2>5
  <2>8. Coming(p) = {s[i] : i \in Places(p)}
           \cup {daemon.edevs[k].dev : k \in {l \in DOMAIN daemon.edevs : Lists(c)}}
    BY <1>2, <2>2 DEF Coming
  <2>9. Coming(p)' = {t[i] : i \in Places(p)'}
           \cup {daemon.edevs[k].dev : k \in {l \in DOMAIN daemon.edevs : Lists(c)}}
    <3>1. /\ ListConn(p)' = c /\ toC'[ListConn(p)'] = t /\ daemon' = daemon
          /\ Lists(ListConn(p))' <=> Lists(c)
      BY <1>4, <1>5, <2>2
    <3> QED BY <3>1 DEF Coming
  <2>10. Coming(p)' \subseteq Coming(p)
    <3>1. \A i \in Places(p)' : t[i] \in {s[j] : j \in Places(p)}
      BY <2>4
    <3> QED BY <2>8, <2>9, <3>1
  <2>11. ComingInv(p)'
    <3>1. \A d \in Coming(p)' : d \in Devs /\ Virgin(<<p, d>>)'
      BY <1>8, <2>1, <2>10 DEF ComingInv
    <3>2. toC'[ListConn(p)'] = t
      BY <1>4, <2>2
    <3> QED BY <2>2, <2>6, <2>7, <3>1, <3>2 DEF ComingInv
  <2>12. ASSUME In(p, "litem") PROVE s[1] \in Coming(p) /\ s[1] \notin Coming(p)'
    <3>1. 1 \in Places(p)
      BY <1>3, <2>2, <2>3, <2>12 DEF In
    <3>2. \A i \in Places(p)' : t[i] # s[1]
      BY <2>4, <2>5, <3>1
    <3> QED BY <2>5, <2>8, <2>9, <3>1, <3>2
  <2> QED BY <2>11, <2>12
<1> QED BY <1>1, <1>2, <1>3, <1>4, <1>7, <1>8, <1>9

LEMMA StepRecvDevlist == ASSUME NetInv, NEW p \in Procs, RecvDevlist(p) PROVE NetInv'
<1>1. CASE Exit(p)
  BY <1>1, StepExit
<1>2. CASE ~Exit(p)
  <2>0. PICK c, n : c = ListConn(p) /\ n = Head(toC[c])
    OBVIOUS
  <2>1. /\ In(p, "lcommon") /\ toC[c] # <<>>
        /\ proc' = [proc EXCEPT ![p].pc = "litem", ![p].left = n]
        /\ toC' = [toC EXCEPT ![c] = Tail(toC[c])]
        /\ Others /\ UNCHANGED <<cl, sv, toS, backlog, portVars>>
    BY <1>2, <2>0 DEF RecvDevlist
  <2>2. WireTypeOK /\ ProgramTypeOK /\ RunOK(p)
    BY DEF NetInv, RunOK
  <2>3. proc'[p].pc = "litem"
    BY <2>1, <2>2 DEF ProgramTypeOK, ProcRec
  <2>4. /\ c = <<p, 0>> /\ c \in Conns
        /\ toC' \in [Conns -> Seq(Nat)] /\ \A x \in Conns \ {c} : toC'[x] = toC[x]
        /\ n \in Nat /\ ListConnInv(c)' /\ (Held(c)' => Lists(c)')
        /\ \A d \in Devs : Virgin(<<p, d>>) => Virgin(<<p, d>>)'
        /\ Cmd(p).do = "attachall" => ComingInv(p)'
    <3>1. proc[p].pc \in {"lcommon", "litem"} /\ proc'[p].pc \in {"litem", "connect"}
          /\ toC' = [toC EXCEPT ![c] = Tail(toC[c])] /\ toC[c] # <<>> /\ c = ListConn(p)
          /\ Others /\ UNCHANGED <<cl, sv, toS, backlog, portVars>>
      BY <2>0, <2>1, <2>3 DEF In
    <3> QED BY <2>0, <2>1, <3>1, ListTakes
  <2>5. OnlyRun(p, "litem", proc[p].dev)
    <3>1. proc \in [Procs -> ProcRec] /\ "litem" \in ProcPcs /\ n \in Nat
      BY <2>2, <2>4 DEF ProgramTypeOK, ProcPcs
    <3> QED BY <2>1, <3>1 DEF ProcRec, OnlyRun
  <2>6. UNCHANGED <<set, daemon, sv, toS, port>>
    BY <2>1 DEF Others, portVars
  <2>7. Cmd(p)' = Cmd(p) /\ ListConn(p)' = c /\ DevConn(p)' = DevConn(p)
    BY <2>0, <2>5, <2>6 DEF Cmd, ListConn, DevConn, OnlyRun
  <2>8. \A d \in Devs : Virgin(<<p, d>>)
    BY <2>1, <2>2 DEF RunOK, ListInv, In, BeforeList
  <2>9. Cmd(p).do = "attach" => Virgin(DevConn(p))'
    BY <2>2, <2>4, <2>7, <2>8 DEF RunOK, AttachInv, DevConn
  <2>10. ListInv(p)'
    BY <2>4, <2>5, <2>7, <2>9 DEF ListInv, In, BeforeList, OnlyRun
  <2>11. AllInv(p)' /\ AttachInv(p)'
    BY <2>2, <2>4, <2>5, <2>7 DEF AllInv, RunOK, AttachInv, In, Attaching, OnlyRun
  <2>12. RunOK(p)' /\ toS' = [x \in Conns |-> toS'[x]]
    BY <2>2, <2>6, <2>10, <2>11 DEF RunOK, WireTypeOK
  <2> QED BY <2>1, <2>4, <2>5, <2>6, <2>12, Traffic DEF OnlyRun
<1> QED BY <1>1, <1>2

LEMMA StepRecvDevice == ASSUME NetInv, NEW p \in Procs, RecvDevice(p) PROVE NetInv'
<1>1. CASE Exit(p)
  BY <1>1, StepExit
<1>2. CASE ~Exit(p)
  <2>0. PICK c, n : c = ListConn(p) /\ n = Head(toC[c])
    OBVIOUS
  <2>13. PICK f \in BOOLEAN : f = (proc[p].found \/ n = Cmd(p).arg)
    BY Zenon
  <2>14. PICK pc, d : /\ d = IF Cmd(p).do = "attachall" THEN n ELSE proc[p].dev
                      /\ pc = IF Cmd(p).do = "attachall" THEN "connect" ELSE "litem"
    OBVIOUS
  <2>1. /\ In(p, "litem") /\ toC[c] # <<>> /\ proc[p].left > 0
        /\ proc' = [proc EXCEPT ![p].left = @ - 1, ![p].found = @ \/ n = Cmd(p).arg,
                       ![p].dev = IF Cmd(p).do = "attachall" THEN n ELSE @,
                       ![p].pc = IF Cmd(p).do = "attachall" THEN "connect" ELSE @]
        /\ toC' = [toC EXCEPT ![c] = Tail(toC[c])]
        /\ Others /\ UNCHANGED <<cl, sv, toS, backlog, portVars>>
    BY <1>2, <2>0 DEF RecvDevice
  <2>2. WireTypeOK /\ ProgramTypeOK /\ RunOK(p)
    BY DEF NetInv, RunOK
  <2>3. proc'[p].pc = pc /\ pc \in {"litem", "connect"}
    BY <2>1, <2>2, <2>14 DEF ProgramTypeOK, ProcRec, In
  <2>4. /\ c = <<p, 0>> /\ c \in Conns
        /\ toC' \in [Conns -> Seq(Nat)] /\ \A x \in Conns \ {c} : toC'[x] = toC[x]
        /\ n \in Nat /\ ListConnInv(c)' /\ (Held(c)' => Lists(c)')
        /\ \A e \in Devs : Virgin(<<p, e>>) => Virgin(<<p, e>>)'
        /\ Cmd(p).do = "attachall" => ComingInv(p)' /\ n \in Coming(p) /\ n \notin Coming(p)'
    <3>1. proc[p].pc \in {"lcommon", "litem"} /\ proc'[p].pc \in {"litem", "connect"}
          /\ toC' = [toC EXCEPT ![c] = Tail(toC[c])] /\ toC[c] # <<>> /\ c = ListConn(p)
          /\ Others /\ UNCHANGED <<cl, sv, toS, backlog, portVars>>
      BY <2>0, <2>1, <2>3 DEF In
    <3>2. /\ c = <<p, 0>> /\ c \in Conns
          /\ toC' \in [Conns -> Seq(Nat)] /\ \A x \in Conns \ {c} : toC'[x] = toC[x]
          /\ Head(toC[c]) = toC[c][1] /\ Head(toC[c]) \in Nat
          /\ ListConnInv(c)' /\ (Held(c)' => Lists(c)')
          /\ \A e \in Devs : Virgin(<<p, e>>) => Virgin(<<p, e>>)'
          /\ Cmd(p).do = "attachall" =>
                /\ ComingInv(p)'
                /\ In(p, "litem") => /\ toC[c][1] \in Coming(p)
                                     /\ toC[c][1] \notin Coming(p)'
      BY <3>1, ListTakes
    <3>3. n = toC[c][1] /\ In(p, "litem")
      BY <2>0, <2>1, <3>2
    <3> QED BY <2>0, <3>2, <3>3
  <2>5. /\ Cmd(p).do = "attachall" => n \in Devs /\ Virgin(<<p, n>>)
        /\ Cmd(p).do = "attach" => proc[p].dev \in Devs /\ Virgin(DevConn(p))
    BY <2>1, <2>2, <2>4 DEF RunOK, AllInv, ListInv, AttachInv, ComingInv, In
  <2>6. OnlyRun(p, pc, d)
    <3>1. proc \in [Procs -> ProcRec] /\ d \in Devs \cup {0} /\ pc \in ProcPcs
          /\ proc[p].left - 1 \in Nat
      <4>1. proc[p].dev \in Devs \cup {0} /\ proc[p].left \in Nat
        BY <2>2 DEF ProgramTypeOK, ProcRec
      <4> QED BY <2>1, <2>2, <2>5, <2>14, <4>1 DEF ProgramTypeOK, ProcPcs
    <3>2. proc' = [proc EXCEPT ![p].left = proc[p].left - 1, ![p].found = f,
                       ![p].dev = d, ![p].pc = pc]
      <4>1. proc' = [proc EXCEPT ![p].left = @ - 1, ![p].found = f,
                       ![p].dev = IF Cmd(p).do = "attachall" THEN n ELSE @,
                       ![p].pc = IF Cmd(p).do = "attachall" THEN "connect" ELSE @]
        BY <2>1, <2>13, Zenon
      <4>2. CASE Cmd(p).do = "attachall"
        BY <2>14, <3>1, <4>1, <4>2
      <4>3. CASE Cmd(p).do # "attachall"
        BY <2>1, <2>14, <3>1, <4>1, <4>3 DEF In, ProcRec
      <4> QED BY <4>2, <4>3
    <3>3. PICK m \in Nat : m = proc[p].left - 1
      BY <3>1
    <3>4. proc' = [proc EXCEPT ![p].left = m, ![p].found = f, ![p].dev = d, ![p].pc = pc]
      BY <3>2, <3>3
    <3>5. proc'[p] \in ProcRec /\ proc'[p].pc = pc /\ proc'[p].dev = d
      BY <3>1, <3>3, <3>4 DEF ProcRec
    <3>6. \A q \in Procs \ {p} : proc'[q] = proc[q]
      BY <3>1, <3>4
    <3>7. proc' \in [Procs -> ProcRec]
      BY <3>1, <3>4, <3>5
    <3> QED BY <3>5, <3>6, <3>7 DEF OnlyRun
  <2>7. UNCHANGED <<set, daemon, sv, toS, port>>
    BY <2>1 DEF Others, portVars
  <2>8. Cmd(p)' = Cmd(p) /\ ListConn(p)' = c /\ DevConn(p)' = <<p, d>>
    BY <2>0, <2>6, <2>7 DEF Cmd, ListConn, DevConn, OnlyRun
  <2>9. /\ Cmd(p).do = "attachall" =>
              /\ pc = "connect" /\ d = n /\ d \in Devs
              /\ Virgin(<<p, d>>)' /\ \A i \in Ports : port'[i] # <<p, d>>
        /\ Cmd(p).do # "attachall" => pc = "litem" /\ d = proc[p].dev
        /\ Cmd(p).do = "attach" => Virgin(<<p, d>>)' /\ d \in Devs
    BY <2>4, <2>5, <2>14 DEF DevConn, Virgin
  <2>10. ListInv(p)'
    BY <2>4, <2>6, <2>8, <2>9 DEF ListInv, In, BeforeList, OnlyRun
  <2>11. AllInv(p)' /\ AttachInv(p)'
    BY <2>4, <2>6, <2>8, <2>9 DEF AllInv, AttachInv, In, Attaching, OnlyRun
  <2>12. RunOK(p)' /\ toS' = [x \in Conns |-> toS'[x]]
    BY <2>2, <2>7, <2>10, <2>11 DEF RunOK, WireTypeOK
  <2> QED BY <2>1, <2>4, <2>6, <2>7, <2>12, Traffic DEF OnlyRun
<1> QED BY <1>1, <1>2

LEMMA StepRecvImport == ASSUME NetInv, NEW p \in Procs, RecvImport(p) PROVE NetInv'
<1>0. In(p, "reply")
  BY DEF RecvImport
<1>1. CASE AttachFails(p)
  BY <1>0, <1>1, StepAttachFails DEF Attaching, In
<1>2. CASE ~AttachFails(p)
  <2>0. PICK c, d : c = DevConn(p) /\ d = proc[p].dev
    OBVIOUS
  <2>1. /\ toC[c] # <<>> /\ Head(toC[c]) = d
        /\ Goto(p, "open")
        /\ toC' = [toC EXCEPT ![c] = Tail(toC[c])]
        /\ Others /\ UNCHANGED <<cl, sv, toS, backlog, portVars>>
    BY <1>2, <2>0 DEF RecvImport
  <2>2. /\ WireTypeOK /\ RunOK(p) /\ c = <<p, d>> /\ d \in Devs /\ c \in Conns
        /\ c[2] = d /\ DevConnInv(c) /\ d # 0
    <3>1. d \in Devs /\ c = <<p, d>>
      BY <1>0, <2>0 DEF NetInv, AttachInv, In, Attaching, DevConn
    <3> QED BY <3>1, Pairs DEF NetInv, RunOK
  <2>3. toC[c] = <<d>>
    BY <2>1, <2>2, Messages DEF DevConnInv
  <2>4. c \in granted /\ ~Held(c)
    BY <2>2, <2>3, Messages DEF DevConnInv
  <2>5. toC' \in [Conns -> Seq(Nat)] /\ toC'[c] = <<>>
        /\ \A x \in Conns \ {c} : toC'[x] = toC[x]
    <3>1. Tail(toC[c]) = <<>> /\ <<>> \in Seq(Nat)
      BY <2>3, Messages
    <3> QED BY <2>1, <2>2, <3>1 DEF WireTypeOK
  <2>6. OnlyRun(p, "open", d)
    <3>1. "open" \in ProcPcs
      BY DEF ProcPcs
    <3>2. PICK pc \in ProcPcs : pc = "open" /\ Goto(p, pc)
      BY <2>1, <3>1
    <3>3. OnlyRun(p, pc, proc[p].dev)
      BY <3>2, MovesTo
    <3> QED BY <2>0, <3>2, <3>3
  <2>7. UNCHANGED <<set, granted, exported, daemon, sv, toS, port>>
    BY <2>1 DEF Others, portVars
  <2>8. Cmd(p)' = Cmd(p) /\ DevConn(p)' = c /\ ~Held(c)'
    BY <2>0, <2>2, <2>4, <2>6, <2>7 DEF Cmd, DevConn, OnlyRun, Held
  <2>9. OnlyOwn(p, c)
    BY <2>5, <2>6, <2>7 DEF OnlyOwn, OnlyRun
  <2>10. ListInv(p)' /\ AllInv(p)'
    BY <1>0, <2>0, <2>6, <2>9, OwnMove DEF In, Attaching, OnlyRun
  <2>11. AttachInv(p)'
    BY <1>0, <2>0, <2>2, <2>4, <2>6, <2>7, <2>8 DEF RunOK, AttachInv, In, OnlyRun, Attaching
  <2>12. DevConnInv(c)'
    BY <2>2, <2>5, <2>7, <2>8, Messages DEF DevConnInv
  <2>13. RunOK(p)' /\ toS' = [x \in Conns |-> toS'[x]]
    BY <2>2, <2>7, <2>10, <2>11 DEF RunOK, WireTypeOK
  <2> QED BY <2>1, <2>2, <2>5, <2>6, <2>7, <2>12, <2>13, Traffic DEF OnlyRun
<1> QED BY <1>1, <1>2

LEMMA StepAttachPort == ASSUME NetInv, NEW p \in Procs, AttachPort(p) PROVE NetInv'
<1>0. In(p, "attach")
  BY DEF AttachPort
<1>1. CASE AttachFails(p)
  BY <1>0, <1>1, StepAttachFails DEF Attaching, In
<1>2. CASE ~AttachFails(p)
  <2>0. PICK c, d, i, pc : /\ c = DevConn(p) /\ d = proc[p].dev /\ i = proc[p].port
                           /\ pc = IF set.os = "linux" THEN "record" ELSE "forward"
    OBVIOUS
  <2>1. /\ port[i] = NoConn
        /\ port' = [port EXCEPT ![i] = c]
        /\ cl' = [cl EXCEPT ![c] = IF set.os = "linux" THEN {"kernel"} ELSE @]
        /\ stale' = [stale EXCEPT ![i] = \E q \in Procs \ {p} :
                        In(q, "record") /\ proc[q].port = i]
        /\ Goto(p, pc)
        /\ Others /\ UNCHANGED <<sv, toS, toC, backlog, record>>
    BY <1>2, <2>0 DEF AttachPort
  <2>2. /\ WireTypeOK /\ ProgramTypeOK /\ DaemonInv /\ BacklogInv /\ ExportInv /\ PortInv
        /\ RunOK(p) /\ c = <<p, d>> /\ d \in Devs /\ c \in Conns
        /\ c[2] = d /\ DevConnInv(c) /\ d # 0 /\ c # NoConn
    <3>1. d \in Devs /\ c = <<p, d>>
      BY <1>0, <2>0 DEF NetInv, AttachInv, In, Attaching, DevConn
    <3> QED BY <3>1, Pairs DEF NetInv, RunOK
  <2>3. /\ c \in granted /\ ~Held(c) /\ i \in Ports
        /\ \A j \in Ports : port[j] # c
    BY <1>0, <2>0, <2>2 DEF RunOK, AttachInv, In, Attaching
  <2>4. /\ port' \in [Ports -> Conns \cup {NoConn}] /\ port'[i] = c
        /\ \A j \in Ports \ {i} : port'[j] = port[j]
        /\ cl' \in [Conns -> SUBSET {"process", "kernel"}]
    BY <2>1, <2>2, <2>3 DEF WireTypeOK, ProgramTypeOK
  <2>5. stale' \in [Ports -> BOOLEAN]
    <3>1. PICK b \in BOOLEAN : b = (\E q \in Procs \ {p} : In(q, "record") /\ proc[q].port = i)
      BY Zenon
    <3>2. stale' = [stale EXCEPT ![i] = b]
      BY <2>1, <3>1, Zenon
    <3> QED BY <2>2, <3>2 DEF ProgramTypeOK
  <2>6. OnlyRun(p, pc, d) /\ pc \in {"record", "forward"}
    <3>1. pc \in ProcPcs /\ pc \in {"record", "forward"} /\ Goto(p, pc)
      BY <2>0, <2>1 DEF ProcPcs
    <3> QED BY <2>0, <3>1, MovesTo
  <2>7. proc'[p].port = i
    <3>1. pc \in ProcPcs /\ Goto(p, pc)
      BY <2>1, <2>6 DEF ProcPcs
    <3> QED BY <2>0, <3>1, MovesTo
  <2>8. UNCHANGED <<set, granted, exported, daemon, sv, toS, toC, backlog, record>>
    BY <2>1 DEF Others
  <2>9. Cmd(p)' = Cmd(p) /\ DevConn(p)' = c /\ ~Held(c)'
    BY <2>0, <2>2, <2>3, <2>6, <2>8 DEF Cmd, DevConn, OnlyRun, Held
  <2>10. OnlyOwn(p, c)
    BY <2>4, <2>6, <2>8 DEF OnlyOwn, OnlyRun
  <2>11. ListInv(p)' /\ AllInv(p)'
    BY <1>0, <2>0, <2>6, <2>10, OwnMove DEF In, Attaching, OnlyRun
  <2>12. AttachInv(p)'
    BY <1>0, <2>0, <2>2, <2>3, <2>6, <2>7, <2>9 DEF RunOK, AttachInv, In, OnlyRun, Attaching
  <2>13. WireTypeOK' /\ ProgramTypeOK' /\ DaemonInv' /\ BacklogInv' /\ ExportInv'
    <3>1. WireTypeOK' /\ ProgramTypeOK'
      BY <2>2, <2>4, <2>5, <2>6, <2>8 DEF WireTypeOK, ProgramTypeOK, OnlyRun
    <3>2. DaemonInv' /\ BacklogInv' /\ ExportInv'
      BY <2>2, <2>8 DEF DaemonInv, BacklogInv, ExportInv, Held
    <3> QED BY <3>1, <3>2
  <2>14. PortInv'
    <3>1. \A j \in Ports : port'[j] # NoConn =>
            port'[j][2] # 0 /\ port'[j] \in granted' /\ ~Held(port'[j])
      BY <2>2, <2>3, <2>4, <2>8 DEF PortInv
    <3>2. \A j, k \in Ports : j # k /\ port'[j] # NoConn => port'[j] # port'[k]
      BY <2>2, <2>3, <2>4 DEF PortInv
    <3> QED BY <2>8, <3>1, <3>2 DEF PortInv, Held
  <2>15. DevConnInv(c)'
    BY <2>2, <2>8 DEF DevConnInv, Held, Taken
  <2>16. RunOK(p)'
    BY <2>11, <2>12 DEF RunOK
  <2> QED BY <2>2, <2>10, <2>13, <2>14, <2>15, <2>16, OwnStep
<1> QED BY <1>1, <1>2

LEMMA StepClient == ASSUME NetInv, NEW p \in Procs, Client(p) PROVE NetInv'
BY StepConnectForList, StepSendDevlist, StepRecvDevlist, StepRecvDevice, StepListRead,
   StepConnectForImport, StepSendImport, StepRecvImport, StepDriverOpen, StepGetFreePort,
   StepAttachPort, StepRecordConnection, StepForwardEnds, StepDetachOpen, StepDetachPort
   DEF Client

LEMMA StepNetInv == NetInv /\ plugged \subseteq Devs /\ [Next]_vars => NetInv'
BY BindersQuiet, StepDaemon, StepClient, StepKill, StepLost DEF Next
-----------------------------------------------------------------------------
(* At first nothing is open, nothing is attached and usbipd is not up.        *)
LEMMA InitRuns ==
  ASSUME Init PROVE /\ proc \in [Procs -> ProcRec]
                    /\ \A p \in Procs : /\ proc[p].pc \in {"lconnect", "connect", "dopen", "ended"}
                                        /\ proc[p] = InitProc(Cmd(p))
<1>1. set \in Settings /\ proc = [p \in Procs |-> InitProc(set.cmd[p])]
  BY DEF Init
<1>2. ASSUME NEW p \in Procs
      PROVE  /\ InitProc(set.cmd[p]) \in ProcRec
             /\ InitProc(set.cmd[p]).pc \in {"lconnect", "connect", "dopen", "ended"}
  <2>1. /\ set.cmd[p].do \in {"none", "list", "attach", "attachall", "detach"}
        /\ set.cmd[p].do = "attach" => set.cmd[p].arg \in Devs
    BY <1>1, CommandAssumption
  <2> QED BY <2>1 DEF InitProc, ProcRec, ProcPcs
<1> QED BY <1>1, <1>2 DEF Cmd

LEMMA InitNetInv == Init => NetInv
<1> SUFFICES ASSUME Init PROVE NetInv
  OBVIOUS
<1>1. /\ daemon = InitDaemon /\ set \in Settings /\ backlog = <<>> /\ granted = {}
      /\ port = [i \in Ports |-> NoConn] /\ exported = [d \in Devs |-> NoConn]
      /\ toS = [c \in Conns |-> <<>>] /\ toC = [c \in Conns |-> <<>>]
      /\ sv = [c \in Conns |-> {}] /\ cl = [c \in Conns |-> {}]
      /\ record = [i \in Ports |-> 0] /\ stale = [i \in Ports |-> FALSE]
  BY DEF Init
<1>2. daemon.pc = "off" /\ daemon.c = NoConn /\ daemon.edevs = <<>>
      /\ daemon \in DaemonRec
  BY <1>1 DEF InitDaemon, DaemonRec, DaemonPcs
<1>3. \A c \in Conns : Virgin(c) /\ ~Held(c) /\ c # NoConn
  BY <1>1, Pairs DEF Virgin, Held
<1>4. \A c \in Conns : ~Taken(c) /\ ~Lists(c)
  BY <1>2, <1>3 DEF Taken, Lists
<1>5. WireTypeOK /\ ProgramTypeOK
  <2>1. proc \in [Procs -> ProcRec]
    BY InitRuns
  <2> QED BY <1>1, <1>2, <2>1 DEF WireTypeOK, ProgramTypeOK
<1>6. DaemonInv /\ BacklogInv /\ ListedInv
  BY <1>1, <1>2 DEF DaemonInv, BacklogInv, ListedInv
<1>7. ExportInv /\ PortInv
  BY <1>1 DEF ExportInv, PortInv
<1>8. \A p \in Procs : ListConnInv(ListConn(p))
  <2>1. ASSUME NEW c \in Conns PROVE ListConnInv(c)
    <3>1. toS[c] = <<>> /\ toC[c] = <<>> /\ Len(<<>>) = 0 /\ SockBuf \in Nat
      BY <1>1, Messages, SharedAssumption
    <3> QED BY <1>3, <3>1 DEF ListConnInv
  <2> QED BY <2>1, Pairs DEF ListConn
<1>9. \A p \in Procs, d \in Devs : DevConnInv(<<p, d>>)
  <2>1. ASSUME NEW c \in Conns, c[2] # 0 PROVE DevConnInv(c)
    <3>1. toS[c] = <<>> /\ toC[c] = <<>> /\ Len(<<>>) = 0 /\ <<c[2]>> # <<>>
      BY <1>1, Messages
    <3> QED BY <1>3, <3>1 DEF DevConnInv
  <2>2. \A p \in Procs, d \in Devs : <<p, d>> \in Conns /\ <<p, d>>[2] # 0
    BY Pairs
  <2> QED BY <2>1, <2>2
<1>10. ASSUME NEW p \in Procs PROVE ListInv(p) /\ AllInv(p) /\ AttachInv(p)
  <2>1. /\ proc[p].pc \in {"lconnect", "connect", "dopen", "ended"}
        /\ proc[p] = InitProc(Cmd(p))
    BY InitRuns
  <2>2. /\ Cmd(p).do \in {"none", "list", "attach", "attachall", "detach"}
        /\ Cmd(p).do = "attach" => Cmd(p).arg \in Devs
    BY <1>1, CommandAssumption DEF Cmd
  <2>3. ListConn(p) \in Conns /\ \A d \in Devs : <<p, d>> \in Conns
    BY Pairs DEF ListConn
  <2>4. ListInv(p)
    BY <1>3, <2>1, <2>3 DEF ListInv, In, BeforeList
  <2>5. Cmd(p).do = "attachall" => proc[p].pc = "lconnect"
    BY <2>1 DEF InitProc
  <2>6. AllInv(p)
    BY <2>5 DEF AllInv
  <2>7. /\ Cmd(p).do = "attach" => proc[p].dev \in Devs
        /\ proc[p].pc = "connect" => Cmd(p).do = "attach"
        /\ proc[p].pc = "dopen" => Cmd(p).do = "detach"
    BY <2>1, <2>2 DEF InitProc
  <2>8. proc[p].pc = "connect" => DevConn(p) \in Conns
    BY <2>3, <2>7 DEF DevConn
  <2> QED BY <1>3, <2>1, <2>4, <2>6, <2>7, <2>8 DEF AttachInv, In, Attaching, Virgin
<1> QED BY <1>5, <1>6, <1>7, <1>8, <1>9, <1>10 DEF NetInv

(* Every reachable state has the invariant of the connections.                *)
THEOREM NetInvariant == Spec => []NetInv
<1>1. IInv => plugged \subseteq Devs
  BY DEF IInv, BindTypeOK
<1> QED BY <1>1, InitNetInv, StepNetInv, Invariant, PTL DEF Spec
-----------------------------------------------------------------------------
(* What the invariant says of the machine that imports                        *)

(* A port stands on a connection that the stub driver accepted, and two ports *)
(* on two devices, or one of them has lost its server: a device is exported   *)
(* on one connection at a time, and a connection that usbipd does not hold    *)
(* and that no device is exported on has no server.                           *)
THEOREM GrantedCorrect == Spec => []GrantedOnce
<1>1. ASSUME NetInv PROVE GrantedOnce
  <2>1. WireTypeOK /\ ExportInv /\ PortInv
    BY <1>1 DEF NetInv
  <2>2. ASSUME NEW i \in Ports, NEW j \in Ports, i # j,
               port[i] # NoConn, port[j] # NoConn, port[i][2] = port[j][2]
        PROVE  sv[port[i]] = {} \/ sv[port[j]] = {}
    <3>1. PICK c, e \in Conns : c = port[i] /\ e = port[j]
      BY <2>1, <2>2 DEF WireTypeOK
    <3>2. ~Held(c) /\ ~Held(e) /\ c # e /\ c[2] = e[2]
      BY <2>1, <2>2, <3>1 DEF PortInv
    <3>3. ~("kernel" \in sv[c] /\ "kernel" \in sv[e])
      BY <2>1, <3>2 DEF ExportInv
    <3>4. sv[c] \subseteq {"daemon", "kernel"} /\ sv[e] \subseteq {"daemon", "kernel"}
      BY <2>1 DEF WireTypeOK
    <3> QED BY <3>1, <3>2, <3>3, <3>4 DEF Held
  <2> QED BY <2>1, <2>2 DEF GrantedOnce, ExportInv, PortInv
<1> QED BY <1>1, NetInvariant, PTL

(* match_busid holds busids of devices.                                       *)
MatchedOK == matched \subseteq Devs

LEMMA StepMatched == BindTypeOK /\ MatchedOK /\ [Next]_vars => MatchedOK'
<1> SUFFICES ASSUME BindTypeOK, MatchedOK, [Next]_vars PROVE matched' \subseteq Devs
  BY DEF MatchedOK
<1> USE DEF MatchedOK
<1>1. \A b \in Binders : Dev(b) \in Devs
  BY BindAssumption DEF BindTypeOK, Dev
<1>2. CASE Probe \/ Pull \/ (\E d \in Devs : Release(d)) \/ (\E i \in Ports : Lost(i))
           \/ UNCHANGED vars
  BY <1>2 DEF Probe, Pull, Release, Lost, vars, stubVars
<1>3. CASE Daemon \/ Shutdown
  BY <1>3, DaemonBindsNothing DEF Unbound
<1>4. ASSUME NEW p \in Procs, Client(p) \/ Kill(p) PROVE matched' \subseteq Devs
  BY <1>4, ClientBindsNothing DEF Unbound
<1>5. ASSUME NEW b \in Binders, Binder(b) PROVE matched' \subseteq Devs
  <2>1. CASE AddMatchBusid(b) \/ UndoMatch(b) \/ DelMatchBusid(b)
    <3>1. ASSUME NEW add, NEW from, NEW ok, NEW ko, ModifyMatchBusid(b, add, from, ok, ko)
          PROVE  matched' \subseteq Devs
      BY <1>1, <3>1 DEF ModifyMatchBusid, NothingInSysfs
    <3> QED BY <2>1, <3>1 DEF AddMatchBusid, UndoMatch, DelMatchBusid
  <2>2. CASE ReadAttributes(b) \/ GetDriver(b) \/ ReadAgain(b) \/ ReadConfig(b)
             \/ UnbindInterface(b) \/ BindInterface(b) \/ WriteConfig(b)
    BY <2>2 DEF ReadAttributes, GetDriver, ReadAgain, ReadConfig, UnbindInterface,
                BindInterface, WriteConfig, NothingInSysfs
  <2> QED BY <1>5, <2>1, <2>2 DEF Binder
<1> QED BY <1>2, <1>3, <1>4, <1>5 DEF Next

(* Everything that the three programs and the two kernels hold has its shape, *)
(* in a connection is never more than two messages to usbipd and no more than *)
(* it takes from usbipd, and usbipd serves and keeps waiting only connections *)
(* that it has not closed.                                                    *)
THEOREM TypeCorrect == Spec => []TypeOK
<1>1. Init => MatchedOK
  BY DEF Init, MatchedOK
<1>2. IInv => BindTypeOK
  BY DEF IInv
<1>3. Spec => []MatchedOK
  BY <1>1, <1>2, Invariant, StepMatched, PTL DEF Spec
<1>4. ASSUME NetInv, BindTypeOK, MatchedOK PROVE TypeOK
  <2>1. WireTypeOK /\ ProgramTypeOK /\ DaemonInv /\ BacklogInv
    BY <1>4 DEF NetInv
  <2>2. \A c \in Conns : Len(toC[c]) <= SockBuf /\ Len(toS[c]) <= 2
    <3>1. SUFFICES ASSUME NEW c \in Conns
                   PROVE  Len(toC[c]) <= SockBuf /\ Len(toS[c]) <= 2
      OBVIOUS
    <3>2. PICK p \in Procs, d \in Devs \cup {0} : c = <<p, d>>
      BY Pairs
    <3>3. \A n : n = 0 \/ n = 1 => n <= SockBuf /\ n <= 2
      BY SharedAssumption
    <3>4. CASE d = 0
      <4>1. ListConnInv(c)
        BY <1>4, <3>2, <3>4 DEF NetInv, ListConn
      <4>2. Len(toS[c]) = 0 \/ Len(toS[c]) = 1
        BY <4>1, Messages DEF ListConnInv
      <4>3. Len(toC[c]) <= SockBuf
        BY <4>1 DEF ListConnInv
      <4> QED BY <3>3, <4>2, <4>3, Zenon
    <3>5. CASE d \in Devs
      <4>1. DevConnInv(c)
        BY <1>4, <3>2, <3>5 DEF NetInv
      <4>2. Len(toC[c]) = 0 \/ Len(toC[c]) = 1
        BY <4>1, Messages DEF DevConnInv
      <4>3. Len(toS[c]) <= 2
        BY <4>1 DEF DevConnInv
      <4> QED BY <3>3, <4>2, <4>3, Zenon
    <3> QED BY <3>4, <3>5
  <2>3. \A c \in ToSet(backlog) \cup ({daemon.c} \ {NoConn}) : "daemon" \in sv[c]
    BY <2>1 DEF BacklogInv, DaemonInv, ToSet, Held
  <2>4. daemon.pc \in DaemonPcs /\ daemon.unread \subseteq Devs
    BY <2>1 DEF ProgramTypeOK, DaemonRec
  <2>5. \A p \in Procs : proc[p].pc \in ProcPcs /\ proc[p].left \in Nat
    BY <2>1 DEF ProgramTypeOK, ProcRec
  <2>6. /\ plugged \subseteq Devs
        /\ \A d \in Devs : driver[d] \in [Interfaces(d) -> {"none", "local", "stub"}]
        /\ \A b \in Binders : bind[b].pc \in BinderPcs /\ bind[b].i \in Nat
    BY <1>4 DEF BindTypeOK, Names
  <2>7. /\ granted \subseteq Conns /\ \A d \in Devs : exported[d] \in Conns \cup {NoConn}
        /\ \A c \in Conns : cl[c] \subseteq {"process", "kernel"}
                            /\ sv[c] \subseteq {"daemon", "kernel"}
        /\ port \in [Ports -> Conns \cup {NoConn}]
        /\ record \in [Ports -> Devs \cup {0}] /\ stale \in [Ports -> BOOLEAN]
    BY <2>1 DEF WireTypeOK, ProgramTypeOK
  <2> QED BY <1>4, <2>2, <2>3, <2>4, <2>5, <2>6, <2>7 DEF TypeOK, MatchedOK
<1> QED BY <1>2, <1>3, <1>4, Invariant, NetInvariant, PTL
-----------------------------------------------------------------------------
(* The records of the ports                                                   *)

RecordsInv == RecordInv /\ RecordNamesDevice

(* A run that has a record to write has it for one of the ports.              *)
LEMMA PortOfRecord ==
  ASSUME NetInv, NEW q \in Procs, In(q, "record")
  PROVE  proc[q].port \in Ports
BY DEF NetInv, AttachInv, In

(* Nothing is recorded or attached; a run that leaves its record unwritten    *)
(* leaves the port stale, or empty.                                           *)
LEMMA RecordsStay ==
  ASSUME NetInv, RecordsInv, UNCHANGED <<set, record>>,
         \A i \in Ports : /\ port'[i] \in {port[i], NoConn}
                          /\ stale[i] => stale'[i],
         \A q \in Procs : In(q, "record")' => proc'[q] = proc[q],
         \A q \in Procs : In(q, "record") =>
            \/ proc'[q] = proc[q]
            \/ stale'[proc[q].port]
            \/ port'[proc[q].port] = NoConn
  PROVE  RecordsInv'
<1>1. RecordInv'
  <2>1. SUFFICES ASSUME NEW q \in Procs, In(q, "record")'
                 PROVE  \/ stale'[proc'[q].port]
                        \/ port'[proc'[q].port] \in {NoConn, DevConn(q)'}
    BY DEF RecordInv
  <2>2. proc'[q] = proc[q] /\ In(q, "record") /\ DevConn(q)' = DevConn(q)
    BY <2>1 DEF In, DevConn
  <2>3. proc[q].port \in Ports
    BY <2>2, PortOfRecord
  <2> QED BY <2>2, <2>3 DEF RecordsInv, RecordInv
<1>2. RecordNamesDevice'
  <2>1. SUFFICES ASSUME NEW i \in Ports, set.os = "linux", port'[i] # NoConn, ~stale'[i],
                        \A q \in Procs : ~ (In(q, "record")' /\ proc'[q].port = i)
                 PROVE  record[i] = port'[i][2]
    BY DEF RecordNamesDevice, Shown
  <2>2. port'[i] = port[i] /\ ~stale[i]
    BY <2>1
  <2>3. \A q \in Procs : ~ (In(q, "record") /\ proc[q].port = i)
    BY <2>1 DEF In
  <2> QED BY <2>1, <2>2, <2>3 DEF RecordsInv, RecordNamesDevice, Shown
<1> QED BY <1>1, <1>2 DEF RecordsInv

(* Steps outside the runs, and of a run that has no record to write.          *)
LEMMA RecordsUntouched ==
  ASSUME NetInv, RecordsInv, UNCHANGED <<set, portVars, proc>>
  PROVE  RecordsInv'
BY RecordsStay DEF portVars, In

LEMMA RecordsOfOthers ==
  ASSUME NetInv, RecordsInv, NEW p \in Procs, ~In(p, "record"),
         UNCHANGED <<set, portVars>>,
         proc'[p].pc # "record", \A q \in Procs \ {p} : proc'[q] = proc[q]
  PROVE  RecordsInv'
BY RecordsStay DEF portVars, In

(* A process ends: without its record, the port that it attached is stale.    *)
LEMMA LeaveRecords ==
  ASSUME NetInv, RecordsInv, NEW p \in Procs, Leave(p, proc[p].pc), Others,
         UNCHANGED record
  PROVE  RecordsInv'
<1>1. WireTypeOK /\ ProgramTypeOK
  BY DEF NetInv
<1>2. /\ set' = set /\ proc' = [proc EXCEPT ![p].pc = "ended"]
      /\ \A i \in Ports : /\ port'[i] \in {port[i], NoConn}
                          /\ stale'[i] = (stale[i] \/ (In(p, "record") /\ port[i] = DevConn(p)))
  BY DEF Leave, Others, In
<1>3. proc'[p].pc = "ended" /\ \A q \in Procs \ {p} : proc'[q] = proc[q]
  BY <1>1, <1>2 DEF ProgramTypeOK, ProcRec
<1>4. ASSUME In(p, "record")
      PROVE  stale'[proc[p].port] \/ port'[proc[p].port] = NoConn
  <2>1. proc[p].port \in Ports
    BY <1>4, PortOfRecord
  <2>2. stale[proc[p].port] \/ port[proc[p].port] \in {NoConn, DevConn(p)}
    BY <1>4 DEF RecordsInv, RecordInv
  <2> QED BY <1>2, <1>4, <2>1, <2>2
<1>5. \A i \in Ports : stale[i] => stale'[i]
  BY <1>2
<1>6. \A q \in Procs : In(q, "record")' => proc'[q] = proc[q]
  BY <1>3 DEF In
<1> QED BY <1>2, <1>3, <1>4, <1>5, <1>6, RecordsStay

LEMMA ExitRecords ==
  ASSUME NetInv, RecordsInv, NEW p \in Procs, ~In(p, "record"), Exit(p)
  PROVE  RecordsInv'
<1>1. WireTypeOK /\ ProgramTypeOK
  BY DEF NetInv
<1>2. /\ set' = set /\ record' = record /\ proc' = [proc EXCEPT ![p].pc = "ended"]
      /\ \A i \in Ports : port'[i] \in {port[i], NoConn} /\ (stale[i] => stale'[i])
  BY DEF Exit, Leave, Others
<1>3. proc'[p].pc = "ended" /\ \A q \in Procs \ {p} : proc'[q] = proc[q]
  BY <1>1, <1>2 DEF ProgramTypeOK, ProcRec
<1> QED BY <1>2, <1>3, RecordsStay DEF In

LEMMA FailRecords ==
  ASSUME NetInv, RecordsInv, NEW p \in Procs, ~In(p, "record"), AttachFails(p)
  PROVE  RecordsInv'
<1>1. CASE Cmd(p).do = "attachall"
  <2>1. Goto(p, "litem") /\ UNCHANGED <<set, portVars>>
    BY <1>1 DEF AttachFails, Others
  <2>2. proc'[p].pc = "litem" /\ \A q \in Procs \ {p} : proc'[q] = proc[q]
    BY <2>1 DEF NetInv, ProgramTypeOK, ProcRec, Goto
  <2> QED BY <2>1, <2>2, RecordsOfOthers
<1>2. CASE Cmd(p).do # "attachall"
  BY <1>2, ExitRecords DEF AttachFails
<1> QED BY <1>1, <1>2
(* A port is attached: its record is the run's to write, and stale if another *)
(* run has one to write for this port.                                        *)
LEMMA AttachRecords ==
  ASSUME NetInv, RecordsInv, NEW p \in Procs, AttachPort(p)
  PROVE  RecordsInv'
<1> DEFINE i == proc[p].port
           pc == IF set.os = "linux" THEN "record" ELSE "forward"
<1>1. In(p, "attach") /\ ~In(p, "record") /\ WireTypeOK /\ ProgramTypeOK
  BY DEF AttachPort, In, NetInv
<1>2. CASE AttachFails(p)
  BY <1>1, <1>2, FailRecords
<1>3. CASE ~AttachFails(p)
  <2>1. /\ port' = [port EXCEPT ![i] = DevConn(p)]
        /\ stale' = [stale EXCEPT ![i] = \E q \in Procs \ {p} :
                                            In(q, "record") /\ proc[q].port = i]
        /\ Goto(p, pc) /\ set' = set /\ record' = record
    BY <1>3 DEF AttachPort, Others
  <2>2. i \in Ports
    BY <1>1 DEF NetInv, AttachInv, In
  <2>3. port'[i] = DevConn(p) /\ \A j \in Ports \ {i} : port'[j] = port[j]
    BY <1>1, <2>1, <2>2 DEF WireTypeOK
  <2>4. \A j \in Ports \ {i} : stale'[j] = stale[j]
    BY <1>1, <2>1, <2>2 DEF ProgramTypeOK
  <2>5. ASSUME NEW q \in Procs \ {p}, In(q, "record"), proc[q].port = i
        PROVE  stale'[i]
    <3>1. PICK b \in BOOLEAN : b = (\E r \in Procs \ {p} : In(r, "record") /\ proc[r].port = i)
      BY Zenon
    <3>2. stale' = [stale EXCEPT ![i] = b]
      BY <2>1, <3>1, Zenon
    <3>3. b
      BY <2>5, <3>1, Zenon
    <3> QED BY <1>1, <2>2, <3>2, <3>3 DEF ProgramTypeOK
  <2>6. /\ proc'[p].pc = pc /\ proc'[p].port = i /\ proc'[p].dev = proc[p].dev
        /\ \A q \in Procs \ {p} : proc'[q] = proc[q]
    BY <1>1, <2>1 DEF Goto, ProgramTypeOK, ProcRec
  <2> HIDE DEF i, pc
  <2>7. RecordInv'
    <3>1. SUFFICES ASSUME NEW q \in Procs, In(q, "record")'
                   PROVE  \/ stale'[proc'[q].port]
                          \/ port'[proc'[q].port] \in {NoConn, DevConn(q)'}
      BY DEF RecordInv
    <3>2. CASE q = p
      BY <2>3, <2>6, <3>2 DEF DevConn
    <3>3. CASE q # p
      <4>1. proc'[q] = proc[q] /\ In(q, "record") /\ DevConn(q)' = DevConn(q)
        BY <2>6, <3>1, <3>3 DEF In, DevConn
      <4>2. proc[q].port \in Ports
        BY <4>1, PortOfRecord
      <4>3. CASE proc[q].port = i
        BY <2>5, <3>3, <4>1, <4>3
      <4>4. CASE proc[q].port # i
        BY <2>3, <2>4, <4>1, <4>2, <4>4 DEF RecordsInv, RecordInv
      <4> QED BY <4>3, <4>4
    <3> QED BY <3>2, <3>3
  <2>8. RecordNamesDevice'
    <3>1. SUFFICES ASSUME NEW j \in Ports, set.os = "linux", port'[j] # NoConn, ~stale'[j],
                          \A q \in Procs : ~ (In(q, "record")' /\ proc'[q].port = j)
                   PROVE  record[j] = port'[j][2]
      BY <2>1 DEF RecordNamesDevice, Shown
    <3>2. pc = "record"
      BY <3>1 DEF pc
    <3>3. j # i
      BY <2>6, <3>1, <3>2 DEF In
    <3>4. port'[j] = port[j] /\ ~stale[j]
      BY <2>3, <2>4, <3>1, <3>3
    <3>5. \A q \in Procs : ~ (In(q, "record") /\ proc[q].port = j)
      BY <1>1, <2>6, <3>1 DEF In
    <3> QED BY <3>1, <3>4, <3>5 DEF RecordsInv, RecordNamesDevice, Shown
  <2> QED BY <2>7, <2>8 DEF RecordsInv
<1> QED BY <1>2, <1>3

(* A record is written, for a port that the run attached last or that is      *)
(* stale, or it cannot be written.                                            *)
LEMMA WriteRecords ==
  ASSUME NetInv, RecordsInv, NEW p \in Procs, RecordConnection(p)
  PROVE  RecordsInv'
<1> DEFINE i == proc[p].port
<1>1. In(p, "record") /\ WireTypeOK /\ ProgramTypeOK /\ i \in Ports
  BY PortOfRecord DEF RecordConnection, NetInv
<1>2. set' = set /\ port' = port
  BY DEF RecordConnection, Others
<1>3. Goto(p, "litem") \/ Goto(p, "ended")
  BY DEF RecordConnection
<1>4. /\ proc'[p].pc # "record" /\ \A q \in Procs \ {p} : proc'[q] = proc[q]
  BY <1>1, <1>3 DEF ProgramTypeOK, ProcRec, Goto
<1>5. stale[i] \/ port[i] \in {NoConn, DevConn(p)}
  BY <1>1 DEF RecordsInv, RecordInv
<1>6. CASE record' = [record EXCEPT ![i] = Recorded(p)] /\ UNCHANGED stale
  <2>1. record'[i] = proc[p].dev /\ \A j \in Ports \ {i} : record'[j] = record[j]
    BY <1>1, <1>6 DEF ProgramTypeOK, Recorded
  <2>2. RecordInv'
    BY <1>2, <1>4, <1>6 DEF RecordsInv, RecordInv, In, DevConn
  <2>3. RecordNamesDevice'
    <3>1. SUFFICES ASSUME NEW j \in Ports, set.os = "linux", port[j] # NoConn, ~stale[j],
                          \A q \in Procs : ~ (In(q, "record")' /\ proc'[q].port = j)
                   PROVE  record'[j] = port[j][2]
      BY <1>2, <1>6 DEF RecordNamesDevice, Shown
    <3>2. CASE j = i
      <4>1. port[i] = DevConn(p)
        BY <1>5, <3>1, <3>2
      <4> QED BY <2>1, <3>2, <4>1 DEF DevConn
    <3>3. CASE j # i
      <4>1. \A q \in Procs : ~ (In(q, "record") /\ proc[q].port = j)
        BY <1>4, <3>1, <3>3 DEF In
      <4> QED BY <2>1, <3>1, <3>3, <4>1 DEF RecordsInv, RecordNamesDevice, Shown
    <3> QED BY <3>2, <3>3
  <2> QED BY <2>2, <2>3 DEF RecordsInv
<1>7. CASE /\ stale' = [stale EXCEPT ![i] = @ \/ port[i] = DevConn(p)]
           /\ UNCHANGED record
  <2>1. PICK b \in BOOLEAN : b = (stale[i] \/ port[i] = DevConn(p))
    BY Zenon
  <2>2. stale' = [stale EXCEPT ![i] = b]
    BY <1>7, <2>1, Zenon
  <2>3. stale'[i] = b /\ \A j \in Ports \ {i} : stale'[j] = stale[j]
    BY <1>1, <2>2 DEF ProgramTypeOK
  <2>4. stale'[i] \/ port'[i] = NoConn
    BY <1>2, <1>5, <2>1, <2>3
  <2>5. \A j \in Ports : stale[j] => stale'[j]
    BY <1>1, <2>1, <2>3
  <2>6. \A q \in Procs : In(q, "record")' => proc'[q] = proc[q]
    BY <1>4 DEF In
  <2> QED BY <1>2, <1>4, <1>7, <2>4, <2>5, <2>6, RecordsStay
<1> QED BY <1>6, <1>7 DEF RecordConnection

(* The kernel drops a port, and the user detaches one.                        *)
LEMMA LostRecords ==
  ASSUME NetInv, RecordsInv, NEW i \in Ports, Lost(i)
  PROVE  RecordsInv'
<1>1. /\ UNCHANGED <<set, record, stale, proc>>
      /\ port' = [port EXCEPT ![i] = NoConn] /\ WireTypeOK
  BY DEF Lost, NetInv
<1>2. \A j \in Ports : port'[j] \in {port[j], NoConn}
  BY <1>1 DEF WireTypeOK
<1> QED BY <1>1, <1>2, RecordsStay

LEMMA DetachRecords ==
  ASSUME NetInv, RecordsInv, NEW p \in Procs, DetachPort(p)
  PROVE  RecordsInv'
<1>1. ~In(p, "record") /\ WireTypeOK /\ ProgramTypeOK
  BY DEF DetachPort, In, NetInv
<1>2. CASE Exit(p)
  BY <1>1, <1>2, ExitRecords
<1>3. CASE ~Exit(p)
  <2>1. PICK i : /\ port' = [port EXCEPT ![i] = NoConn]
                 /\ Goto(p, "ended") /\ UNCHANGED <<set, record, stale>>
    BY <1>3 DEF DetachPort, Others
  <2>2. \A j \in Ports : port'[j] \in {port[j], NoConn}
    BY <1>1, <2>1 DEF WireTypeOK
  <2>3. proc'[p].pc = "ended" /\ \A q \in Procs \ {p} : proc'[q] = proc[q]
    BY <1>1, <2>1 DEF Goto, ProgramTypeOK, ProcRec
  <2> QED BY <1>1, <2>1, <2>2, <2>3, RecordsStay DEF In
<1> QED BY <1>2, <1>3

(* The other steps of a run: it goes on to a place where it has no record to  *)
(* write, or fails, or ends.                                                  *)
LEMMA MoveRecords ==
  ASSUME NetInv, RecordsInv, NEW p \in Procs, Client(p)
  PROVE  RecordsInv'
<1>1. ProgramTypeOK
  BY DEF NetInv
<1>2. ASSUME NEW to, to # "record", Goto(p, to), ~In(p, "record"), UNCHANGED <<set, portVars>>
      PROVE  RecordsInv'
  <2>1. proc'[p].pc = to /\ \A q \in Procs \ {p} : proc'[q] = proc[q]
    BY <1>1, <1>2 DEF Goto, ProgramTypeOK, ProcRec
  <2> QED BY <1>2, <2>1, RecordsOfOthers
<1>3. ASSUME NEW from, from # "record", NEW c, NEW to, to # "record",
             \/ Connect(p, from, c, to, Exit(p))
             \/ Connect(p, from, c, to, AttachFails(p))
      PROVE  RecordsInv'
  BY <1>2, <1>3, ExitRecords, FailRecords DEF Connect, In, Others
<1>4. ASSUME NEW from, from # "record", NEW c, NEW to, to # "record", NEW pdu,
             \/ Send(p, from, c, pdu, to, Exit(p))
             \/ Send(p, from, c, pdu, to, AttachFails(p))
      PROVE  RecordsInv'
  BY <1>2, <1>4, ExitRecords, FailRecords DEF Send, In, Others
<1>5. CASE ConnectForList(p) \/ ConnectForImport(p)
  BY <1>3, <1>5 DEF ConnectForList, ConnectForImport
<1>6. CASE SendDevlist(p) \/ SendImport(p) \/ SendRequest(p)
  BY <1>4, <1>6 DEF SendDevlist, SendImport, SendRequest
<1>7. CASE RecvDevlist(p) \/ RecvDevice(p)
  <2>1. ~In(p, "record")
    BY <1>7 DEF RecvDevlist, RecvDevice, In
  <2>2. CASE Exit(p)
    BY <2>1, <2>2, ExitRecords
  <2>3. CASE ~Exit(p)
    <3>1. /\ UNCHANGED <<set, portVars>> /\ proc'[p].pc \in {"litem", "connect"}
          /\ \A q \in Procs \ {p} : proc'[q] = proc[q]
      <4>1. CASE RecvDevlist(p)
        BY <1>1, <2>3, <4>1 DEF RecvDevlist, Others, ProgramTypeOK, ProcRec
      <4>2. CASE RecvDevice(p)
        BY <1>1, <2>3, <4>2 DEF RecvDevice, Others, ProgramTypeOK, ProcRec, In
      <4> QED BY <1>7, <4>1, <4>2
    <3> QED BY <2>1, <3>1, RecordsOfOthers
  <2> QED BY <2>2, <2>3
<1>8. CASE ListRead(p) \/ RecvImport(p)
  BY <1>2, <1>8, ExitRecords, FailRecords DEF ListRead, RecvImport, In, Others, portVars
<1>9. CASE DriverOpen(p) \/ DetachOpen(p)
  <2>1. /\ UNCHANGED <<set, portVars>> /\ ~In(p, "record") /\ proc'[p].pc # "record"
        /\ \A q \in Procs \ {p} : proc'[q] = proc[q]
    BY <1>1, <1>9 DEF DriverOpen, DetachOpen, ReadStatus, Others, In, ProgramTypeOK, ProcRec
  <2> QED BY <2>1, RecordsOfOthers
<1>10. CASE GetFreePort(p)
  <2>1. ~In(p, "record")
    BY <1>10 DEF GetFreePort, In
  <2>2. CASE AttachFails(p)
    BY <2>1, <2>2, FailRecords
  <2>3. CASE ~AttachFails(p)
    <3>1. /\ UNCHANGED <<set, portVars>> /\ proc'[p].pc # "record"
          /\ \A q \in Procs \ {p} : proc'[q] = proc[q]
      BY <1>1, <1>10, <2>3 DEF GetFreePort, Others, ProgramTypeOK, ProcRec
    <3> QED BY <2>1, <3>1, RecordsOfOthers
  <2> QED BY <2>2, <2>3
<1>11. CASE ForwardEnds(p)
  BY <1>11, ExitRecords DEF ForwardEnds, In
<1> QED BY <1>5, <1>6, <1>7, <1>8, <1>9, <1>10, <1>11, AttachRecords, WriteRecords,
           DetachRecords DEF Client

LEMMA StepRecords == NetInv /\ RecordsInv /\ [Next]_vars => RecordsInv'
<1> SUFFICES ASSUME NetInv, RecordsInv, [Next]_vars PROVE RecordsInv'
  OBVIOUS
<1>1. CASE Probe \/ Pull \/ (\E d \in Devs : Release(d)) \/ UNCHANGED vars
  BY <1>1, RecordsUntouched DEF Probe, Pull, Release, vars
<1>2. ASSUME NEW b \in Binders, Binder(b) PROVE RecordsInv'
  <2>1. UNCHANGED <<set, portVars, proc>>
    BY <1>2 DEF Binder, ReadAttributes, GetDriver, UnbindInterface, AddMatchBusid,
                ReadAgain, BindInterface, UndoMatch, ReadConfig, DelMatchBusid,
                WriteConfig, ModifyMatchBusid, NothingInSysfs, OnlyBinder
  <2> QED BY <2>1, RecordsUntouched
<1>3. CASE Daemon \/ Shutdown
  <2>1. UNCHANGED <<set, portVars, proc>>
    BY <1>3 DEF Daemon, Shutdown, StubDriverOpen, Accept, RecvCommon, RefreshDevice,
                RecvRequestDevlist, SendReplyDevlist, RecvRequestImport,
                SendReplyImport, Hangup, Rest
  <2> QED BY <2>1, RecordsUntouched
<1>4. ASSUME NEW p \in Procs, Kill(p) PROVE RecordsInv'
  BY <1>4, LeaveRecords DEF Kill
<1> QED BY <1>1, <1>2, <1>3, <1>4, MoveRecords, LostRecords DEF Next

(* What "usbip --port" says of a used port on Linux is the device in it,      *)
(* unless a run between attach and record was overtaken or ended there: the   *)
(* port of a run with a record to write is stale, empty or its own.           *)
THEOREM RecordCorrect == Spec => []RecordNamesDevice
<1>1. Init => RecordsInv
  <2>1. SUFFICES ASSUME Init PROVE RecordsInv
    OBVIOUS
  <2>2. \A p \in Procs : ~In(p, "record")
    BY <2>1, InitRuns DEF In
  <2>3. \A i \in Ports : port[i] = NoConn
    BY <2>1 DEF Init
  <2> QED BY <2>2, <2>3 DEF RecordsInv, RecordInv, RecordNamesDevice
<1>2. RecordsInv => RecordNamesDevice
  BY DEF RecordsInv
<1> QED BY <1>1, <1>2, StepRecords, NetInvariant, PTL DEF Spec
=============================================================================
