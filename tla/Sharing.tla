------------------------------ MODULE Sharing ------------------------------
(* The exporting and the importing machine together: usbipd, the runs of      *)
(* bind-driver and the runs of usbip, with the two kernels between them.      *)
EXTENDS BindDriver, Usbipd, UsbipClient

Init ==
    /\ set \in Settings
    /\ plugged = Devs
    /\ driver = [d \in Devs |-> [i \in Interfaces(d) |-> set.driver]]
    /\ matched = {}
    /\ exported = [d \in Devs |-> NoConn]
    /\ cl = [c \in Conns |-> {}] /\ sv = [c \in Conns |-> {}]
    /\ toS = [c \in Conns |-> <<>>] /\ toC = [c \in Conns |-> <<>>]
    /\ backlog = <<>>
    /\ port = [i \in Ports |-> NoConn]
    /\ record = [i \in Ports |-> 0]
    /\ bind = [b \in Binders |-> InitBinder(set.bind[b])]
    /\ daemon = InitDaemon
    /\ proc = [p \in Procs |-> InitProc(set.cmd[p])]
    /\ granted = {} /\ stale = [i \in Ports |-> FALSE] /\ disturbed = {}

Next == \/ Probe \/ Pull
        \/ \E b \in Binders : Binder(b)
        \/ Daemon \/ Shutdown
        \/ \E p \in Procs : Client(p) \/ Kill(p)
        \/ \E d \in Devs : Release(d)
        \/ \E i \in Ports : Lost(i)

\* usbipd and the runs of usbip are scheduled, and the kernels notice a closed
\* connection.  Nobody has to pull a device, to kill a process, or to finish a
\* run of bind-driver.
Fairness == /\ WF_vars(Daemon)
            /\ \A p \in Procs : WF_vars(Client(p))
            /\ \A d \in Devs : WF_vars(Release(d))
            /\ \A i \in Ports : WF_vars(Lost(i))

Spec == Init /\ [][Next]_vars /\ Fairness

-----------------------------------------------------------------------------
BinderPcs == {"start", "driver", "unbind", "match", "attributes", "bind", "undo",
              "forget", "config", "failed", "complete", "ended"}
DaemonPcs == {"off", "dead", "poll", "common", "refresh", "list", "reply"}
ProcPcs == {"lconnect", "lsend", "lcommon", "litem", "connect", "send", "request",
            "reply", "open", "port", "attach", "record", "forward", "dopen", "detach", "ended"}

(* The shape of the state: what the programs hold, the ends of every          *)
(* connection, and that whatever waits in the backlog or is served is a       *)
(* connection whose server end usbipd has not closed.                         *)
TypeOK ==
    /\ plugged \subseteq Devs /\ matched \subseteq Devs /\ granted \subseteq Conns
    /\ \A d \in Devs : /\ exported[d] \in Conns \cup {NoConn}
                       /\ driver[d] \in [Interfaces(d) -> {"none", "local", "stub"}]
    /\ \A c \in Conns : /\ cl[c] \subseteq {"process", "kernel"}
                        /\ sv[c] \subseteq {"daemon", "kernel"}
                        /\ Len(toC[c]) <= SockBuf /\ Len(toS[c]) <= 2
    /\ port \in [Ports -> Conns \cup {NoConn}]
    /\ record \in [Ports -> Devs \cup {0}] /\ stale \in [Ports -> BOOLEAN]
    /\ \A b \in Binders : bind[b].pc \in BinderPcs /\ bind[b].i \in Nat
    /\ daemon.pc \in DaemonPcs /\ daemon.unread \subseteq Devs
    /\ \A p \in Procs : proc[p].pc \in ProcPcs /\ proc[p].left \in Nat
    /\ \A c \in ToSet(backlog) \cup ({daemon.c} \ {NoConn}) : "daemon" \in sv[c]

(* A port of the importing machine never stands on a connection that the stub *)
(* driver has not accepted for that device, and two ports have the same       *)
(* device only while one of them has lost its server (recv_request_import,    *)
(* query_import_device, import_device).                                       *)
GrantedOnce ==
    /\ \A d \in Devs : exported[d] # NoConn => exported[d][2] = d /\ exported[d] \in granted
    /\ \A i \in Ports : port[i] # NoConn => port[i] \in granted
    /\ \A i, j \in Ports :
          i # j /\ port[i] # NoConn /\ port[j] # NoConn
          => \/ port[i][2] # port[j][2]
             \/ sv[port[i]] = {} \/ sv[port[j]] = {}

(* What "usbip --port" says of a used port is the device that is in it, once  *)
(* no run is between its attach to that port and the record: unless the port  *)
(* changed hands while another run had its record still to write, or the      *)
(* owner's was never written (attach_device and record_connection).           *)
RecordNamesDevice ==
    \A i \in Ports :
       /\ set.os = "linux" /\ port[i] # NoConn /\ ~stale[i]
       /\ \A p \in Procs : ~ (In(p, "record") /\ proc[p].port = i)
       => Shown(i) = port[i][2]

(* usbipd waits for a word of the list's request that no client sends, or     *)
(* sends a list to a run that waits for an answer of usbipd meanwhile.        *)
SilentClient == Refreshed("devlist") /\ set.body /\ cl[daemon.c] # {}
CrossWait == /\ Serves("list") /\ daemon.edevs # <<>>
             /\ Len(toC[daemon.c]) = SockBuf
             /\ In(daemon.c[1], "reply")
DaemonHeld == SilentClient \/ CrossWait

(* usbipd was killed after it gave the connection of p to the stub driver and *)
(* before it replied: the kernel keeps the connection open and says nothing.  *)
Orphan(p) == In(p, "reply") /\ sv[DevConn(p)] = {"kernel"} /\ toC[DevConn(p)] = <<>>

(* Every run of usbip comes to its end or becomes a forwarder, unless usbipd  *)
(* is held for ever in one of the two ways above or the run is an orphan: no  *)
(* other order of requests, refusals, lost connections and killed processes   *)
(* makes one wait for ever (recv_pdu, attach_device, attach_exported_devices).*)
EveryRunEnds ==
    \/ <>[]DaemonHeld
    \/ \A p \in Procs : \/ <>[]Orphan(p)
                         \/ []<>(proc[p].pc \in {"ended", "forward"})

(* A device does not stay taken at the exporting machine by a run that could  *)
(* not attach it: it becomes available again or gets its port (the sockets    *)
(* that attach_device leaves open on its error paths live as long as the run),*)
(* unless usbipd is held for ever or the run is an orphan.                    *)
NothingStaysTaken ==
    \/ <>[]DaemonHeld
    \/ \A d \in Devs :
          (exported[d] # NoConn) ~> \/ exported[d] = NoConn
                                    \/ Orphan(exported[d][1])
                                    \/ \E i \in Ports : port[i] = exported[d]
=============================================================================
