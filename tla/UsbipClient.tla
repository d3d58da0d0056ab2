----------------------------- MODULE UsbipClient -----------------------------
(* The program usbip (usbip_src/usbip.c) on Linux (usbip_linux.c and          *)
(* usbip_libsrc/vhci_driver.c) and on Windows (usbip_windows.c): attach,      *)
(* attach all, detach, list.  A run of it is a process; a step is a call that *)
(* reads or changes a connection, a port of the kernel or a record file.      *)
EXTENDS SharedHost

InitProc(cmd) ==
    [pc |-> CASE cmd.do \in {"list", "attachall"} -> "lconnect"
              [] cmd.do = "attach" -> IF set.os = "windows" THEN "lconnect" ELSE "connect"
              [] cmd.do = "detach" -> "dopen"
              [] cmd.do = "none"   -> "ended",
     dev |-> IF cmd.do = "attach" THEN cmd.arg ELSE 0,
     left |-> 0, found |-> FALSE, snap |-> {}, port |-> 0]

Cmd(p) == set.cmd[p]
In(p, pc) == proc[p].pc = pc
Goto(p, pc) == proc' = [proc EXCEPT ![p].pc = pc]
Others == UNCHANGED <<set, stubVars, exported, bind, daemon, granted, disturbed>>
NoNet == UNCHANGED netVars

ListConn(p) == <<p, 0>>
DevConn(p) == <<p, proc[p].dev>>
Used == {i \in Ports : port[i] # NoConn}

\* The end of a process closes its sockets and, on Windows, its bus file.
Leave(p, at) ==
    /\ proc' = [proc EXCEPT ![p].pc = "ended"]
    /\ cl' = [c \in Conns |-> IF c[1] = p THEN cl[c] \ {"process"} ELSE cl[c]]
    /\ port' = [i \in Ports |-> IF set.os = "windows" /\ port[i] # NoConn
                                    /\ port[i] \in {p} \X Devs
                                THEN NoConn ELSE port[i]]
    /\ stale' = [i \in Ports |-> stale[i] \/ (at = "record" /\ port[i] = DevConn(p))]

Exit(p) == Leave(p, "return") /\ Others /\ UNCHANGED <<sv, toS, toC, record, backlog>>

\* Mutant: a run that finds no free port reads the status again.
AttachFailsAgain(p) ==
    IF In(p, "port") THEN Goto(p, "open") /\ Others /\ NoNet /\ UNCHANGED portVars
    ELSE IF Cmd(p).do = "attachall"
    THEN Goto(p, "litem") /\ Others /\ NoNet /\ UNCHANGED portVars
    ELSE Exit(p)

\* attach_device returns an error without a close: attachall takes the next
\* device, another command ends.
AttachFails(p) ==
    IF Cmd(p).do = "attachall"
    THEN Goto(p, "litem") /\ Others /\ NoNet /\ UNCHANGED portVars
    ELSE Exit(p)

-----------------------------------------------------------------------------
(* Connections: tcp_connect, the requests, and the list of devices.           *)
Connect(p, from, c, to, fails) ==
    /\ In(p, from)
    /\ IF daemon.pc \notin {"off", "dead"}
       THEN /\ cl' = [cl EXCEPT ![c] = {"process"}]
            /\ sv' = [sv EXCEPT ![c] = {"daemon"}]
            /\ backlog' = Append(backlog, c)
            /\ Goto(p, to)
            /\ Others /\ UNCHANGED <<toS, toC, portVars>>
       ELSE fails

Send(p, from, c, pdu, to, fails) ==
    /\ In(p, from)
    /\ IF sv[c] # {}
       THEN /\ toS' = [toS EXCEPT ![c] = Append(@, pdu)]
            /\ Goto(p, to)
            /\ Others /\ UNCHANGED <<cl, sv, toC, backlog, portVars>>
       ELSE fails

ConnectForList(p)   == Connect(p, "lconnect", ListConn(p), "lsend", Exit(p))
SendDevlist(p)      == Send(p, "lsend", ListConn(p), "devlist", "lcommon", Exit(p))
ConnectForImport(p) == Connect(p, "connect", DevConn(p), "send", AttachFails(p))
SendImport(p)       == Send(p, "send", DevConn(p), "import", "request", AttachFails(p))
SendRequest(p)      == Send(p, "request", DevConn(p), proc[p].dev, "reply", AttachFails(p))

\* The header of the reply and the number of devices.
RecvDevlist(p) ==
    /\ In(p, "lcommon")
    /\ \/ /\ toC[ListConn(p)] # <<>>
          /\ proc' = [proc EXCEPT ![p].pc = "litem", ![p].left = Head(toC[ListConn(p)])]
          /\ toC' = [toC EXCEPT ![ListConn(p)] = Tail(@)]
          /\ Others /\ UNCHANGED <<cl, sv, toS, backlog, portVars>>
       \/ ClientRecvFails(ListConn(p)) /\ Exit(p)

\* A device of the list: attachall attaches it, attach looks for its own.
RecvDevice(p) ==
    /\ In(p, "litem") /\ proc[p].left > 0
    /\ \/ /\ toC[ListConn(p)] # <<>>
          /\ LET d == Head(toC[ListConn(p)])
             IN proc' = [proc EXCEPT ![p].left = @ - 1, ![p].found = @ \/ d = Cmd(p).arg,
                            ![p].dev = IF Cmd(p).do = "attachall" THEN d ELSE @,
                            ![p].pc = IF Cmd(p).do = "attachall" THEN "connect" ELSE @]
          /\ toC' = [toC EXCEPT ![ListConn(p)] = Tail(@)]
          /\ Others /\ UNCHANGED <<cl, sv, toS, backlog, portVars>>
       \/ ClientRecvFails(ListConn(p)) /\ Exit(p)

\* After the list: attach on Windows closes it and connects again.
ListRead(p) ==
    /\ In(p, "litem") /\ proc[p].left = 0
    /\ IF Cmd(p).do = "attach" /\ proc[p].found
       THEN /\ cl' = [cl EXCEPT ![ListConn(p)] = {}]
            /\ Goto(p, "connect")
            /\ Others /\ UNCHANGED <<sv, toS, toC, backlog, portVars>>
       ELSE Exit(p)

\* query_import_device: the reply must say that all is well.
RecvImport(p) ==
    /\ In(p, "reply")
    /\ LET c == DevConn(p) IN
       \/ /\ toC[c] # <<>>
          /\ IF Head(toC[c]) = proc[p].dev
             THEN /\ Goto(p, "open")
                  /\ toC' = [toC EXCEPT ![c] = Tail(@)]
                  /\ Others /\ UNCHANGED <<cl, sv, toS, backlog, portVars>>
             ELSE AttachFails(p)
       \/ ClientRecvFails(c) /\ AttachFails(p)

-----------------------------------------------------------------------------
(* The ports.  On Linux the status of all ports is read as a text; then the   *)
(* device of each used port is looked up, which fails when one has gone (or   *)
(* not, when the text says that its address is not assigned yet).             *)
ReadStatus(p, from, to) ==
    /\ In(p, from)
    /\ proc' = [proc EXCEPT ![p].snap = Used, ![p].pc = to]
    /\ Others /\ NoNet /\ UNCHANGED portVars

DriverOpen(p)      == ReadStatus(p, "open", "port")
DetachOpen(p)      == ReadStatus(p, "dopen", "detach")

StatusIsOld(p) == set.os = "linux" /\ ~ (proc[p].snap \subseteq Used)

\* The lowest of the ports that the status showed as free.
FreePorts(p) == set.ports \ proc[p].snap
GetFreePort(p) ==
    /\ In(p, "port")
    /\ \/ \E i \in FreePorts(p) :
          /\ \A j \in FreePorts(p) : i <= j
          /\ proc' = [proc EXCEPT ![p].pc = "attach", ![p].port = i]
          /\ Others /\ NoNet /\ UNCHANGED portVars
       \/ /\ FreePorts(p) = {} \/ StatusIsOld(p)
          /\ AttachFails(p)

\* A port that another process took meanwhile is refused by the kernel.  On
\* Linux the socket goes to the kernel and is closed; on Windows the process
\* goes on as the forwarder.
AttachPort(p) ==
    /\ In(p, "attach")
    /\ LET i == proc[p].port
           linux == set.os = "linux"
       IN IF port[i] = NoConn
          THEN /\ port' = [port EXCEPT ![i] = DevConn(p)]
               /\ cl' = [cl EXCEPT ![DevConn(p)] = IF linux THEN {"kernel"} ELSE @]
               /\ stale' = [stale EXCEPT ![i] = \E q \in Procs \ {p} :
                               In(q, "record") /\ proc[q].port = i]
               /\ Goto(p, IF linux THEN "record" ELSE "forward")
               /\ Others /\ UNCHANGED <<sv, toS, toC, backlog, record>>
          ELSE AttachFails(p)

\* Mutant: a file that is there is left as it is.
RecordUnlessThere(p) == IF record[proc[p].port] = 0 THEN proc[p].dev
                                                    ELSE record[proc[p].port]
Recorded(p) == proc[p].dev

\* record_connection can fail, and leaves what it has not written.
RecordConnection(p) ==
    /\ In(p, "record")
    /\ LET i == proc[p].port
       IN \/ /\ record' = [record EXCEPT ![i] = Recorded(p)]
             /\ UNCHANGED stale
          \/ /\ stale' = [stale EXCEPT ![i] = @ \/ port[i] = DevConn(p)]
             /\ UNCHANGED record
    /\ IF Cmd(p).do = "attachall" THEN Goto(p, "litem") /\ UNCHANGED cl
       ELSE /\ Goto(p, "ended")
            /\ cl' = [c \in Conns |-> IF c[1] = p THEN cl[c] \ {"process"} ELSE cl[c]]
    /\ Others /\ UNCHANGED <<sv, toS, toC, backlog, port>>

\* The forwarder ends with its connection or its port.
ForwardEnds(p) ==
    /\ In(p, "forward")
    /\ sv[DevConn(p)] = {} \/ port[proc[p].port] # DevConn(p)
    /\ Exit(p)

DetachPort(p) ==
    /\ In(p, "detach")
    /\ LET i == Cmd(p).arg IN
       \/ /\ port[i] # NoConn
          /\ port' = [port EXCEPT ![i] = NoConn]
          /\ cl' = [cl EXCEPT ![port[i]] = @ \ {"kernel"}]
          /\ Goto(p, "ended")
          /\ Others /\ UNCHANGED <<sv, toS, toC, backlog, record, stale>>
       \/ (port[i] = NoConn \/ StatusIsOld(p)) /\ Exit(p)

\* The user ends a process, at any step of it.
Kill(p) ==
    /\ set.kills /\ proc[p].pc # "ended"
    /\ Leave(p, proc[p].pc)
    /\ Others /\ UNCHANGED <<sv, toS, toC, record, backlog>>

Client(p) ==
    \/ ConnectForList(p) \/ SendDevlist(p) \/ RecvDevlist(p) \/ RecvDevice(p)
    \/ ListRead(p) \/ ConnectForImport(p) \/ SendImport(p) \/ SendRequest(p)
    \/ RecvImport(p) \/ DriverOpen(p) \/ GetFreePort(p) \/ AttachPort(p) \/ RecordConnection(p)
    \/ ForwardEnds(p) \/ DetachOpen(p) \/ DetachPort(p)

\* What "usbip --port" says of a port (read_record).
Shown(i) == record[i]
=============================================================================
