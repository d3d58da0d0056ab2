------------------------------- MODULE Usbipd -------------------------------
(* usbipd (usbip_src/usbipd.c) with the stub driver's list of devices         *)
(* (usbip_libsrc/stub_driver.c).  One thread serves one connection at a time: *)
(* while it reads or writes one, the others wait in the backlog.  The state   *)
(* is a record: pc, the connection, its request, the list that was read from  *)
(* sysfs, the devices still to be looked at, and the result of the export.    *)
EXTENDS SharedHost

InitDaemon == [pc |-> "off", c |-> NoConn, op |-> "none", edevs |-> <<>>,
               unread |-> {}, error |-> FALSE]

Idle == [InitDaemon EXCEPT !.pc = "poll"]
Serves(pc) == daemon.pc = pc
Rest == UNCHANGED <<set, stubVars, portVars, bind, proc, disturbed>>

\* usbip_stub_driver_open gives up where the driver has another name.
StubDriverOpen ==
    /\ Serves("off")
    /\ daemon' = [daemon EXCEPT !.pc = IF set.stub = "usbip-host" THEN "poll" ELSE "dead"]
    /\ Rest /\ UNCHANGED <<exported, netVars, granted>>

\* Mutant: the connection is served and stays in the backlog.
AcceptAndKeep ==
    /\ Serves("poll") /\ backlog # <<>>
    /\ daemon' = [daemon EXCEPT !.pc = "common", !.c = Head(backlog)]
    /\ Rest /\ UNCHANGED <<exported, netVars, granted>>

Accept ==
    /\ Serves("poll") /\ backlog # <<>>
    /\ daemon' = [daemon EXCEPT !.pc = "common", !.c = Head(backlog)]
    /\ backlog' = Tail(backlog)
    /\ Rest /\ UNCHANGED <<exported, cl, sv, toS, toC, granted>>

\* close(csock) at the end of process_comming_request.
CloseSocket == /\ daemon' = Idle
               /\ sv' = [sv EXCEPT ![daemon.c] = @ \ {"daemon"}]

Hangup(fails) ==
    /\ fails
    /\ CloseSocket
    /\ Rest /\ UNCHANGED <<exported, cl, toS, toC, granted, backlog>>

\* recv_pdu: the header is read and the list of devices is made anew.
RecvCommon ==
    /\ Serves("common")
    /\ \/ /\ toS[daemon.c] # <<>>
          /\ daemon' = [daemon EXCEPT !.pc = "refresh", !.op = Head(toS[daemon.c]),
                           !.edevs = <<>>, !.unread = {d \in Devs : Bound(d) # {}}]
          /\ toS' = [toS EXCEPT ![daemon.c] = Tail(@)]
          /\ Rest /\ UNCHANGED <<exported, cl, sv, toC, granted, backlog>>
       \/ Hangup(DaemonRecvFails(daemon.c))

\* usbip_exported_device_new: the status of a device is that of interface 0.
\* The device is left out when the file does not come back in time.
RefreshDevice ==
    /\ Serves("refresh")
    /\ \E d \in daemon.unread :
          daemon' = [daemon EXCEPT !.unread = @ \ {d},
              !.edevs = IF 0 \in Bound(d)
                        THEN <<[dev |-> d, free |-> exported[d] = NoConn]>> \o @ ELSE @]
    /\ Rest /\ UNCHANGED <<exported, netVars, granted>>

Refreshed(op) == Serves("refresh") /\ daemon.unread = {} /\ daemon.op = op

-----------------------------------------------------------------------------
(* The list.  Its request has a body of one word in this tree (set.body) that *)
(* no client sends; a daemon compiled with an empty one goes straight on.     *)
RecvRequestDevlist ==
    /\ Refreshed("devlist")
    /\ \/ /\ ~set.body
          /\ toC' = [toC EXCEPT ![daemon.c] = Append(@, Len(daemon.edevs))]
          /\ daemon' = [daemon EXCEPT !.pc = "list"]
          /\ Rest /\ UNCHANGED <<exported, cl, sv, toS, granted, backlog>>
       \/ Hangup(set.body /\ DaemonRecvFails(daemon.c))

SendReplyDevlist ==
    /\ Serves("list")
    /\ \/ /\ daemon.edevs # <<>> /\ Len(toC[daemon.c]) < SockBuf
          /\ toC' = [toC EXCEPT ![daemon.c] = Append(@, Head(daemon.edevs).dev)]
          /\ daemon' = [daemon EXCEPT !.edevs = Tail(@)]
          /\ Rest /\ UNCHANGED <<exported, cl, sv, toS, granted, backlog>>
       \/ Hangup(daemon.edevs = <<>> \/ cl[daemon.c] = {})

-----------------------------------------------------------------------------
(* The import.  usbip_stub_export_device looks at the status that was read;   *)
(* the stub driver has the last word when the socket is written to it.        *)
Found(d) == \E k \in DOMAIN daemon.edevs : daemon.edevs[k].dev = d
Free(d) == \E k \in DOMAIN daemon.edevs : daemon.edevs[k] = [dev |-> d, free |-> TRUE]

\* Mutant: the result of usbip_stub_export_device is not looked at.
ImportError(d, accepted) == ~Found(d)
ExportError(d, accepted) == ~Found(d) \/ ~Free(d) \/ ~accepted

RecvRequestImport ==
    /\ Refreshed("import")
    /\ \/ /\ toS[daemon.c] # <<>>
          /\ LET d == Head(toS[daemon.c])
                 accepted == Found(d) /\ Free(d) /\ Available(d)
             IN /\ IF accepted
                   THEN /\ exported' = [exported EXCEPT ![d] = daemon.c]
                        /\ sv' = [sv EXCEPT ![daemon.c] = @ \cup {"kernel"}]
                        /\ granted' = granted \cup {daemon.c}
                   ELSE UNCHANGED <<exported, sv, granted>>
                /\ daemon' = [daemon EXCEPT !.pc = "reply", !.error = ExportError(d, accepted)]
          /\ toS' = [toS EXCEPT ![daemon.c] = Tail(@)]
          /\ Rest /\ UNCHANGED <<cl, toC, backlog>>
       \/ Hangup(DaemonRecvFails(daemon.c))

\* The reply, with the device after it when there is no error; then the close.
SendReplyImport ==
    /\ Serves("reply")
    /\ toC' = [toC EXCEPT ![daemon.c] = Append(@, IF daemon.error THEN 0 ELSE daemon.c[2])]
    /\ CloseSocket
    /\ Rest /\ UNCHANGED <<exported, cl, toS, granted, backlog>>

\* SIGTERM or SIGINT ends the main loop after the request that is served;
\* SIGKILL ends usbipd anywhere.
Shutdown ==
    /\ set.stops /\ daemon.pc \notin {"off", "dead"}
    /\ daemon' = [InitDaemon EXCEPT !.pc = "dead"]
    /\ sv' = [c \in Conns |-> sv[c] \ (IF c \in ToSet(backlog) \cup {daemon.c}
                                      THEN {"daemon"} ELSE {})]
    /\ backlog' = <<>>
    /\ Rest /\ UNCHANGED <<exported, cl, toS, toC, granted>>

Daemon == \/ StubDriverOpen \/ Accept \/ RecvCommon \/ RefreshDevice
          \/ RecvRequestDevlist \/ SendReplyDevlist
          \/ RecvRequestImport \/ SendReplyImport
=============================================================================
