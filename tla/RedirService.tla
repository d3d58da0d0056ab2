---------------------------- MODULE RedirService ----------------------------
(* The redirection service (MainService.c, ServerSocket.c, UsbIsolation.c,    *)
(* PrinterIsolation.c): one thread for each connection starts usbip.exe in    *)
(* the session of the client that asks, finds the USB device that appears and *)
(* gives it to that session only until usbip.exe ends.                        *)
EXTENDS StorIsolation

Idle(d) == [pc |-> "none", dev |-> d, disk |-> NoDisk, last |-> Unread, nxt |-> NULL,
            at |-> 0, hit |-> FALSE, as |-> Public, round |-> 0, gave |-> {}]

Init ==
    /\ set \in Settings
    /\ session = set.session
    /\ child = [t \in Threads |-> "none"]
    /\ dev = [d \in Devs |-> IF d \in set.local THEN "usb" ELSE "absent"]
    /\ disk = [d \in Devs |-> NoDisk]
    /\ holder \in [Devs -> {CHOOSE t \in Threads : TRUE}]
    /\ vols = {} /\ vletter = [v \in Vols |-> 0] /\ defs = {}
    /\ acl = [d \in Devs |-> {Everyone, Admins}]
    /\ sddl = [d \in Devs |-> "default"]
    /\ alive = "running"
    /\ sock = [t \in Threads |-> "none"]
    /\ th = [t \in Threads |-> Idle(set.req[t].dev)]
    /\ head = NULL /\ cell = [c \in Cells |-> [RawCell EXCEPT !.free = TRUE]]
    /\ crowd = {} /\ lost = {}

-----------------------------------------------------------------------------
(* The process: stopped and started by the service control manager.  A stop   *)
(* ends it wherever its threads are.                                          *)
ServiceHandler == Alive /\ set.stops /\ Die("stopped")

ServiceMain ==
    /\ ~Alive /\ set.stops /\ alive' = "running"
    /\ UNCHANGED <<set, userVars, deviceVars, defs, sock, th, listVars, lost>>

-----------------------------------------------------------------------------
(* A connection gets a thread, DoConnect, which waits for the request as long *)
(* as it takes; a query is answered.                                          *)
WaitForConnect(t) ==
    /\ Alive /\ At(t, "none") /\ set.req[t].do # "none"
    /\ sock' = [sock EXCEPT ![t] = "open"] /\ Become(t, "recv")
    /\ UNCHANGED <<set, userVars, deviceVars, defs, alive, listVars, lost>>

\* The client sends its request, or closes the connection without one; a
\* client that does neither keeps the thread.
Receive(t) ==
    /\ At(t, "recv")
    /\ \/ set.req[t].do = "redirect" /\ Become(t, "session")
       \/ Become(t, "close")
    /\ OnlyPc

\* GetSessionIDFromIP found the session and RunAsUser started usbip.exe, or
\* failed to: then there is nothing to wait for.
StartChild(t) ==
    /\ At(t, "session") /\ session[Host(t)] = "active"
    /\ \/ child' = [child EXCEPT ![t] = "running"] /\ Become(t, "usb")
       \/ set.fails /\ Become(t, "close") /\ UNCHANGED child
    /\ UNCHANGED <<set, session, deviceVars, defs, alive, sock, listVars, lost>>

\* No session after 40 tries: the thread returns and leaves its socket open.
NoSession(t) ==
    /\ At(t, "session") /\ session[Host(t)] # "active"
    /\ Become(t, "ended") /\ OnlyPc

\* Mutant: the thread returns without closesocket.
CloseNot(t) == At(t, "close") /\ Become(t, "ended") /\ OnlyPc
Close(t) ==
    /\ At(t, "close")
    /\ sock' = [sock EXCEPT ![t] = "closed"]
    /\ Become(t, "ended")
    /\ UNCHANGED <<set, userVars, deviceVars, defs, alive, listVars, lost>>

-----------------------------------------------------------------------------
(* UsbIsolation: a device is the one if its name is found anywhere in the     *)
(* compatible id.                                                             *)
FindDevice(t) ==
    /\ At(t, "usb") /\ Running(t)
    /\ \E d \in Alike[set.req[t].dev] :
       /\ dev[d] # "absent"
       /\ th' = [th EXCEPT ![t].dev = d,
                    ![t].pc = CASE Kind[d] = "storage" -> "search"
                                [] Kind[d] = "printer" -> "printer"
                                [] OTHER -> "other"]
    /\ OnlyPc

\* FindDeviceType fails: the device counts as found and is not isolated.
NoDeviceType(t) ==
    /\ At(t, "usb") /\ Running(t) /\ set.fails
    /\ \E d \in Alike[set.req[t].dev] : dev[d] # "absent"
    /\ Become(t, "wait") /\ OnlyPc

ChildHasEnded(t) ==
    /\ th[t].pc \in {"usb", "wait"} /\ ~Running(t)
    /\ Become(t, "close") /\ OnlyPc

\* The property is set with the size of a pointer: it fails, or cuts the text.
SetSecurity(t) ==
    /\ \/ At(t, "other") /\ Become(t, "restricted")
       \/ At(t, "restricted") /\ ~Running(t) /\ Become(t, "close")
    /\ sddl' \in {sddl, [sddl EXCEPT ![th[t].dev] = "cut"]}
    /\ UNCHANGED <<set, userVars, dev, holder, disk, vols, vletter, acl, defs, alive,
                   sock, listVars, lost>>

-----------------------------------------------------------------------------
(* UsbPrinterIsolation                                                        *)
OnlyAcl == UNCHANGED <<set, userVars, dev, holder, disk, vols, vletter, sddl, defs,
                       alive, sock, listVars, lost>>

\* SetPrinterACL stops at the first call that fails; nobody looks whether.
\* Where the last two calls, for SYSTEM, fail, the user has been added.
SetPrinterACL(t) ==
    LET d == th[t].dev
        without(S) == [acl EXCEPT ![d] = @ \ S]
        added == [acl EXCEPT ![d] = (@ \ {Everyone, Admins}) \cup {Host(t)}] IN
    /\ At(t, "printer") /\ Running(t) /\ dev[d] = "ready"
    /\ \/ acl' = added /\ th' = [th EXCEPT ![t].pc = "printing", ![t].hit = TRUE]
       \/ /\ set.fails
          /\ acl' \in {acl, without({Everyone}), without({Everyone, Admins})}
          /\ Become(t, "printing")
    /\ OnlyAcl

\* RemovePrinterACL; without a printer the name is empty and it fails.
RemovePrinterACL(t) ==
    /\ th[t].pc \in {"printer", "printing"} /\ ~Running(t)
    /\ \/ /\ At(t, "printing") /\ Become(t, "close")
          /\ acl' = [acl EXCEPT ![th[t].dev] = @ \ {Host(t)}]
       \/ /\ At(t, "printer") \/ set.fails
          /\ th' = [th EXCEPT ![t].pc = "close", ![t].hit = FALSE]
          /\ acl' = acl
    /\ OnlyAcl

-----------------------------------------------------------------------------
DoConnect(t) ==
    \/ StartChild(t) \/ NoSession(t) \/ Close(t)
    \/ FindDevice(t) \/ NoDeviceType(t) \/ ChildHasEnded(t)
    \/ SetSecurity(t) \/ SetPrinterACL(t) \/ RemovePrinterACL(t)
    \/ EnumDiskAndRemap(t)

Next ==
    \/ ServiceHandler \/ ServiceMain
    \/ \E t \in Threads : \/ WaitForConnect(t) \/ Receive(t) \/ DoConnect(t)
                        \/ Attach(t) \/ ChildEnds(t)
    \/ \E d \in Devs : Install(d)
    \/ \E v \in Vols : Arrive(v)
    \/ \E h \in Hosts : LogOn(h) \/ LogOff(h)

\* The threads are scheduled.  Nobody has to connect, to send a request, to log
\* on or off, to unplug a device or to stop the service, and Windows need not
\* find a disk.
Spec == Init /\ [][Next]_vars /\ \A t \in Threads : WF_vars(DoConnect(t))

-----------------------------------------------------------------------------
Pcs == {"none", "ended", "recv", "session", "close", "usb", "wait", "other",
        "restricted", "printer", "printing", "search", "enum", "scan", "append",
        "first", "gohead", "link", "gonext", "fill", "remount", "map",
        "notify", "await", "over", "unmap", "take", "pass", "free"}

(* The shape of the state; a thread that has ended left its socket open only  *)
(* if it never started usbip.exe (DoConnect returns when it finds no session),*)
(* and without the process there is no thread and no list.                    *)
TypeOK ==
    /\ session \in [Hosts -> {"none", "active", "ended"}]
    /\ child \in [Threads -> {"none", "running", "ended"}]
    /\ dev \in [Devs -> {"absent", "usb", "ready"}] /\ holder \in [Devs -> Threads]
    /\ disk \in [Devs -> DiskNumbers \cup {NoDisk}]
    /\ vletter \in [Vols -> Letters \cup {0}]
    /\ \A v \in vols : dev[DevOf[v]] = "ready"
    /\ defs \subseteq (Hosts \cup {Public}) \X Letters \X (Vols \cup {0})
    /\ acl \in [Devs -> SUBSET (Hosts \cup {Everyone, Admins})]
    /\ sddl \in [Devs -> {"default", "cut"}]
    /\ \A t \in Threads :
          /\ th[t].pc \in Pcs /\ th[t].as \in Hosts \cup {Public}
          /\ th[t].nxt \in Cells \cup {NULL, Garbage}
          /\ (sock[t] = "none") <=> (th[t].pc = "none")
          /\ At(t, "ended") /\ sock[t] = "open" => child[t] = "none"
    /\ head \in Cells \cup {NULL, Garbage}
    /\ cell \in [Cells -> [free : BOOLEAN, vol : Vols \cup {0},
                           letter : Letters \cup {0}, next : Cells \cup {NULL, Garbage}]]
    /\ ~Alive => Threading = {} /\ head = NULL

(* A fault in the list of volumes takes two threads that used it at once: one *)
(* thread alone never follows a pointer to a freed or unfilled cell, frees    *)
(* none twice, and leaves a list that the next can use, whichever calls fail, *)
(* however often it searches again and whenever usbip.exe or the service      *)
(* ends.  The message about a letter that could not be removed is left out:   *)
(* it reads a freed cell (StorIsolation.c:178).                               *)
FaultsTakeTwo == alive = "faulted" => crowd # {}

(* What a thread must have done some time after its usbip.exe has ended.      *)
SessionMissing(t) == At(t, "ended") /\ child[t] = "none" /\ sock[t] = "open"
LettersLeft(t) == th[t].gave \cap (Defined(NsOf(Host(t))) \cup Defined(Public))
RightLeft(t) == /\ Kind[th[t].dev] = "printer" /\ th[t].hit
                /\ Host(t) \in acl[th[t].dev]
Cleared(t) ==
    /\ At(t, "ended")
    /\ sock[t] = "closed" \/ SessionMissing(t)
    /\ \/ LettersLeft(t) = {} /\ ~RightLeft(t)
       \/ t \in lost \/ \E u \in Threads : {t, u} \in crowd

=============================================================================
