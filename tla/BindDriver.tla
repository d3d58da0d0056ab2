----------------------------- MODULE BindDriver -----------------------------
(* usbip_bind_driver (usbip_src/bind-driver.c, utils.c): every open, read or  *)
(* write of a file under /sys is a step, since another run, a driver that is  *)
(* loaded or the user who pulls the device can come in between.               *)
EXTENDS SharedHost

InitBinder(cmd) ==
    [pc |-> IF cmd.do = "none" THEN "ended" ELSE "start", i |-> 0, failed |-> FALSE]

Dev(b) == set.bind[b].dev

\* One step of run b: from one label to another, and its interface and flag.
Step(b, from, to) == bind[b].pc = from /\ bind' = [bind EXCEPT ![b].pc = to]
Go(b, pc, i, failed) == bind' = [bind EXCEPT ![b] = [pc |-> pc, i |-> i, failed |-> failed]]
At(b, pc) == bind[b].pc = pc

OnlyBinder == UNCHANGED <<set, plugged, netVars, portVars, daemon, proc, granted>>
NothingInSysfs == OnlyBinder /\ UNCHANGED <<driver, matched, exported, disturbed>>

-----------------------------------------------------------------------------
(* unbind: the attributes of the device are read, then the driver of each     *)
(* interface is looked up and, unless there is none, told to let go.          *)
ReadAttributes(b) ==
    /\ set.bind[b].do = "usbip"
    /\ IF Dev(b) \in plugged \ Hubs THEN Step(b, "start", "driver")
                                    ELSE Step(b, "start", "failed")
    /\ NothingInSysfs

\* The end of a loop over the interfaces: go on with the next or leave.
Next1(b, again, done, failed) ==
    LET i == bind[b].i + 1 IN
    IF i \in Interfaces(Dev(b)) THEN Go(b, again, i, failed)
    ELSE Go(b, IF failed THEN "failed" ELSE done, 0, FALSE)

GetDriver(b) ==
    /\ At(b, "driver")
    /\ IF driver[Dev(b)][bind[b].i] = "none"
       THEN Next1(b, "driver", "match", bind[b].failed)
       ELSE Step(b, "driver", "unbind")
    /\ NothingInSysfs

UnbindInterface(b) ==
    /\ At(b, "unbind")
    /\ \/ /\ driver[Dev(b)][bind[b].i] # "none"
          /\ SetDriver(Dev(b), bind[b].i, "none") /\ Disturb(Dev(b), {b})
          /\ Next1(b, "driver", "match", bind[b].failed)
          /\ UNCHANGED <<set, plugged, matched, cl, toS, toC, backlog, portVars, daemon,
                         proc, granted>>
       \/ /\ Next1(b, "driver", "match", TRUE)
          /\ NothingInSysfs

-----------------------------------------------------------------------------
(* modify_match_busid writes to drivers/usbip: the open fails where the       *)
(* kernel calls its driver otherwise, and the write can fail.                 *)
ModifyMatchBusid(b, add, from, ok, ko) ==
    \/ /\ set.stub = "usbip"
       /\ matched' = IF add THEN matched \cup {Dev(b)} ELSE matched \ {Dev(b)}
       /\ Disturb(Dev(b), {b})
       /\ Step(b, from, ok)
       /\ OnlyBinder /\ UNCHANGED <<driver, exported>>
    \/ Step(b, from, ko) /\ NothingInSysfs

AddMatchBusid(b) == ModifyMatchBusid(b, TRUE, "match", "attributes", "failed")

\* bind_to_usbip reads the attributes again.
ReadAgain(b) ==
    /\ IF Dev(b) \in plugged THEN Step(b, "attributes", "bind")
                             ELSE Step(b, "attributes", "undo")
    /\ NothingInSysfs

BindResult(b, failed) ==
    LET i == bind[b].i + 1 IN
    IF i \in Interfaces(Dev(b)) THEN Go(b, "bind", i, failed)
    ELSE Go(b, IF failed THEN "undo" ELSE "complete", 0, FALSE)

\* Mutant: a later interface that is bound makes up for one that is not.
BindOrForget(b) ==
    /\ At(b, "bind")
    /\ \/ /\ set.stub = "usbip" /\ Dev(b) \in plugged \cap matched
          /\ driver[Dev(b)][bind[b].i] = "none"
          /\ SetDriver(Dev(b), bind[b].i, "stub") /\ Disturb(Dev(b), {b})
          /\ BindResult(b, FALSE)
          /\ UNCHANGED <<set, plugged, matched, cl, toS, toC, backlog, portVars, daemon,
                         proc, granted>>
       \/ BindResult(b, TRUE) /\ NothingInSysfs

BindInterface(b) ==
    /\ At(b, "bind")
    /\ \/ /\ set.stub = "usbip" /\ Dev(b) \in plugged \cap matched
          /\ driver[Dev(b)][bind[b].i] = "none"
          /\ SetDriver(Dev(b), bind[b].i, "stub") /\ Disturb(Dev(b), {b})
          /\ BindResult(b, bind[b].failed)
          /\ UNCHANGED <<set, plugged, matched, cl, toS, toC, backlog, portVars, daemon,
                         proc, granted>>
       \/ BindResult(b, TRUE) /\ NothingInSysfs

\* The busid is taken out again; the interfaces that were bound stay so.
UndoMatch(b) == ModifyMatchBusid(b, FALSE, "undo", "failed", "failed")

-----------------------------------------------------------------------------
(* use_device_by_other: the configuration is read, the busid is taken out of  *)
(* match_busid and the configuration written back, for the kernel to probe.   *)
ReadConfig(b) ==
    /\ set.bind[b].do = "other"
    /\ IF Dev(b) \in plugged THEN Step(b, "start", "forget")
                             ELSE Step(b, "start", "failed")
    /\ NothingInSysfs

DelMatchBusid(b) == ModifyMatchBusid(b, FALSE, "forget", "config", "failed")

WriteConfig(b) ==
    /\ At(b, "config")
    /\ \/ /\ Dev(b) \in plugged
          /\ driver' = [driver EXCEPT ![Dev(b)] = [i \in Interfaces(Dev(b)) |->
                           IF Dev(b) \in matched THEN "stub" ELSE "local"]]
          /\ EndExport(Dev(b)) /\ Disturb(Dev(b), {b})
          /\ Step(b, "config", "complete")
          /\ UNCHANGED <<set, plugged, matched, cl, toS, toC, backlog, portVars, daemon,
                         proc, granted>>
       \/ Step(b, "config", "failed") /\ NothingInSysfs

Binder(b) ==
    \/ ReadAttributes(b) \/ GetDriver(b) \/ UnbindInterface(b) \/ AddMatchBusid(b)
    \/ ReadAgain(b) \/ BindInterface(b) \/ UndoMatch(b)
    \/ ReadConfig(b) \/ DelMatchBusid(b) \/ WriteConfig(b)

-----------------------------------------------------------------------------
(* When a run says "bind <busid> to usbip, complete!" every interface of the  *)
(* device has been bound, whichever of them failed on the way, and the busid  *)
(* is in match_busid: unless another run, a driver or the user changed that   *)
(* device while it ran (use_device_by_usbip and the loops of unbind and       *)
(* bind_to_usbip).                                                            *)
CompleteMeansBound ==
    \A b \in Binders :
       At(b, "complete") /\ set.bind[b].do = "usbip" /\ b \notin disturbed
       => Bound(Dev(b)) = Interfaces(Dev(b)) /\ Dev(b) \in matched
=============================================================================
