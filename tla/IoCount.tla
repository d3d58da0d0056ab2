-------------------------------- MODULE IoCount --------------------------------
(***************************************************************************)
(* How the bus device (the FDO) of the virtual bus driver counts the       *)
(* requests inside it, and how stopping and removing the device wait for   *)
(* them: Bus_IncIoCount, Bus_DecIoCount, the FDO half of Bus_PnP, and the  *)
(* entry and exit of every dispatch routine that counts itself.            *)
(*                                                                         *)
(* The counter changes with an interlocked instruction and the event that  *)
(* goes with it afterwards, so each of the two is a step.  Both events are *)
(* synchronization events: the wait that they end resets them.             *)
(***************************************************************************)
EXTENDS Naturals, FiniteSets

CONSTANTS
  Ioctls,   (* calls of Bus_IoCtl, Bus_Read, Bus_Write, Bus_SystemControl   *)
  Opens,    (* calls of Bus_Create, Bus_Cleanup, Bus_Close                  *)
  Powers,   (* calls of Bus_Power                                           *)
  PnP       (* the thread of the PnP manager: it sends one IRP at a time    *)

Requests == Ioctls \cup Opens \cup Powers
Actors   == Requests \cup {PnP}

ASSUME ActorsAssumption ==
  /\ IsFiniteSet(Requests)
  /\ Powers \cap (Ioctls \cup Opens) = {}
  /\ PnP \notin Requests

VARIABLES
  OutstandingIO,    (* biased to 1 until REMOVE takes the bias back         *)
  StopEvent,        (* set when OutstandingIO falls to 1                    *)
  RemoveEvent,      (* set when OutstandingIO falls to 0                    *)
  DevicePnPState,
  PreviousPnPState

countVars == <<OutstandingIO, StopEvent, RemoveEvent>>
stateVars == <<DevicePnPState, PreviousPnPState>>

VARIABLES
  at,       (* where each request, and the PnP manager's thread, is         *)
  then,     (* where it goes on after Bus_IncIoCount or Bus_DecIoCount      *)
  minor,    (* the minor function of the PnP IRP, if one is being handled   *)
  earlier   (* history: the requests inside when STOP began to wait         *)

vars == <<countVars, stateVars, at, then, minor, earlier>>

States == {"NotStarted", "Started", "StopPending", "Stopped", "RemovePending",
           "SurpriseRemovePending", "Deleted"}
Minors == {"START", "QUERY_STOP", "CANCEL_STOP", "STOP", "QUERY_REMOVE",
           "CANCEL_REMOVE", "SURPRISE_REMOVAL", "REMOVE", "OTHER"}

(* Where a thread can be: a request, the PnP manager's thread, either of    *)
(* them between a change of the counter and that of the event.              *)
RequestAt == {"new", "passed", "entered", "serving", "leaving", "done",
              "leaked"}
PnPAt     == {"idle", "handling", "leaving", "stopping", "quiet", "stopped",
              "marked", "biased", "removing", "removed"}
CountAt   == {"clear", "signal stop", "signal remove"}

TypeOK ==
  /\ OutstandingIO \in 0..(Cardinality(Actors) + 1)
  /\ StopEvent \in BOOLEAN
  /\ RemoveEvent \in BOOLEAN
  /\ DevicePnPState \in States
  /\ PreviousPnPState \in States
  /\ at \in [Actors -> RequestAt \cup PnPAt \cup CountAt]
  /\ then \in [Actors -> RequestAt \cup PnPAt]
  /\ minor \in Minors \cup {"none"}
  /\ earlier \subseteq Requests

Init ==
  /\ OutstandingIO = 1
  /\ StopEvent = TRUE
  /\ RemoveEvent = FALSE
  /\ DevicePnPState = "NotStarted"
  /\ PreviousPnPState = "NotStarted"
  /\ at = [a \in Actors |-> IF a = PnP THEN "idle" ELSE "new"]
  /\ then = [a \in Actors |-> IF a = PnP THEN "idle" ELSE "new"]
  /\ minor = "none"
  /\ earlier = {}

-----------------------------------------------------------------------------
(* Helpers                                                                  *)

Goto(a, where) == at' = [at EXCEPT ![a] = where]

(* InterlockedIncrement of Bus_IncIoCount; a count of 2 clears StopEvent.   *)
Increment(a, next) ==
  /\ OutstandingIO' = OutstandingIO + 1
  /\ Goto(a, IF OutstandingIO + 1 = 2 THEN "clear" ELSE next)
  /\ then' = [then EXCEPT ![a] = next]

\* Faulty variant: the fall from 2 to 1 is not noticed.
DecrementNoStop(a, next) ==
  /\ OutstandingIO' = OutstandingIO - 1
  /\ Goto(a, IF OutstandingIO = 1 THEN "signal remove" ELSE next)
  /\ then' = [then EXCEPT ![a] = next]

\* Faulty variant: the fall from 1 to 0 is not noticed.
DecrementNoRemove(a, next) ==
  /\ OutstandingIO' = OutstandingIO - 1
  /\ Goto(a, IF OutstandingIO = 2 THEN "signal stop" ELSE next)
  /\ then' = [then EXCEPT ![a] = next]

(* InterlockedDecrement of Bus_DecIoCount; 1 signals stop, 0 remove.        *)
Decrement(a, next) ==
  /\ OutstandingIO' = OutstandingIO - 1
  /\ \/ OutstandingIO = 2 /\ Goto(a, "signal stop")
     \/ OutstandingIO = 1 /\ Goto(a, "signal remove")
     \/ OutstandingIO \notin {1, 2} /\ Goto(a, next)
  /\ then' = [then EXCEPT ![a] = next]

(* SET_NEW_PNP_STATE and RESTORE_PREVIOUS_PNP_STATE                         *)
SetState(s) ==
  /\ PreviousPnPState' = DevicePnPState
  /\ DevicePnPState' = s
RestoreState ==
  /\ DevicePnPState' = PreviousPnPState
  /\ UNCHANGED PreviousPnPState

-----------------------------------------------------------------------------
(* The events                                                               *)

(* Bus_IncIoCount, after the increment *)
ClearStop(a) ==
  /\ at[a] = "clear"
  /\ StopEvent' = FALSE
  /\ Goto(a, then[a])
  /\ UNCHANGED <<OutstandingIO, RemoveEvent, stateVars, then, minor, earlier>>

(* Bus_DecIoCount, after the decrement *)
SignalStop(a) ==
  /\ at[a] = "signal stop"
  /\ StopEvent' = TRUE
  /\ Goto(a, then[a])
  /\ UNCHANGED <<OutstandingIO, RemoveEvent, stateVars, then, minor, earlier>>

SignalRemove(a) ==
  /\ at[a] = "signal remove"
  /\ RemoveEvent' = TRUE
  /\ Goto(a, then[a])
  /\ UNCHANGED <<OutstandingIO, StopEvent, stateVars, then, minor, earlier>>

CountStep(a) == ClearStop(a) \/ SignalStop(a) \/ SignalRemove(a)

-----------------------------------------------------------------------------
(* Requests                                                                 *)

(* The dispatch routine counts the request before it looks at the state;    *)
(* nothing is dispatched any more to a device that is gone.                 *)
Enter(r) ==
  /\ r \notin Powers
  /\ at[r] = "new"
  /\ at[PnP] # "removed"
  /\ Increment(r, "entered")
  /\ UNCHANGED <<StopEvent, RemoveEvent, stateVars, minor, earlier>>

\* Faulty variant: the state is not looked at.
AcceptAlways(r) ==
  /\ at[r] = "entered"
  /\ Goto(r, "serving")
  /\ UNCHANGED <<countVars, stateVars, then, minor, earlier>>

(* The device is there, in whatever state but Deleted: the request is       *)
(* processed;                                                               *)
Accept(r) ==
  /\ at[r] = "entered"
  /\ DevicePnPState # "Deleted"
  /\ Goto(r, "serving")
  /\ UNCHANGED <<countVars, stateVars, then, minor, earlier>>

(* where a rejected request goes: Bus_Create, Bus_Cleanup and Bus_Close     *)
(* return at once, without Bus_DecIoCount.                                  *)
Rejected(r) == IF r \in Opens THEN "leaked" ELSE "leaving"

Reject(r) ==
  /\ at[r] = "entered"
  /\ DevicePnPState = "Deleted"
  /\ Goto(r, Rejected(r))
  /\ UNCHANGED <<countVars, stateVars, then, minor, earlier>>

(* Bus_Power looks at the state first and counts a request for the bus      *)
(* device afterwards, in Bus_FDO_Power, which passes it down in any state.  *)
PowerPass(r) ==
  /\ r \in Powers
  /\ at[r] = "new"
  /\ at[PnP] # "removed"
  /\ Goto(r, IF DevicePnPState = "Deleted" THEN "done" ELSE "passed")
  /\ UNCHANGED <<countVars, stateVars, then, minor, earlier>>

PowerEnter(r) ==
  /\ at[r] = "passed"
  /\ Increment(r, "serving")
  /\ UNCHANGED <<StopEvent, RemoveEvent, stateVars, minor, earlier>>

Serve(r) ==
  /\ at[r] = "serving"
  /\ Goto(r, "leaving")
  /\ UNCHANGED <<countVars, stateVars, then, minor, earlier>>

Leave(r) ==
  /\ at[r] = "leaving"
  /\ Decrement(r, "done")
  /\ UNCHANGED <<StopEvent, RemoveEvent, stateVars, minor, earlier>>

-----------------------------------------------------------------------------
(* PnP IRPs                                                                 *)

(* The IRPs the PnP manager may send to a device in this state.  A cancel   *)
(* may come although the query never reached this driver; a REMOVE from     *)
(* Started follows a START that failed in its last step.                    *)
MaySend(m) ==
  CASE m = "START" -> DevicePnPState \in {"NotStarted", "Stopped"}
    [] m = "QUERY_STOP" -> DevicePnPState = "Started"
    [] m = "CANCEL_STOP" -> DevicePnPState \in {"StopPending", "Started"}
    [] m = "STOP" -> DevicePnPState = "StopPending"
    [] m = "QUERY_REMOVE" -> DevicePnPState = "Started"
    [] m = "CANCEL_REMOVE" -> DevicePnPState \in {"RemovePending", "Started"}
    [] m = "SURPRISE_REMOVAL" -> DevicePnPState \in
         {"Started", "StopPending", "Stopped", "RemovePending"}
    [] m = "REMOVE" -> DevicePnPState \in
         {"NotStarted", "Started", "RemovePending", "SurpriseRemovePending"}
    [] m = "OTHER" -> DevicePnPState # "Deleted"

PnPEnter(m) ==
  /\ at[PnP] = "idle"
  /\ MaySend(m)
  /\ minor' = m
  /\ Increment(PnP, "handling")
  /\ UNCHANGED <<StopEvent, RemoveEvent, stateVars, earlier>>

(* START, if the lower driver and Bus_StartFdo succeed, the queries, their  *)
(* cancellations, a surprise removal, and the IRPs that change no state     *)
NewState ==
  \/ minor = "START" /\ SetState("Started")
  \/ minor = "QUERY_STOP" /\ SetState("StopPending")
  \/ minor = "QUERY_REMOVE" /\ SetState("RemovePending")
  \/ minor = "SURPRISE_REMOVAL" /\ SetState("SurpriseRemovePending")
  \/ minor = "CANCEL_STOP" /\ DevicePnPState = "StopPending" /\ RestoreState
  \/ minor = "CANCEL_REMOVE" /\ DevicePnPState = "RemovePending" /\ RestoreState
SameState ==
  /\ \/ minor \in {"START", "OTHER"}
     \/ minor = "CANCEL_STOP" /\ DevicePnPState # "StopPending"
     \/ minor = "CANCEL_REMOVE" /\ DevicePnPState # "RemovePending"
  /\ UNCHANGED stateVars

PnPHandle ==
  /\ at[PnP] = "handling"
  /\ NewState \/ SameState
  /\ Goto(PnP, "leaving")
  /\ UNCHANGED <<countVars, then, minor, earlier>>

PnPLeave ==
  /\ at[PnP] = "leaving"
  /\ minor' = "none"
  /\ Decrement(PnP, "idle")
  /\ UNCHANGED <<StopEvent, RemoveEvent, stateVars, earlier>>

(* STOP takes back its own count, and waits for the others;                 *)
Inside(r) == at[r] \notin {"new", "passed", "done", "leaked"}

StopDecrement ==
  /\ at[PnP] = "handling" /\ minor = "STOP"
  /\ Decrement(PnP, "stopping")
  /\ earlier' = {r \in Requests : Inside(r)}
  /\ UNCHANGED <<StopEvent, RemoveEvent, stateVars, minor>>

StopWait ==
  /\ at[PnP] = "stopping"
  /\ StopEvent
  /\ StopEvent' = FALSE
  /\ Goto(PnP, "quiet")
  /\ UNCHANGED <<OutstandingIO, RemoveEvent, stateVars, then, minor, earlier>>

\* Faulty variant: it does not count itself again.
StopIncrementNot ==
  /\ at[PnP] = "quiet"
  /\ Goto(PnP, "stopped")
  /\ UNCHANGED <<countVars, stateVars, then, minor, earlier>>

(* then it counts itself again, to pass the IRP down, *)
StopIncrement ==
  /\ at[PnP] = "quiet"
  /\ Increment(PnP, "stopped")
  /\ UNCHANGED <<StopEvent, RemoveEvent, stateVars, minor, earlier>>

StopDone ==
  /\ at[PnP] = "stopped"
  /\ SetState("Stopped")
  /\ Goto(PnP, "leaving")
  /\ earlier' = {}
  /\ UNCHANGED <<countVars, then, minor>>

(* REMOVE marks the device, takes back its own count and the bias, and      *)
(* waits for the requests before it detaches and deletes the device.        *)
RemoveMark ==
  /\ at[PnP] = "handling" /\ minor = "REMOVE"
  /\ SetState("Deleted")
  /\ Goto(PnP, "marked")
  /\ UNCHANGED <<countVars, then, minor, earlier>>

RemoveDecrement ==
  /\ at[PnP] = "marked"
  /\ Decrement(PnP, "biased")
  /\ UNCHANGED <<StopEvent, RemoveEvent, stateVars, minor, earlier>>

RemoveBias ==
  /\ at[PnP] = "biased"
  /\ Decrement(PnP, "removing")
  /\ UNCHANGED <<StopEvent, RemoveEvent, stateVars, minor, earlier>>

RemoveWait ==
  /\ at[PnP] = "removing"
  /\ RemoveEvent
  /\ RemoveEvent' = FALSE
  /\ Goto(PnP, "removed")
  /\ UNCHANGED <<OutstandingIO, StopEvent, stateVars, then, minor, earlier>>

-----------------------------------------------------------------------------
RequestStep(r) ==
  Accept(r) \/ Reject(r) \/ PowerEnter(r) \/ Serve(r) \/ Leave(r)
PnPStep ==
  \/ PnPHandle \/ PnPLeave
  \/ StopDecrement \/ StopWait \/ StopIncrement \/ StopDone
  \/ RemoveMark \/ RemoveDecrement \/ RemoveBias \/ RemoveWait

Next ==
  \/ \E r \in Requests : Enter(r) \/ PowerPass(r) \/ RequestStep(r)
  \/ \E a \in Actors : CountStep(a)
  \/ \E m \in Minors : PnPEnter(m)
  \/ PnPStep

Spec == Init /\ [][Next]_vars

(* Whoever has entered goes on; nobody has to send a request or an IRP.  A  *)
(* served request ends: Bus_Read returns STATUS_PENDING rather than wait.   *)
Fairness ==
  /\ \A r \in Requests : WF_vars(RequestStep(r))
  /\ \A a \in Actors : WF_vars(CountStep(a))
  /\ WF_vars(PnPStep)

FairSpec == Spec /\ Fairness

-----------------------------------------------------------------------------
(* Properties                                                               *)

(* REMOVE detaches and deletes the device only when no request is being     *)
(* processed in it: one that was counted before the bias was taken back is  *)
(* waited for, one that is counted later sees Deleted.  Power requests are  *)
(* not covered: they are counted after the state was looked at.             *)
ServedBeforeRemoved ==
  at[PnP] = "removed" => \A r \in Requests \ Powers : at[r] # "serving"

(* The count falls to 0 only when REMOVE has marked the device, as          *)
(* busenum.c:2030 asserts: every path that takes its count back twice, or   *)
(* the bias, would break it.                                                *)
ZeroOnlyDeleted == OutstandingIO = 0 => DevicePnPState = "Deleted"

(* The wake-up of STOP is not lost, whatever the order in which counter and *)
(* event changed: when all other threads are out, the event is set.         *)
NoLostStop ==
  (at[PnP] = "stopping" /\ \A r \in Requests : ~Inside(r)) => StopEvent

(* STOP does not wait for ever, and REMOVE only when a rejected request has *)
(* left without Bus_DecIoCount.                                             *)
StopReturns == at[PnP] = "stopping" ~> at[PnP] = "quiet"
RemoveReturnsUnlessLeaked ==
  at[PnP] = "removing" ~>
    (at[PnP] = "removed" \/ \E r \in Requests : at[r] = "leaked")

(* pnp.c:532 "Wait for all outstanding requests to complete": REMOVE        *)
(* returns when they have.                                                  *)
RemoveReturns == at[PnP] = "removing" ~> at[PnP] = "removed"

(* pnp.c:404 "Wait for the existing ones to be finished": the requests that *)
(* were inside when STOP began to wait are out when it goes on.             *)
StopWaitsForEarlier ==
  at[PnP] = "quiet" => \A r \in earlier : ~Inside(r)

(* The inductive invariant.  The counter is the number of threads counted,  *)
(* and the bias until REMOVE has taken it back.                             *)
CountedAt == {"clear", "entered", "serving", "leaving", "leaked", "handling",
              "stopped", "marked"}
SignalAt  == {"signal stop", "signal remove"}

Counted == {a \in Actors : at[a] \in CountedAt}

(* The PnP manager's thread is, or will be after its signal, in P. *)
PnPIn(P) == at[PnP] \in P \/ (at[PnP] \in SignalAt /\ then[PnP] \in P)

BiasTaken == PnPIn({"removing", "removed"})

PlaceInv ==
  /\ \A r \in Requests :
       /\ at[r] \in RequestAt \cup CountAt
       /\ at[r] = "clear" => then[r] \in {"entered", "serving"}
       /\ at[r] \in SignalAt => then[r] = "done"
       /\ at[r] = "passed" => r \in Powers
       /\ (at[r] = "clear" /\ then[r] = "serving") => r \in Powers
  /\ at[PnP] \in PnPAt \cup CountAt
  /\ at[PnP] = "clear" => then[PnP] \in {"handling", "stopped"}
  /\ at[PnP] \in SignalAt =>
       then[PnP] \in {"idle", "stopping", "biased", "removing"}

Bias == IF BiasTaken THEN 0 ELSE 1

CountInv == OutstandingIO = Cardinality(Counted) + Bias

DeletedInv ==
  /\ DevicePnPState = "Deleted" <=>
       PnPIn({"marked", "biased", "removing", "removed"})
  /\ PreviousPnPState # "Deleted"
  /\ \A r \in Requests : at[r] = "leaked" => DevicePnPState = "Deleted"

(* Once the count has fallen to 0, nothing is served any more. *)
RemoveInv ==
  (RemoveEvent \/ at[PnP] = "removed" \/ \E a \in Actors : at[a] = "signal remove")
    => /\ BiasTaken
       /\ \A r \in Requests \ Powers : at[r] # "serving"

(* The last to leave a device that stops signals it, or has done so. *)
StopInv ==
  (at[PnP] = "stopping" /\ Counted = {}) =>
    StopEvent \/ \E r \in Requests : at[r] = "signal stop"

IInv ==
  TypeOK /\ PlaceInv /\ CountInv /\ DeletedInv /\ RemoveInv /\ StopInv

=============================================================================
