--------------------------- MODULE SharingProofs ---------------------------
(* Proofs about Sharing: what "complete" of a run of usbip_bind_driver means, *)
(* for any number of devices, interfaces and runs.                            *)
EXTENDS Sharing, TLAPS

USE DEF stubVars, netVars, portVars

Names == {"none", "local", "stub"}

(* Each run and each device has its shape.                                    *)
BindTypeOK ==
    /\ set \in Settings
    /\ bind \in [Binders -> [pc : BinderPcs, i : Nat, failed : BOOLEAN]]
    /\ driver = [d \in Devs |-> driver[d]]
    /\ \A d \in Devs : driver[d] \in [Interfaces(d) -> Names]
    /\ plugged \subseteq Devs

(* The interfaces of the run's device below n are bound to the stub driver.   *)
BoundBelow(b, n) == \A j \in Interfaces(Dev(b)) : j < n => driver[Dev(b)][j] = "stub"

(* What a run of --usbip that nobody disturbed has achieved where it is: the  *)
(* loop of bind_to_usbip starts at 0 with the busid in match_busid, and as    *)
(* long as no interface has failed all it has passed are bound.               *)
RunInv(b) ==
    /\ bind[b].pc \in {"forget", "config"} => set.bind[b].do # "usbip"
    /\ bind[b].pc \in {"start", "match", "attributes"} => bind[b].i = 0
    /\ bind[b].pc \in {"driver", "unbind", "bind"} => bind[b].i \in Interfaces(Dev(b))
    /\ set.bind[b].do = "usbip" /\ b \notin disturbed =>
          /\ bind[b].pc \in {"attributes", "bind", "complete"} => Dev(b) \in matched
          /\ bind[b].pc = "bind" /\ ~bind[b].failed => BoundBelow(b, bind[b].i)
          /\ bind[b].pc = "complete" => BoundBelow(b, NumIfs[Dev(b)])

IInv == BindTypeOK /\ \A b \in Binders : RunInv(b)

-----------------------------------------------------------------------------
(* A run's device is a device, with an interface 0.                           *)
LEMMA DevOfRun ==
  ASSUME set \in Settings, NEW b \in Binders
  PROVE  /\ Dev(b) \in Devs
         /\ NumIfs[Dev(b)] \in Nat /\ NumIfs[Dev(b)] > 0
         /\ 0 \in Interfaces(Dev(b))
         /\ \A j \in Interfaces(Dev(b)) : j \in Nat
<1>1. Dev(b) \in Devs
  BY BindAssumption DEF Dev
<1>2. NumIfs[Dev(b)] \in Nat \ {0}
  BY <1>1, SharedAssumption
<1> QED BY <1>1, <1>2 DEF Interfaces

(* The first states.                                                          *)
LEMMA InitIInv == Init => IInv
<1> SUFFICES ASSUME Init PROVE IInv
  OBVIOUS
<1>1. \A b \in Binders : bind[b].pc \in {"start", "ended"} /\ bind[b].i = 0
  BY DEF Init, InitBinder
<1>2. bind \in [Binders -> [pc : BinderPcs, i : Nat, failed : BOOLEAN]]
  BY DEF Init, InitBinder, BinderPcs
<1>3. \A s \in Settings : s.driver \in Names
  BY BindAssumption DEF Names
<1>4. BindTypeOK
  BY <1>2, <1>3 DEF BindTypeOK, Init
<1>5. \A b \in Binders : RunInv(b)
  BY <1>1 DEF RunInv
<1> QED BY <1>4, <1>5 DEF IInv

(* What happens elsewhere: a run that does not move keeps what it has         *)
(* achieved, or is disturbed.                                                 *)
LEMMA OthersMove ==
  ASSUME IInv, NEW b \in Binders,
         set' = set, bind'[b] = bind[b], disturbed \subseteq disturbed',
         \/ b \in disturbed'
         \/ bind[b].pc \in {"start", "ended"}
         \/ /\ driver'[Dev(b)] = driver[Dev(b)]
            /\ Dev(b) \in matched' <=> Dev(b) \in matched
  PROVE  RunInv(b)'
<1>1. Dev(b)' = Dev(b)
  BY DEF Dev
<1>2. RunInv(b)
  BY DEF IInv
<1> QED BY <1>1, <1>2 DEF RunInv, BoundBelow, Interfaces

(* The steps that leave sysfs and the runs of bind-driver alone.              *)
LEMMA NothingBound ==
  ASSUME IInv, UNCHANGED <<set, plugged, driver, matched, bind, disturbed>>
  PROVE  IInv'
<1>1. BindTypeOK'
  BY DEF IInv, BindTypeOK, Interfaces
<1>2. \A b \in Binders : RunInv(b)'
  BY OthersMove
<1> QED BY <1>1, <1>2 DEF IInv


-----------------------------------------------------------------------------
(* A run moves                                                              *)

Runs == [pc : BinderPcs, i : Nat, failed : BOOLEAN]
DriversOK == /\ driver = [d \in Devs |-> driver[d]]
             /\ \A d \in Devs : driver[d] \in [Interfaces(d) -> Names]

(* What it changes, it changes of its own device, and the other runs on this  *)
(* device are disturbed.                                                      *)
LEMMA RunMoves ==
  ASSUME IInv, NEW b \in Binders, NEW r \in Runs,
         bind' = [bind EXCEPT ![b] = r],
         UNCHANGED <<set, plugged>>, DriversOK', Disturb(Dev(b), {b}),
         \A d \in Devs \ {Dev(b)} : /\ driver'[d] = driver[d]
                                    /\ d \in matched' <=> d \in matched,
         RunInv(b)'
  PROVE  IInv'
<1>1. BindTypeOK'
  BY DEF IInv, BindTypeOK, DriversOK, Runs
<1>2. disturbed \subseteq disturbed'
  BY DEF Disturb
<1>3. ASSUME NEW c \in Binders, c # b PROVE RunInv(c)'
  <2>1. bind'[c] = bind[c]
    BY <1>3 DEF IInv, BindTypeOK
  <2>2. CASE Dev(c) = Dev(b)
    <3>1. bind[c].pc \in {"start", "ended"} \/ c \in disturbed'
      BY <1>3, <2>2 DEF Disturb, Dev
    <3> QED BY <1>2, <2>1, <3>1, OthersMove
  <2>3. CASE Dev(c) # Dev(b)
    <3>1. Dev(c) \in Devs
      BY DevOfRun DEF IInv, BindTypeOK
    <3> QED BY <1>2, <2>1, <2>3, <3>1, OthersMove
  <2> QED BY <2>2, <2>3
<1> QED BY <1>1, <1>3 DEF IInv

(* A step that only moves the run: nobody else's device is touched.           *)
LEMMA RunGoes ==
  ASSUME IInv, NEW b \in Binders, NEW r \in Runs,
         bind' = [bind EXCEPT ![b] = r], NothingInSysfs, RunInv(b)'
  PROVE  IInv'
<1>1. BindTypeOK'
  BY DEF IInv, BindTypeOK, NothingInSysfs, OnlyBinder, Runs, Interfaces
<1>2. ASSUME NEW c \in Binders, c # b PROVE RunInv(c)'
  <2>1. bind'[c] = bind[c]
    BY <1>2 DEF IInv, BindTypeOK
  <2> QED BY <2>1, OthersMove DEF NothingInSysfs, OnlyBinder
<1> QED BY <1>1, <1>2 DEF IInv

(* The two ways in which an action names a run's next place.                  *)
LEMMA StepIs ==
  ASSUME BindTypeOK, NEW b \in Binders, NEW from, NEW to \in BinderPcs,
         Step(b, from, to)
  PROVE  /\ bind[b].pc = from
         /\ \E r \in Runs : /\ r = [pc |-> to, i |-> bind[b].i,
                                    failed |-> bind[b].failed]
                            /\ bind' = [bind EXCEPT ![b] = r]
                            /\ bind'[b] = r
<1> DEFINE r == [pc |-> to, i |-> bind[b].i, failed |-> bind[b].failed]
<1>1. bind[b] \in Runs
  BY DEF BindTypeOK, Runs
<1>2. r \in Runs
  BY <1>1 DEF Runs
<1>3. [bind[b] EXCEPT !.pc = to] = r
  BY <1>1 DEF Runs
<1>4. bind' = [bind EXCEPT ![b] = r] /\ bind'[b] = r
  BY <1>3 DEF Step, BindTypeOK
<1> QED BY <1>2, <1>4 DEF Step

LEMMA GoIs ==
  ASSUME BindTypeOK, NEW b \in Binders, NEW pc \in BinderPcs, NEW i \in Nat,
         NEW failed \in BOOLEAN, Go(b, pc, i, failed)
  PROVE  \E r \in Runs : /\ r = [pc |-> pc, i |-> i, failed |-> failed]
                         /\ bind' = [bind EXCEPT ![b] = r]
                         /\ bind'[b] = r
BY DEF BindTypeOK, Go, Runs

-----------------------------------------------------------------------------
(* The steps of a run                                                         *)

(* A place where nothing has been achieved yet.                               *)
LEMMA NothingClaimed ==
  ASSUME NEW b \in Binders, set' = set,
         bind'[b].pc \notin {"start", "match", "attributes", "driver", "unbind", 
                             "bind", "forget", "config", "complete"}
  PROVE  RunInv(b)'
BY DEF RunInv

(* The loop of unbind goes on with the next interface, or leaves.             *)
LEMMA UnbindLoop ==
  ASSUME BindTypeOK, set' = set, NEW b \in Binders, NEW failed \in BOOLEAN,
         bind[b].i \in Interfaces(Dev(b)),
         Next1(b, "driver", "match", failed)
  PROVE  \E r \in Runs : bind' = [bind EXCEPT ![b] = r] /\ RunInv(b)'
<1> DEFINE i == bind[b].i + 1
<1>1. i \in Nat /\ Dev(b)' = Dev(b) /\ 0 \in Nat
  BY DEF BindTypeOK, Dev
<1>2. CASE i \in Interfaces(Dev(b))
  <2>1. Go(b, "driver", i, failed)
    BY <1>2 DEF Next1
  <2>2. PICK r \in Runs : /\ r = [pc |-> "driver", i |-> i, failed |-> failed]
                          /\ bind' = [bind EXCEPT ![b] = r] /\ bind'[b] = r
    BY <1>1, <2>1, GoIs DEF BinderPcs
  <2>3. bind'[b].pc = "driver" /\ bind'[b].i = i
    BY <2>2
  <2>4. Interfaces(Dev(b))' = Interfaces(Dev(b))
    BY <1>1 DEF Interfaces
  <2>5. RunInv(b)'
    BY <1>1, <1>2, <2>3, <2>4 DEF RunInv
  <2> QED BY <2>2, <2>5
<1>3. CASE i \notin Interfaces(Dev(b))
  <2>1. Go(b, IF failed THEN "failed" ELSE "match", 0, FALSE)
    BY <1>3 DEF Next1
  <2>2. (IF failed THEN "failed" ELSE "match") \in BinderPcs
    BY DEF BinderPcs
  <2>3. PICK r \in Runs : /\ r = [pc |-> IF failed THEN "failed" ELSE "match",
                                  i |-> 0, failed |-> FALSE]
                          /\ bind' = [bind EXCEPT ![b] = r] /\ bind'[b] = r
    BY <1>1, <2>1, <2>2, GoIs
  <2>4. bind'[b].pc \in {"failed", "match"} /\ bind'[b].i = 0
    BY <2>3
  <2>5. RunInv(b)'
    BY <2>4 DEF RunInv
  <2> QED BY <2>3, <2>5
<1> QED BY <1>2, <1>3

(* A step to another place that leaves sysfs alone.                           *)
LEMMA StepGoes ==
  ASSUME IInv, NEW b \in Binders, NEW from, NEW to \in BinderPcs,
         Step(b, from, to), NothingInSysfs,
         bind'[b] = [pc |-> to, i |-> bind[b].i, failed |-> bind[b].failed]
           => RunInv(b)'
  PROVE  IInv'
<1>1. BindTypeOK
  BY DEF IInv
<1> QED BY <1>1, StepIs, RunGoes

(* ... to a place where nothing has been achieved.                            *)
LEMMA StepEnds ==
  ASSUME IInv, NEW b \in Binders, NEW from, Step(b, from, "failed"), NothingInSysfs
  PROVE  IInv'
<1>1. "failed" \in BinderPcs
  BY DEF BinderPcs
<1>2. bind'[b] = [pc |-> "failed", i |-> bind[b].i, failed |-> bind[b].failed]
        => RunInv(b)'
  BY NothingClaimed DEF NothingInSysfs, OnlyBinder
<1> QED BY <1>1, <1>2, StepGoes

(* What stays of a run whose step leaves sysfs alone.                         *)
LEMMA RunStays ==
  ASSUME IInv, NEW b \in Binders, NothingInSysfs
  PROVE  /\ set' = set /\ disturbed' = disturbed /\ matched' = matched
         /\ driver' = driver /\ Dev(b)' = Dev(b)
         /\ BindTypeOK /\ RunInv(b) /\ bind[b] \in Runs
         /\ 0 \in Interfaces(Dev(b))
         /\ Interfaces(Dev(b))' = Interfaces(Dev(b))
<1>1. BindTypeOK /\ RunInv(b) /\ bind[b] \in Runs
  BY DEF IInv, BindTypeOK, Runs
<1>2. Dev(b)' = Dev(b)
  BY DEF NothingInSysfs, OnlyBinder, Dev
<1>3. 0 \in Interfaces(Dev(b))
  BY <1>1, DevOfRun DEF BindTypeOK
<1> QED BY <1>1, <1>2, <1>3 DEF NothingInSysfs, OnlyBinder, Interfaces

LEMMA StepReadAttributes ==
  ASSUME IInv, NEW b \in Binders, ReadAttributes(b) PROVE IInv'
<1>1. NothingInSysfs
  BY DEF ReadAttributes
<1>2. CASE Step(b, "start", "driver")
  <2>1. "driver" \in BinderPcs
    BY DEF BinderPcs
  <2>2. bind[b].pc = "start"
    BY <1>2 DEF Step
  <2>3. ASSUME bind'[b] = [pc |-> "driver", i |-> bind[b].i, failed |-> bind[b].failed]
        PROVE  RunInv(b)'
    BY <1>1, <2>2, <2>3, RunStays DEF RunInv
  <2> QED BY <1>1, <1>2, <2>1, <2>3, StepGoes
<1> QED BY <1>1, <1>2, StepEnds DEF ReadAttributes

LEMMA StepGetDriver ==
  ASSUME IInv, NEW b \in Binders, GetDriver(b) PROVE IInv'
<1>1. NothingInSysfs /\ bind[b].pc = "driver"
  BY DEF GetDriver, At
<1>2. CASE Next1(b, "driver", "match", bind[b].failed)
  <2>1. bind[b].failed \in BOOLEAN /\ bind[b].i \in Interfaces(Dev(b))
    BY <1>1, RunStays DEF RunInv, Runs
  <2>2. PICK r \in Runs : bind' = [bind EXCEPT ![b] = r] /\ RunInv(b)'
    BY <1>1, <1>2, <2>1, RunStays, UnbindLoop
  <2> QED BY <1>1, <2>2, RunGoes
<1>3. CASE Step(b, "driver", "unbind")
  <2>1. "unbind" \in BinderPcs
    BY DEF BinderPcs
  <2>2. ASSUME bind'[b] = [pc |-> "unbind", i |-> bind[b].i, failed |-> bind[b].failed]
        PROVE  RunInv(b)'
    BY <1>1, <2>2, RunStays DEF RunInv
  <2> QED BY <1>1, <1>3, <2>1, <2>2, StepGoes
<1> QED BY <1>2, <1>3 DEF GetDriver

(* A driver that is set is set for one interface of one device.               *)
LEMMA SetDriverSets ==
  ASSUME BindTypeOK, set' = set, NEW d \in Devs, NEW i \in Interfaces(d),
         NEW name \in Names, SetDriver(d, i, name)
  PROVE  /\ DriversOK'
         /\ \A e \in Devs \ {d} : driver'[e] = driver[e]
         /\ driver'[d][i] = name
         /\ \A j \in Interfaces(d) \ {i} : driver'[d][j] = driver[d][j]
<1>1. driver' = [driver EXCEPT ![d][i] = name]
  BY DEF SetDriver
<1>2. \A e \in Devs \ {d} : driver'[e] = driver[e]
  BY <1>1 DEF BindTypeOK
<1>3. driver'[d] = [driver[d] EXCEPT ![i] = name]
  BY <1>1 DEF BindTypeOK
<1>4. driver'[d] \in [Interfaces(d) -> Names]
  BY <1>3 DEF BindTypeOK
<1>5. driver' = [e \in Devs |-> driver'[e]]
  BY <1>1 DEF BindTypeOK
<1>6. \A e \in Devs : driver'[e] \in [Interfaces(e) -> Names]
  BY <1>2, <1>4 DEF BindTypeOK
<1>7. DriversOK'
  BY <1>5, <1>6 DEF DriversOK, Interfaces
<1>8. driver[d] \in [Interfaces(d) -> Names]
  BY DEF BindTypeOK
<1> QED BY <1>2, <1>3, <1>7, <1>8

LEMMA StepUnbindInterface ==
  ASSUME IInv, NEW b \in Binders, UnbindInterface(b) PROVE IInv'
<1>1. bind[b].pc = "unbind" /\ BindTypeOK /\ bind[b] \in Runs /\ RunInv(b)
  BY DEF UnbindInterface, At, IInv, BindTypeOK, Runs
<1>2. bind[b].i \in Interfaces(Dev(b)) /\ bind[b].failed \in BOOLEAN
  BY <1>1 DEF RunInv, Runs
<1>3. CASE /\ SetDriver(Dev(b), bind[b].i, "none") /\ Disturb(Dev(b), {b})
           /\ Next1(b, "driver", "match", bind[b].failed)
           /\ UNCHANGED <<set, plugged, matched, cl, toS, toC, backlog, portVars,
                          daemon, proc, granted>>
  <2>1. PICK r \in Runs : bind' = [bind EXCEPT ![b] = r] /\ RunInv(b)'
    BY <1>1, <1>2, <1>3, UnbindLoop
  <2>2. Dev(b) \in Devs /\ "none" \in Names
    BY <1>1, DevOfRun DEF BindTypeOK, Names
  <2>3. DriversOK' /\ \A d \in Devs \ {Dev(b)} : driver'[d] = driver[d]
    BY <1>1, <1>2, <1>3, <2>2, SetDriverSets
  <2> QED BY <1>3, <2>1, <2>3, RunMoves
<1>4. CASE Next1(b, "driver", "match", TRUE) /\ NothingInSysfs
  <2>1. PICK r \in Runs : bind' = [bind EXCEPT ![b] = r] /\ RunInv(b)'
    BY <1>1, <1>2, <1>4, UnbindLoop, RunStays
  <2> QED BY <1>4, <2>1, RunGoes
<1> QED BY <1>3, <1>4 DEF UnbindInterface

(* The loop of bind_to_usbip: what holds up to this interface holds below the *)
(* next, and of all of them when there is none.                               *)
LEMMA BindLoop ==
  ASSUME BindTypeOK, set' = set, disturbed \subseteq disturbed',
         NEW b \in Binders, NEW failed \in BOOLEAN,
         bind[b].i \in Interfaces(Dev(b)),
         BindResult(b, failed),
         set.bind[b].do = "usbip" /\ b \notin disturbed =>
            /\ Dev(b) \in matched'
            /\ ~failed => \A j \in Interfaces(Dev(b)) :
                             j <= bind[b].i => driver'[Dev(b)][j] = "stub"
  PROVE  \E r \in Runs : bind' = [bind EXCEPT ![b] = r] /\ RunInv(b)'
<1> DEFINE i == bind[b].i + 1
<1>1. /\ i \in Nat /\ bind[b].i \in Nat /\ Dev(b)' = Dev(b) /\ 0 \in Nat
      /\ Interfaces(Dev(b))' = Interfaces(Dev(b))
  BY DEF BindTypeOK, Dev, Interfaces
<1>2. NumIfs[Dev(b)] \in Nat /\ \A j \in Interfaces(Dev(b)) : j \in Nat
  BY DevOfRun DEF BindTypeOK
<1>3. CASE i \in Interfaces(Dev(b))
  <2>1. Go(b, "bind", i, failed)
    BY <1>3 DEF BindResult
  <2>2. PICK r \in Runs : /\ r = [pc |-> "bind", i |-> i, failed |-> failed]
                          /\ bind' = [bind EXCEPT ![b] = r] /\ bind'[b] = r
    BY <1>1, <2>1, GoIs DEF BinderPcs
  <2>3. bind'[b].pc = "bind" /\ bind'[b].i = i /\ bind'[b].failed = failed
    BY <2>2
  <2>4. set.bind[b].do = "usbip" /\ b \notin disturbed' =>
           Dev(b) \in matched' /\ (~failed => BoundBelow(b, bind[b].i)')
    BY <1>1, <1>2, <1>3, <2>3 DEF BoundBelow
  <2>5. RunInv(b)'
    BY <1>1, <1>3, <2>3, <2>4 DEF RunInv
  <2> QED BY <2>2, <2>5
<1>4. CASE i \notin Interfaces(Dev(b))
  <2>1. Go(b, IF failed THEN "undo" ELSE "complete", 0, FALSE)
    BY <1>4 DEF BindResult
  <2>2. (IF failed THEN "undo" ELSE "complete") \in BinderPcs
    BY DEF BinderPcs
  <2>3. PICK r \in Runs : /\ r = [pc |-> IF failed THEN "undo" ELSE "complete",
                                  i |-> 0, failed |-> FALSE]
                          /\ bind' = [bind EXCEPT ![b] = r] /\ bind'[b] = r
    BY <1>1, <2>1, <2>2, GoIs
  <2>4. bind'[b].pc = IF failed THEN "undo" ELSE "complete"
    BY <2>3
  <2>5. \A j \in Interfaces(Dev(b)) : j <= bind[b].i
    BY <1>1, <1>2, <1>4 DEF Interfaces
  <2>6. set.bind[b].do = "usbip" /\ b \notin disturbed' =>
           Dev(b) \in matched' /\ (~failed => BoundBelow(b, NumIfs[Dev(b)])')
    BY <1>1, <2>5 DEF BoundBelow
  <2>7. RunInv(b)'
    BY <1>1, <2>4, <2>6 DEF RunInv
  <2> QED BY <2>3, <2>7
<1> QED BY <1>3, <1>4

(* modify_match_busid adds or removes the busid of this device only.          *)
LEMMA StepModify ==
  ASSUME IInv, NEW b \in Binders, NEW add \in BOOLEAN, NEW from,
         NEW ok \in BinderPcs, ModifyMatchBusid(b, add, from, ok, "failed"),
         bind'[b] = [pc |-> ok, i |-> bind[b].i, failed |-> bind[b].failed]
            /\ Disturb(Dev(b), {b})
            /\ matched' = (IF add THEN matched \cup {Dev(b)} ELSE matched \ {Dev(b)})
            /\ set' = set
           => RunInv(b)'
  PROVE  IInv'
<1>1. BindTypeOK
  BY DEF IInv
<1>2. CASE Step(b, from, "failed") /\ NothingInSysfs
  BY <1>2, StepEnds
<1>3. CASE /\ matched' = (IF add THEN matched \cup {Dev(b)} ELSE matched \ {Dev(b)})
           /\ Disturb(Dev(b), {b})
           /\ Step(b, from, ok)
           /\ OnlyBinder /\ UNCHANGED <<driver, exported>>
  <2>1. PICK r \in Runs : /\ r = [pc |-> ok, i |-> bind[b].i,
                                  failed |-> bind[b].failed]
                          /\ bind' = [bind EXCEPT ![b] = r] /\ bind'[b] = r
    BY <1>1, <1>3, StepIs
  <2>2. RunInv(b)'
    BY <1>3, <2>1 DEF OnlyBinder
  <2>3. DriversOK'
    BY <1>1, <1>3 DEF BindTypeOK, DriversOK, Interfaces
  <2>4. \A d \in Devs \ {Dev(b)} : d \in matched' <=> d \in matched
    BY <1>3
  <2> QED BY <1>3, <2>1, <2>2, <2>3, <2>4, RunMoves DEF OnlyBinder
<1> QED BY <1>2, <1>3 DEF ModifyMatchBusid

LEMMA StepAddMatchBusid ==
  ASSUME IInv, NEW b \in Binders, AddMatchBusid(b) PROVE IInv'
<1>1. ModifyMatchBusid(b, TRUE, "match", "attributes", "failed")
  BY DEF AddMatchBusid
<1>2. bind[b].pc = "match" /\ RunInv(b)
  BY <1>1 DEF ModifyMatchBusid, Step, IInv
<1>3. ASSUME bind'[b] = [pc |-> "attributes", i |-> bind[b].i,
                         failed |-> bind[b].failed],
             matched' = matched \cup {Dev(b)}, set' = set
      PROVE  RunInv(b)'
  BY <1>2, <1>3 DEF RunInv, Dev
<1>4. "attributes" \in BinderPcs
  BY DEF BinderPcs
<1> QED BY <1>1, <1>3, <1>4, StepModify

LEMMA StepUndoMatch ==
  ASSUME IInv, NEW b \in Binders, UndoMatch(b) PROVE IInv'
<1>1. ModifyMatchBusid(b, FALSE, "undo", "failed", "failed")
  BY DEF UndoMatch
<1>2. "failed" \in BinderPcs
  BY DEF BinderPcs
<1>3. ASSUME bind'[b] = [pc |-> "failed", i |-> bind[b].i,
                         failed |-> bind[b].failed],
             set' = set
      PROVE  RunInv(b)'
  BY <1>3, NothingClaimed
<1> QED BY <1>1, <1>2, <1>3, StepModify

LEMMA StepReadAgain ==
  ASSUME IInv, NEW b \in Binders, ReadAgain(b) PROVE IInv'
<1>1. NothingInSysfs
  BY DEF ReadAgain
<1>2. bind[b].pc = "attributes"
  BY DEF ReadAgain, Step
<1>3. "bind" \in BinderPcs /\ "undo" \in BinderPcs
  BY DEF BinderPcs
<1>4. ASSUME bind'[b] = [pc |-> "bind", i |-> bind[b].i, failed |-> bind[b].failed]
      PROVE  RunInv(b)'
  <2>1. bind'[b].pc = "bind" /\ bind'[b].i = 0
    BY <1>1, <1>2, <1>4, RunStays DEF RunInv
  <2>2. BoundBelow(b, bind[b].i)'
    BY <1>1, <2>1, RunStays, DevOfRun DEF BoundBelow, BindTypeOK
  <2> QED BY <1>1, <1>2, <2>1, <2>2, RunStays DEF RunInv
<1>5. ASSUME bind'[b] = [pc |-> "undo", i |-> bind[b].i, failed |-> bind[b].failed]
      PROVE  RunInv(b)'
  BY <1>1, <1>5, NothingClaimed, RunStays
<1> QED BY <1>1, <1>3, <1>4, <1>5, StepGoes DEF ReadAgain

LEMMA StepBindInterface ==
  ASSUME IInv, NEW b \in Binders, BindInterface(b) PROVE IInv'
<1>1. bind[b].pc = "bind" /\ BindTypeOK /\ bind[b] \in Runs /\ RunInv(b)
  BY DEF BindInterface, At, IInv, BindTypeOK, Runs
<1>2. bind[b].i \in Interfaces(Dev(b)) /\ bind[b].failed \in BOOLEAN
  BY <1>1 DEF RunInv, Runs
<1>3. CASE /\ SetDriver(Dev(b), bind[b].i, "stub") /\ Disturb(Dev(b), {b})
           /\ BindResult(b, bind[b].failed)
           /\ UNCHANGED <<set, plugged, matched, cl, toS, toC, backlog, portVars,
                          daemon, proc, granted>>
  <2>1. /\ Dev(b) \in Devs /\ "stub" \in Names
        /\ \A j \in Interfaces(Dev(b)) : j \in Nat
    BY <1>1, DevOfRun DEF BindTypeOK, Names
  <2>2. /\ DriversOK' /\ \A d \in Devs \ {Dev(b)} : driver'[d] = driver[d]
        /\ driver'[Dev(b)][bind[b].i] = "stub"
        /\ \A j \in Interfaces(Dev(b)) \ {bind[b].i} :
              driver'[Dev(b)][j] = driver[Dev(b)][j]
    BY <1>1, <1>2, <1>3, <2>1, SetDriverSets
  <2>3. disturbed \subseteq disturbed'
    BY <1>3 DEF Disturb
  <2>4. ASSUME set.bind[b].do = "usbip", b \notin disturbed
        PROVE  /\ Dev(b) \in matched'
               /\ ~bind[b].failed => \A j \in Interfaces(Dev(b)) :
                     j <= bind[b].i => driver'[Dev(b)][j] = "stub"
    BY <1>1, <1>2, <1>3, <2>1, <2>2, <2>4 DEF RunInv, BoundBelow, Interfaces
  <2>5. PICK r \in Runs : bind' = [bind EXCEPT ![b] = r] /\ RunInv(b)'
    BY <1>1, <1>2, <1>3, <2>3, <2>4, BindLoop
  <2> QED BY <1>3, <2>2, <2>5, RunMoves
<1>4. CASE BindResult(b, TRUE) /\ NothingInSysfs
  <2>1. set.bind[b].do = "usbip" /\ b \notin disturbed => Dev(b) \in matched'
    BY <1>1, <1>4, RunStays DEF RunInv
  <2>2. PICK r \in Runs : bind' = [bind EXCEPT ![b] = r] /\ RunInv(b)'
    BY <1>1, <1>2, <1>4, <2>1, BindLoop, RunStays
  <2> QED BY <1>4, <2>2, RunGoes
<1> QED BY <1>3, <1>4 DEF BindInterface

LEMMA StepReadConfig ==
  ASSUME IInv, NEW b \in Binders, ReadConfig(b) PROVE IInv'
<1>1. NothingInSysfs /\ set.bind[b].do = "other"
  BY DEF ReadConfig
<1>2. CASE Step(b, "start", "forget")
  <2>1. "forget" \in BinderPcs
    BY DEF BinderPcs
  <2>2. ASSUME bind'[b] = [pc |-> "forget", i |-> bind[b].i, failed |-> bind[b].failed]
        PROVE  RunInv(b)'
    BY <1>1, <2>2, RunStays DEF RunInv
  <2> QED BY <1>1, <1>2, <2>1, <2>2, StepGoes
<1> QED BY <1>1, <1>2, StepEnds DEF ReadConfig

LEMMA StepDelMatchBusid ==
  ASSUME IInv, NEW b \in Binders, DelMatchBusid(b) PROVE IInv'
<1>1. ModifyMatchBusid(b, FALSE, "forget", "config", "failed")
  BY DEF DelMatchBusid
<1>2. bind[b].pc = "forget" /\ RunInv(b)
  BY <1>1 DEF ModifyMatchBusid, Step, IInv
<1>3. ASSUME bind'[b] = [pc |-> "config", i |-> bind[b].i,
                         failed |-> bind[b].failed], set' = set
      PROVE  RunInv(b)'
  BY <1>2, <1>3 DEF RunInv
<1>4. "config" \in BinderPcs
  BY DEF BinderPcs
<1> QED BY <1>1, <1>3, <1>4, StepModify

LEMMA StepWriteConfig ==
  ASSUME IInv, NEW b \in Binders, WriteConfig(b) PROVE IInv'
<1>1. bind[b].pc = "config" /\ BindTypeOK /\ RunInv(b)
  BY DEF WriteConfig, At, IInv
<1>2. set.bind[b].do # "usbip"
  BY <1>1 DEF RunInv
<1>3. CASE Step(b, "config", "failed") /\ NothingInSysfs
  BY <1>3, StepEnds
<1>4. CASE /\ driver' = [driver EXCEPT ![Dev(b)] = [i \in Interfaces(Dev(b)) |->
                            IF Dev(b) \in matched THEN "stub" ELSE "local"]]
           /\ Disturb(Dev(b), {b})
           /\ Step(b, "config", "complete")
           /\ UNCHANGED <<set, plugged, matched>>
  <2>1. "complete" \in BinderPcs
    BY DEF BinderPcs
  <2>2. PICK r \in Runs : /\ r = [pc |-> "complete", i |-> bind[b].i,
                                  failed |-> bind[b].failed]
                          /\ bind' = [bind EXCEPT ![b] = r] /\ bind'[b] = r
    BY <1>1, <1>4, <2>1, StepIs
  <2>3. RunInv(b)'
    BY <1>2, <1>4, <2>2 DEF RunInv
  <2>4. Dev(b) \in Devs
    BY <1>1, DevOfRun DEF BindTypeOK
  <2>5. \A d \in Devs \ {Dev(b)} : driver'[d] = driver[d]
    BY <1>1, <1>4 DEF BindTypeOK
  <2>6. driver'[Dev(b)] \in [Interfaces(Dev(b)) -> Names]
    BY <1>1, <1>4, <2>4 DEF BindTypeOK, Names
  <2>7. driver' = [d \in Devs |-> driver'[d]]
    BY <1>1, <1>4 DEF BindTypeOK
  <2>8. \A d \in Devs : driver'[d] \in [Interfaces(d) -> Names]
    BY <1>1, <2>5, <2>6 DEF BindTypeOK
  <2>9. DriversOK'
    BY <2>7, <2>8 DEF DriversOK, Interfaces
  <2> QED BY <1>4, <2>2, <2>3, <2>5, <2>9, RunMoves
<1> QED BY <1>3, <1>4 DEF WriteConfig

-----------------------------------------------------------------------------
(* The steps of others                                                        *)

(* A change to one device disturbs every run that has begun on it.            *)
LEMMA DeviceChanges ==
  ASSUME IInv, NEW d \in Devs, UNCHANGED <<set, matched, bind>>, Disturb(d, {}),
         plugged' \subseteq Devs, DriversOK',
         \A e \in Devs \ {d} : driver'[e] = driver[e]
  PROVE  IInv'
<1>1. BindTypeOK'
  BY DEF IInv, BindTypeOK, DriversOK
<1>2. ASSUME NEW b \in Binders PROVE RunInv(b)'
  <2>1. Dev(b) \in Devs
    BY DevOfRun DEF IInv, BindTypeOK
  <2>2. \/ b \in disturbed'
        \/ bind[b].pc \in {"start", "ended"}
        \/ Dev(b) # d
    BY DEF Disturb, Dev
  <2> QED BY <2>1, <2>2, OthersMove DEF Disturb
<1> QED BY <1>1, <1>2 DEF IInv

LEMMA StepProbe == ASSUME IInv, Probe PROVE IInv'
<1>1. PICK d \in plugged : \E i \in Interfaces(d) :
         /\ driver[d][i] = "none"
         /\ driver' = [driver EXCEPT ![d][i] = "local"]
         /\ Disturb(d, {})
         /\ UNCHANGED <<set, plugged, matched, bind>>
  BY DEF Probe
<1>2. PICK i \in Interfaces(d) : driver' = [driver EXCEPT ![d][i] = "local"]
  BY <1>1
<1>3. d \in Devs /\ BindTypeOK
  BY DEF IInv, BindTypeOK
<1>4. \A e \in Devs \ {d} : driver'[e] = driver[e]
  BY <1>2, <1>3 DEF BindTypeOK
<1>5. driver'[d] = [driver[d] EXCEPT ![i] = "local"]
  BY <1>2, <1>3 DEF BindTypeOK
<1>6. driver'[d] \in [Interfaces(d) -> Names]
  BY <1>3, <1>5 DEF BindTypeOK, Names
<1>7. driver' = [e \in Devs |-> driver'[e]]
  BY <1>2, <1>3 DEF BindTypeOK
<1>8. \A e \in Devs : driver'[e] \in [Interfaces(e) -> Names]
  BY <1>3, <1>4, <1>6 DEF BindTypeOK
<1>9. DriversOK'
  BY <1>7, <1>8 DEF DriversOK, Interfaces
<1> QED BY <1>1, <1>3, <1>4, <1>9, DeviceChanges DEF BindTypeOK

LEMMA StepPull == ASSUME IInv, Pull PROVE IInv'
<1>1. PICK d \in plugged :
         /\ plugged' = plugged \ {d}
         /\ driver' = [driver EXCEPT ![d] = [i \in Interfaces(d) |-> "none"]]
         /\ Disturb(d, {})
         /\ UNCHANGED <<set, matched, bind>>
  BY DEF Pull
<1>2. d \in Devs /\ BindTypeOK /\ plugged' \subseteq Devs
  BY <1>1 DEF IInv, BindTypeOK
<1>3. \A e \in Devs \ {d} : driver'[e] = driver[e]
  BY <1>1, <1>2 DEF BindTypeOK
<1>4. driver'[d] \in [Interfaces(d) -> Names]
  BY <1>1, <1>2 DEF BindTypeOK, Names
<1>5. driver' = [e \in Devs |-> driver'[e]]
  BY <1>1, <1>2 DEF BindTypeOK
<1>6. \A e \in Devs : driver'[e] \in [Interfaces(e) -> Names]
  BY <1>2, <1>3, <1>4 DEF BindTypeOK
<1>7. DriversOK'
  BY <1>5, <1>6 DEF DriversOK, Interfaces
<1> QED BY <1>1, <1>2, <1>3, <1>7, DeviceChanges

(* usbipd and the runs of usbip bind nothing.                                 *)
Unbound == UNCHANGED <<set, plugged, driver, matched, bind, disturbed>>

LEMMA DaemonBindsNothing == Daemon \/ Shutdown => Unbound
BY DEF Daemon, Shutdown, StubDriverOpen, Accept, RecvCommon, RefreshDevice,
       RecvRequestDevlist, SendReplyDevlist, RecvRequestImport, SendReplyImport,
       Hangup, Rest, Unbound

LEMMA ClientBindsNothing ==
  ASSUME NEW p, Client(p) \/ Kill(p) PROVE Unbound
<1>1. Others => Unbound
  BY DEF Others, Unbound
<1>2. Exit(p) \/ AttachFails(p) => Unbound
  BY <1>1 DEF Exit, AttachFails
<1>3. ASSUME NEW from, NEW c, NEW to,
             \/ Connect(p, from, c, to, Exit(p))
             \/ Connect(p, from, c, to, AttachFails(p))
      PROVE  Unbound
  BY <1>1, <1>2, <1>3 DEF Connect
<1>4. ASSUME NEW from, NEW c, NEW to, NEW pdu,
             \/ Send(p, from, c, pdu, to, Exit(p))
             \/ Send(p, from, c, pdu, to, AttachFails(p))
      PROVE  Unbound
  BY <1>1, <1>2, <1>4 DEF Send
<1>5. CASE ConnectForList(p) \/ ConnectForImport(p)
  BY <1>3, <1>5 DEF ConnectForList, ConnectForImport
<1>6. CASE SendDevlist(p) \/ SendImport(p) \/ SendRequest(p)
  BY <1>4, <1>6 DEF SendDevlist, SendImport, SendRequest
<1>7. CASE RecvDevlist(p) \/ RecvDevice(p) \/ ListRead(p) \/ RecvImport(p)
  BY <1>1, <1>2, <1>7 DEF RecvDevlist, RecvDevice, ListRead, RecvImport
<1>8. CASE DriverOpen(p) \/ DetachOpen(p) \/ GetFreePort(p) \/ AttachPort(p)
  BY <1>1, <1>2, <1>8 DEF DriverOpen, DetachOpen, ReadStatus, GetFreePort, AttachPort
<1>9. CASE RecordConnection(p) \/ ForwardEnds(p) \/ DetachPort(p) \/ Kill(p)
  BY <1>1, <1>2, <1>9 DEF RecordConnection, ForwardEnds, DetachPort, Kill
<1> QED BY <1>5, <1>6, <1>7, <1>8, <1>9 DEF Client

-----------------------------------------------------------------------------
(* Every step keeps the invariant.                                            *)
LEMMA StepIInv == IInv /\ [Next]_vars => IInv'
<1> SUFFICES ASSUME IInv, [Next]_vars PROVE IInv'
  OBVIOUS
<1>1. CASE Probe \/ Pull
  BY <1>1, StepProbe, StepPull
<1>2. ASSUME NEW b \in Binders, Binder(b) PROVE IInv'
  BY <1>2, StepReadAttributes, StepGetDriver, StepUnbindInterface,
     StepAddMatchBusid, StepReadAgain, StepBindInterface, StepUndoMatch,
     StepReadConfig, StepDelMatchBusid, StepWriteConfig DEF Binder
<1>3. CASE Daemon \/ Shutdown
  BY <1>3, DaemonBindsNothing, NothingBound DEF Unbound
<1>4. ASSUME NEW p \in Procs, Client(p) \/ Kill(p) PROVE IInv'
  BY <1>4, ClientBindsNothing, NothingBound DEF Unbound
<1>5. ASSUME NEW d \in Devs, Release(d) PROVE IInv'
  BY <1>5, NothingBound DEF Release
<1>6. ASSUME NEW i \in Ports, Lost(i) PROVE IInv'
  BY <1>6, NothingBound DEF Lost
<1>7. CASE UNCHANGED vars
  BY <1>7, NothingBound DEF vars
<1> QED BY <1>1, <1>2, <1>3, <1>4, <1>5, <1>6, <1>7 DEF Next

(* Every reachable state has the inductive invariant.                         *)
THEOREM Invariant == Spec => []IInv
BY InitIInv, StepIInv, PTL DEF Spec

(* A run of usbip_bind_driver that says "complete" has bound every interface  *)
(* of its device, whichever writes failed on the way, unless somebody else    *)
(* changed this device meanwhile.                                             *)
THEOREM CompleteCorrect == Spec => []CompleteMeansBound
<1>1. ASSUME IInv PROVE CompleteMeansBound
  <2>1. SUFFICES ASSUME NEW b \in Binders, bind[b].pc = "complete",
                        set.bind[b].do = "usbip", b \notin disturbed
                 PROVE  Bound(Dev(b)) = Interfaces(Dev(b)) /\ Dev(b) \in matched
    BY DEF CompleteMeansBound, At
  <2>2. BoundBelow(b, NumIfs[Dev(b)]) /\ Dev(b) \in matched
    BY <1>1, <2>1 DEF IInv, RunInv
  <2>3. NumIfs[Dev(b)] \in Nat
    BY <1>1, DevOfRun DEF IInv, BindTypeOK
  <2>4. \A j \in Interfaces(Dev(b)) : j < NumIfs[Dev(b)]
    BY <2>3 DEF Interfaces
  <2> QED BY <2>2, <2>4 DEF BoundBelow, Bound
<1> QED BY <1>1, Invariant, PTL

=============================================================================
