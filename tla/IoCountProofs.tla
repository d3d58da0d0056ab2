----------------------------- MODULE IoCountProofs -----------------------------
(***************************************************************************)
(* Proofs about IoCount, for every set of requests.  The counter stands    *)
(* for the threads inside the device: the first lemmas say how the size of *)
(* that set changes when one thread comes in or leaves, the next ones that *)
(* the two routines that count keep the invariant, whoever calls them.     *)
(***************************************************************************)
EXTENDS IoCount, FiniteSetTheorems, TLAPS

USE DEF Actors

(* Any set of actors is finite. *)
LEMMA ActorsFinite ==
  ASSUME NEW S \in SUBSET Actors
  PROVE  /\ IsFiniteSet(S)
         /\ Cardinality(S) \in Nat
         /\ Cardinality(S) <= Cardinality(Actors)
         /\ Cardinality(Actors) \in Nat
         /\ Cardinality(S) = 0 <=> S = {}
<1>1. IsFiniteSet(Actors)
  BY ActorsAssumption, FS_AddElement
<1>2. IsFiniteSet(S) /\ Cardinality(S) <= Cardinality(Actors)
  BY <1>1, FS_Subset
<1> QED BY <1>1, <1>2, FS_CardinalityType, FS_EmptySet

(* A thread comes in, *)
LEMMA CountOneMore ==
  ASSUME NEW S \in SUBSET Actors, NEW a \in Actors, a \notin S
  PROVE  Cardinality(S \cup {a}) = Cardinality(S) + 1
<1>1. IsFiniteSet(S)
  BY ActorsFinite
<1> QED BY <1>1, FS_AddElement

(* or leaves. *)
LEMMA CountOneLess ==
  ASSUME NEW S \in SUBSET Actors, NEW a \in S
  PROVE  Cardinality(S \ {a}) = Cardinality(S) - 1
<1>1. IsFiniteSet(S)
  BY ActorsFinite
<1> QED BY <1>1, FS_RemoveElement

(* The counter keeps its type as long as it counts. *)
LEMMA CountRange ==
  ASSUME NEW S \in SUBSET Actors, NEW b \in {0, 1}
  PROVE  Cardinality(S) + b \in 0..(Cardinality(Actors) + 1)
BY ActorsFinite

-----------------------------------------------------------------------------
(* The invariant                                                            *)

USE DEF RequestAt, PnPAt, CountAt, CountedAt

(* The requests the counter counts, and its bias, are well-typed,           *)
LEMMA CountedType == Counted \in SUBSET Actors /\ Bias \in {0, 1}
BY DEF Counted, Bias

(* and their number is one.                                                 *)
LEMMA CountedSize ==
  /\ Cardinality(Counted) \in Nat
  /\ Cardinality(Counted) = 0 <=> Counted = {}
BY CountedType, ActorsFinite

(* When the count is 0, nobody is inside and the bias has been taken back. *)
LEMMA ZeroIsEmpty ==
  CountInv /\ OutstandingIO = 0 => BiasTaken /\ Counted = {}
<1>1. SUFFICES ASSUME CountInv, OutstandingIO = 0
               PROVE  BiasTaken /\ Counted = {}
  OBVIOUS
<1>2. Cardinality(Counted) = 0 /\ Bias = 0
  BY <1>1, CountedType, CountedSize DEF CountInv
<1> QED BY <1>2, CountedSize DEF Bias

(* When nobody is inside and the bias is there, the count is 1. *)
LEMMA EmptyIsOne ==
  CountInv /\ ~BiasTaken /\ Counted = {} => OutstandingIO = 1
BY CountedSize DEF CountInv, Bias

(* The initial state has the inductive invariant,                           *)
LEMMA InitIInv == Init => IInv
<1>1. SUFFICES ASSUME Init PROVE IInv
  OBVIOUS
<1>2. Counted = {}
  BY <1>1 DEF Init, Counted
<1>3. Bias = 1
  BY <1>1, ActorsAssumption DEF SignalAt, Init, Bias, BiasTaken, PnPIn
<1>4. CountInv
  BY <1>1, <1>2, <1>3, CountedSize DEF Init, CountInv
<1>5. OutstandingIO \in 0..(Cardinality(Actors) + 1)
  BY <1>4, CountRange, CountedType DEF CountInv
<1>6. TypeOK
  BY <1>1, <1>5 DEF Init, TypeOK, States
<1>7. PlaceInv /\ DeletedInv
  BY <1>1, ActorsAssumption DEF SignalAt, Init, PlaceInv, DeletedInv, PnPIn, Requests
<1>8. RemoveInv /\ StopInv
  BY <1>1 DEF Init, RemoveInv, StopInv
<1> QED BY <1>4, <1>6, <1>7, <1>8 DEF IInv

(* The invariant is kept when nobody comes in or leaves.                    *)
LEMMA SameCount ==
  ASSUME IInv, TypeOK', PlaceInv', DeletedInv', RemoveInv', StopInv',
         Counted' = Counted, Bias' = Bias, OutstandingIO' = OutstandingIO
  PROVE  IInv'
BY DEF IInv, CountInv

(* Bus_IncIoCount by a thread that was not counted keeps the invariant.     *)
LEMMA IncrementKeeps ==
  ASSUME IInv, NEW a \in Actors, a \notin Counted,
         at[a] \notin SignalAt, at[a] \notin {"removing", "removed"},
         NEW next \in {"entered", "serving", "handling", "stopped"},
         a \in Requests => \/ next = "entered"
                           \/ next = "serving" /\ a \in Powers,
         a = PnP => /\ next \in {"handling", "stopped"}
                    /\ DevicePnPState # "Deleted",
         Increment(a, next),
         UNCHANGED <<StopEvent, RemoveEvent, stateVars>>,
         minor' \in Minors \cup {"none"}, earlier' \subseteq Requests
  PROVE  IInv'
<1>1. TypeOK /\ PlaceInv /\ CountInv /\ DeletedInv /\ RemoveInv /\ StopInv
  BY DEF IInv
<1>2. PICK w : /\ w = "clear" \/ w = next
               /\ at' = [at EXCEPT ![a] = w]
  BY DEF Increment, Goto
<1>3. /\ then' = [then EXCEPT ![a] = next]
      /\ OutstandingIO' = OutstandingIO + 1
  BY DEF Increment
<1>4. PnP \in Actors /\ PnP \notin Requests
  BY ActorsAssumption
<1>5. Counted' = Counted \cup {a}
  BY <1>1, <1>2 DEF TypeOK, Counted
<1>6. Cardinality(Counted') = Cardinality(Counted) + 1
  BY <1>5, CountedType, CountOneMore
<1>7. BiasTaken' <=> BiasTaken
  BY <1>1, <1>2, <1>3, <1>4 DEF SignalAt, TypeOK, BiasTaken, PnPIn
<1>8. Bias' = Bias
  BY <1>7 DEF Bias
<1>9. CountInv'
  <2>1. Bias \in {0, 1} /\ Cardinality(Counted) \in Nat
    BY CountedType, CountedSize
  <2> QED BY <1>1, <1>3, <1>6, <1>8, <2>1 DEF CountInv
<1>10. OutstandingIO' \in 0..(Cardinality(Actors) + 1)
  <2>1. (Counted \in SUBSET Actors /\ Bias \in {0, 1})'
    BY CountedType, PTL
  <2> QED BY <1>9, <2>1, CountRange DEF CountInv
<1>11. TypeOK'
  <2>1. /\ at' \in [Actors -> RequestAt \cup PnPAt \cup CountAt]
        /\ then' \in [Actors -> RequestAt \cup PnPAt]
    BY <1>1, <1>2, <1>3 DEF TypeOK
  <2> HIDE DEF RequestAt, PnPAt, CountAt
  <2> QED BY <1>1, <1>10, <2>1 DEF TypeOK, stateVars
<1>12. PlaceInv'
  <2>0. /\ at'[a] = w /\ then'[a] = next
        /\ \A b \in Actors : b # a => at'[b] = at[b] /\ then'[b] = then[b]
    BY <1>1, <1>2, <1>3 DEF TypeOK
  <2>1. CASE a \in Requests
    <3>1. at'[PnP] = at[PnP] /\ then'[PnP] = then[PnP]
      BY <1>4, <2>0, <2>1
    <3>2. \A r \in Requests \ {a} : at'[r] = at[r] /\ then'[r] = then[r]
      BY <2>0 DEF Actors
    <3>3. /\ w \in RequestAt \cup CountAt
          /\ w = "clear" => next \in {"entered", "serving"}
          /\ w \in SignalAt => next = "done"
          /\ w # "passed"
          /\ (w = "clear" /\ next = "serving") => a \in Powers
      BY <1>2, <1>4, <2>1 DEF SignalAt
    <3> HIDE DEF RequestAt, PnPAt, CountAt
    <3> QED BY <1>1, <2>0, <3>1, <3>2, <3>3 DEF PlaceInv
  <2>2. CASE a = PnP
    <3>1. \A r \in Requests : at'[r] = at[r] /\ then'[r] = then[r]
      BY <1>4, <2>0, <2>2 DEF Actors
    <3>2. /\ w \in PnPAt \cup CountAt
          /\ w = "clear" => next \in {"handling", "stopped"}
          /\ w \in SignalAt => next \in {"idle", "stopping", "biased", "removing"}
      BY <1>2, <2>2 DEF SignalAt
    <3> HIDE DEF RequestAt, PnPAt, CountAt
    <3> QED BY <1>1, <2>0, <2>2, <3>1, <3>2 DEF PlaceInv
  <2> QED BY <2>1, <2>2
<1>13. DeletedInv'
  BY <1>1, <1>2, <1>3, <1>4 DEF SignalAt, TypeOK, DeletedInv, PnPIn, stateVars
<1>14. RemoveInv'
  BY <1>1, <1>2, <1>4, <1>7 DEF TypeOK, RemoveInv
<1>15. StopInv'
  BY <1>5 DEF StopInv
<1> QED BY <1>9, <1>11, <1>12, <1>13, <1>14, <1>15 DEF IInv

(* Bus_DecIoCount keeps it too: by a thread that was counted, or by REMOVE  *)
(* to take the bias back.                                                   *)
LEMMA DecrementKeeps ==
  ASSUME IInv, NEW a \in Actors, at[a] \notin SignalAt,
         NEW next \in {"done", "idle", "stopping", "biased", "removing"},
         a \in Requests => next = "done",
         a = PnP => next # "done",
         a = PnP => (DevicePnPState = "Deleted" <=> next \in {"biased", "removing"}),
         IF next = "removing" THEN a \notin Counted /\ ~BiasTaken
                              ELSE a \in Counted,
         Decrement(a, next),
         UNCHANGED <<StopEvent, RemoveEvent, stateVars>>,
         minor' \in Minors \cup {"none"}, earlier' \subseteq Requests
  PROVE  IInv'
<1>1. TypeOK /\ PlaceInv /\ CountInv /\ DeletedInv /\ RemoveInv /\ StopInv
  BY DEF IInv
<1>2. PICK w : /\ w = next \/ w = "signal stop" \/ w = "signal remove"
               /\ at' = [at EXCEPT ![a] = w]
  BY DEF Decrement, Goto
<1>3. at'[a] = "signal remove" => OutstandingIO = 1
  <2>1. Goto(a, "signal stop") => at'[a] = "signal stop"
    BY <1>1 DEF TypeOK, Goto
  <2>2. Goto(a, next) => at'[a] = next
    BY <1>1 DEF TypeOK, Goto
  <2> QED BY <2>1, <2>2 DEF Decrement
<1>4. OutstandingIO = 2 => at'[a] = "signal stop"
  <2>1. ASSUME OutstandingIO = 2 PROVE Goto(a, "signal stop")
    <3>1. OutstandingIO # 1 /\ OutstandingIO \in {1, 2}
      BY <2>1
    <3> QED BY <3>1 DEF Decrement
  <2>2. Goto(a, "signal stop") => at'[a] = "signal stop"
    BY <1>1 DEF TypeOK, Goto
  <2> QED BY <2>1, <2>2
<1>5. /\ then' = [then EXCEPT ![a] = next]
      /\ OutstandingIO' = OutstandingIO - 1
  BY DEF Decrement
<1>6. PnP \in Actors /\ PnP \notin Requests
  BY ActorsAssumption
<1>7. Counted' = Counted \ {a}
  BY <1>1, <1>2 DEF TypeOK, Counted
<1>8. BiasTaken' <=> (BiasTaken \/ next = "removing")
  BY <1>1, <1>2, <1>5, <1>6 DEF SignalAt, TypeOK, BiasTaken, PnPIn, Counted
<1>9. CountInv'
  <2>1. CASE next = "removing"
    <3>1. Counted' = Counted
      BY <1>7, <2>1
    <3>2. Bias = 1 /\ Bias' = 0
      BY <1>8, <2>1 DEF Bias
    <3>3. Cardinality(Counted) \in Nat
      BY CountedSize
    <3> QED BY <1>1, <1>5, <3>1, <3>2, <3>3 DEF CountInv
  <2>2. CASE next # "removing"
    <3>1. Cardinality(Counted') = Cardinality(Counted) - 1
      BY <1>7, <2>2, CountedType, CountOneLess
    <3>2. Bias' = Bias
      BY <1>8, <2>2 DEF Bias
    <3>3. Bias \in {0, 1} /\ Cardinality(Counted) \in Nat
      BY CountedType, CountedSize
    <3> QED BY <1>1, <1>5, <3>1, <3>2, <3>3 DEF CountInv
  <2> QED BY <2>1, <2>2
<1>10. OutstandingIO' \in 0..(Cardinality(Actors) + 1)
  <2>1. (Counted \in SUBSET Actors /\ Bias \in {0, 1})'
    BY CountedType, PTL
  <2> QED BY <1>9, <2>1, CountRange DEF CountInv
<1>11. TypeOK'
  <2>1. /\ at' \in [Actors -> RequestAt \cup PnPAt \cup CountAt]
        /\ then' \in [Actors -> RequestAt \cup PnPAt]
    BY <1>1, <1>2, <1>5 DEF TypeOK
  <2> HIDE DEF RequestAt, PnPAt, CountAt
  <2> QED BY <1>1, <1>10, <2>1 DEF TypeOK, stateVars
<1>12. PlaceInv'
  <2>0. /\ at'[a] = w /\ then'[a] = next
        /\ \A b \in Actors : b # a => at'[b] = at[b] /\ then'[b] = then[b]
    BY <1>1, <1>2, <1>5 DEF TypeOK
  <2>1. CASE a \in Requests
    <3>1. at'[PnP] = at[PnP] /\ then'[PnP] = then[PnP]
      BY <1>6, <2>0, <2>1
    <3>2. \A r \in Requests \ {a} : at'[r] = at[r] /\ then'[r] = then[r]
      BY <2>0 DEF Actors
    <3>3. /\ w \in RequestAt \cup CountAt
          /\ w = "clear" => next \in {"entered", "serving"}
          /\ w \in SignalAt => next = "done"
          /\ w # "passed"
          /\ (w = "clear" /\ next = "serving") => a \in Powers
      BY <1>2, <1>6, <2>1 DEF SignalAt
    <3> HIDE DEF RequestAt, PnPAt, CountAt
    <3> QED BY <1>1, <2>0, <3>1, <3>2, <3>3 DEF PlaceInv
  <2>2. CASE a = PnP
    <3>1. \A r \in Requests : at'[r] = at[r] /\ then'[r] = then[r]
      BY <1>6, <2>0, <2>2 DEF Actors
    <3>2. /\ w \in PnPAt \cup CountAt
          /\ w = "clear" => next \in {"handling", "stopped"}
          /\ w \in SignalAt => next \in {"idle", "stopping", "biased", "removing"}
      BY <1>2, <2>2 DEF SignalAt
    <3> HIDE DEF RequestAt, PnPAt, CountAt
    <3> QED BY <1>1, <2>0, <2>2, <3>1, <3>2 DEF PlaceInv
  <2> QED BY <2>1, <2>2
<1>13. DeletedInv'
  BY <1>1, <1>2, <1>5, <1>6 DEF SignalAt, TypeOK, DeletedInv, PnPIn, stateVars
<1>14. RemoveInv'
  <2>1. CASE at'[a] = "signal remove"
    <3>0. OutstandingIO = 1
      BY <1>3, <2>1
    <3>1. OutstandingIO' = 0
      BY <1>5, <3>0
    <3>2. (CountInv /\ OutstandingIO = 0 => BiasTaken /\ Counted = {})'
      BY ZeroIsEmpty, PTL
    <3>3. BiasTaken' /\ Counted' = {}
      BY <1>9, <3>1, <3>2
    <3> QED BY <3>3 DEF RemoveInv, Counted, Requests
  <2>2. CASE at'[a] # "signal remove"
    BY <1>1, <1>2, <1>5, <1>6, <1>8, <2>2 DEF TypeOK, RemoveInv
  <2> QED BY <2>1, <2>2
<1>15. StopInv'
  <2>1. SUFFICES ASSUME at'[PnP] = "stopping", Counted' = {}
                 PROVE  \E r \in Requests : at'[r] = "signal stop"
    BY DEF StopInv
  <2>2. ~BiasTaken'
    BY <2>1 DEF SignalAt, BiasTaken, PnPIn
  <2>3. (CountInv /\ ~BiasTaken /\ Counted = {} => OutstandingIO = 1)'
    BY EmptyIsOne, PTL
  <2>4. OutstandingIO = 2
    <3>1. OutstandingIO \in Int
      BY <1>1, CountedType, CountedSize DEF CountInv
    <3>2. OutstandingIO' = 1
      BY <1>9, <2>1, <2>2, <2>3
    <3> QED BY <1>5, <3>1, <3>2
  <2>5. at'[a] = "signal stop"
    BY <1>4, <2>4
  <2> QED BY <2>1, <2>5
<1> QED BY <1>9, <1>11, <1>12, <1>13, <1>14, <1>15 DEF IInv

(* and every step keeps it.                                                 *)
LEMMA StepIInv == IInv /\ [Next]_vars => IInv'
<1>1. SUFFICES ASSUME IInv, [Next]_vars PROVE IInv'
  OBVIOUS
<1>2. TypeOK /\ PlaceInv /\ CountInv /\ DeletedInv /\ RemoveInv /\ StopInv
  BY <1>1 DEF IInv
<1>3. Requests \subseteq Actors /\ PnP \in Actors /\ PnP \notin Requests
  BY ActorsAssumption
<1>4. ASSUME NEW a \in Actors, ClearStop(a) PROVE IInv'
  <2>1. Counted' = Counted /\ Bias' = Bias
    BY <1>4, <1>2, <1>3
    DEF SignalAt, TypeOK, PlaceInv, Counted, Bias, BiasTaken, PnPIn, Goto, ClearStop
  <2>2. TypeOK' /\ OutstandingIO' = OutstandingIO
    BY <1>4, <1>2 DEF TypeOK, States, Goto, ClearStop, countVars, stateVars
  <2>3. PlaceInv'
    BY <1>4, <1>2, <1>3 DEF SignalAt, TypeOK, PlaceInv, Goto, ClearStop, stateVars
  <2>4. DeletedInv'
    BY <1>4, <1>2, <1>3
    DEF SignalAt, TypeOK, PlaceInv, DeletedInv, PnPIn, Goto, ClearStop, stateVars
  <2>5. RemoveInv'
    BY <1>4, <1>2, <1>3
    DEF SignalAt, TypeOK, PlaceInv, DeletedInv, RemoveInv, BiasTaken, PnPIn, Goto,
        ClearStop, countVars, stateVars
  <2>6. StopInv'
    <3>1. a \in Counted
      BY <1>4 DEF ClearStop, Counted
    <3> QED BY <2>1, <3>1 DEF StopInv
  <2> QED BY <1>1, <2>1, <2>2, <2>3, <2>4, <2>5, <2>6, SameCount
<1>5. ASSUME NEW a \in Actors, SignalStop(a) PROVE IInv'
  <2>1. Counted' = Counted /\ Bias' = Bias
    BY <1>5, <1>2, <1>3
    DEF SignalAt, TypeOK, PlaceInv, Counted, Bias, BiasTaken, PnPIn, Goto, SignalStop
  <2>2. TypeOK' /\ OutstandingIO' = OutstandingIO
    BY <1>5, <1>2 DEF TypeOK, States, Goto, SignalStop, countVars, stateVars
  <2>3. PlaceInv'
    BY <1>5, <1>2, <1>3 DEF SignalAt, TypeOK, PlaceInv, Goto, SignalStop, stateVars
  <2>4. DeletedInv'
    BY <1>5, <1>2, <1>3
    DEF SignalAt, TypeOK, PlaceInv, DeletedInv, PnPIn, Goto, SignalStop, stateVars
  <2>5. RemoveInv'
    BY <1>5, <1>2, <1>3
    DEF SignalAt, TypeOK, PlaceInv, DeletedInv, RemoveInv, BiasTaken, PnPIn, Goto,
        SignalStop, countVars, stateVars
  <2>6. StopInv'
    BY <1>5, <1>2, <1>3, <2>1
    DEF SignalAt, TypeOK, PlaceInv, StopInv, RemoveInv, BiasTaken, PnPIn, Goto,
        SignalStop, countVars
  <2> QED BY <1>1, <2>1, <2>2, <2>3, <2>4, <2>5, <2>6, SameCount
<1>6. ASSUME NEW a \in Actors, SignalRemove(a) PROVE IInv'
  <2>1. Counted' = Counted /\ Bias' = Bias
    BY <1>6, <1>2, <1>3
    DEF SignalAt, TypeOK, PlaceInv, Counted, Bias, BiasTaken, PnPIn, Goto, SignalRemove
  <2>2. TypeOK' /\ OutstandingIO' = OutstandingIO
    BY <1>6, <1>2 DEF TypeOK, States, Goto, SignalRemove, countVars, stateVars
  <2>3. PlaceInv'
    BY <1>6, <1>2, <1>3 DEF SignalAt, TypeOK, PlaceInv, Goto, SignalRemove, stateVars
  <2>4. DeletedInv'
    BY <1>6, <1>2, <1>3
    DEF SignalAt, TypeOK, PlaceInv, DeletedInv, PnPIn, Goto, SignalRemove, stateVars
  <2>5. RemoveInv'
    BY <1>6, <1>2, <1>3
    DEF SignalAt, TypeOK, PlaceInv, DeletedInv, RemoveInv, BiasTaken, PnPIn, Goto,
        SignalRemove, countVars, stateVars
  <2>6. StopInv'
    BY <1>6, <1>2, <1>3, <2>1
    DEF SignalAt, TypeOK, PlaceInv, StopInv, RemoveInv, BiasTaken, PnPIn, Goto,
        SignalRemove, countVars
  <2> QED BY <1>1, <2>1, <2>2, <2>3, <2>4, <2>5, <2>6, SameCount
<1>7. ASSUME NEW r \in Requests, Enter(r) PROVE IInv'
  <2>1. /\ r \notin Counted
        /\ at[r] \notin SignalAt \cup {"removing", "removed"}
        /\ Increment(r, "entered")
    BY <1>7 DEF SignalAt, Counted, Enter
  <2>2. UNCHANGED <<StopEvent, RemoveEvent, stateVars>>
    BY <1>7 DEF Enter
  <2>3. minor' \in Minors \cup {"none"} /\ earlier' \subseteq Requests
    BY <1>7, <1>2 DEF TypeOK, Enter
  <2>4. r = PnP => DevicePnPState # "Deleted"
    BY <1>7, <1>2, <1>3 DEF SignalAt, DeletedInv, PnPIn, Enter
  <2>5. r \in Requests => "entered" = "entered" \/ r \in Powers
    BY <1>7, <1>2, <1>3 DEF SignalAt, PlaceInv, Enter
  <2> QED BY <1>1, <1>3, <2>1, <2>2, <2>3, <2>4, <2>5, IncrementKeeps
<1>8. ASSUME NEW r \in Requests, Accept(r) PROVE IInv'
  <2>1. Counted' = Counted /\ Bias' = Bias
    BY <1>8, <1>2, <1>3
    DEF SignalAt, TypeOK, PlaceInv, Counted, Bias, BiasTaken, PnPIn, Goto, Accept
  <2>2. TypeOK' /\ OutstandingIO' = OutstandingIO
    BY <1>8, <1>2 DEF TypeOK, States, Goto, Accept, countVars, stateVars
  <2>3. PlaceInv'
    BY <1>8, <1>2, <1>3 DEF SignalAt, TypeOK, PlaceInv, Goto, Accept, stateVars
  <2>4. DeletedInv'
    BY <1>8, <1>2, <1>3
    DEF SignalAt, TypeOK, PlaceInv, DeletedInv, PnPIn, Goto, Accept, stateVars
  <2>5. RemoveInv'
    BY <1>8, <1>2, <1>3
    DEF SignalAt, TypeOK, PlaceInv, DeletedInv, RemoveInv, BiasTaken, PnPIn, Goto,
        Accept, countVars, stateVars
  <2>6. StopInv'
    BY <1>8, <1>2, <1>3, <2>1
    DEF SignalAt, TypeOK, PlaceInv, StopInv, RemoveInv, BiasTaken, PnPIn, Goto,
        Accept, countVars
  <2> QED BY <1>1, <2>1, <2>2, <2>3, <2>4, <2>5, <2>6, SameCount
<1>9. ASSUME NEW r \in Requests, Reject(r) PROVE IInv'
  <2>1. Counted' = Counted /\ Bias' = Bias
    BY <1>9, <1>2, <1>3
    DEF SignalAt, TypeOK, PlaceInv, Counted, Bias, BiasTaken, PnPIn, Goto, Reject, Rejected
  <2>2. TypeOK' /\ OutstandingIO' = OutstandingIO
    BY <1>9, <1>2 DEF TypeOK, States, Goto, Reject, Rejected, countVars, stateVars
  <2>3. PlaceInv'
    BY <1>9, <1>2, <1>3 DEF SignalAt, TypeOK, PlaceInv, Goto, Reject, Rejected, stateVars
  <2>4. DeletedInv'
    BY <1>9, <1>2, <1>3
    DEF SignalAt, TypeOK, PlaceInv, DeletedInv, PnPIn, Goto, Reject, Rejected, stateVars
  <2>5. RemoveInv'
    BY <1>9, <1>2, <1>3
    DEF SignalAt, TypeOK, PlaceInv, DeletedInv, RemoveInv, BiasTaken, PnPIn, Goto,
        Reject, Rejected, countVars, stateVars
  <2>6. StopInv'
    BY <1>9, <1>2, <1>3, <2>1
    DEF SignalAt, TypeOK, PlaceInv, StopInv, RemoveInv, BiasTaken, PnPIn, Goto,
        Reject, Rejected, countVars
  <2> QED BY <1>1, <2>1, <2>2, <2>3, <2>4, <2>5, <2>6, SameCount
<1>10. ASSUME NEW r \in Requests, PowerPass(r) PROVE IInv'
  <2>1. Counted' = Counted /\ Bias' = Bias
    BY <1>10, <1>2, <1>3
    DEF SignalAt, TypeOK, PlaceInv, Counted, Bias, BiasTaken, PnPIn, Goto, PowerPass
  <2>2. TypeOK' /\ OutstandingIO' = OutstandingIO
    BY <1>10, <1>2 DEF TypeOK, States, Goto, PowerPass, countVars, stateVars
  <2>3. PlaceInv'
    BY <1>10, <1>2, <1>3 DEF SignalAt, TypeOK, PlaceInv, Goto, PowerPass, stateVars
  <2>4. DeletedInv'
    BY <1>10, <1>2, <1>3
    DEF SignalAt, TypeOK, PlaceInv, DeletedInv, PnPIn, Goto, PowerPass, stateVars
  <2>5. RemoveInv'
    BY <1>10, <1>2, <1>3
    DEF SignalAt, TypeOK, PlaceInv, DeletedInv, RemoveInv, BiasTaken, PnPIn, Goto,
        PowerPass, countVars, stateVars
  <2>6. StopInv'
    BY <1>10, <1>2, <1>3, <2>1
    DEF SignalAt, TypeOK, PlaceInv, StopInv, RemoveInv, BiasTaken, PnPIn, Goto,
        PowerPass, countVars
  <2> QED BY <1>1, <2>1, <2>2, <2>3, <2>4, <2>5, <2>6, SameCount
<1>11. ASSUME NEW r \in Requests, PowerEnter(r) PROVE IInv'
  <2>1. /\ r \notin Counted
        /\ at[r] \notin SignalAt \cup {"removing", "removed"}
        /\ Increment(r, "serving")
    BY <1>11 DEF SignalAt, Counted, PowerEnter
  <2>2. UNCHANGED <<StopEvent, RemoveEvent, stateVars>>
    BY <1>11 DEF PowerEnter
  <2>3. minor' \in Minors \cup {"none"} /\ earlier' \subseteq Requests
    BY <1>11, <1>2 DEF TypeOK, PowerEnter
  <2>4. r = PnP => DevicePnPState # "Deleted"
    BY <1>11, <1>2, <1>3 DEF SignalAt, DeletedInv, PnPIn, PowerEnter
  <2>5. r \in Requests => "serving" = "entered" \/ r \in Powers
    BY <1>11, <1>2, <1>3 DEF SignalAt, PlaceInv, PowerEnter
  <2> QED BY <1>1, <1>3, <2>1, <2>2, <2>3, <2>4, <2>5, IncrementKeeps
<1>12. ASSUME NEW r \in Requests, Serve(r) PROVE IInv'
  <2>1. Counted' = Counted /\ Bias' = Bias
    BY <1>12, <1>2, <1>3
    DEF SignalAt, TypeOK, PlaceInv, Counted, Bias, BiasTaken, PnPIn, Goto, Serve
  <2>2. TypeOK' /\ OutstandingIO' = OutstandingIO
    BY <1>12, <1>2 DEF TypeOK, States, Goto, Serve, countVars, stateVars
  <2>3. PlaceInv'
    BY <1>12, <1>2, <1>3 DEF SignalAt, TypeOK, PlaceInv, Goto, Serve, stateVars
  <2>4. DeletedInv'
    BY <1>12, <1>2, <1>3
    DEF SignalAt, TypeOK, PlaceInv, DeletedInv, PnPIn, Goto, Serve, stateVars
  <2>5. RemoveInv'
    BY <1>12, <1>2, <1>3
    DEF SignalAt, TypeOK, PlaceInv, DeletedInv, RemoveInv, BiasTaken, PnPIn, Goto,
        Serve, countVars, stateVars
  <2>6. StopInv'
    BY <1>12, <1>2, <1>3, <2>1
    DEF SignalAt, TypeOK, PlaceInv, StopInv, RemoveInv, BiasTaken, PnPIn, Goto,
        Serve, countVars
  <2> QED BY <1>1, <2>1, <2>2, <2>3, <2>4, <2>5, <2>6, SameCount
<1>13. ASSUME NEW r \in Requests, Leave(r) PROVE IInv'
  <2>1. /\ r \in Counted
        /\ at[r] \notin SignalAt
        /\ Decrement(r, "done")
    BY <1>13, <1>3 DEF SignalAt, Counted, Leave
  <2>2. UNCHANGED <<StopEvent, RemoveEvent, stateVars>>
    BY <1>13 DEF Leave
  <2>3. minor' \in Minors \cup {"none"} /\ earlier' \subseteq Requests
    BY <1>13, <1>2 DEF TypeOK, Leave
  <2>4. r = PnP =>
          (DevicePnPState = "Deleted" <=> "done" \in {"biased", "removing"})
    BY <1>13, <1>2, <1>3 DEF SignalAt, DeletedInv, PnPIn, Leave
  <2> QED BY <1>1, <1>3, <2>1, <2>2, <2>3, <2>4, DecrementKeeps
<1>14. ASSUME NEW m \in Minors, PnPEnter(m) PROVE IInv'
  <2>1. /\ PnP \notin Counted
        /\ at[PnP] \notin SignalAt \cup {"removing", "removed"}
        /\ Increment(PnP, "handling")
    BY <1>14 DEF SignalAt, Counted, PnPEnter
  <2>2. UNCHANGED <<StopEvent, RemoveEvent, stateVars>>
    BY <1>14 DEF PnPEnter
  <2>3. minor' \in Minors \cup {"none"} /\ earlier' \subseteq Requests
    BY <1>14, <1>2 DEF TypeOK, PnPEnter
  <2>4. PnP = PnP => DevicePnPState # "Deleted"
    BY <1>14, <1>2, <1>3 DEF SignalAt, DeletedInv, PnPIn, PnPEnter
  <2>5. PnP \in Requests => "handling" = "entered" \/ PnP \in Powers
    BY <1>14, <1>2, <1>3 DEF SignalAt, PlaceInv, PnPEnter
  <2> QED BY <1>1, <1>3, <2>1, <2>2, <2>3, <2>4, <2>5, IncrementKeeps
<1>15. ASSUME PnPHandle PROVE IInv'
  <2>1. Counted' = Counted /\ Bias' = Bias
    BY <1>15, <1>2, <1>3
    DEF SignalAt, TypeOK, PlaceInv, Counted, Bias, BiasTaken, PnPIn, Goto, PnPHandle, NewState, SameState, SetState, RestoreState
  <2>2. TypeOK' /\ OutstandingIO' = OutstandingIO
    BY <1>15, <1>2 DEF TypeOK, States, Goto, PnPHandle, NewState, SameState, SetState, RestoreState, countVars, stateVars
  <2>3. PlaceInv'
    BY <1>15, <1>2, <1>3 DEF SignalAt, TypeOK, PlaceInv, Goto, PnPHandle, NewState, SameState, SetState, RestoreState, stateVars
  <2>4. DeletedInv'
    BY <1>15, <1>2, <1>3
    DEF SignalAt, TypeOK, PlaceInv, DeletedInv, PnPIn, Goto, PnPHandle, NewState, SameState, SetState, RestoreState, stateVars
  <2>5. RemoveInv'
    BY <1>15, <1>2, <1>3
    DEF SignalAt, TypeOK, PlaceInv, DeletedInv, RemoveInv, BiasTaken, PnPIn, Goto,
        PnPHandle, NewState, SameState, SetState, RestoreState, countVars, stateVars
  <2>6. StopInv'
    BY <1>15, <1>2, <1>3, <2>1
    DEF SignalAt, TypeOK, PlaceInv, StopInv, RemoveInv, BiasTaken, PnPIn, Goto,
        PnPHandle, NewState, SameState, SetState, RestoreState, countVars
  <2> QED BY <1>1, <2>1, <2>2, <2>3, <2>4, <2>5, <2>6, SameCount
<1>16. ASSUME PnPLeave PROVE IInv'
  <2>1. /\ PnP \in Counted
        /\ at[PnP] \notin SignalAt
        /\ Decrement(PnP, "idle")
    BY <1>16, <1>3 DEF SignalAt, Counted, PnPLeave
  <2>2. UNCHANGED <<StopEvent, RemoveEvent, stateVars>>
    BY <1>16 DEF PnPLeave
  <2>3. minor' \in Minors \cup {"none"} /\ earlier' \subseteq Requests
    BY <1>16, <1>2 DEF TypeOK, PnPLeave
  <2>4. PnP = PnP =>
          (DevicePnPState = "Deleted" <=> "idle" \in {"biased", "removing"})
    BY <1>16, <1>2, <1>3 DEF SignalAt, DeletedInv, PnPIn, PnPLeave
  <2> QED BY <1>1, <1>3, <2>1, <2>2, <2>3, <2>4, DecrementKeeps
<1>17. ASSUME StopDecrement PROVE IInv'
  <2>1. /\ PnP \in Counted
        /\ at[PnP] \notin SignalAt
        /\ Decrement(PnP, "stopping")
    BY <1>17, <1>3 DEF SignalAt, Counted, StopDecrement
  <2>2. UNCHANGED <<StopEvent, RemoveEvent, stateVars>>
    BY <1>17 DEF StopDecrement
  <2>3. minor' \in Minors \cup {"none"} /\ earlier' \subseteq Requests
    BY <1>17, <1>2 DEF TypeOK, StopDecrement
  <2>4. PnP = PnP =>
          (DevicePnPState = "Deleted" <=> "stopping" \in {"biased", "removing"})
    BY <1>17, <1>2, <1>3 DEF SignalAt, DeletedInv, PnPIn, StopDecrement
  <2> QED BY <1>1, <1>3, <2>1, <2>2, <2>3, <2>4, DecrementKeeps
<1>18. ASSUME StopWait PROVE IInv'
  <2>1. Counted' = Counted /\ Bias' = Bias
    BY <1>18, <1>2, <1>3
    DEF SignalAt, TypeOK, PlaceInv, Counted, Bias, BiasTaken, PnPIn, Goto, StopWait
  <2>2. TypeOK' /\ OutstandingIO' = OutstandingIO
    BY <1>18, <1>2 DEF TypeOK, States, Goto, StopWait, countVars, stateVars
  <2>3. PlaceInv'
    BY <1>18, <1>2, <1>3 DEF SignalAt, TypeOK, PlaceInv, Goto, StopWait, stateVars
  <2>4. DeletedInv'
    BY <1>18, <1>2, <1>3
    DEF SignalAt, TypeOK, PlaceInv, DeletedInv, PnPIn, Goto, StopWait, stateVars
  <2>5. RemoveInv'
    BY <1>18, <1>2, <1>3
    DEF SignalAt, TypeOK, PlaceInv, DeletedInv, RemoveInv, BiasTaken, PnPIn, Goto,
        StopWait, countVars, stateVars
  <2>6. StopInv'
    BY <1>18, <1>2, <1>3, <2>1
    DEF SignalAt, TypeOK, PlaceInv, StopInv, RemoveInv, BiasTaken, PnPIn, Goto,
        StopWait, countVars
  <2> QED BY <1>1, <2>1, <2>2, <2>3, <2>4, <2>5, <2>6, SameCount
<1>19. ASSUME StopIncrement PROVE IInv'
  <2>1. /\ PnP \notin Counted
        /\ at[PnP] \notin SignalAt \cup {"removing", "removed"}
        /\ Increment(PnP, "stopped")
    BY <1>19 DEF SignalAt, Counted, StopIncrement
  <2>2. UNCHANGED <<StopEvent, RemoveEvent, stateVars>>
    BY <1>19 DEF StopIncrement
  <2>3. minor' \in Minors \cup {"none"} /\ earlier' \subseteq Requests
    BY <1>19, <1>2 DEF TypeOK, StopIncrement
  <2>4. PnP = PnP => DevicePnPState # "Deleted"
    BY <1>19, <1>2, <1>3 DEF SignalAt, DeletedInv, PnPIn, StopIncrement
  <2>5. PnP \in Requests => "stopped" = "entered" \/ PnP \in Powers
    BY <1>19, <1>2, <1>3 DEF SignalAt, PlaceInv, StopIncrement
  <2> QED BY <1>1, <1>3, <2>1, <2>2, <2>3, <2>4, <2>5, IncrementKeeps
<1>20. ASSUME StopDone PROVE IInv'
  <2>1. Counted' = Counted /\ Bias' = Bias
    BY <1>20, <1>2, <1>3
    DEF SignalAt, TypeOK, PlaceInv, Counted, Bias, BiasTaken, PnPIn, Goto, StopDone, SetState
  <2>2. TypeOK' /\ OutstandingIO' = OutstandingIO
    BY <1>20, <1>2 DEF TypeOK, States, Goto, StopDone, SetState, countVars, stateVars
  <2>3. PlaceInv'
    BY <1>20, <1>2, <1>3 DEF SignalAt, TypeOK, PlaceInv, Goto, StopDone, SetState, stateVars
  <2>4. DeletedInv'
    BY <1>20, <1>2, <1>3
    DEF SignalAt, TypeOK, PlaceInv, DeletedInv, PnPIn, Goto, StopDone, SetState, stateVars
  <2>5. RemoveInv'
    BY <1>20, <1>2, <1>3
    DEF SignalAt, TypeOK, PlaceInv, DeletedInv, RemoveInv, BiasTaken, PnPIn, Goto,
        StopDone, SetState, countVars, stateVars
  <2>6. StopInv'
    BY <1>20, <1>2, <1>3, <2>1
    DEF SignalAt, TypeOK, PlaceInv, StopInv, RemoveInv, BiasTaken, PnPIn, Goto,
        StopDone, SetState, countVars
  <2> QED BY <1>1, <2>1, <2>2, <2>3, <2>4, <2>5, <2>6, SameCount
<1>21. ASSUME RemoveMark PROVE IInv'
  <2>1. Counted' = Counted /\ Bias' = Bias
    BY <1>21, <1>2, <1>3
    DEF SignalAt, TypeOK, PlaceInv, Counted, Bias, BiasTaken, PnPIn, Goto, RemoveMark, SetState
  <2>2. TypeOK' /\ OutstandingIO' = OutstandingIO
    BY <1>21, <1>2 DEF TypeOK, States, Goto, RemoveMark, SetState, countVars, stateVars
  <2>3. PlaceInv'
    BY <1>21, <1>2, <1>3 DEF SignalAt, TypeOK, PlaceInv, Goto, RemoveMark, SetState, stateVars
  <2>4. DeletedInv'
    BY <1>21, <1>2, <1>3
    DEF SignalAt, TypeOK, PlaceInv, DeletedInv, PnPIn, Goto, RemoveMark, SetState, stateVars
  <2>5. RemoveInv'
    BY <1>21, <1>2, <1>3
    DEF SignalAt, TypeOK, PlaceInv, DeletedInv, RemoveInv, BiasTaken, PnPIn, Goto,
        RemoveMark, SetState, countVars, stateVars
  <2>6. StopInv'
    BY <1>21, <1>2, <1>3, <2>1
    DEF SignalAt, TypeOK, PlaceInv, StopInv, RemoveInv, BiasTaken, PnPIn, Goto,
        RemoveMark, SetState, countVars
  <2> QED BY <1>1, <2>1, <2>2, <2>3, <2>4, <2>5, <2>6, SameCount
<1>22. ASSUME RemoveDecrement PROVE IInv'
  <2>1. /\ PnP \in Counted
        /\ at[PnP] \notin SignalAt
        /\ Decrement(PnP, "biased")
    BY <1>22, <1>3 DEF SignalAt, Counted, RemoveDecrement
  <2>2. UNCHANGED <<StopEvent, RemoveEvent, stateVars>>
    BY <1>22 DEF RemoveDecrement
  <2>3. minor' \in Minors \cup {"none"} /\ earlier' \subseteq Requests
    BY <1>22, <1>2 DEF TypeOK, RemoveDecrement
  <2>4. PnP = PnP =>
          (DevicePnPState = "Deleted" <=> "biased" \in {"biased", "removing"})
    BY <1>22, <1>2, <1>3 DEF SignalAt, DeletedInv, PnPIn, RemoveDecrement
  <2> QED BY <1>1, <1>3, <2>1, <2>2, <2>3, <2>4, DecrementKeeps
<1>23. ASSUME RemoveBias PROVE IInv'
  <2>1. /\ PnP \notin Counted /\ ~BiasTaken
        /\ at[PnP] \notin SignalAt
        /\ Decrement(PnP, "removing")
    BY <1>23, <1>3 DEF SignalAt, Counted, BiasTaken, PnPIn, RemoveBias
  <2>2. UNCHANGED <<StopEvent, RemoveEvent, stateVars>>
    BY <1>23 DEF RemoveBias
  <2>3. minor' \in Minors \cup {"none"} /\ earlier' \subseteq Requests
    BY <1>23, <1>2 DEF TypeOK, RemoveBias
  <2>4. PnP = PnP =>
          (DevicePnPState = "Deleted" <=> "removing" \in {"biased", "removing"})
    BY <1>23, <1>2, <1>3 DEF SignalAt, DeletedInv, PnPIn, RemoveBias
  <2> QED BY <1>1, <1>3, <2>1, <2>2, <2>3, <2>4, DecrementKeeps
<1>24. ASSUME RemoveWait PROVE IInv'
  <2>1. Counted' = Counted /\ Bias' = Bias
    BY <1>24, <1>2, <1>3
    DEF SignalAt, TypeOK, PlaceInv, Counted, Bias, BiasTaken, PnPIn, Goto, RemoveWait
  <2>2. TypeOK' /\ OutstandingIO' = OutstandingIO
    BY <1>24, <1>2 DEF TypeOK, States, Goto, RemoveWait, countVars, stateVars
  <2>3. PlaceInv'
    BY <1>24, <1>2, <1>3 DEF SignalAt, TypeOK, PlaceInv, Goto, RemoveWait, stateVars
  <2>4. DeletedInv'
    BY <1>24, <1>2, <1>3
    DEF SignalAt, TypeOK, PlaceInv, DeletedInv, PnPIn, Goto, RemoveWait, stateVars
  <2>5. RemoveInv'
    BY <1>24, <1>2, <1>3
    DEF SignalAt, TypeOK, PlaceInv, DeletedInv, RemoveInv, BiasTaken, PnPIn, Goto,
        RemoveWait, countVars, stateVars
  <2>6. StopInv'
    BY <1>24, <1>2, <1>3, <2>1
    DEF SignalAt, TypeOK, PlaceInv, StopInv, RemoveInv, BiasTaken, PnPIn, Goto,
        RemoveWait, countVars
  <2> QED BY <1>1, <2>1, <2>2, <2>3, <2>4, <2>5, <2>6, SameCount
<1>25. CASE UNCHANGED vars
  <2>1. (TypeOK /\ PlaceInv)'
    BY <1>2, <1>25 DEF SignalAt, TypeOK, PlaceInv, vars, countVars, stateVars
  <2>2. (CountInv /\ DeletedInv /\ RemoveInv /\ StopInv)'
    BY <1>2, <1>25
    DEF SignalAt, CountInv, DeletedInv, RemoveInv, StopInv, Bias, BiasTaken, Counted,
        PnPIn, vars, countVars, stateVars
  <2> QED BY <2>1, <2>2 DEF IInv
<1> QED
  BY <1>1, <1>4, <1>5, <1>6, <1>7, <1>8, <1>9, <1>10, <1>11, <1>12, <1>13, <1>14, <1>15, <1>16, <1>17, <1>18, <1>19, <1>20, <1>21, <1>22, <1>23, <1>24, <1>25
  DEF Next, RequestStep, CountStep, PnPStep

(* The invariant holds for every number of requests. *)
THEOREM Invariant == Spec => []IInv
BY InitIInv, StepIInv, PTL DEF Spec

(* Every variable keeps its type; the counter does not become negative,     *)
(* which busenum.c:1967 and 2007 assert.                                    *)
THEOREM TypeCorrect == Spec => []TypeOK
<1>1. IInv => TypeOK
  BY DEF IInv
<1> QED BY <1>1, Invariant, PTL

(* When REMOVE deletes the device (pnp.c:610), every counted request has    *)
(* been waited for or has been refused.                                     *)
THEOREM RemoveCorrect == Spec => []ServedBeforeRemoved
<1>1. IInv => ServedBeforeRemoved
  BY DEF IInv, RemoveInv, ServedBeforeRemoved
<1> QED BY <1>1, Invariant, PTL

(* The assertion of Bus_DecIoCount (busenum.c:2030). *)
THEOREM ZeroCorrect == Spec => []ZeroOnlyDeleted
<1>1. ASSUME IInv, OutstandingIO = 0 PROVE DevicePnPState = "Deleted"
  <2>1. BiasTaken
    BY <1>1, ZeroIsEmpty DEF IInv
  <2> QED BY <1>1, <2>1 DEF SignalAt, IInv, DeletedInv, BiasTaken, PnPIn
<1>2. IInv => ZeroOnlyDeleted
  BY <1>1 DEF ZeroOnlyDeleted
<1> QED BY <1>2, Invariant, PTL

(* The wait of STOP (pnp.c:412) does not miss its wake-up. *)
THEOREM StopCorrect == Spec => []NoLostStop
<1>1. ASSUME IInv, at[PnP] = "stopping", \A r \in Requests : ~Inside(r)
      PROVE  StopEvent
  <2>1. \A r \in Requests : at[r] # "leaked"
    BY <1>1 DEF SignalAt, IInv, DeletedInv, PnPIn
  <2>2. Counted = {}
    BY <1>1, <2>1 DEF Counted, Inside
  <2> QED BY <1>1, <2>2 DEF SignalAt, IInv, StopInv, Inside
<1>2. IInv => NoLostStop
  BY <1>1 DEF SignalAt, NoLostStop
<1> QED BY <1>2, Invariant, PTL

================================================================================
