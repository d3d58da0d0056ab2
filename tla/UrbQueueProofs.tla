--------------------------- MODULE UrbQueueProofs ---------------------------
(***************************************************************************)
(* Proofs about UrbQueue, for any number of URBs and readers, any width of *)
(* the sequence number, wherever it stands at first: its types, its        *)
(* inductive invariant and the safety properties that follow from that;    *)
(* then, with the invariant of numbers and results, that its packets are   *)
(* numbered apart and that it implements UrbService.                       *)
(***************************************************************************)
EXTENDS UrbQueue, SequenceLemmas, FiniteSetTheorems, TLAPS

-----------------------------------------------------------------------------
(* The list operations of the code on the queue                             *)

(* RemoveEntryList takes exactly one URB out of a queue without repetition. *)
LEMMA QueueRemove ==
  ASSUME TypeOK, InQueueOnce, NEW k \in DOMAIN ioctl_q,
         ioctl_q' = RemoveAt(ioctl_q, k)
  PROVE  /\ ioctl_q[k] \in Urbs /\ Queued(ioctl_q[k])
         /\ ioctl_q' \in Seq(Urbs)
         /\ InQueueOnce'
         /\ \A u \in Urbs : Queued(u)' <=> Queued(u) /\ u # ioctl_q[k]
<1>1. ioctl_q \in Seq(Urbs) /\ Distinct(ioctl_q)
  BY DEF TypeOK, DriverTypeOK, InQueueOnce, Distinct
<1>2. LET r == RemoveAt(ioctl_q, k) IN
      /\ ioctl_q[k] \in Urbs
      /\ r \in Seq(Urbs) /\ Len(r) = Len(ioctl_q) - 1
      /\ Distinct(r)
      /\ \A u \in Urbs : Holds(r, u) <=> Holds(ioctl_q, u) /\ u # ioctl_q[k]
  BY <1>1, RemoveAtDistinct
<1> QED BY <1>2 DEF Queued, Holds, InQueueOnce, Distinct

(* InsertTailList adds one URB. *)
LEMMA QueueAppend ==
  ASSUME TypeOK, InQueueOnce, NEW v \in Urbs, ~Queued(v),
         ioctl_q' = Append(ioctl_q, v)
  PROVE  /\ ioctl_q' \in Seq(Urbs)
         /\ InQueueOnce'
         /\ \A u \in Urbs : Queued(u)' <=> Queued(u) \/ u = v
<1>1. /\ ioctl_q \in Seq(Urbs) /\ Distinct(ioctl_q)
      /\ ~Holds(ioctl_q, v)
  BY DEF TypeOK, DriverTypeOK, InQueueOnce, Distinct, Queued, Holds
<1>2. LET r == Append(ioctl_q, v) IN
      /\ r \in Seq(Urbs) /\ Len(r) = Len(ioctl_q) + 1
      /\ Distinct(r)
      /\ \A u \in Urbs : Holds(r, u) <=> Holds(ioctl_q, u) \/ u = v
  BY <1>1, AppendDistinct
<1> QED BY <1>2 DEF Queued, Holds, InQueueOnce, Distinct

(* RemoveHeadList is the removal of the first. *)
LEMMA TailIsRemoveAt ==
  ASSUME TypeOK, ioctl_q # <<>>
  PROVE  /\ 1 \in DOMAIN ioctl_q
         /\ Head(ioctl_q) = ioctl_q[1]
         /\ Tail(ioctl_q) = RemoveAt(ioctl_q, 1)
<1>1. /\ ioctl_q \in Seq(Urbs) /\ Len(ioctl_q) \in Nat \ {0}
      /\ DOMAIN ioctl_q = 1..Len(ioctl_q)
  BY LenProperties, EmptySeq DEF TypeOK, DriverTypeOK
<1>2. 1 \in 1..Len(ioctl_q)
  BY <1>1
<1>3. Tail(ioctl_q) \in Seq(Urbs) /\ Len(Tail(ioctl_q)) = Len(ioctl_q) - 1
      /\ \A i \in 1..Len(Tail(ioctl_q)) : Tail(ioctl_q)[i] = ioctl_q[i + 1]
  BY <1>1, HeadTailProperties
<1>4. /\ RemoveAt(ioctl_q, 1) \in Seq(Urbs)
      /\ Len(RemoveAt(ioctl_q, 1)) = Len(ioctl_q) - 1
      /\ \A j \in 1..(Len(ioctl_q) - 1) :
           RemoveAt(ioctl_q, 1)[j] = IF j < 1 THEN ioctl_q[j] ELSE ioctl_q[j + 1]
  BY <1>1, <1>2, RemoveAtProperties
<1>5. \A i \in 1..(Len(ioctl_q) - 1) : ~(i < 1)
  BY <1>1
<1>6. Tail(ioctl_q) = RemoveAt(ioctl_q, 1)
  BY <1>3, <1>4, <1>5, SeqEqual
<1>7. Head(ioctl_q) = ioctl_q[1]
  OBVIOUS
<1> QED BY <1>1, <1>2, <1>6, <1>7

(* An action that leaves ioctl_q alone leaves every URB where it is. *)
LEMMA QueueSame ==
  ASSUME UNCHANGED ioctl_q
  PROVE  /\ InQueueOnce' <=> InQueueOnce
         /\ \A u \in Urbs : Queued(u)' <=> Queued(u)
BY DEF InQueueOnce, Queued

-----------------------------------------------------------------------------
(* Type correctness                                                         *)

(* The sequence number stays within its width. *)
LEMMA NextSeqType ==
  ASSUME NEW s \in 0..MaxSeq
  PROVE  NextSeq(s) \in 0..MaxSeq
BY ConstantsAssumption DEF NextSeq

(* The initial state is well-typed,                                         *)
LEMMA InitTypeOK == Init => TypeOK
<1> SUFFICES ASSUME Init PROVE TypeOK
  OBVIOUS
<1>1. DriverTypeOK
  BY ConstantsAssumption DEF Init, DriverTypeOK
<1>2. ThreadTypeOK
  BY ConstantsAssumption DEF Init, ThreadTypeOK
<1>3. HistoryTypeOK
  BY ConstantsAssumption DEF Init, HistoryTypeOK
<1> QED BY <1>1, <1>2, <1>3 DEF TypeOK

(* IoCompleteRequest appends one of the ways an URB can end. *)
LEMMA CompleteType ==
  ASSUME outcome \in [Urbs -> Seq(Outcomes)], NEW u, NEW how \in Outcomes,
         Complete(u, how)
  PROVE  outcome' \in [Urbs -> Seq(Outcomes)]
BY AppendProperties DEF Complete

(* The queue after IoSetCancelRoutine and InsertTailList. *)
Submits == {"new", "checked", "fill", "kept", "dropped", "failed", "finish",
            "returned"}

(* so is what an enqueue leaves,                                            *)
LEMMA EnqueueType ==
  ASSUME TypeOK, NEW u \in Urbs, NEW kept \in Submits,
         NEW dropped \in Submits, Enqueue(u, kept, dropped)
  PROVE  /\ submit' \in [Urbs -> Submits]
         /\ ioctl_q' \in Seq(Urbs)
         /\ CancelRoutine' \in [Urbs -> BOOLEAN]
         /\ late' \subseteq Urbs \cup Readers
<1> USE DEF Enqueue, Goto, Submits, DriverTypeOK, ThreadTypeOK, HistoryTypeOK
<1>1. CASE Cancel[u]
  BY <1>1 DEF TypeOK
<1>2. CASE ~Cancel[u]
  <2>1. ioctl_q' = Append(ioctl_q, u) /\ ioctl_q \in Seq(Urbs)
    BY <1>2 DEF TypeOK
  <2>2. ioctl_q' \in Seq(Urbs)
    BY <2>1, AppendProperties
  <2>3. submit' \in [Urbs -> Submits] /\ CancelRoutine' \in [Urbs -> BOOLEAN]
    BY <1>2 DEF TypeOK
  <2>4. late' \in {late, late \cup {u}}
    BY <1>2
  <2>5. late' \subseteq Urbs \cup Readers
    BY <2>4 DEF TypeOK
  <2> QED BY <2>2, <2>3, <2>5
<1> QED BY <1>1, <1>2

(* and every step keeps it so.                                              *)
LEMMA StepTypeOK == TypeOK /\ [Next]_vars => TypeOK'
<1> SUFFICES ASSUME TypeOK, [Next]_vars PROVE TypeOK'
  OBVIOUS
<1> USE DEF DriverTypeOK, ThreadTypeOK, HistoryTypeOK, Outcomes, pdoVars, urbVars, irpVars, submitVars,
            cancelVars, readVars, writeVars, unplugVars, wireVars, histVars,
            Goto
<1>1. ASSUME NEW u \in Urbs, Submitting(u) PROVE TypeOK'
  <2>1. CASE SubmitImmediate(u)
    BY <2>1, CompleteType DEF TypeOK, SubmitImmediate
  <2>2. CASE SubmitChecked(u)
    BY <2>2 DEF TypeOK, SubmitChecked
  <2>3. CASE AddqQueue(u)
    <3>a. DriverTypeOK'
      BY <2>3, EnqueueType DEF TypeOK, AddqQueue, Submits
    <3>b. ThreadTypeOK'
      BY <2>3, EnqueueType DEF TypeOK, AddqQueue, Submits
    <3>c. HistoryTypeOK'
      BY <2>3, EnqueueType DEF TypeOK, AddqQueue, Submits
    <3> QED BY <3>a, <3>b, <3>c DEF TypeOK
  <2>4. CASE AddqTake(u)
    <3>a. DriverTypeOK'
      BY <2>4, NextSeqType DEF TypeOK, AddqTake, ReadWaits
    <3>b. ThreadTypeOK'
      BY <2>4, NextSeqType DEF TypeOK, AddqTake, ReadWaits
    <3>c. HistoryTypeOK'
      BY <2>4, NextSeqType DEF TypeOK, AddqTake, ReadWaits
    <3> QED BY <3>a, <3>b, <3>c DEF TypeOK
  <2>5. CASE AddqFillFails(u)
    BY <2>5 DEF TypeOK, AddqFillFails
  <2>6. CASE AddqSent(u)
    <3>1. Enqueue(u, "kept", "dropped")
      BY <2>6 DEF TypeOK, AddqSent
    <3>2. /\ send' \in [Urbs -> BOOLEAN]
          /\ urb_seq' \in [Urbs -> 0..MaxSeq]
      BY <2>6 DEF TypeOK, AddqSent, MarkSent
    <3>3. /\ submit' \in [Urbs -> Submits]
          /\ ioctl_q' \in Seq(Urbs)
          /\ CancelRoutine' \in [Urbs -> BOOLEAN]
          /\ late' \subseteq Urbs \cup Readers
      BY <3>1, EnqueueType DEF Submits
    <3>a. DriverTypeOK'
      BY <2>6, <3>2, <3>3 DEF TypeOK, AddqSent, Submits
    <3>b. ThreadTypeOK'
      BY <2>6, <3>2, <3>3 DEF TypeOK, AddqSent, Submits
    <3>c. HistoryTypeOK'
      BY <2>6, <3>2, <3>3 DEF TypeOK, AddqSent, Submits
    <3> QED BY <3>a, <3>b, <3>c DEF TypeOK
  <2>7. CASE AddqCompleteRead(u)
    <3>1. submit' \in [Urbs -> Submits]
      BY <2>7 DEF TypeOK, AddqCompleteRead, Submits
    <3>2. packet' \in [Urbs -> {"none", "out", "answered"}]
      BY <2>7 DEF TypeOK, AddqCompleteRead
    <3>3. /\ read' \in [Readers -> {"idle", "checked", "pending", "taken",
                                   "reject"}]
          /\ submitRead' \in [Urbs -> Readers \cup {None}]
      BY <2>7 DEF TypeOK, AddqCompleteRead
    <3> HIDE DEF Goto
    <3>a. DriverTypeOK'
      BY <2>7, <3>1, <3>2, <3>3 DEF TypeOK, AddqCompleteRead, Submits
    <3>b. ThreadTypeOK'
      BY <2>7, <3>1, <3>2, <3>3 DEF TypeOK, AddqCompleteRead, Submits
    <3>c. HistoryTypeOK'
      BY <2>7, <3>1, <3>2, <3>3 DEF TypeOK, AddqCompleteRead, Submits
    <3> QED BY <3>a, <3>b, <3>c DEF TypeOK
  <2>8. CASE SubmitFinish(u)
    BY <2>8, CompleteType DEF TypeOK, SubmitFinish
  <2> QED BY <1>1, <2>1, <2>2, <2>3, <2>4, <2>5, <2>6, <2>7, <2>8
          DEF TypeOK, Submitting, SubmitStep
<1>2. ASSUME NEW u \in Urbs, IoCancelIrp(u) PROVE TypeOK'
  BY <1>2 DEF TypeOK, IoCancelIrp
<1>3. ASSUME NEW u \in Urbs, Reply(u) PROVE TypeOK'
  <2>1. CASE WriteChecked(u)
    BY <2>1 DEF TypeOK, WriteChecked
  <2>2. CASE WriteLost(u)
    <3>a. DriverTypeOK'
      BY <2>2 DEF TypeOK, WriteLost
    <3>b. ThreadTypeOK'
      BY <2>2 DEF TypeOK, WriteLost
    <3>c. HistoryTypeOK'
      BY <2>2 DEF TypeOK, WriteLost
    <3> QED BY <3>a, <3>b, <3>c DEF TypeOK
  <2> QED BY <1>3, <2>1, <2>2 DEF Reply
<1>4. ASSUME NEW r \in Readers, ReadStep(r) PROVE TypeOK'
  <2>1. CASE ReadChecked(r)
    <3>a. DriverTypeOK'
      BY <2>1 DEF TypeOK, ReadChecked
    <3>b. ThreadTypeOK'
      BY <2>1 DEF TypeOK, ReadChecked
    <3>c. HistoryTypeOK'
      BY <2>1 DEF TypeOK, ReadChecked
    <3> QED BY <3>a, <3>b, <3>c DEF TypeOK
  <2>2. CASE ReadWait(r)
    <3>1. CASE pending_read # None
      <4>a. DriverTypeOK'
        BY <2>2, <3>1 DEF TypeOK, ReadWait
      <4>b. ThreadTypeOK'
        BY <2>2, <3>1 DEF TypeOK, ReadWait
      <4>c. HistoryTypeOK'
        BY <2>2, <3>1 DEF TypeOK, ReadWait
      <4> QED BY <4>a, <4>b, <4>c DEF TypeOK
    <3>2. CASE pending_read = None
      <4>1. late' \in {late, late \cup {r}}
        BY <2>2, <3>2 DEF ReadWait
      <4>2. late' \subseteq Urbs \cup Readers
        BY <4>1 DEF TypeOK
      <4>3. /\ read' \in [Readers -> {"idle", "checked", "pending", "taken",
                                     "reject"}]
            /\ pending_read' \in Readers \cup {None}
        BY <2>2, <3>2 DEF TypeOK, ReadWait
      <4>a. DriverTypeOK'
        BY <2>2, <4>3 DEF TypeOK, ReadWait
      <4>b. ThreadTypeOK'
        BY <2>2, <4>3 DEF TypeOK, ReadWait
      <4>c. HistoryTypeOK'
        BY <2>2, <4>2 DEF TypeOK, ReadWait
      <4> QED BY <4>a, <4>b, <4>c DEF TypeOK
    <3> QED BY <3>1, <3>2
  <2>3. ASSUME NEW i \in DOMAIN ioctl_q, ReadTake(r, i)
        PROVE  /\ ioctl_q[i] \in Urbs
               /\ RemoveAt(ioctl_q, i) \in Seq(Urbs)
               /\ seq_num' \in 0..MaxSeq
               /\ send' \in [Urbs -> BOOLEAN]
               /\ urb_seq' \in [Urbs -> 0..MaxSeq]
               /\ pktSeq' \in [Urbs -> 0..MaxSeq]
    <3>1. i \in 1..Len(ioctl_q)
      BY <2>3, LenProperties
    <3> QED BY <2>3, <3>1, NextSeqType, ElementOfSeq, RemoveAtProperties
            DEF TypeOK, ReadTake, MarkSent
  <2>4. ASSUME NEW i \in DOMAIN ioctl_q, ReadPacket(r, i) PROVE TypeOK'
    <3>1. ReadTake(r, i)
      BY <2>4 DEF ReadPacket
    <3>2. /\ ioctl_q[i] \in Urbs
          /\ RemoveAt(ioctl_q, i) \in Seq(Urbs)
          /\ seq_num' \in 0..MaxSeq
          /\ send' \in [Urbs -> BOOLEAN]
          /\ urb_seq' \in [Urbs -> 0..MaxSeq]
          /\ pktSeq' \in [Urbs -> 0..MaxSeq]
      BY <2>3, <3>1
    <3>a. DriverTypeOK'
      BY <2>4, <3>2 DEF TypeOK, ReadPacket
    <3>b. ThreadTypeOK'
      BY <2>4, <3>2 DEF TypeOK, ReadPacket
    <3>c. HistoryTypeOK'
      BY <2>4, <3>2 DEF TypeOK, ReadPacket
    <3> QED BY <3>a, <3>b, <3>c DEF TypeOK
  <2>5. ASSUME NEW i \in DOMAIN ioctl_q, ReadReject(r, i) PROVE TypeOK'
    <3>1. ReadTake(r, i)
      BY <2>5 DEF ReadReject
    <3>2. /\ ioctl_q[i] \in Urbs
          /\ RemoveAt(ioctl_q, i) \in Seq(Urbs)
          /\ seq_num' \in 0..MaxSeq
          /\ send' \in [Urbs -> BOOLEAN]
          /\ urb_seq' \in [Urbs -> 0..MaxSeq]
          /\ pktSeq' \in [Urbs -> 0..MaxSeq]
      BY <2>3, <3>1
    <3>a. DriverTypeOK'
      BY <2>5, <3>2 DEF TypeOK, ReadReject
    <3>b. ThreadTypeOK'
      BY <2>5, <3>2 DEF TypeOK, ReadReject
    <3>c. HistoryTypeOK'
      BY <2>5, <3>2 DEF TypeOK, ReadReject
    <3> QED BY <3>a, <3>b, <3>c DEF TypeOK
  <2>6. ASSUME NEW i \in DOMAIN ioctl_q, ReadRejectCancelled(r, i)
        PROVE  TypeOK'
    <3>1. ReadTake(r, i)
      BY <2>6 DEF ReadRejectCancelled
    <3>2. /\ ioctl_q[i] \in Urbs
          /\ RemoveAt(ioctl_q, i) \in Seq(Urbs)
          /\ seq_num' \in 0..MaxSeq
          /\ send' \in [Urbs -> BOOLEAN]
          /\ urb_seq' \in [Urbs -> 0..MaxSeq]
          /\ pktSeq' \in [Urbs -> 0..MaxSeq]
      BY <2>3, <3>1
    <3>a. DriverTypeOK'
      BY <2>6, <3>2 DEF TypeOK, ReadRejectCancelled
    <3>b. ThreadTypeOK'
      BY <2>6, <3>2 DEF TypeOK, ReadRejectCancelled
    <3>c. HistoryTypeOK'
      BY <2>6, <3>2 DEF TypeOK, ReadRejectCancelled
    <3> QED BY <3>a, <3>b, <3>c DEF TypeOK
  <2>7. CASE ReadRejectComplete(r)
    <3>1. outcome' \in [Urbs -> Seq(Outcomes)]
      BY <2>7, CompleteType DEF TypeOK, ReadRejectComplete
    <3> HIDE DEF Outcomes
    <3>a. DriverTypeOK'
      BY <2>7, <3>1 DEF TypeOK, ReadRejectComplete
    <3>b. ThreadTypeOK'
      BY <2>7, <3>1 DEF TypeOK, ReadRejectComplete
    <3>c. HistoryTypeOK'
      BY <2>7, <3>1 DEF TypeOK, ReadRejectComplete
    <3> QED BY <3>a, <3>b, <3>c DEF TypeOK
  <2> QED BY <1>4, <2>1, <2>2, <2>4, <2>5, <2>6, <2>7 DEF ReadStep
<1>5. CASE WriteStep
  <2>1. ASSUME NEW i \in DOMAIN ioctl_q, WriteClaim(i) PROVE TypeOK'
    <3>1. i \in 1..Len(ioctl_q)
      BY <2>1, LenProperties
    <3>2. ioctl_q[i] \in Urbs /\ RemoveAt(ioctl_q, i) \in Seq(Urbs)
      BY <3>1, ElementOfSeq, RemoveAtProperties DEF TypeOK
    <3> QED BY <2>1, <3>2 DEF TypeOK, WriteClaim
  <2>2. CASE WriteMiss
    <3>0. 0 \in 0..MaxSeq
      BY ConstantsAssumption
    <3>1. /\ write' = "idle" /\ writeSeq' = 0 /\ writeFor' = None
          /\ UNCHANGED <<pdoVars, urbVars, irpVars, submitVars, cancelVars,
                         readVars, writeUrb, unplugVars, wireVars, outcome,
                         late>>
      BY <2>2 DEF WriteMiss
    <3>a. DriverTypeOK'
      BY <3>1 DEF TypeOK
    <3>b. ThreadTypeOK'
      BY <3>0, <3>1 DEF TypeOK
    <3>c. HistoryTypeOK'
      BY <3>1 DEF TypeOK
    <3> QED BY <3>a, <3>b, <3>c DEF TypeOK
  <2>3. CASE WriteFinish
    <3>1. PICK how \in {"answered", "unsent"} : Complete(writeUrb, how)
      BY <2>3 DEF WriteFinish, FinishClaimed
    <3>2. outcome' \in [Urbs -> Seq(Outcomes)]
      BY <3>1, CompleteType DEF TypeOK
    <3>0. 0 \in 0..MaxSeq
      BY ConstantsAssumption
    <3>a. DriverTypeOK'
      BY <2>3, <3>0, <3>2 DEF TypeOK, WriteFinish
    <3>b. ThreadTypeOK'
      BY <2>3, <3>0, <3>2 DEF TypeOK, WriteFinish
    <3>c. HistoryTypeOK'
      BY <2>3, <3>0, <3>2 DEF TypeOK, WriteFinish
    <3> QED BY <3>a, <3>b, <3>c DEF TypeOK
  <2> QED BY <1>5, <2>1, <2>2, <2>3 DEF WriteStep
<1>6. CASE CancelStep
  <2>1. CASE CancelFind
    <3>1. PICK i \in DOMAIN ioctl_q : ioctl_q' = RemoveAt(ioctl_q, i)
      BY <2>1 DEF TypeOK, CancelFind
    <3>2. i \in 1..Len(ioctl_q)
      BY <3>1, LenProperties
    <3>3. ioctl_q' \in Seq(Urbs)
      BY <3>1, <3>2, RemoveAtProperties DEF TypeOK
    <3> QED BY <2>1, <3>3 DEF TypeOK, CancelFind
  <2>2. CASE CancelMiss
    <3>a. DriverTypeOK'
      BY <2>2 DEF TypeOK, CancelMiss
    <3>b. ThreadTypeOK'
      BY <2>2 DEF TypeOK, CancelMiss
    <3>c. HistoryTypeOK'
      BY <2>2 DEF TypeOK, CancelMiss
    <3> QED BY <3>a, <3>b, <3>c DEF TypeOK
  <2>3. CASE CancelComplete
    BY <2>3, CompleteType DEF TypeOK, CancelComplete
  <2> QED BY <1>6, <2>1, <2>2, <2>3 DEF CancelStep
<1>7. CASE UnplugMark \/ UnplugOther
  <2>a. DriverTypeOK'
    BY <1>7 DEF TypeOK, UnplugMark, UnplugOther
  <2>b. ThreadTypeOK'
    BY <1>7 DEF TypeOK, UnplugMark, UnplugOther
  <2>c. HistoryTypeOK'
    BY <1>7 DEF TypeOK, UnplugMark, UnplugOther
  <2> QED BY <2>a, <2>b, <2>c DEF TypeOK
<1>8. CASE UnplugStep
  <2>1. CASE UnplugRead
    <3>a. DriverTypeOK'
      BY <2>1 DEF TypeOK, UnplugRead
    <3>b. ThreadTypeOK'
      BY <2>1 DEF TypeOK, UnplugRead
    <3>c. HistoryTypeOK'
      BY <2>1 DEF TypeOK, UnplugRead
    <3> QED BY <3>a, <3>b, <3>c DEF TypeOK
  <2>2. CASE DrainTake
    <3>1. Head(ioctl_q) \in Urbs /\ Tail(ioctl_q) \in Seq(Urbs)
      BY <2>2, HeadTailProperties DEF TypeOK, DrainTake
    <3> QED BY <2>2, <3>1 DEF TypeOK, DrainTake
  <2>3. CASE DrainComplete
    BY <2>3, CompleteType DEF TypeOK, DrainComplete
  <2>4. CASE DrainEnd
    <3>a. DriverTypeOK'
      BY <2>4 DEF TypeOK, DrainEnd
    <3>b. ThreadTypeOK'
      BY <2>4 DEF TypeOK, DrainEnd
    <3>c. HistoryTypeOK'
      BY <2>4 DEF TypeOK, DrainEnd
    <3> QED BY <3>a, <3>b, <3>c DEF TypeOK
  <2>5. CASE DrainBegin
    <3>a. DriverTypeOK'
      BY <2>5 DEF TypeOK, DrainBegin
    <3>b. ThreadTypeOK'
      BY <2>5 DEF TypeOK, DrainBegin
    <3>c. HistoryTypeOK'
      BY <2>5 DEF TypeOK, DrainBegin
    <3> QED BY <3>a, <3>b, <3>c DEF TypeOK
  <2> QED BY <1>8, <2>1, <2>2, <2>3, <2>4, <2>5 DEF UnplugStep
<1>9. CASE UNCHANGED vars
  <2>1. DriverTypeOK'
    BY <1>9 DEF TypeOK, vars
  <2>2. ThreadTypeOK'
    BY <1>9 DEF TypeOK, vars
  <2>3. HistoryTypeOK'
    BY <1>9 DEF TypeOK, vars
  <2> QED BY <2>1, <2>2, <2>3 DEF TypeOK
<1> QED BY <1>1, <1>2, <1>3, <1>4, <1>5, <1>6, <1>7, <1>8, <1>9 DEF Next

(* Every variable keeps its type; in particular the sequence number and     *)
(* the queue, whatever threads do to them between two lock sections.        *)
THEOREM TypeCorrect == Spec => []TypeOK
BY InitTypeOK, StepTypeOK, PTL DEF Spec

-----------------------------------------------------------------------------
(* What the steps do to the parts of the invariant                          *)

(* IoCompleteRequest on an URB nobody has completed, or that one other      *)
(* thread has.                                                              *)
LEMMA CompleteOutcome ==
  ASSUME outcome \in [Urbs -> Seq(Outcomes)], NEW u \in Urbs, NEW how,
         Complete(u, how)
  PROVE  /\ \A v \in Urbs : v # u => outcome'[v] = outcome[v]
         /\ outcome'[u] # <<>>
         /\ outcome[u] = <<>> => outcome'[u] = <<how>>
         /\ \A h : outcome[u] = <<h>> => outcome'[u] = <<h, how>>
<1>1. outcome[u] \in Seq(Outcomes)
  OBVIOUS
<1>2. outcome'[u] = Append(outcome[u], how)
  BY DEF Complete
<1>3. Append(outcome[u], how) # <<>>
  BY <1>1, AppendProperties
<1>4. Append(<<>>, how) = <<how>>
  OBVIOUS
<1>5. ASSUME NEW h PROVE Append(<<h>>, how) = <<h, how>>
  <2>1. /\ <<h>> \in Seq({h, how}) /\ Len(<<h>>) = 1
        /\ <<h, how>> \in Seq({h, how}) /\ Len(<<h, how>>) = 2
    OBVIOUS
  <2>2. /\ Append(<<h>>, how) \in Seq({h, how})
        /\ Len(Append(<<h>>, how)) = 2
        /\ Append(<<h>>, how)[1] = h /\ Append(<<h>>, how)[2] = how
    BY <2>1, AppendProperties
  <2> DEFINE s == Append(<<h>>, how)
             t == <<h, how>>
  <2>3. t[1] = h /\ t[2] = how
    OBVIOUS
  <2> HIDE DEF s, t
  <2>4. \A i \in 1..Len(s) : s[i] = t[i]
    <3>1. Len(s) = 2 /\ \A i \in 1..2 : i = 1 \/ i = 2
      BY <2>2 DEF s
    <3> QED BY <2>2, <2>3, <3>1 DEF s
  <2>5. s \in Seq({h, how}) /\ t \in Seq({h, how}) /\ Len(s) = Len(t)
    BY <2>1, <2>2 DEF s, t
  <2>6. s = t
    BY <2>4, <2>5, SeqEqual
  <2> QED BY <2>6 DEF s, t
<1>6. \A v \in Urbs : v # u => outcome'[v] = outcome[v]
  BY DEF Complete
<1> QED BY <1>2, <1>3, <1>4, <1>5, <1>6

(* What CompletedOnce asks of an URB that is completed.                     *)
LEMMA OneOutcome ==
  /\ Len(<<>>) <= 1
  /\ \A h : <<h>> # <<>> /\ Len(<<h>>) <= 1
  /\ \A h, k : <<h>> = <<k>> => h = k
<1>1. Len(<<>>) <= 1
  OBVIOUS
<1>2. ASSUME NEW h PROVE <<h>> # <<>> /\ Len(<<h>>) <= 1
  OBVIOUS
<1>3. ASSUME NEW h, NEW k, <<h>> = <<k>> PROVE h = k
  BY <1>3
<1> QED BY <1>1, <1>2, <1>3

(* Completing one URB, in a way CompletedOnce allows, leaves the others.     *)
LEMMA StillOnce ==
  ASSUME CompletedOnce, NEW u \in Urbs,
         \A v \in Urbs : v # u => outcome'[v] = outcome[v],
         \/ \E h : outcome'[u] = <<h>>
         \/ outcome'[u] \in {<<"cancelled", "gone">>, <<"gone", "cancelled">>}
  PROVE  CompletedOnce'
BY OneOutcome DEF CompletedOnce

(* Until its submitter has queued it, no other thread holds an URB. *)
LEMMA NotAccepted ==
  ASSUME TypeOK, QueuedInv, CancelInv, HeldInv, SubmitInv,
         NEW u \in Urbs, submit[u] \notin {"kept", "returned"}
  PROVE  /\ ~Queued(u) /\ writeUrb # u /\ drainUrb # u /\ cancelUrb # u
         /\ ~CancelRoutine[u] /\ outcome[u] = <<>>
         /\ \A r \in Readers : readUrb[r] # u
<1> USE DEF Accepted, Open
<1>1. u # None /\ readUrb \in [Readers -> Urbs \cup {None}]
  BY ConstantsAssumption DEF TypeOK, ThreadTypeOK
<1>2. ~Queued(u)
  BY DEF QueuedInv
<1>3. writeUrb # u /\ drainUrb # u
  BY <1>1 DEF HeldInv
<1>4. \A r \in Readers : readUrb[r] # u
  BY <1>1 DEF HeldInv
<1>5. cancelUrb # u
  BY <1>1 DEF CancelInv
<1>6. ~CancelRoutine[u]
  BY <1>2, <1>3 DEF CancelInv
<1>7. outcome[u] = <<>>
  BY DEF SubmitInv
<1> QED BY <1>2, <1>3, <1>4, <1>5, <1>6, <1>7

(* The loop of process_read_irp finds no URB when all of the queue is sent. *)
LEMMA UnsentEmpty ==
  ASSUME TypeOK
  PROVE  Unsent = {} <=> \A u \in Urbs : Queued(u) => send[u]
<1>1. \A i \in DOMAIN ioctl_q : ioctl_q[i] \in Urbs
  BY ElementOfSeq, LenProperties DEF TypeOK, DriverTypeOK
<1>2. Unsent = {} <=> \A i \in DOMAIN ioctl_q : send[ioctl_q[i]]
  BY DEF Unsent
<1> QED BY <1>1, <1>2 DEF Queued

(* The initial state has the inductive invariant.                           *)
LEMMA InitIInv == Init => IInv
<1> SUFFICES ASSUME Init PROVE IInv
  OBVIOUS
<1>1. TypeOK
  BY InitTypeOK
<1>2. DOMAIN ioctl_q = {} /\ InQueueOnce /\ \A u \in Urbs : ~Queued(u)
  BY DEF Init, InQueueOnce, Queued
<1>3. QueuedInv /\ CancelInv /\ HeldInv
  BY <1>2, ConstantsAssumption DEF Init, QueuedInv, CancelInv, HeldInv
<1>4. SubmitInv /\ ReadInv /\ AcceptedInv
  BY <1>2, ConstantsAssumption
     DEF Init, SubmitInv, ReadInv, AcceptedInv, Accepted, Open
<1>5. SentInv /\ UnplugInv
  BY <1>2 DEF Init, SentInv, UnplugInv
<1>6. CompletedOnce
  BY OneOutcome DEF Init, CompletedOnce
<1> QED BY <1>1, <1>2, <1>3, <1>4, <1>5, <1>6 DEF IInv

-----------------------------------------------------------------------------
(* Every step keeps the invariant                                           *)

LEMMA StepIInv == IInv /\ [Next]_vars => IInv'
<1> SUFFICES ASSUME IInv, [Next]_vars PROVE IInv'
  OBVIOUS
<1> USE DEF pdoVars, urbVars, irpVars, submitVars, cancelVars, readVars,
            writeVars, unplugVars, wireVars, histVars, Accepted, Open
<1>1. /\ TypeOK /\ InQueueOnce /\ QueuedInv /\ CancelInv /\ HeldInv
      /\ SubmitInv /\ ReadInv /\ AcceptedInv /\ SentInv /\ UnplugInv
      /\ CompletedOnce
  BY DEF IInv
<1>2. /\ Cancel \in [Urbs -> BOOLEAN] /\ CancelRoutine \in [Urbs -> BOOLEAN]
      /\ send \in [Urbs -> BOOLEAN] /\ submit \in [Urbs -> Submits]
      /\ outcome \in [Urbs -> Seq(Outcomes)]
      /\ submitRead \in [Urbs -> Readers \cup {None}]
      /\ readUrb \in [Readers -> Urbs \cup {None}] /\ DOMAIN read = Readers
      /\ pending_read \in Readers \cup {None}
      /\ cancelUrb \in Urbs \cup {None} /\ writeUrb \in Urbs \cup {None}
      /\ drainUrb \in Urbs \cup {None}
      /\ None \notin Urbs /\ None \notin Readers /\ Urbs \cap Readers = {}
  BY <1>1, ConstantsAssumption
     DEF TypeOK, DriverTypeOK, ThreadTypeOK, HistoryTypeOK, Submits
<1>3. TypeOK'
  BY <1>1, StepTypeOK
<1>4. ASSUME UNCHANGED ioctl_q
      PROVE  InQueueOnce' /\ \A v \in Urbs : Queued(v)' <=> Queued(v)
  BY <1>1, <1>4, QueueSame
<1>5. ASSUME NEW u \in Urbs, NEW how, Complete(u, how)
      PROVE  /\ \A v \in Urbs : v # u => outcome'[v] = outcome[v]
             /\ outcome'[u] # <<>>
             /\ outcome[u] = <<>> => outcome'[u] = <<how>>
             /\ \A h : outcome[u] = <<h>> => outcome'[u] = <<h, how>>
  BY <1>2, <1>5, CompleteOutcome
<1>6. ASSUME NEW u \in Urbs, SubmitImmediate(u)
      PROVE  IInv'
  <2>1. UNCHANGED ioctl_q
    BY <1>6 DEF SubmitImmediate, Goto
  <2>2. InQueueOnce' /\ \A v \in Urbs : Queued(v)' <=> Queued(v)
    BY <2>1, <1>4
  <2>3. /\ \A v \in Urbs : v # u => outcome'[v] = outcome[v]
        /\ outcome'[u] # <<>>
        /\ outcome[u] = <<>> => outcome'[u] = <<"immediate">>
        /\ \A h : outcome[u] = <<h>> => outcome'[u] = <<h, "immediate">>
    BY <1>5, <1>6 DEF SubmitImmediate
  <2>4. /\ ~Queued(u) /\ writeUrb # u /\ drainUrb # u /\ cancelUrb # u
        /\ ~CancelRoutine[u] /\ outcome[u] = <<>>
        /\ \A r \in Readers : readUrb[r] # u
    BY <1>1, <1>2, <1>6, NotAccepted DEF SubmitImmediate
  <2>5. outcome'[u] = <<"immediate">>
    BY <2>3, <2>4
  <2>6. QueuedInv'
    BY <1>1, <1>2, <1>6, <2>2, <2>3, <2>4, <2>5
    DEF QueuedInv, CancelInv, HeldInv,
        SubmitImmediate, Goto
  <2>7. CancelInv'
    <3>1. /\ \A v \in Urbs : v # u => submit'[v] = submit[v]
          /\ UNCHANGED <<Cancel, CancelRoutine, cancelUrb, cancelStep, readUrb,
                         writeUrb, drainUrb>>
      BY <1>2, <1>6 DEF SubmitImmediate, Goto
    <3> QED BY <1>1, <1>2, <2>2, <2>3, <2>4, <3>1 DEF CancelInv
  <2>8. HeldInv'
    BY <1>1, <1>2, <1>6, <2>2, <2>3, <2>4, <2>5
    DEF HeldInv, QueuedInv, CancelInv,
        SubmitImmediate, Goto
  <2>9. SubmitInv'
    BY <1>1, <1>2, <1>6, <2>2, <2>3, <2>4, <2>5
    DEF SubmitInv, QueuedInv, CancelInv, HeldInv,
        SubmitImmediate, Goto
  <2>10. ReadInv'
    BY <1>1, <1>2, <1>6, <2>2, <2>3, <2>4, <2>5
    DEF ReadInv, HeldInv,
        SubmitImmediate, Goto
  <2>11. AcceptedInv'
    BY <1>1, <1>2, <1>6, <2>2, <2>3
    DEF AcceptedInv, QueuedInv, CancelInv, HeldInv, Removed,
       SubmitImmediate, Goto
  <2>12. SentInv'
    BY <1>1, <1>2, <1>6, <2>2, <2>3, <2>4, <2>5
    DEF SentInv, ReadInv,
        SubmitImmediate, Goto
  <2>13. UnplugInv'
    BY <1>1, <1>2, <1>6, <2>2, <2>3, <2>4, <2>5
    DEF UnplugInv,
        SubmitImmediate, Goto
  <2>14. CompletedOnce'
    BY <1>1, <1>2, <1>6, <2>2, <2>3, <2>4, <2>5, StillOnce
  <2> QED BY <1>3, <2>2, <2>6, <2>7, <2>8, <2>9, <2>10, <2>11, <2>12, <2>13, <2>14 DEF IInv
<1>7. ASSUME NEW u \in Urbs, SubmitChecked(u)
      PROVE  IInv'
  <2>1. UNCHANGED ioctl_q
    BY <1>7 DEF SubmitChecked, Goto
  <2>2. InQueueOnce' /\ \A v \in Urbs : Queued(v)' <=> Queued(v)
    BY <2>1, <1>4
  <2>3. QueuedInv'
    BY <1>1, <1>2, <1>7, <2>2
    DEF QueuedInv, CancelInv, HeldInv,
        SubmitChecked, Goto
  <2>4. CancelInv'
    BY <1>1, <1>2, <1>7, <2>2
    DEF CancelInv, QueuedInv, HeldInv,
        SubmitChecked, Goto
  <2>5. HeldInv'
    BY <1>1, <1>2, <1>7, <2>2
    DEF HeldInv, QueuedInv, CancelInv,
        SubmitChecked, Goto
  <2>6. SubmitInv'
    BY <1>1, <1>2, <1>7, <2>2
    DEF SubmitInv, QueuedInv, CancelInv, HeldInv,
        SubmitChecked, Goto
  <2>7. ReadInv'
    BY <1>1, <1>2, <1>7, <2>2
    DEF ReadInv, HeldInv,
        SubmitChecked, Goto
  <2>8. AcceptedInv'
    BY <1>1, <1>2, <1>7, <2>2
    DEF AcceptedInv, QueuedInv, CancelInv, HeldInv, Removed,
        SubmitChecked, Goto
  <2>9. SentInv'
    BY <1>1, <1>2, <1>7, <2>2
    DEF SentInv, ReadInv,
        SubmitChecked, Goto
  <2>10. UnplugInv'
    BY <1>1, <1>2, <1>7, <2>2
    DEF UnplugInv,
        SubmitChecked, Goto
  <2>11. CompletedOnce'
    BY <1>1, <1>2, <1>7, <2>2
    DEF CompletedOnce, SubmitInv, QueuedInv, CancelInv, HeldInv,
        SubmitChecked, Goto
  <2> QED BY <1>3, <2>2, <2>3, <2>4, <2>5, <2>6, <2>7, <2>8, <2>9, <2>10, <2>11 DEF IInv
<1>8. ASSUME NEW u \in Urbs, AddqQueue(u)
      PROVE  IInv'
  <2>1. /\ InQueueOnce'
        /\ \A v \in Urbs : Queued(v)' <=> Queued(v) \/ (v = u /\ ~Cancel[u])
    <3>1. CASE Cancel[u]
      <4>1. UNCHANGED ioctl_q
        BY <3>1, <1>8 DEF AddqQueue, Enqueue
      <4> QED BY <3>1, <4>1, <1>4
    <3>2. CASE ~Cancel[u]
      <4>1. ~Queued(u)
        BY <1>1, <1>8 DEF QueuedInv, AddqQueue
      <4>2. ioctl_q' = Append(ioctl_q, u)
        BY <3>2, <1>8 DEF AddqQueue, Enqueue
      <4> QED BY <3>2, <4>1, <4>2, <1>1, QueueAppend
    <3> QED BY <3>1, <3>2
  <2>2. /\ ~Queued(u) /\ writeUrb # u /\ drainUrb # u /\ cancelUrb # u
        /\ ~CancelRoutine[u] /\ outcome[u] = <<>>
        /\ \A r \in Readers : readUrb[r] # u
    BY <1>1, <1>2, <1>8, NotAccepted DEF AddqQueue
  <2>3. QueuedInv'
    <3>1. \A v \in Urbs : v # u => /\ submit'[v] = submit[v]
                                   /\ CancelRoutine'[v] = CancelRoutine[v]
      BY <1>8, <1>2 DEF AddqQueue, Enqueue, Goto, ReadWaits
    <3>2. ~Cancel[u] => CancelRoutine'[u] /\ submit'[u] \in {"kept", "returned"}
      BY <1>8, <1>2 DEF AddqQueue, Enqueue, Goto, ReadWaits
    <3>3. /\ UNCHANGED <<outcome, writeUrb, drainUrb, readUrb, cancelUrb, cancelStep>>
          /\ \A v \in Urbs : Queued(v)' => v # u \/ ~Cancel[u]
      BY <1>8, <2>1, <2>2 DEF AddqQueue, Enqueue, Goto, ReadWaits
    <3>4. ASSUME NEW v \in Urbs, Queued(v)'
          PROVE  /\ Accepted(v)' /\ Open(v)'
                 /\ writeUrb' # v /\ drainUrb' # v
                 /\ \A r \in Readers : readUrb'[r] # v
                 /\ CancelRoutine'[v] \/ cancelUrb' = v
                 /\ cancelUrb' = v => cancelStep' = "search"
      <4>1. CASE v = u
        BY <3>2, <3>3, <3>4, <4>1, <2>2
      <4>2. CASE v # u
        BY <3>1, <3>3, <3>4, <4>2, <1>1, <2>1 DEF QueuedInv
      <4> QED BY <4>1, <4>2
    <3> QED BY <3>4 DEF QueuedInv
  <2>4. CancelInv'
    BY <1>1, <1>2, <1>8, <2>1, <2>2
    DEF CancelInv, QueuedInv, HeldInv,
        AddqQueue, Enqueue, Goto, ReadWaits
  <2>5. HeldInv'
    BY <1>1, <1>2, <1>8, <2>1, <2>2
    DEF HeldInv, QueuedInv, CancelInv,
        AddqQueue, Enqueue, Goto, ReadWaits
  <2>6. SubmitInv'
    BY <1>1, <1>2, <1>8, <2>1, <2>2
    DEF SubmitInv, QueuedInv, CancelInv, HeldInv,
        AddqQueue, Enqueue, Goto, ReadWaits
  <2>7. ReadInv'
    BY <1>1, <1>2, <1>8, <2>1, <2>2
    DEF ReadInv, HeldInv,
        AddqQueue, Enqueue, Goto, ReadWaits
  <2>8. AcceptedInv'
    <3>1. CASE Cancel[u]
      BY <3>1, <1>1, <1>2, <1>8, <2>1, <2>2 DEF AcceptedInv, Removed,
         AddqQueue, Enqueue, Goto, ReadWaits
    <3>2. CASE ~Cancel[u]
      BY <3>2, <1>1, <1>2, <1>8, <2>1, <2>2 DEF AcceptedInv, Removed,
         AddqQueue, Enqueue, Goto, ReadWaits
    <3> QED BY <3>1, <3>2
  <2>9. SentInv'
    BY <1>1, <1>2, <1>8, <2>1, <2>2
    DEF SentInv, ReadInv,
        AddqQueue, Enqueue, Goto, ReadWaits
  <2>10. UnplugInv'
    BY <1>1, <1>2, <1>8, <2>1, <2>2
    DEF UnplugInv,
        AddqQueue, Enqueue, Goto, ReadWaits
  <2>11. CompletedOnce'
    BY <1>1, <1>2, <1>8, <2>1, <2>2
    DEF CompletedOnce, SubmitInv, QueuedInv, CancelInv, HeldInv,
        AddqQueue, Enqueue, Goto, ReadWaits
  <2> QED BY <1>3, <2>1, <2>3, <2>4, <2>5, <2>6, <2>7, <2>8, <2>9, <2>10, <2>11 DEF IInv
<1>9. ASSUME NEW u \in Urbs, AddqTake(u)
      PROVE  IInv'
  <2>1. UNCHANGED ioctl_q
    BY <1>9 DEF AddqTake, Goto, ReadWaits
  <2>2. InQueueOnce' /\ \A v \in Urbs : Queued(v)' <=> Queued(v)
    BY <2>1, <1>4
  <2>3. read[pending_read] = "pending"
    BY <1>1, <1>2, <1>9, <2>2 DEF ReadInv, AddqTake, Goto, ReadWaits
  <2>4. QueuedInv'
    BY <1>1, <1>2, <1>9, <2>2, <2>3
    DEF QueuedInv, CancelInv, HeldInv,
        AddqTake, Goto, ReadWaits
  <2>5. CancelInv'
    BY <1>1, <1>2, <1>9, <2>2, <2>3
    DEF CancelInv, QueuedInv, HeldInv,
        AddqTake, Goto, ReadWaits
  <2>6. HeldInv'
    BY <1>1, <1>2, <1>9, <2>2, <2>3
    DEF HeldInv, QueuedInv, CancelInv,
        AddqTake, Goto, ReadWaits
  <2>7. SubmitInv'
    BY <1>1, <1>2, <1>9, <2>2, <2>3
    DEF SubmitInv, QueuedInv, CancelInv, HeldInv,
        AddqTake, Goto, ReadWaits
  <2>8. ReadInv'
    BY <1>1, <1>2, <1>9, <2>2, <2>3
    DEF ReadInv, HeldInv,
        AddqTake, Goto, ReadWaits
  <2>9. AcceptedInv'
    BY <1>1, <1>2, <1>9, <2>2, <2>3
    DEF AcceptedInv, QueuedInv, CancelInv, HeldInv, Removed,
        AddqTake, Goto, ReadWaits
  <2>10. SentInv'
    BY <1>1, <1>2, <1>9, <2>2, <2>3
    DEF SentInv, ReadInv,
        AddqTake, Goto, ReadWaits
  <2>11. UnplugInv'
    BY <1>1, <1>2, <1>9, <2>2, <2>3
    DEF UnplugInv,
        AddqTake, Goto, ReadWaits
  <2>12. CompletedOnce'
    BY <1>1, <1>2, <1>9, <2>2, <2>3
    DEF CompletedOnce, SubmitInv, QueuedInv, CancelInv, HeldInv,
        AddqTake, Goto, ReadWaits
  <2> QED BY <1>3, <2>2, <2>4, <2>5, <2>6, <2>7, <2>8, <2>9, <2>10, <2>11, <2>12 DEF IInv
<1>10. ASSUME NEW u \in Urbs, AddqFillFails(u)
      PROVE  IInv'
  <2>1. UNCHANGED ioctl_q
    BY <1>10 DEF AddqFillFails, Goto
  <2>2. InQueueOnce' /\ \A v \in Urbs : Queued(v)' <=> Queued(v)
    BY <2>1, <1>4
  <2>3. QueuedInv'
    BY <1>1, <1>2, <1>10, <2>2
    DEF QueuedInv, CancelInv, HeldInv,
        AddqFillFails, Goto
  <2>4. CancelInv'
    BY <1>1, <1>2, <1>10, <2>2
    DEF CancelInv, QueuedInv, HeldInv,
        AddqFillFails, Goto
  <2>5. HeldInv'
    BY <1>1, <1>2, <1>10, <2>2
    DEF HeldInv, QueuedInv, CancelInv,
        AddqFillFails, Goto
  <2>6. SubmitInv'
    BY <1>1, <1>2, <1>10, <2>2
    DEF SubmitInv, QueuedInv, CancelInv, HeldInv,
        AddqFillFails, Goto
  <2>7. ReadInv'
    BY <1>1, <1>2, <1>10, <2>2
    DEF ReadInv, HeldInv,
        AddqFillFails, Goto
  <2>8. AcceptedInv'
    BY <1>1, <1>2, <1>10, <2>2
    DEF AcceptedInv, QueuedInv, CancelInv, HeldInv, Removed,
        AddqFillFails, Goto
  <2>9. SentInv'
    BY <1>1, <1>2, <1>10, <2>2
    DEF SentInv, ReadInv,
        AddqFillFails, Goto
  <2>10. UnplugInv'
    BY <1>1, <1>2, <1>10, <2>2
    DEF UnplugInv,
        AddqFillFails, Goto
  <2>11. CompletedOnce'
    BY <1>1, <1>2, <1>10, <2>2
    DEF CompletedOnce, SubmitInv, QueuedInv, CancelInv, HeldInv,
        AddqFillFails, Goto
  <2> QED BY <1>3, <2>2, <2>3, <2>4, <2>5, <2>6, <2>7, <2>8, <2>9, <2>10, <2>11 DEF IInv
<1>11. ASSUME NEW u \in Urbs, AddqSent(u)
      PROVE  IInv'
  <2>1. /\ InQueueOnce'
        /\ \A v \in Urbs : Queued(v)' <=> Queued(v) \/ (v = u /\ ~Cancel[u])
    <3>1. CASE Cancel[u]
      <4>1. UNCHANGED ioctl_q
        BY <3>1, <1>11 DEF AddqSent, Enqueue
      <4> QED BY <3>1, <4>1, <1>4
    <3>2. CASE ~Cancel[u]
      <4>1. ~Queued(u)
        BY <1>1, <1>11 DEF QueuedInv, AddqSent
      <4>2. ioctl_q' = Append(ioctl_q, u)
        BY <3>2, <1>11 DEF AddqSent, Enqueue
      <4> QED BY <3>2, <4>1, <4>2, <1>1, QueueAppend
    <3> QED BY <3>1, <3>2
  <2>2. /\ ~Queued(u) /\ writeUrb # u /\ drainUrb # u /\ cancelUrb # u
        /\ ~CancelRoutine[u] /\ outcome[u] = <<>>
        /\ \A r \in Readers : readUrb[r] # u
    BY <1>1, <1>2, <1>11, NotAccepted DEF AddqSent
  <2>3. QueuedInv'
    <3>1. \A v \in Urbs : v # u => /\ submit'[v] = submit[v]
                                   /\ CancelRoutine'[v] = CancelRoutine[v]
      BY <1>11, <1>2 DEF AddqSent, Enqueue, Goto, MarkSent
    <3>2. ~Cancel[u] => CancelRoutine'[u] /\ submit'[u] \in {"kept", "returned"}
      BY <1>11, <1>2 DEF AddqSent, Enqueue, Goto, MarkSent
    <3>3. /\ UNCHANGED <<outcome, writeUrb, drainUrb, readUrb, cancelUrb, cancelStep>>
          /\ \A v \in Urbs : Queued(v)' => v # u \/ ~Cancel[u]
      BY <1>11, <2>1, <2>2 DEF AddqSent, Enqueue, Goto, MarkSent
    <3>4. ASSUME NEW v \in Urbs, Queued(v)'
          PROVE  /\ Accepted(v)' /\ Open(v)'
                 /\ writeUrb' # v /\ drainUrb' # v
                 /\ \A r \in Readers : readUrb'[r] # v
                 /\ CancelRoutine'[v] \/ cancelUrb' = v
                 /\ cancelUrb' = v => cancelStep' = "search"
      <4>1. CASE v = u
        BY <3>2, <3>3, <3>4, <4>1, <2>2
      <4>2. CASE v # u
        BY <3>1, <3>3, <3>4, <4>2, <1>1, <2>1 DEF QueuedInv
      <4> QED BY <4>1, <4>2
    <3> QED BY <3>4 DEF QueuedInv
  <2>4. CancelInv'
    BY <1>1, <1>2, <1>11, <2>1, <2>2
    DEF CancelInv, QueuedInv, HeldInv,
        AddqSent, Enqueue, Goto, MarkSent
  <2>5. HeldInv'
    BY <1>1, <1>2, <1>11, <2>1, <2>2
    DEF HeldInv, QueuedInv, CancelInv,
        AddqSent, Enqueue, Goto, MarkSent
  <2>6. SubmitInv'
    BY <1>1, <1>2, <1>11, <2>1, <2>2
    DEF SubmitInv, QueuedInv, CancelInv, HeldInv,
        AddqSent, Enqueue, Goto, MarkSent
  <2>7. ReadInv'
    BY <1>1, <1>2, <1>11, <2>1, <2>2
    DEF ReadInv, HeldInv,
        AddqSent, Enqueue, Goto, MarkSent
  <2>8. AcceptedInv'
    <3>1. CASE Cancel[u]
      BY <3>1, <1>1, <1>2, <1>11, <2>1, <2>2 DEF AcceptedInv, Removed,
         AddqSent, Enqueue, Goto, MarkSent
    <3>2. CASE ~Cancel[u]
      BY <3>2, <1>1, <1>2, <1>11, <2>1, <2>2 DEF AcceptedInv, Removed,
         AddqSent, Enqueue, Goto, MarkSent
    <3> QED BY <3>1, <3>2
  <2>9. SentInv'
    BY <1>1, <1>2, <1>11, <2>1, <2>2
    DEF SentInv, ReadInv,
        AddqSent, Enqueue, Goto, MarkSent
  <2>10. UnplugInv'
    BY <1>1, <1>2, <1>11, <2>1, <2>2
    DEF UnplugInv,
        AddqSent, Enqueue, Goto, MarkSent
  <2>11. CompletedOnce'
    BY <1>1, <1>2, <1>11, <2>1, <2>2
    DEF CompletedOnce, SubmitInv, QueuedInv, CancelInv, HeldInv,
        AddqSent, Enqueue, Goto, MarkSent
  <2> QED BY <1>3, <2>1, <2>3, <2>4, <2>5, <2>6, <2>7, <2>8, <2>9, <2>10, <2>11 DEF IInv
<1>12. ASSUME NEW u \in Urbs, AddqCompleteRead(u)
      PROVE  IInv'
  <2>1. UNCHANGED ioctl_q
    BY <1>12 DEF AddqCompleteRead, Goto
  <2>2. InQueueOnce' /\ \A v \in Urbs : Queued(v)' <=> Queued(v)
    BY <2>1, <1>4
  <2>3. submitRead[u] # None /\ read[submitRead[u]] = "taken"
    BY <1>1, <1>2, <1>12, <2>2 DEF ReadInv, AddqCompleteRead, Goto
  <2>4. QueuedInv'
    BY <1>1, <1>2, <1>12, <2>2, <2>3
    DEF QueuedInv, CancelInv, HeldInv,
        AddqCompleteRead, Goto
  <2>5. CancelInv'
    BY <1>1, <1>2, <1>12, <2>2, <2>3
    DEF CancelInv, QueuedInv, HeldInv,
        AddqCompleteRead, Goto
  <2>6. HeldInv'
    BY <1>1, <1>2, <1>12, <2>2, <2>3
    DEF HeldInv, QueuedInv, CancelInv,
        AddqCompleteRead, Goto
  <2>7. SubmitInv'
    BY <1>1, <1>2, <1>12, <2>2, <2>3
    DEF SubmitInv, QueuedInv, CancelInv, HeldInv,
        AddqCompleteRead, Goto
  <2>8. ReadInv'
    BY <1>1, <1>2, <1>12, <2>2, <2>3
    DEF ReadInv, HeldInv,
        AddqCompleteRead, Goto
  <2>9. AcceptedInv'
    BY <1>1, <1>2, <1>12, <2>2, <2>3
    DEF AcceptedInv, QueuedInv, CancelInv, HeldInv, Removed,
        AddqCompleteRead, Goto
  <2>10. SentInv'
    BY <1>1, <1>2, <1>12, <2>2, <2>3
    DEF SentInv, ReadInv,
        AddqCompleteRead, Goto
  <2>11. UnplugInv'
    BY <1>1, <1>2, <1>12, <2>2, <2>3
    DEF UnplugInv,
        AddqCompleteRead, Goto
  <2>12. CompletedOnce'
    BY <1>1, <1>2, <1>12, <2>2, <2>3
    DEF CompletedOnce, SubmitInv, QueuedInv, CancelInv, HeldInv,
        AddqCompleteRead, Goto
  <2> QED BY <1>3, <2>2, <2>4, <2>5, <2>6, <2>7, <2>8, <2>9, <2>10, <2>11, <2>12 DEF IInv
<1>13. ASSUME NEW u \in Urbs, SubmitFinish(u)
      PROVE  IInv'
  <2>1. UNCHANGED ioctl_q
    BY <1>13 DEF SubmitFinish, Goto
  <2>2. InQueueOnce' /\ \A v \in Urbs : Queued(v)' <=> Queued(v)
    BY <2>1, <1>4
  <2>3. /\ \A v \in Urbs : v # u => outcome'[v] = outcome[v]
        /\ outcome'[u] # <<>>
        /\ outcome[u] = <<>> => outcome'[u] = <<"immediate">>
        /\ \A h : outcome[u] = <<h>> => outcome'[u] = <<h, "immediate">>
    BY <1>5, <1>13 DEF SubmitFinish
  <2>4. /\ ~Queued(u) /\ writeUrb # u /\ drainUrb # u /\ cancelUrb # u
        /\ ~CancelRoutine[u] /\ outcome[u] = <<>>
        /\ \A r \in Readers : readUrb[r] # u
    BY <1>1, <1>2, <1>13, NotAccepted DEF SubmitFinish
  <2>5. outcome'[u] = <<"immediate">>
    BY <2>3, <2>4
  <2>6. QueuedInv'
    BY <1>1, <1>2, <1>13, <2>2, <2>3, <2>4, <2>5
    DEF QueuedInv, CancelInv, HeldInv,
        SubmitFinish, Goto
  <2>7. CancelInv'
    BY <1>1, <1>2, <1>13, <2>2, <2>3, <2>4, <2>5
    DEF CancelInv, QueuedInv, HeldInv,
        SubmitFinish, Goto
  <2>8. HeldInv'
    BY <1>1, <1>2, <1>13, <2>2, <2>3, <2>4, <2>5
    DEF HeldInv, QueuedInv, CancelInv,
        SubmitFinish, Goto
  <2>9. SubmitInv'
    BY <1>1, <1>2, <1>13, <2>2, <2>3, <2>4, <2>5
    DEF SubmitInv, QueuedInv, CancelInv, HeldInv,
        SubmitFinish, Goto
  <2>10. ReadInv'
    BY <1>1, <1>2, <1>13, <2>2, <2>3, <2>4, <2>5
    DEF ReadInv, HeldInv,
        SubmitFinish, Goto
  <2>11. AcceptedInv'
    BY <1>1, <1>2, <1>13, <2>2, <2>3
    DEF AcceptedInv, QueuedInv, CancelInv, HeldInv, Removed, SubmitFinish, Goto
  <2>12. SentInv'
    BY <1>1, <1>2, <1>13, <2>2, <2>3, <2>4, <2>5
    DEF SentInv, ReadInv,
        SubmitFinish, Goto
  <2>13. UnplugInv'
    BY <1>1, <1>2, <1>13, <2>2, <2>3, <2>4, <2>5
    DEF UnplugInv,
        SubmitFinish, Goto
  <2>14. CompletedOnce'
    BY <1>1, <1>2, <1>13, <2>2, <2>3, <2>4, <2>5, StillOnce
  <2> QED BY <1>3, <2>2, <2>6, <2>7, <2>8, <2>9, <2>10, <2>11, <2>12, <2>13, <2>14 DEF IInv
<1>14. ASSUME NEW u \in Urbs, IoCancelIrp(u)
      PROVE  IInv'
  <2>1. UNCHANGED ioctl_q
    BY <1>14 DEF IoCancelIrp
  <2>2. InQueueOnce' /\ \A v \in Urbs : Queued(v)' <=> Queued(v)
    BY <2>1, <1>4
  <2>3. QueuedInv'
    BY <1>1, <1>2, <1>14, <2>2
    DEF QueuedInv, CancelInv, HeldInv,
        IoCancelIrp
  <2>4. CancelInv'
    BY <1>1, <1>2, <1>14, <2>2
    DEF CancelInv, QueuedInv, HeldInv,
        IoCancelIrp
  <2>5. HeldInv'
    BY <1>1, <1>2, <1>14, <2>2
    DEF HeldInv, QueuedInv, CancelInv,
        IoCancelIrp
  <2>6. SubmitInv'
    BY <1>1, <1>2, <1>14, <2>2
    DEF SubmitInv, QueuedInv, CancelInv, HeldInv,
        IoCancelIrp
  <2>7. ReadInv'
    BY <1>1, <1>2, <1>14, <2>2
    DEF ReadInv, HeldInv,
        IoCancelIrp
  <2>8. AcceptedInv'
    BY <1>1, <1>2, <1>14, <2>2
    DEF AcceptedInv, QueuedInv, CancelInv, HeldInv, Removed,
        IoCancelIrp
  <2>9. SentInv'
    BY <1>1, <1>2, <1>14, <2>2
    DEF SentInv, ReadInv,
        IoCancelIrp
  <2>10. UnplugInv'
    BY <1>1, <1>2, <1>14, <2>2
    DEF UnplugInv,
        IoCancelIrp
  <2>11. CompletedOnce'
    BY <1>1, <1>2, <1>14, <2>2
    DEF CompletedOnce, SubmitInv, QueuedInv, CancelInv, HeldInv,
        IoCancelIrp
  <2> QED BY <1>3, <2>2, <2>3, <2>4, <2>5, <2>6, <2>7, <2>8, <2>9, <2>10, <2>11 DEF IInv
<1>15. ASSUME NEW u \in Urbs, WriteChecked(u)
      PROVE  IInv'
  <2>1. UNCHANGED ioctl_q
    BY <1>15 DEF WriteChecked
  <2>2. InQueueOnce' /\ \A v \in Urbs : Queued(v)' <=> Queued(v)
    BY <2>1, <1>4
  <2>3. QueuedInv'
    BY <1>1, <1>2, <1>15, <2>2
    DEF QueuedInv, CancelInv, HeldInv,
        WriteChecked
  <2>4. CancelInv'
    BY <1>1, <1>2, <1>15, <2>2
    DEF CancelInv, QueuedInv, HeldInv,
        WriteChecked
  <2>5. HeldInv'
    BY <1>1, <1>2, <1>15, <2>2
    DEF HeldInv, QueuedInv, CancelInv,
        WriteChecked
  <2>6. SubmitInv'
    BY <1>1, <1>2, <1>15, <2>2
    DEF SubmitInv, QueuedInv, CancelInv, HeldInv,
        WriteChecked
  <2>7. ReadInv'
    BY <1>1, <1>2, <1>15, <2>2
    DEF ReadInv, HeldInv,
        WriteChecked
  <2>8. AcceptedInv'
    BY <1>1, <1>2, <1>15, <2>2
    DEF AcceptedInv, QueuedInv, CancelInv, HeldInv, Removed,
        WriteChecked
  <2>9. SentInv'
    BY <1>1, <1>2, <1>15, <2>2
    DEF SentInv, ReadInv,
        WriteChecked
  <2>10. UnplugInv'
    BY <1>1, <1>2, <1>15, <2>2
    DEF UnplugInv,
        WriteChecked
  <2>11. CompletedOnce'
    BY <1>1, <1>2, <1>15, <2>2
    DEF CompletedOnce, SubmitInv, QueuedInv, CancelInv, HeldInv,
        WriteChecked
  <2> QED BY <1>3, <2>2, <2>3, <2>4, <2>5, <2>6, <2>7, <2>8, <2>9, <2>10, <2>11 DEF IInv
<1>16. ASSUME NEW u \in Urbs, WriteLost(u)
      PROVE  IInv'
  <2>1. UNCHANGED ioctl_q
    BY <1>16 DEF WriteLost
  <2>2. InQueueOnce' /\ \A v \in Urbs : Queued(v)' <=> Queued(v)
    BY <2>1, <1>4
  <2>3. QueuedInv'
    BY <1>1, <1>2, <1>16, <2>2
    DEF QueuedInv, CancelInv, HeldInv,
        WriteLost
  <2>4. CancelInv'
    BY <1>1, <1>2, <1>16, <2>2
    DEF CancelInv, QueuedInv, HeldInv,
        WriteLost
  <2>5. HeldInv'
    BY <1>1, <1>2, <1>16, <2>2
    DEF HeldInv, QueuedInv, CancelInv,
        WriteLost
  <2>6. SubmitInv'
    BY <1>1, <1>2, <1>16, <2>2
    DEF SubmitInv, QueuedInv, CancelInv, HeldInv,
        WriteLost
  <2>7. ReadInv'
    BY <1>1, <1>2, <1>16, <2>2
    DEF ReadInv, HeldInv,
        WriteLost
  <2>8. AcceptedInv'
    BY <1>1, <1>2, <1>16, <2>2
    DEF AcceptedInv, QueuedInv, CancelInv, HeldInv, Removed,
        WriteLost
  <2>9. SentInv'
    BY <1>1, <1>2, <1>16, <2>2
    DEF SentInv, ReadInv,
        WriteLost
  <2>10. UnplugInv'
    BY <1>1, <1>2, <1>16, <2>2
    DEF UnplugInv,
        WriteLost
  <2>11. CompletedOnce'
    BY <1>1, <1>2, <1>16, <2>2
    DEF CompletedOnce, SubmitInv, QueuedInv, CancelInv, HeldInv,
        WriteLost
  <2> QED BY <1>3, <2>2, <2>3, <2>4, <2>5, <2>6, <2>7, <2>8, <2>9, <2>10, <2>11 DEF IInv
<1>17. ASSUME NEW r \in Readers, ReadChecked(r)
      PROVE  IInv'
  <2>1. UNCHANGED ioctl_q
    BY <1>17 DEF ReadChecked
  <2>2. InQueueOnce' /\ \A v \in Urbs : Queued(v)' <=> Queued(v)
    BY <2>1, <1>4
  <2>3. QueuedInv'
    BY <1>1, <1>2, <1>17, <2>2
    DEF QueuedInv, CancelInv, HeldInv,
        ReadChecked
  <2>4. CancelInv'
    BY <1>1, <1>2, <1>17, <2>2
    DEF CancelInv, QueuedInv, HeldInv,
        ReadChecked
  <2>5. HeldInv'
    BY <1>1, <1>2, <1>17, <2>2
    DEF HeldInv, QueuedInv, CancelInv,
        ReadChecked
  <2>6. SubmitInv'
    BY <1>1, <1>2, <1>17, <2>2
    DEF SubmitInv, QueuedInv, CancelInv, HeldInv,
        ReadChecked
  <2>7. ReadInv'
    BY <1>1, <1>2, <1>17, <2>2
    DEF ReadInv, HeldInv,
        ReadChecked
  <2>8. AcceptedInv'
    BY <1>1, <1>2, <1>17, <2>2
    DEF AcceptedInv, QueuedInv, CancelInv, HeldInv, Removed,
        ReadChecked
  <2>9. SentInv'
    BY <1>1, <1>2, <1>17, <2>2
    DEF SentInv, ReadInv,
        ReadChecked
  <2>10. UnplugInv'
    BY <1>1, <1>2, <1>17, <2>2
    DEF UnplugInv,
        ReadChecked
  <2>11. CompletedOnce'
    BY <1>1, <1>2, <1>17, <2>2
    DEF CompletedOnce, SubmitInv, QueuedInv, CancelInv, HeldInv,
        ReadChecked
  <2> QED BY <1>3, <2>2, <2>3, <2>4, <2>5, <2>6, <2>7, <2>8, <2>9, <2>10, <2>11 DEF IInv
<1>18. ASSUME NEW r \in Readers, ReadWait(r)
      PROVE  IInv'
  <2>1. UNCHANGED ioctl_q
    BY <1>18 DEF ReadWait
  <2>2. InQueueOnce' /\ \A v \in Urbs : Queued(v)' <=> Queued(v)
    BY <2>1, <1>4
  <2>3. pending_read' # pending_read => \A v \in Urbs : Queued(v) => send[v]
    BY <1>1, <1>2, <1>18, <2>2, UnsentEmpty DEF ReadWait
  <2>4. QueuedInv'
    BY <1>1, <1>2, <1>18, <2>2, <2>3
    DEF QueuedInv, CancelInv, HeldInv,
        ReadWait
  <2>5. CancelInv'
    BY <1>1, <1>2, <1>18, <2>2, <2>3
    DEF CancelInv, QueuedInv, HeldInv,
        ReadWait
  <2>6. HeldInv'
    BY <1>1, <1>2, <1>18, <2>2, <2>3
    DEF HeldInv, QueuedInv, CancelInv,
        ReadWait
  <2>7. SubmitInv'
    BY <1>1, <1>2, <1>18, <2>2, <2>3
    DEF SubmitInv, QueuedInv, CancelInv, HeldInv,
        ReadWait
  <2>8. ReadInv'
    BY <1>1, <1>2, <1>18, <2>2, <2>3
    DEF ReadInv, HeldInv,
        ReadWait
  <2>9. AcceptedInv'
    BY <1>1, <1>2, <1>18, <2>2, <2>3
    DEF AcceptedInv, QueuedInv, CancelInv, HeldInv, Removed,
        ReadWait
  <2>10. SentInv'
    BY <1>1, <1>2, <1>18, <2>2, <2>3
    DEF SentInv, ReadInv,
        ReadWait
  <2>11. UnplugInv'
    BY <1>1, <1>2, <1>18, <2>2, <2>3
    DEF UnplugInv,
        ReadWait
  <2>12. CompletedOnce'
    BY <1>1, <1>2, <1>18, <2>2, <2>3
    DEF CompletedOnce, SubmitInv, QueuedInv, CancelInv, HeldInv,
        ReadWait
  <2> QED BY <1>3, <2>2, <2>4, <2>5, <2>6, <2>7, <2>8, <2>9, <2>10, <2>11, <2>12 DEF IInv
<1>19. ASSUME NEW r \in Readers, NEW i \in DOMAIN ioctl_q,
             ReadPacket(r, i)
      PROVE  IInv'
  <2>1. UNCHANGED ioctl_q
    BY <1>19 DEF ReadPacket, ReadTake, MarkSent
  <2>2. InQueueOnce' /\ \A v \in Urbs : Queued(v)' <=> Queued(v)
    BY <2>1, <1>4
  <2>3. QueuedInv'
    BY <1>1, <1>2, <1>19, <2>2
    DEF QueuedInv, CancelInv, HeldInv,
        ReadPacket, ReadTake, MarkSent
  <2>4. CancelInv'
    BY <1>1, <1>2, <1>19, <2>2
    DEF CancelInv, QueuedInv, HeldInv,
        ReadPacket, ReadTake, MarkSent
  <2>5. HeldInv'
    BY <1>1, <1>2, <1>19, <2>2
    DEF HeldInv, QueuedInv, CancelInv,
        ReadPacket, ReadTake, MarkSent
  <2>6. SubmitInv'
    BY <1>1, <1>2, <1>19, <2>2
    DEF SubmitInv, QueuedInv, CancelInv, HeldInv,
        ReadPacket, ReadTake, MarkSent
  <2>7. ReadInv'
    BY <1>1, <1>2, <1>19, <2>2
    DEF ReadInv, HeldInv,
        ReadPacket, ReadTake, MarkSent
  <2>8. AcceptedInv'
    BY <1>1, <1>2, <1>19, <2>2
    DEF AcceptedInv, QueuedInv, CancelInv, HeldInv, Removed,
        ReadPacket, ReadTake, MarkSent
  <2>9. SentInv'
    BY <1>1, <1>2, <1>19, <2>2
    DEF SentInv, ReadInv,
        ReadPacket, ReadTake, MarkSent
  <2>10. UnplugInv'
    BY <1>1, <1>2, <1>19, <2>2
    DEF UnplugInv,
        ReadPacket, ReadTake, MarkSent
  <2>11. CompletedOnce'
    BY <1>1, <1>2, <1>19, <2>2
    DEF CompletedOnce, SubmitInv, QueuedInv, CancelInv, HeldInv,
        ReadPacket, ReadTake, MarkSent
  <2> QED BY <1>3, <2>2, <2>3, <2>4, <2>5, <2>6, <2>7, <2>8, <2>9, <2>10, <2>11 DEF IInv
<1>20. ASSUME NEW r \in Readers, NEW i \in DOMAIN ioctl_q,
             ReadReject(r, i)
      PROVE  IInv'
  <2>1. ioctl_q' = RemoveAt(ioctl_q, i)
    BY <1>20 DEF ReadReject
  <2>2. /\ ioctl_q[i] \in Urbs /\ Queued(ioctl_q[i])
        /\ InQueueOnce'
        /\ \A v \in Urbs : Queued(v)' <=> Queued(v) /\ v # ioctl_q[i]
    BY <2>1, <1>1, QueueRemove
  <2>3. QueuedInv'
    BY <1>1, <1>2, <1>20, <2>2
    DEF QueuedInv, CancelInv, HeldInv,
        ReadReject, ReadTake, MarkSent
  <2>4. CancelInv'
    BY <1>1, <1>2, <1>20, <2>2
    DEF CancelInv, QueuedInv, HeldInv,
        ReadReject, ReadTake, MarkSent
  <2>5. HeldInv'
    BY <1>1, <1>2, <1>20, <2>2
    DEF HeldInv, QueuedInv, CancelInv,
        ReadReject, ReadTake, MarkSent
  <2>6. SubmitInv'
    BY <1>1, <1>2, <1>20, <2>2
    DEF SubmitInv, QueuedInv, CancelInv, HeldInv,
        ReadReject, ReadTake, MarkSent
  <2>7. ReadInv'
    BY <1>1, <1>2, <1>20, <2>2
    DEF ReadInv, HeldInv,
        ReadReject, ReadTake, MarkSent
  <2>8. AcceptedInv'
    BY <1>1, <1>2, <1>20, <2>2
    DEF AcceptedInv, QueuedInv, CancelInv, HeldInv, Removed,
        ReadReject, ReadTake, MarkSent
  <2>9. SentInv'
    BY <1>1, <1>2, <1>20, <2>2
    DEF SentInv, ReadInv,
        ReadReject, ReadTake, MarkSent
  <2>10. UnplugInv'
    BY <1>1, <1>2, <1>20, <2>2
    DEF UnplugInv,
        ReadReject, ReadTake, MarkSent
  <2>11. CompletedOnce'
    BY <1>1, <1>2, <1>20, <2>2
    DEF CompletedOnce, SubmitInv, QueuedInv, CancelInv, HeldInv,
        ReadReject, ReadTake, MarkSent
  <2> QED BY <1>3, <2>2, <2>3, <2>4, <2>5, <2>6, <2>7, <2>8, <2>9, <2>10, <2>11 DEF IInv
<1>21. ASSUME NEW r \in Readers, NEW i \in DOMAIN ioctl_q,
             ReadRejectCancelled(r, i)
      PROVE  IInv'
  <2>1. UNCHANGED ioctl_q
    BY <1>21 DEF ReadRejectCancelled, ReadTake, MarkSent
  <2>2. InQueueOnce' /\ \A v \in Urbs : Queued(v)' <=> Queued(v)
    BY <2>1, <1>4
  <2>3. QueuedInv'
    BY <1>1, <1>2, <1>21, <2>2
    DEF QueuedInv, CancelInv, HeldInv,
        ReadRejectCancelled, ReadTake, MarkSent
  <2>4. CancelInv'
    BY <1>1, <1>2, <1>21, <2>2
    DEF CancelInv, QueuedInv, HeldInv,
        ReadRejectCancelled, ReadTake, MarkSent
  <2>5. HeldInv'
    BY <1>1, <1>2, <1>21, <2>2
    DEF HeldInv, QueuedInv, CancelInv,
        ReadRejectCancelled, ReadTake, MarkSent
  <2>6. SubmitInv'
    BY <1>1, <1>2, <1>21, <2>2
    DEF SubmitInv, QueuedInv, CancelInv, HeldInv,
        ReadRejectCancelled, ReadTake, MarkSent
  <2>7. ReadInv'
    BY <1>1, <1>2, <1>21, <2>2
    DEF ReadInv, HeldInv,
        ReadRejectCancelled, ReadTake, MarkSent
  <2>8. AcceptedInv'
    BY <1>1, <1>2, <1>21, <2>2
    DEF AcceptedInv, QueuedInv, CancelInv, HeldInv, Removed,
        ReadRejectCancelled, ReadTake, MarkSent
  <2>9. SentInv'
    BY <1>1, <1>2, <1>21, <2>2
    DEF SentInv, ReadInv,
        ReadRejectCancelled, ReadTake, MarkSent
  <2>10. UnplugInv'
    BY <1>1, <1>2, <1>21, <2>2
    DEF UnplugInv,
        ReadRejectCancelled, ReadTake, MarkSent
  <2>11. CompletedOnce'
    BY <1>1, <1>2, <1>21, <2>2
    DEF CompletedOnce, SubmitInv, QueuedInv, CancelInv, HeldInv,
        ReadRejectCancelled, ReadTake, MarkSent
  <2> QED BY <1>3, <2>2, <2>3, <2>4, <2>5, <2>6, <2>7, <2>8, <2>9, <2>10, <2>11 DEF IInv
<1>22. ASSUME NEW r \in Readers, ReadRejectComplete(r)
      PROVE  IInv'
  <2>1. UNCHANGED ioctl_q
    BY <1>22 DEF ReadRejectComplete
  <2>2. InQueueOnce' /\ \A v \in Urbs : Queued(v)' <=> Queued(v)
    BY <2>1, <1>4
  <2>3. readUrb[r] \in Urbs
    BY <1>1, <1>2, <1>22 DEF ReadRejectComplete, HeldInv
  <2>4. /\ \A v \in Urbs : v # readUrb[r] => outcome'[v] = outcome[v]
        /\ outcome'[readUrb[r]] # <<>>
        /\ outcome[readUrb[r]] = <<>> => outcome'[readUrb[r]] = <<"rejected">>
        /\ \A h : outcome[readUrb[r]] = <<h>> => outcome'[readUrb[r]] = <<h, "rejected">>
    BY <1>5, <2>3, <1>22 DEF ReadRejectComplete
  <2>5. outcome'[readUrb[r]] = <<"rejected">>
    BY <1>1, <1>2, <1>22, <2>2, <2>3, <2>4 DEF HeldInv, ReadRejectComplete
  <2>6. QueuedInv'
    <3>1. /\ \A q \in Readers : readUrb'[q] \in {readUrb[q], None}
          /\ UNCHANGED <<submit, CancelRoutine, cancelUrb, cancelStep, writeUrb,
                         drainUrb>>
      BY <1>2, <1>22 DEF ReadRejectComplete
    <3>2. \A v \in Urbs : Queued(v) => v # readUrb[r]
      BY <1>1 DEF QueuedInv
    <3> QED BY <1>1, <1>2, <2>2, <2>4, <3>1, <3>2 DEF QueuedInv
  <2>7. CancelInv'
    <3>1. /\ \A q \in Readers : readUrb'[q] \in {readUrb[q], None}
          /\ UNCHANGED <<submit, Cancel, CancelRoutine, cancelUrb, cancelStep,
                         writeUrb, drainUrb>>
      BY <1>2, <1>22 DEF ReadRejectComplete
    <3>2. ~CancelRoutine[readUrb[r]]
      <4>1. ~Queued(readUrb[r])
        BY <1>1, <2>3 DEF QueuedInv
      <4>2. drainUrb # readUrb[r]
        BY <1>1, <1>2, <2>3 DEF HeldInv
      <4> QED BY <1>1, <2>3, <4>1, <4>2 DEF CancelInv
    <3>3. cancelUrb # readUrb[r]
      BY <1>1, <1>2, <2>3 DEF CancelInv
    <3> QED BY <1>1, <1>2, <2>2, <2>4, <3>1, <3>2, <3>3 DEF CancelInv
  <2>8. HeldInv'
    BY <1>1, <1>2, <1>22, <2>2, <2>3, <2>4, <2>5
    DEF HeldInv, QueuedInv, CancelInv,
        ReadRejectComplete
  <2>9. SubmitInv'
    BY <1>1, <1>2, <1>22, <2>2, <2>3, <2>4, <2>5
    DEF SubmitInv, QueuedInv, CancelInv, HeldInv,
        ReadRejectComplete
  <2>10. ReadInv'
    <3>1. /\ read[r] = "reject"
          /\ \A q \in Readers : q # r => read'[q] = read[q]
          /\ UNCHANGED <<submit, submitRead, pending_read>>
      BY <1>2, <1>22 DEF ReadRejectComplete
    <3> QED BY <1>1, <1>2, <3>1 DEF ReadInv
  <2>11. AcceptedInv'
    <3>1. /\ \A q \in Readers : q # r => readUrb'[q] = readUrb[q]
          /\ UNCHANGED <<submit, cancelUrb, cancelStep, writeUrb, drainUrb>>
      BY <1>2, <1>22 DEF ReadRejectComplete
    <3>2. ASSUME NEW v \in Urbs, v # readUrb[r], Removed(v) PROVE Removed(v)'
      BY <1>2, <3>1, <3>2 DEF Removed
    <3> QED BY <1>1, <2>2, <2>4, <3>1, <3>2 DEF AcceptedInv
  <2>12. SentInv'
    BY <1>1, <1>2, <1>22, <2>2, <2>3, <2>4, <2>5
    DEF SentInv, ReadInv,
        ReadRejectComplete
  <2>13. UnplugInv'
    BY <1>1, <1>2, <1>22, <2>2, <2>3, <2>4, <2>5
    DEF UnplugInv,
        ReadRejectComplete
  <2>14. CompletedOnce'
    BY <1>1, <1>2, <1>22, <2>2, <2>3, <2>4, <2>5, StillOnce
  <2> QED BY <1>3, <2>2, <2>6, <2>7, <2>8, <2>9, <2>10, <2>11, <2>12, <2>13, <2>14 DEF IInv
<1>23. ASSUME NEW i \in DOMAIN ioctl_q, WriteClaim(i)
      PROVE  IInv'
  <2>1. ioctl_q' = RemoveAt(ioctl_q, i)
    BY <1>23 DEF WriteClaim
  <2>2. /\ ioctl_q[i] \in Urbs /\ Queued(ioctl_q[i])
        /\ InQueueOnce'
        /\ \A v \in Urbs : Queued(v)' <=> Queued(v) /\ v # ioctl_q[i]
    BY <2>1, <1>1, QueueRemove
  <2>3. QueuedInv'
    BY <1>1, <1>2, <1>23, <2>2
    DEF QueuedInv, CancelInv, HeldInv,
        WriteClaim, Claim
  <2>4. CancelInv'
    BY <1>1, <1>2, <1>23, <2>2
    DEF CancelInv, QueuedInv, HeldInv,
        WriteClaim, Claim
  <2>5. HeldInv'
    BY <1>1, <1>2, <1>23, <2>2
    DEF HeldInv, QueuedInv, CancelInv,
        WriteClaim, Claim
  <2>6. SubmitInv'
    BY <1>1, <1>2, <1>23, <2>2
    DEF SubmitInv, QueuedInv, CancelInv, HeldInv,
        WriteClaim, Claim
  <2>7. ReadInv'
    BY <1>1, <1>2, <1>23, <2>2
    DEF ReadInv, HeldInv,
        WriteClaim, Claim
  <2>8. AcceptedInv'
    BY <1>1, <1>2, <1>23, <2>2
    DEF AcceptedInv, QueuedInv, CancelInv, HeldInv, Removed,
        WriteClaim, Claim
  <2>9. SentInv'
    BY <1>1, <1>2, <1>23, <2>2
    DEF SentInv, ReadInv,
        WriteClaim, Claim
  <2>10. UnplugInv'
    BY <1>1, <1>2, <1>23, <2>2
    DEF UnplugInv,
        WriteClaim, Claim
  <2>11. CompletedOnce'
    BY <1>1, <1>2, <1>23, <2>2
    DEF CompletedOnce, SubmitInv, QueuedInv, CancelInv, HeldInv,
        WriteClaim, Claim
  <2> QED BY <1>3, <2>2, <2>3, <2>4, <2>5, <2>6, <2>7, <2>8, <2>9, <2>10, <2>11 DEF IInv
<1>24. CASE WriteMiss
  <2>1. UNCHANGED ioctl_q
    BY <1>24 DEF WriteMiss
  <2>2. InQueueOnce' /\ \A v \in Urbs : Queued(v)' <=> Queued(v)
    BY <2>1, <1>4
  <2>3. QueuedInv'
    BY <1>1, <1>2, <1>24, <2>2
    DEF QueuedInv, CancelInv, HeldInv,
        WriteMiss
  <2>4. CancelInv'
    BY <1>1, <1>2, <1>24, <2>2
    DEF CancelInv, QueuedInv, HeldInv,
        WriteMiss
  <2>5. HeldInv'
    BY <1>1, <1>2, <1>24, <2>2
    DEF HeldInv, QueuedInv, CancelInv,
        WriteMiss
  <2>6. SubmitInv'
    BY <1>1, <1>2, <1>24, <2>2
    DEF SubmitInv, QueuedInv, CancelInv, HeldInv,
        WriteMiss
  <2>7. ReadInv'
    BY <1>1, <1>2, <1>24, <2>2
    DEF ReadInv, HeldInv,
        WriteMiss
  <2>8. AcceptedInv'
    BY <1>1, <1>2, <1>24, <2>2
    DEF AcceptedInv, QueuedInv, CancelInv, HeldInv, Removed,
        WriteMiss
  <2>9. SentInv'
    BY <1>1, <1>2, <1>24, <2>2
    DEF SentInv, ReadInv,
        WriteMiss
  <2>10. UnplugInv'
    BY <1>1, <1>2, <1>24, <2>2
    DEF UnplugInv,
        WriteMiss
  <2>11. CompletedOnce'
    BY <1>1, <1>2, <1>24, <2>2
    DEF CompletedOnce, SubmitInv, QueuedInv, CancelInv, HeldInv,
        WriteMiss
  <2> QED BY <1>3, <2>2, <2>3, <2>4, <2>5, <2>6, <2>7, <2>8, <2>9, <2>10, <2>11 DEF IInv
<1>25. CASE WriteFinish
  <2>1. UNCHANGED ioctl_q
    BY <1>25 DEF WriteFinish
  <2>2. InQueueOnce' /\ \A v \in Urbs : Queued(v)' <=> Queued(v)
    BY <2>1, <1>4
  <2>3. PICK how \in {"answered", "unsent"} : Complete(writeUrb, how)
    BY <1>25 DEF WriteFinish, FinishClaimed
  <2>4. writeUrb \in Urbs
    BY <1>1, <1>2, <1>25 DEF WriteFinish, HeldInv
  <2>5. /\ \A v \in Urbs : v # writeUrb => outcome'[v] = outcome[v]
        /\ outcome'[writeUrb] # <<>>
        /\ outcome[writeUrb] = <<>> => outcome'[writeUrb] = <<how>>
        /\ \A h : outcome[writeUrb] = <<h>> => outcome'[writeUrb] = <<h, how>>
    BY <1>5, <2>4, <2>3 DEF WriteFinish
  <2>6. outcome'[writeUrb] = <<how>>
    BY <1>1, <1>2, <1>25, <2>2, <2>4, <2>5 DEF HeldInv, WriteFinish
  <2>7. QueuedInv'
    BY <1>1, <1>2, <1>25, <2>2, <2>4, <2>5, <2>6
    DEF QueuedInv, CancelInv, HeldInv,
        WriteFinish
  <2>8. CancelInv'
    BY <1>1, <1>2, <1>25, <2>2, <2>4, <2>5, <2>6
    DEF CancelInv, QueuedInv, HeldInv,
        WriteFinish
  <2>9. HeldInv'
    BY <1>1, <1>2, <1>25, <2>2, <2>4, <2>5, <2>6
    DEF HeldInv, QueuedInv, CancelInv,
        WriteFinish
  <2>10. SubmitInv'
    BY <1>1, <1>2, <1>25, <2>2, <2>4, <2>5, <2>6
    DEF SubmitInv, QueuedInv, CancelInv, HeldInv,
        WriteFinish
  <2>11. ReadInv'
    BY <1>1, <1>2, <1>25, <2>2, <2>4, <2>5, <2>6
    DEF ReadInv, HeldInv,
        WriteFinish
  <2>12. AcceptedInv'
    <3>1. ASSUME NEW v \in Urbs, Accepted(v)'
          PROVE  Queued(v)' \/ Removed(v)' \/ ~Open(v)'
      <4>1. Queued(v) \/ Removed(v) \/ ~Open(v)
        BY <3>1, <1>1, <1>25 DEF AcceptedInv, WriteFinish
      <4>2. CASE v = writeUrb
        BY <4>2, <2>5
      <4>3. CASE v # writeUrb
        <5>1. Removed(v) => Removed(v)'
          BY <4>3, <1>25 DEF Removed, WriteFinish
        <5>2. Open(v)' <=> Open(v)
          BY <4>3, <2>5
        <5> QED BY <4>1, <5>1, <5>2, <2>2
      <4> QED BY <4>2, <4>3
    <3> HIDE DEF Accepted, Open
    <3> QED BY <3>1 DEF AcceptedInv
  <2>13. SentInv'
    BY <1>1, <1>2, <1>25, <2>2, <2>4, <2>5, <2>6
    DEF SentInv, ReadInv,
        WriteFinish
  <2>14. UnplugInv'
    BY <1>1, <1>2, <1>25, <2>2, <2>4, <2>5, <2>6
    DEF UnplugInv,
        WriteFinish
  <2>15. CompletedOnce'
    BY <1>1, <1>2, <1>25, <2>2, <2>4, <2>5, <2>6, StillOnce
  <2> QED BY <1>3, <2>2, <2>7, <2>8, <2>9, <2>10, <2>11, <2>12, <2>13, <2>14, <2>15 DEF IInv
<1>26. CASE CancelFind
  <2>1. PICK i \in DOMAIN ioctl_q :
          ioctl_q[i] = cancelUrb /\ ioctl_q' = RemoveAt(ioctl_q, i)
    BY <1>26 DEF CancelFind
  <2>2. /\ ioctl_q[i] \in Urbs /\ Queued(ioctl_q[i])
        /\ InQueueOnce'
        /\ \A v \in Urbs : Queued(v)' <=> Queued(v) /\ v # ioctl_q[i]
    BY <2>1, <1>1, QueueRemove
  <2>3. QueuedInv'
    BY <1>1, <1>2, <1>26, <2>1, <2>2
    DEF QueuedInv, CancelInv, HeldInv,
        CancelFind
  <2>4. CancelInv'
    BY <1>1, <1>2, <1>26, <2>1, <2>2
    DEF CancelInv, QueuedInv, HeldInv,
        CancelFind
  <2>5. HeldInv'
    BY <1>1, <1>2, <1>26, <2>1, <2>2
    DEF HeldInv, QueuedInv, CancelInv,
        CancelFind
  <2>6. SubmitInv'
    BY <1>1, <1>2, <1>26, <2>1, <2>2
    DEF SubmitInv, QueuedInv, CancelInv, HeldInv,
        CancelFind
  <2>7. ReadInv'
    BY <1>1, <1>2, <1>26, <2>1, <2>2
    DEF ReadInv, HeldInv,
        CancelFind
  <2>8. AcceptedInv'
    BY <1>1, <1>2, <1>26, <2>1, <2>2
    DEF AcceptedInv, QueuedInv, CancelInv, HeldInv, Removed,
        CancelFind
  <2>9. SentInv'
    BY <1>1, <1>2, <1>26, <2>1, <2>2
    DEF SentInv, ReadInv,
        CancelFind
  <2>10. UnplugInv'
    BY <1>1, <1>2, <1>26, <2>1, <2>2
    DEF UnplugInv,
        CancelFind
  <2>11. CompletedOnce'
    BY <1>1, <1>2, <1>26, <2>1, <2>2
    DEF CompletedOnce, SubmitInv, QueuedInv, CancelInv, HeldInv,
        CancelFind
  <2> QED BY <1>3, <2>2, <2>3, <2>4, <2>5, <2>6, <2>7, <2>8, <2>9, <2>10, <2>11 DEF IInv
<1>27. CASE CancelMiss
  <2>1. UNCHANGED ioctl_q
    BY <1>27 DEF CancelMiss
  <2>2. InQueueOnce' /\ \A v \in Urbs : Queued(v)' <=> Queued(v)
    BY <2>1, <1>4
  <2>3. cancelUrb # None => ~Queued(cancelUrb)
    BY <1>1, <1>2, <1>27, <2>2 DEF Queued, CancelMiss
  <2>4. QueuedInv'
    BY <1>1, <1>2, <1>27, <2>2, <2>3
    DEF QueuedInv, CancelInv, HeldInv,
        CancelMiss
  <2>5. CancelInv'
    BY <1>1, <1>2, <1>27, <2>2, <2>3
    DEF CancelInv, QueuedInv, HeldInv,
        CancelMiss
  <2>6. HeldInv'
    BY <1>1, <1>2, <1>27, <2>2, <2>3
    DEF HeldInv, QueuedInv, CancelInv,
        CancelMiss
  <2>7. SubmitInv'
    BY <1>1, <1>2, <1>27, <2>2, <2>3
    DEF SubmitInv, QueuedInv, CancelInv, HeldInv,
        CancelMiss
  <2>8. ReadInv'
    BY <1>1, <1>2, <1>27, <2>2, <2>3
    DEF ReadInv, HeldInv,
        CancelMiss
  <2>9. AcceptedInv'
    BY <1>1, <1>2, <1>27, <2>2, <2>3
    DEF AcceptedInv, QueuedInv, CancelInv, HeldInv, Removed,
        CancelMiss
  <2>10. SentInv'
    BY <1>1, <1>2, <1>27, <2>2, <2>3
    DEF SentInv, ReadInv,
        CancelMiss
  <2>11. UnplugInv'
    BY <1>1, <1>2, <1>27, <2>2, <2>3
    DEF UnplugInv,
        CancelMiss
  <2>12. CompletedOnce'
    BY <1>1, <1>2, <1>27, <2>2, <2>3
    DEF CompletedOnce, SubmitInv, QueuedInv, CancelInv, HeldInv,
        CancelMiss
  <2> QED BY <1>3, <2>2, <2>4, <2>5, <2>6, <2>7, <2>8, <2>9, <2>10, <2>11, <2>12 DEF IInv
<1>28. CASE CancelComplete
  <2>1. UNCHANGED ioctl_q
    BY <1>28 DEF CancelComplete
  <2>2. InQueueOnce' /\ \A v \in Urbs : Queued(v)' <=> Queued(v)
    BY <2>1, <1>4
  <2>3. cancelUrb \in Urbs
    BY <1>1, <1>2, <1>28 DEF CancelComplete, CancelInv
  <2>4. /\ \A v \in Urbs : v # cancelUrb => outcome'[v] = outcome[v]
        /\ outcome'[cancelUrb] # <<>>
        /\ outcome[cancelUrb] = <<>> => outcome'[cancelUrb] = <<"cancelled">>
        /\ \A h : outcome[cancelUrb] = <<h>> => outcome'[cancelUrb] = <<h, "cancelled">>
    BY <1>5, <2>3, <1>28 DEF CancelComplete
  <2>5. outcome'[cancelUrb] \in {<<"cancelled">>, <<"gone", "cancelled">>}
    BY <1>1, <1>2, <1>28, <2>2, <2>3, <2>4 DEF CancelInv, CancelComplete
  <2>6. QueuedInv'
    BY <1>1, <1>2, <1>28, <2>2, <2>3, <2>4, <2>5
    DEF QueuedInv, CancelInv, HeldInv,
        CancelComplete
  <2>7. CancelInv'
    BY <1>1, <1>2, <1>28, <2>2, <2>3, <2>4, <2>5
    DEF CancelInv, QueuedInv, HeldInv,
        CancelComplete
  <2>8. HeldInv'
    BY <1>1, <1>2, <1>28, <2>2, <2>3, <2>4, <2>5
    DEF HeldInv, QueuedInv, CancelInv,
        CancelComplete
  <2>9. SubmitInv'
    BY <1>1, <1>2, <1>28, <2>2, <2>3, <2>4, <2>5
    DEF SubmitInv, QueuedInv, CancelInv, HeldInv,
        CancelComplete
  <2>10. ReadInv'
    BY <1>1, <1>2, <1>28, <2>2, <2>3, <2>4, <2>5
    DEF ReadInv, HeldInv,
        CancelComplete
  <2>11. AcceptedInv'
    BY <1>1, <1>2, <1>28, <2>2, <2>3, <2>4, <2>5
    DEF AcceptedInv, QueuedInv, CancelInv, HeldInv, Removed,
        CancelComplete
  <2>12. SentInv'
    BY <1>1, <1>2, <1>28, <2>2, <2>3, <2>4, <2>5
    DEF SentInv, ReadInv,
        CancelComplete
  <2>13. UnplugInv'
    BY <1>1, <1>2, <1>28, <2>2, <2>3, <2>4, <2>5
    DEF UnplugInv,
        CancelComplete
  <2>14. CompletedOnce'
    BY <1>1, <1>2, <1>28, <2>2, <2>3, <2>4, <2>5, StillOnce
  <2> QED BY <1>3, <2>2, <2>6, <2>7, <2>8, <2>9, <2>10, <2>11, <2>12, <2>13, <2>14 DEF IInv
<1>29. CASE UnplugMark
  <2>1. UNCHANGED ioctl_q
    BY <1>29 DEF UnplugMark
  <2>2. InQueueOnce' /\ \A v \in Urbs : Queued(v)' <=> Queued(v)
    BY <2>1, <1>4
  <2>3. QueuedInv'
    BY <1>1, <1>2, <1>29, <2>2
    DEF QueuedInv, CancelInv, HeldInv,
        UnplugMark
  <2>4. CancelInv'
    BY <1>1, <1>2, <1>29, <2>2
    DEF CancelInv, QueuedInv, HeldInv,
        UnplugMark
  <2>5. HeldInv'
    BY <1>1, <1>2, <1>29, <2>2
    DEF HeldInv, QueuedInv, CancelInv,
        UnplugMark
  <2>6. SubmitInv'
    BY <1>1, <1>2, <1>29, <2>2
    DEF SubmitInv, QueuedInv, CancelInv, HeldInv,
        UnplugMark
  <2>7. ReadInv'
    BY <1>1, <1>2, <1>29, <2>2
    DEF ReadInv, HeldInv,
        UnplugMark
  <2>8. AcceptedInv'
    BY <1>1, <1>2, <1>29, <2>2
    DEF AcceptedInv, QueuedInv, CancelInv, HeldInv, Removed,
        UnplugMark
  <2>9. SentInv'
    BY <1>1, <1>2, <1>29, <2>2
    DEF SentInv, ReadInv,
        UnplugMark
  <2>10. UnplugInv'
    BY <1>1, <1>2, <1>29, <2>2
    DEF UnplugInv,
        UnplugMark
  <2>11. CompletedOnce'
    BY <1>1, <1>2, <1>29, <2>2
    DEF CompletedOnce, SubmitInv, QueuedInv, CancelInv, HeldInv,
        UnplugMark
  <2> QED BY <1>3, <2>2, <2>3, <2>4, <2>5, <2>6, <2>7, <2>8, <2>9, <2>10, <2>11 DEF IInv
<1>30. CASE UnplugRead
  <2>1. UNCHANGED ioctl_q
    BY <1>30 DEF UnplugRead
  <2>2. InQueueOnce' /\ \A v \in Urbs : Queued(v)' <=> Queued(v)
    BY <2>1, <1>4
  <2>3. pending_read # None => read[pending_read] = "pending"
    BY <1>1, <1>2, <1>30, <2>2 DEF ReadInv, UnplugRead
  <2>4. QueuedInv'
    BY <1>1, <1>2, <1>30, <2>2, <2>3
    DEF QueuedInv, CancelInv, HeldInv,
        UnplugRead
  <2>5. CancelInv'
    BY <1>1, <1>2, <1>30, <2>2, <2>3
    DEF CancelInv, QueuedInv, HeldInv,
        UnplugRead
  <2>6. HeldInv'
    BY <1>1, <1>2, <1>30, <2>2, <2>3
    DEF HeldInv, QueuedInv, CancelInv,
        UnplugRead
  <2>7. SubmitInv'
    BY <1>1, <1>2, <1>30, <2>2, <2>3
    DEF SubmitInv, QueuedInv, CancelInv, HeldInv,
        UnplugRead
  <2>8. ReadInv'
    BY <1>1, <1>2, <1>30, <2>2, <2>3
    DEF ReadInv, HeldInv,
        UnplugRead
  <2>9. AcceptedInv'
    BY <1>1, <1>2, <1>30, <2>2, <2>3
    DEF AcceptedInv, QueuedInv, CancelInv, HeldInv, Removed,
        UnplugRead
  <2>10. SentInv'
    BY <1>1, <1>2, <1>30, <2>2, <2>3
    DEF SentInv, ReadInv,
        UnplugRead
  <2>11. UnplugInv'
    BY <1>1, <1>2, <1>30, <2>2, <2>3
    DEF UnplugInv,
        UnplugRead
  <2>12. CompletedOnce'
    BY <1>1, <1>2, <1>30, <2>2, <2>3
    DEF CompletedOnce, SubmitInv, QueuedInv, CancelInv, HeldInv,
        UnplugRead
  <2> QED BY <1>3, <2>2, <2>4, <2>5, <2>6, <2>7, <2>8, <2>9, <2>10, <2>11, <2>12 DEF IInv
<1>31. CASE UnplugOther
  <2>1. UNCHANGED ioctl_q
    BY <1>31 DEF UnplugOther
  <2>2. InQueueOnce' /\ \A v \in Urbs : Queued(v)' <=> Queued(v)
    BY <2>1, <1>4
  <2>3. QueuedInv'
    BY <1>1, <1>2, <1>31, <2>2
    DEF QueuedInv, CancelInv, HeldInv,
        UnplugOther
  <2>4. CancelInv'
    BY <1>1, <1>2, <1>31, <2>2
    DEF CancelInv, QueuedInv, HeldInv,
        UnplugOther
  <2>5. HeldInv'
    BY <1>1, <1>2, <1>31, <2>2
    DEF HeldInv, QueuedInv, CancelInv,
        UnplugOther
  <2>6. SubmitInv'
    BY <1>1, <1>2, <1>31, <2>2
    DEF SubmitInv, QueuedInv, CancelInv, HeldInv,
        UnplugOther
  <2>7. ReadInv'
    BY <1>1, <1>2, <1>31, <2>2
    DEF ReadInv, HeldInv,
        UnplugOther
  <2>8. AcceptedInv'
    BY <1>1, <1>2, <1>31, <2>2
    DEF AcceptedInv, QueuedInv, CancelInv, HeldInv, Removed,
        UnplugOther
  <2>9. SentInv'
    BY <1>1, <1>2, <1>31, <2>2
    DEF SentInv, ReadInv,
        UnplugOther
  <2>10. UnplugInv'
    BY <1>1, <1>2, <1>31, <2>2
    DEF UnplugInv,
        UnplugOther
  <2>11. CompletedOnce'
    BY <1>1, <1>2, <1>31, <2>2
    DEF CompletedOnce, SubmitInv, QueuedInv, CancelInv, HeldInv,
        UnplugOther
  <2> QED BY <1>3, <2>2, <2>3, <2>4, <2>5, <2>6, <2>7, <2>8, <2>9, <2>10, <2>11 DEF IInv
<1>32. CASE DrainTake
  <2>1. /\ 1 \in DOMAIN ioctl_q /\ Head(ioctl_q) = ioctl_q[1]
        /\ ioctl_q' = RemoveAt(ioctl_q, 1)
    BY <1>32, <1>1, TailIsRemoveAt DEF DrainTake
  <2>2. /\ ioctl_q[1] \in Urbs /\ Queued(ioctl_q[1])
        /\ InQueueOnce'
        /\ \A v \in Urbs : Queued(v)' <=> Queued(v) /\ v # ioctl_q[1]
    BY <2>1, <1>1, QueueRemove
  <2>3. QueuedInv'
    BY <1>1, <1>2, <1>32, <2>1, <2>2
    DEF QueuedInv, CancelInv, HeldInv,
        DrainTake
  <2>4. CancelInv'
    BY <1>1, <1>2, <1>32, <2>1, <2>2
    DEF CancelInv, QueuedInv, HeldInv,
        DrainTake
  <2>5. HeldInv'
    BY <1>1, <1>2, <1>32, <2>1, <2>2
    DEF HeldInv, QueuedInv, CancelInv,
        DrainTake
  <2>6. SubmitInv'
    BY <1>1, <1>2, <1>32, <2>1, <2>2
    DEF SubmitInv, QueuedInv, CancelInv, HeldInv,
        DrainTake
  <2>7. ReadInv'
    BY <1>1, <1>2, <1>32, <2>1, <2>2
    DEF ReadInv, HeldInv,
        DrainTake
  <2>8. AcceptedInv'
    BY <1>1, <1>2, <1>32, <2>1, <2>2
    DEF AcceptedInv, QueuedInv, CancelInv, HeldInv, Removed,
        DrainTake
  <2>9. SentInv'
    BY <1>1, <1>2, <1>32, <2>1, <2>2
    DEF SentInv, ReadInv,
        DrainTake
  <2>10. UnplugInv'
    BY <1>1, <1>2, <1>32, <2>1, <2>2
    DEF UnplugInv,
        DrainTake
  <2>11. CompletedOnce'
    BY <1>1, <1>2, <1>32, <2>1, <2>2
    DEF CompletedOnce, SubmitInv, QueuedInv, CancelInv, HeldInv,
        DrainTake
  <2> QED BY <1>3, <2>2, <2>3, <2>4, <2>5, <2>6, <2>7, <2>8, <2>9, <2>10, <2>11 DEF IInv
<1>33. CASE DrainComplete
  <2>1. UNCHANGED ioctl_q
    BY <1>33 DEF DrainComplete
  <2>2. InQueueOnce' /\ \A v \in Urbs : Queued(v)' <=> Queued(v)
    BY <2>1, <1>4
  <2>3. drainUrb \in Urbs
    BY <1>1, <1>2, <1>33 DEF DrainComplete, HeldInv
  <2>4. /\ \A v \in Urbs : v # drainUrb => outcome'[v] = outcome[v]
        /\ outcome'[drainUrb] # <<>>
        /\ outcome[drainUrb] = <<>> => outcome'[drainUrb] = <<"gone">>
        /\ \A h : outcome[drainUrb] = <<h>> => outcome'[drainUrb] = <<h, "gone">>
    BY <1>5, <2>3, <1>33 DEF DrainComplete
  <2>5. outcome'[drainUrb] \in {<<"gone">>, <<"cancelled", "gone">>}
    BY <1>1, <1>2, <1>33, <2>2, <2>3, <2>4 DEF HeldInv, DrainComplete
  <2>6. QueuedInv'
    BY <1>1, <1>2, <1>33, <2>2, <2>3, <2>4, <2>5
    DEF QueuedInv, CancelInv, HeldInv,
        DrainComplete
  <2>7. CancelInv'
    BY <1>1, <1>2, <1>33, <2>2, <2>3, <2>4, <2>5
    DEF CancelInv, QueuedInv, HeldInv,
        DrainComplete
  <2>8. HeldInv'
    BY <1>1, <1>2, <1>33, <2>2, <2>3, <2>4, <2>5
    DEF HeldInv, QueuedInv, CancelInv,
        DrainComplete
  <2>9. SubmitInv'
    BY <1>1, <1>2, <1>33, <2>2, <2>3, <2>4, <2>5
    DEF SubmitInv, QueuedInv, CancelInv, HeldInv,
        DrainComplete
  <2>10. ReadInv'
    BY <1>1, <1>2, <1>33, <2>2, <2>3, <2>4, <2>5
    DEF ReadInv, HeldInv,
        DrainComplete
  <2>11. AcceptedInv'
    BY <1>1, <1>2, <1>33, <2>2, <2>3, <2>4, <2>5
    DEF AcceptedInv, QueuedInv, CancelInv, HeldInv, Removed,
        DrainComplete
  <2>12. SentInv'
    BY <1>1, <1>2, <1>33, <2>2, <2>3, <2>4, <2>5
    DEF SentInv, ReadInv,
        DrainComplete
  <2>13. UnplugInv'
    BY <1>1, <1>2, <1>33, <2>2, <2>3, <2>4, <2>5
    DEF UnplugInv,
        DrainComplete
  <2>14. CompletedOnce'
    BY <1>1, <1>2, <1>33, <2>2, <2>3, <2>4, <2>5, StillOnce
  <2> QED BY <1>3, <2>2, <2>6, <2>7, <2>8, <2>9, <2>10, <2>11, <2>12, <2>13, <2>14 DEF IInv
<1>34. CASE DrainEnd
  <2>1. UNCHANGED ioctl_q
    BY <1>34 DEF DrainEnd
  <2>2. InQueueOnce' /\ \A v \in Urbs : Queued(v)' <=> Queued(v)
    BY <2>1, <1>4
  <2>3. \A v \in Urbs : ~Queued(v)
    BY <1>1, <1>2, <1>34, <2>2 DEF Queued, DrainEnd
  <2>4. QueuedInv'
    BY <1>1, <1>2, <1>34, <2>2, <2>3
    DEF QueuedInv, CancelInv, HeldInv,
        DrainEnd
  <2>5. CancelInv'
    BY <1>1, <1>2, <1>34, <2>2, <2>3
    DEF CancelInv, QueuedInv, HeldInv,
        DrainEnd
  <2>6. HeldInv'
    BY <1>1, <1>2, <1>34, <2>2, <2>3
    DEF HeldInv, QueuedInv, CancelInv,
        DrainEnd
  <2>7. SubmitInv'
    BY <1>1, <1>2, <1>34, <2>2, <2>3
    DEF SubmitInv, QueuedInv, CancelInv, HeldInv,
        DrainEnd
  <2>8. ReadInv'
    BY <1>1, <1>2, <1>34, <2>2, <2>3
    DEF ReadInv, HeldInv,
        DrainEnd
  <2>9. AcceptedInv'
    BY <1>1, <1>2, <1>34, <2>2, <2>3
    DEF AcceptedInv, QueuedInv, CancelInv, HeldInv, Removed,
        DrainEnd
  <2>10. SentInv'
    BY <1>1, <1>2, <1>34, <2>2, <2>3
    DEF SentInv, ReadInv,
        DrainEnd
  <2>11. UnplugInv'
    BY <1>1, <1>2, <1>34, <2>2, <2>3
    DEF UnplugInv,
        DrainEnd
  <2>12. CompletedOnce'
    BY <1>1, <1>2, <1>34, <2>2, <2>3
    DEF CompletedOnce, SubmitInv, QueuedInv, CancelInv, HeldInv,
        DrainEnd
  <2> QED BY <1>3, <2>2, <2>4, <2>5, <2>6, <2>7, <2>8, <2>9, <2>10, <2>11, <2>12 DEF IInv
<1>40. CASE DrainBegin
  <2>1. UNCHANGED ioctl_q
    BY <1>40 DEF DrainBegin
  <2>2. InQueueOnce' /\ \A v \in Urbs : Queued(v)' <=> Queued(v)
    BY <2>1, <1>4
  <2>3. QueuedInv'
    BY <1>1, <1>2, <1>40, <2>2
    DEF QueuedInv, CancelInv, HeldInv,
        DrainBegin
  <2>4. CancelInv'
    BY <1>1, <1>2, <1>40, <2>2
    DEF CancelInv, QueuedInv, HeldInv,
        DrainBegin
  <2>5. HeldInv'
    BY <1>1, <1>2, <1>40, <2>2
    DEF HeldInv, QueuedInv, CancelInv,
        DrainBegin
  <2>6. SubmitInv'
    BY <1>1, <1>2, <1>40, <2>2
    DEF SubmitInv, QueuedInv, CancelInv, HeldInv,
        DrainBegin
  <2>7. ReadInv'
    BY <1>1, <1>2, <1>40, <2>2
    DEF ReadInv, HeldInv,
        DrainBegin
  <2>8. AcceptedInv'
    BY <1>1, <1>2, <1>40, <2>2
    DEF AcceptedInv, QueuedInv, CancelInv, HeldInv, Removed,
        DrainBegin
  <2>9. SentInv'
    BY <1>1, <1>2, <1>40, <2>2
    DEF SentInv, ReadInv,
        DrainBegin
  <2>10. UnplugInv'
    BY <1>1, <1>2, <1>40, <2>2
    DEF UnplugInv,
        DrainBegin
  <2>11. CompletedOnce'
    BY <1>1, <1>2, <1>40, <2>2
    DEF CompletedOnce, SubmitInv, QueuedInv, CancelInv, HeldInv,
        DrainBegin
  <2> QED BY <1>3, <2>2, <2>3, <2>4, <2>5, <2>6, <2>7, <2>8, <2>9, <2>10, <2>11 DEF IInv
<1>35. CASE UNCHANGED vars
  <2>1. UNCHANGED ioctl_q
    BY <1>35 DEF vars
  <2>2. InQueueOnce' /\ \A v \in Urbs : Queued(v)' <=> Queued(v)
    BY <2>1, <1>4
  <2>3. QueuedInv'
    BY <1>1, <1>2, <1>35, <2>2 DEF QueuedInv, vars
  <2>4. CancelInv'
    BY <1>1, <1>2, <1>35, <2>2 DEF CancelInv, vars
  <2>5. HeldInv'
    BY <1>1, <1>2, <1>35, <2>2 DEF HeldInv, vars
  <2>6. SubmitInv'
    BY <1>1, <1>2, <1>35, <2>2 DEF SubmitInv, vars
  <2>7. ReadInv'
    BY <1>1, <1>2, <1>35, <2>2 DEF ReadInv, vars
  <2>8. AcceptedInv'
    BY <1>1, <1>2, <1>35, <2>2 DEF AcceptedInv, vars, Removed
  <2>9. SentInv'
    BY <1>1, <1>2, <1>35, <2>2 DEF SentInv, vars
  <2>10. UnplugInv'
    BY <1>1, <1>2, <1>35, <2>2 DEF UnplugInv, vars
  <2>11. CompletedOnce'
    BY <1>1, <1>2, <1>35, <2>2 DEF CompletedOnce, vars
  <2> QED BY <1>3, <2>2, <2>3, <2>4, <2>5, <2>6, <2>7, <2>8, <2>9, <2>10, <2>11 DEF IInv
<1>36. ASSUME NEW u \in Urbs, Submitting(u) \/ IoCancelIrp(u) \/ Reply(u)
       PROVE  IInv'
  BY <1>36, <1>6, <1>7, <1>8, <1>9, <1>10, <1>11, <1>12, <1>13, <1>14,
     <1>15, <1>16
     DEF Submitting, SubmitStep, Reply
<1>37. ASSUME NEW r \in Readers, ReadStep(r) PROVE IInv'
  BY <1>37, <1>17, <1>18, <1>19, <1>20, <1>21, <1>22 DEF ReadStep
<1>38. CASE WriteStep \/ CancelStep
  BY <1>38, <1>23, <1>24, <1>25, <1>26, <1>27, <1>28 DEF WriteStep, CancelStep
<1>39. CASE UnplugMark \/ UnplugOther \/ UnplugStep
  BY <1>39, <1>29, <1>30, <1>31, <1>32, <1>33, <1>34, <1>40 DEF UnplugStep
<1> QED BY <1>35, <1>36, <1>37, <1>38, <1>39 DEF Next

(* Every reachable state has the inductive invariant. *)
THEOREM Invariant == Spec => []IInv
BY InitIInv, StepIInv, PTL DEF Spec

-----------------------------------------------------------------------------
(* The safety properties                                                    *)

(* No thread completes an IRP that another has completed, except            *)
(* complete_pending_irp and cancel_irp, which can do so once each.          *)
THEOREM CompletionCorrect == Spec => []CompletedOnce
<1>1. IInv => CompletedOnce
  BY DEF IInv
<1> QED BY <1>1, Invariant, PTL

(* cancel_irp fails to find its IRP only when complete_pending_irp has it.  *)
THEOREM CancelCorrect == Spec => []CancelMissesOnlyDrained
<1>1. ASSUME IInv PROVE CancelMissesOnlyDrained
  <2>1. SUFFICES ASSUME cancelUrb # None, cancelStep = "missing"
                 PROVE  drainUrb = cancelUrb \/ outcome[cancelUrb] = <<"gone">>
    BY DEF CancelMissesOnlyDrained
  <2>2. cancelUrb \in Urbs
    BY <1>1, <2>1 DEF IInv, TypeOK, ThreadTypeOK
  <2>3. ~Queued(cancelUrb)
    BY <1>1, <2>1, <2>2 DEF IInv, QueuedInv
  <2> QED BY <1>1, <2>1, <2>3 DEF IInv, CancelInv
<1> QED BY <1>1, Invariant, PTL

(* No interleaving of the threads leaves an URB where nobody will find it.  *)
THEOREM NothingLost == Spec => []NoUrbLost
<1>1. IInv => NoUrbLost
  BY DEF IInv, AcceptedInv, NoUrbLost, Accepted, Open
<1> QED BY <1>1, Invariant, PTL

(* A read and an unsent URB never wait for each other.                      *)
THEOREM NothingMissed == Spec => []NoMissedRead
<1>1. IInv => NoMissedRead
  BY UnsentEmpty DEF IInv, SentInv, NoMissedRead
<1> QED BY <1>1, Invariant, PTL

(* An unplug that has ended leaves behind only what was queued late.        *)
THEOREM UnplugCorrect == Spec => []LeftBehindOnlyLate
<1>1. ASSUME IInv PROVE LeftBehindOnlyLate
  <2>1. \A i \in DOMAIN ioctl_q : ioctl_q[i] \in Urbs /\ Queued(ioctl_q[i])
    BY <1>1, ElementOfSeq, LenProperties
       DEF IInv, TypeOK, DriverTypeOK, Queued
  <2> QED BY <1>1, <2>1 DEF IInv, UnplugInv, LeftBehindOnlyLate
<1> QED BY <1>1, Invariant, PTL

-----------------------------------------------------------------------------
(* Numbers and results: the invariant                                       *)

(* An URB that can no longer draw a number, and one that has drawn one that *)
(* a packet of it may carry.                                                *)
Spent == {u \in Urbs : /\ submit[u] \notin {"new", "checked"}
                       /\ ~(Queued(u) /\ ~send[u])}
Drawn(u) == send[u] \/ submit[u] = "fill"

(* The counter is n numbers behind FirstSeq, and n is not more than URBs    *)
(* have drawn or given up; the numbers that were drawn are among those n.   *)
StandsAt(n) == IF n = 0 THEN seq_num = FirstSeq ELSE Rank(seq_num) = n
NumberInv ==
  \E n \in 0..Cardinality(Spent) :
    /\ StandsAt(n)
    /\ \A u \in Urbs : Drawn(u) => Rank(pktSeq[u]) \in 1..n
DistinctInv ==
  \A u, v \in Urbs : Drawn(u) /\ Drawn(v) /\ u # v => pktSeq[u] # pktSeq[v]

(* What is known of an URB and its packet wherever its submitter is.        *)
PacketInv ==
  \A u \in Urbs :
    /\ packet[u] # "none" => send[u]
    /\ urb_seq[u] = IF send[u] THEN pktSeq[u] ELSE 0
    /\ submit[u] \in {"new", "checked", "fill", "failed"} => ~send[u]
    /\ submit[u] \in {"kept", "dropped"} => send[u] /\ packet[u] = "none"
    /\ submit[u] = "dropped" => Cancel[u]
    /\ submit[u] = "finish" => Cancel[u] \/ packet[u] = "none"
    /\ Queued(u) /\ ~send[u] => submit[u] = "returned"
RejectInv ==
  \A r \in Readers : readUrb[r] # None =>
    packet[readUrb[r]] = "none" /\ submit[readUrb[r]] = "returned"

(* A reply that is being written is to a packet that was answered, and the  *)
(* URB it found has its number.                                             *)
WriteInv ==
  /\ write # "idle" => /\ writeFor \in Urbs /\ packet[writeFor] = "answered"
                       /\ pktSeq[writeFor] = writeSeq
  /\ write = "finish" => urb_seq[writeUrb] = writeSeq

(* Only an absent device is drained.                                        *)
GoneInv ==
  /\ unplug # "idle" => ~Present
  /\ drainUrb # None => unplug = "drain"

ContractInv ==
  NumberInv /\ DistinctInv /\ PacketInv /\ RejectInv /\ WriteInv /\ GoneInv

OneReader == \A r, q \in Readers : r = q
OrderInv ==
  \A u \in Urbs : submitRead[u] # None => pktSeq[u] = seq_num

-----------------------------------------------------------------------------
(* Numbers                                                                  *)

(* The rank of a number is its distance from FirstSeq, counted from 1.      *)
LEMMA RankOne ==
  ASSUME NEW s \in 0..MaxSeq, NEW t \in 0..MaxSeq
  PROVE  Rank(s) \in 1..(MaxSeq + 1) /\ (Rank(s) = Rank(t) => s = t)
BY ConstantsAssumption DEF Rank

(* The next number has the next rank, also when the counter wraps.          *)
LEMMA RankNext ==
  ASSUME TypeOK, NEW n \in 0..MaxSeq, StandsAt(n)
  PROVE  NextSeq(seq_num) \in 0..MaxSeq /\ Rank(NextSeq(seq_num)) = n + 1
BY ConstantsAssumption DEF TypeOK, DriverTypeOK, StandsAt, Rank, NextSeq

(* There are finitely many URBs, and never more are spent than there are    *)
(* numbers; an URB that is not spent leaves one number over.                *)
LEMMA SpentBounded ==
  /\ Cardinality(Spent) \in Nat
  /\ \A u \in Urbs \ Spent : Cardinality(Spent) <= MaxSeq
  /\ \A T \in SUBSET Urbs : /\ IsFiniteSet(T) /\ Cardinality(T) \in Nat
                            /\ Cardinality(T) <= MaxSeq + 1
<1>1. ASSUME NEW T \in SUBSET Urbs
      PROVE  IsFiniteSet(T) /\ Cardinality(T) \in Nat /\ Cardinality(T) <= MaxSeq + 1
  <2>1. IsFiniteSet(T) /\ Cardinality(T) <= Cardinality(Urbs)
    BY FewerUrbsThanNumbers, FS_Subset
  <2>2. Cardinality(T) \in Nat /\ Cardinality(Urbs) \in Nat
    BY <2>1, FewerUrbsThanNumbers, FS_CardinalityType
  <2> QED BY <2>1, <2>2, FewerUrbsThanNumbers, ConstantsAssumption
<1>2. Spent \subseteq Urbs
  BY DEF Spent
<1>3. ASSUME NEW u \in Urbs \ Spent PROVE Cardinality(Spent) <= MaxSeq
  <2>1. Cardinality(Spent \cup {u}) = Cardinality(Spent) + 1
    BY <1>1, <1>2, <1>3, FS_AddElement
  <2>2. Spent \cup {u} \in SUBSET Urbs
    BY <1>2
  <2>3. Cardinality(Spent \cup {u}) <= MaxSeq + 1 /\ Cardinality(Spent) \in Nat
    BY <1>1, <1>2, <2>2
  <2> QED BY <2>1, <2>3, ConstantsAssumption
<1> QED BY <1>1, <1>2, <1>3

(* A step in which nobody draws a number.                                   *)
LEMMA KeepNumbers ==
  ASSUME NumberInv, DistinctInv, UNCHANGED <<seq_num, pktSeq>>,
         Spent \subseteq Spent', \A u \in Urbs : Drawn(u)' => Drawn(u)
  PROVE  NumberInv' /\ DistinctInv'
<1>1. PICK n \in 0..Cardinality(Spent) :
         StandsAt(n) /\ \A u \in Urbs : Drawn(u) => Rank(pktSeq[u]) \in 1..n
  BY DEF NumberInv
<1>2. Spent' \in SUBSET Urbs /\ Spent \in SUBSET Urbs
  BY DEF Spent
<1>3. /\ Cardinality(Spent) <= Cardinality(Spent')
      /\ Cardinality(Spent) \in Nat /\ Cardinality(Spent') \in Nat
  BY <1>2, SpentBounded, FS_Subset
<1>4. n \in 0..Cardinality(Spent')
  BY <1>1, <1>3
<1>5. StandsAt(n)' /\ \A u \in Urbs : Drawn(u)' => Rank(pktSeq'[u]) \in 1..n
  BY <1>1 DEF StandsAt
<1>6. NumberInv'
  BY <1>4, <1>5 DEF NumberInv
<1> QED BY <1>6 DEF DistinctInv

(* A step in which one URB draws the next number, and is spent.             *)
LEMMA DrawNumber ==
  ASSUME TypeOK, NumberInv, DistinctInv, NEW w \in Urbs \ Spent,
         seq_num' = NextSeq(seq_num),
         pktSeq' = [pktSeq EXCEPT ![w] = NextSeq(seq_num)],
         w \in Spent', Spent \subseteq Spent',
         \A u \in Urbs \ {w} : Drawn(u)' => Drawn(u)
  PROVE  /\ NumberInv' /\ DistinctInv'
         /\ \A u \in Urbs : Drawn(u) => Rank(pktSeq[u]) < Rank(seq_num')
<1>1. PICK n \in 0..Cardinality(Spent) :
         StandsAt(n) /\ \A u \in Urbs : Drawn(u) => Rank(pktSeq[u]) \in 1..n
  BY DEF NumberInv
<1>2. Spent' \in SUBSET Urbs /\ Spent \in SUBSET Urbs /\ Spent \cup {w} \in SUBSET Spent'
  BY DEF Spent
<1>3. /\ Cardinality(Spent) \in Nat /\ Cardinality(Spent) <= MaxSeq
      /\ Cardinality(Spent') \in Nat
      /\ Cardinality(Spent \cup {w}) = Cardinality(Spent) + 1
      /\ Cardinality(Spent \cup {w}) <= Cardinality(Spent')
  BY <1>2, SpentBounded, FS_Subset, FS_AddElement
<1>4. n \in 0..MaxSeq /\ n + 1 \in 0..Cardinality(Spent') /\ n + 1 # 0
  BY <1>1, <1>3, ConstantsAssumption
<1>5. seq_num' \in 0..MaxSeq /\ Rank(seq_num') = n + 1
  BY <1>1, <1>4, RankNext
<1>6. pktSeq \in [Urbs -> 0..MaxSeq]
  BY DEF TypeOK, HistoryTypeOK
<1>7. /\ pktSeq'[w] = seq_num'
      /\ \A u \in Urbs \ {w} : pktSeq'[u] = pktSeq[u]
  BY <1>6
<1>8. \A u \in Urbs : Drawn(u) => Rank(pktSeq[u]) \in 1..n
  BY <1>1
<1>9. \A u \in Urbs : Drawn(u)' => Rank(pktSeq'[u]) \in 1..(n + 1)
  BY <1>4, <1>5, <1>7, <1>8
<1>10. NumberInv'
  <2>1. StandsAt(n + 1)'
    BY <1>4, <1>5 DEF StandsAt
  <2> QED BY <1>4, <1>9, <2>1 DEF NumberInv
<1>11. \A u \in Urbs : Drawn(u) => Rank(pktSeq[u]) < Rank(seq_num')
  BY <1>4, <1>5, <1>8
<1>12. DistinctInv'
  <2> SUFFICES ASSUME NEW u \in Urbs, NEW v \in Urbs, Drawn(u)', Drawn(v)', u # v
               PROVE  pktSeq'[u] # pktSeq'[v]
    BY DEF DistinctInv
  <2>1. CASE u # w /\ v # w
    BY <2>1, <1>7 DEF DistinctInv
  <2>2. ASSUME NEW x \in Urbs \ {w}, Drawn(x)' PROVE pktSeq'[x] # pktSeq'[w]
    <3>1. Drawn(x)
      BY <2>2
    <3>2. Rank(pktSeq[x]) < Rank(seq_num') /\ Rank(pktSeq[x]) \in 1..n
      BY <1>11, <1>8, <3>1
    <3>3. pktSeq[x] # seq_num'
      BY <3>2, <1>5, <1>4
    <3> QED BY <3>3, <1>7
  <2> QED BY <2>1, <2>2
<1> QED BY <1>10, <1>11, <1>12

-----------------------------------------------------------------------------
(* Every step keeps the invariant                                           *)

Submits1 == {"new", "checked", "fill", "kept", "dropped", "failed", "finish",
             "returned"}

(* The first states.                                                        *)
LEMMA InitContract == Init => ContractInv
<1> SUFFICES ASSUME Init PROVE ContractInv
  OBVIOUS
<1>1. \A u \in Urbs : ~Drawn(u) /\ ~Queued(u)
  BY DEF Init, Drawn, Queued
<1>2. NumberInv
  <2>1. 0 \in 0..Cardinality(Spent)
    BY SpentBounded
  <2>2. StandsAt(0)
    BY DEF Init, StandsAt
  <2> QED BY <1>1, <2>1, <2>2 DEF NumberInv
<1>3. DistinctInv
  BY <1>1 DEF DistinctInv
<1>4. PacketInv /\ RejectInv /\ WriteInv /\ GoneInv
  BY <1>1 DEF Init, PacketInv, RejectInv, WriteInv, GoneInv
<1> QED BY <1>2, <1>3, <1>4 DEF ContractInv

(* A step that numbers nothing, submits nothing and hands out nothing.      *)
LEMMA QuietStep ==
  ASSUME TypeOK, ContractInv,
         UNCHANGED <<urbVars, wireVars, seq_num, submit, write, writeSeq,
                     writeUrb, writeFor>>,
         \A u \in Urbs : Queued(u)' => Queued(u),
         \A u \in Urbs : Cancel[u] => Cancel'[u],
         \A r \in Readers : readUrb'[r] \in {readUrb[r], None},
         GoneInv'
  PROVE  ContractInv'
<1> USE DEF urbVars, wireVars
<1>1. Spent \subseteq Spent' /\ \A u \in Urbs : Drawn(u)' => Drawn(u)
  BY DEF Spent, Drawn
<1>2. NumberInv' /\ DistinctInv'
  BY <1>1, KeepNumbers DEF ContractInv
<1>3. PacketInv'
  BY DEF ContractInv, PacketInv
<1>4. RejectInv'
  BY DEF ContractInv, RejectInv
<1>5. WriteInv'
  BY DEF ContractInv, WriteInv
<1> QED BY <1>2, <1>3, <1>4, <1>5 DEF ContractInv

(* A reader numbers the first unsent URB of the queue.                      *)
LEMMA ReadTakeDraws ==
  ASSUME IInv, ContractInv, NEW r \in Readers, NEW i \in DOMAIN ioctl_q,
         ReadTake(r, i), UNCHANGED submit,
         \A u \in Urbs : Queued(u)' => Queued(u)
  PROVE  /\ ioctl_q[i] \in Urbs /\ Queued(ioctl_q[i]) /\ ~send[ioctl_q[i]]
         /\ submit[ioctl_q[i]] = "returned"
         /\ NumberInv' /\ DistinctInv'
         /\ \A u \in Urbs : Drawn(u) => Rank(pktSeq[u]) < Rank(seq_num')
<1> DEFINE w == ioctl_q[i]
<1>1. w \in Urbs /\ Queued(w) /\ ~send[w]
  <2>1. w \in Urbs
    BY ElementOfSeq, LenProperties DEF IInv, TypeOK, DriverTypeOK
  <2> QED BY <2>1 DEF ReadTake, First, Unsent, Queued
<1>2. submit[w] = "returned"
  BY <1>1 DEF ContractInv, PacketInv
<1>3. send \in [Urbs -> BOOLEAN] /\ send' = [send EXCEPT ![w] = TRUE]
  BY DEF ReadTake, MarkSent, IInv, TypeOK, DriverTypeOK
<1>4. w \notin Spent
  BY <1>1 DEF Spent
<1>5. w \in Spent' /\ Spent \subseteq Spent'
  BY <1>1, <1>2, <1>3 DEF Spent
<1>6. \A u \in Urbs \ {w} : Drawn(u)' => Drawn(u)
  BY <1>3 DEF Drawn
<1>7. seq_num' = NextSeq(seq_num) /\ pktSeq' = [pktSeq EXCEPT ![w] = NextSeq(seq_num)]
  BY DEF ReadTake
<1>8. /\ NumberInv' /\ DistinctInv'
      /\ \A u \in Urbs : Drawn(u) => Rank(pktSeq[u]) < Rank(seq_num')
  BY <1>1, <1>4, <1>5, <1>6, <1>7, DrawNumber DEF IInv, ContractInv
<1> QED BY <1>1, <1>2, <1>8

(* The steps of a submitter, one by one.                                    *)
LEMMA SubmitContract ==
  ASSUME IInv, ContractInv, NEW w \in Urbs, Submitting(w)
  PROVE  ContractInv'
<1> USE DEF pdoVars, urbVars, irpVars, submitVars, cancelVars, readVars,
        writeVars, unplugVars, wireVars, histVars, Goto
<1>1. /\ submit \in [Urbs -> Submits1] /\ send \in [Urbs -> BOOLEAN]
      /\ Cancel \in [Urbs -> BOOLEAN]
      /\ packet \in [Urbs -> {"none", "out", "answered"}]
      /\ pktSeq \in [Urbs -> 0..MaxSeq] /\ urb_seq \in [Urbs -> 0..MaxSeq]
      /\ readUrb \in [Readers -> Urbs \cup {None}] /\ None \notin Urbs
      /\ writeUrb \in Urbs \cup {None}
  BY ConstantsAssumption
     DEF IInv, TypeOK, DriverTypeOK, ThreadTypeOK, HistoryTypeOK, Submits1
<1>2. NumberInv /\ DistinctInv /\ PacketInv /\ RejectInv /\ WriteInv /\ GoneInv
  BY DEF ContractInv
<1>3. TypeOK /\ InQueueOnce /\ QueuedInv /\ HeldInv
  BY DEF IInv
<1>4. ASSUME NEW from, submit[w] = from, from \notin {"kept", "returned"}
      PROVE  ~Queued(w) /\ writeUrb # w /\ \A r \in Readers : readUrb[r] # w
  BY <1>4, NotAccepted DEF IInv
\* A step of w that draws no number keeps the numbers if w becomes spent.
<1>5. ASSUME UNCHANGED <<seq_num, pktSeq>>,
             \A u \in Urbs \ {w} : /\ submit'[u] = submit[u] /\ send'[u] = send[u]
                                   /\ Queued(u)' <=> Queued(u),
             w \in Spent => w \in Spent', Drawn(w)' => Drawn(w)
      PROVE  NumberInv' /\ DistinctInv'
  <2>1. Spent \subseteq Spent' /\ \A u \in Urbs : Drawn(u)' => Drawn(u)
    BY <1>5 DEF Spent, Drawn
  <2> QED BY <1>2, <1>5, <2>1, KeepNumbers
<1>6. CASE SubmitImmediate(w)
  <2>1. \A u \in Urbs : Queued(u)' <=> Queued(u)
    BY <1>6, QueueSame DEF SubmitImmediate
  <2>2. ~Queued(w) /\ writeUrb # w /\ \A r \in Readers : readUrb[r] # w
    BY <1>4, <1>6 DEF SubmitImmediate
  <2>3. NumberInv' /\ DistinctInv'
    BY <1>1, <1>5, <1>6, <2>1, <2>2 DEF SubmitImmediate, Spent, Drawn
  <2>4. PacketInv'
    BY <1>1, <1>2, <1>6, <2>1, <2>2 DEF SubmitImmediate, PacketInv
  <2>5. RejectInv' /\ WriteInv' /\ GoneInv'
    BY <1>1, <1>2, <1>6, <2>2 DEF SubmitImmediate, RejectInv, WriteInv, GoneInv
  <2> QED BY <2>3, <2>4, <2>5 DEF ContractInv
<1>7. CASE SubmitChecked(w)
  <2>1. \A u \in Urbs : Queued(u)' <=> Queued(u)
    BY <1>7, QueueSame DEF SubmitChecked
  <2>2. ~Queued(w) /\ writeUrb # w /\ \A r \in Readers : readUrb[r] # w
    BY <1>4, <1>7 DEF SubmitChecked
  <2>3. NumberInv' /\ DistinctInv'
    BY <1>1, <1>5, <1>7, <2>1, <2>2 DEF SubmitChecked, Spent, Drawn
  <2>4. PacketInv'
    BY <1>1, <1>2, <1>7, <2>1, <2>2 DEF SubmitChecked, PacketInv
  <2>5. RejectInv' /\ WriteInv' /\ GoneInv'
    BY <1>1, <1>2, <1>7, <2>2 DEF SubmitChecked, RejectInv, WriteInv, GoneInv
  <2> QED BY <2>3, <2>4, <2>5 DEF ContractInv
<1>8. CASE AddqQueue(w)
  <2>2. ~Queued(w) /\ writeUrb # w /\ \A r \in Readers : readUrb[r] # w
    BY <1>4, <1>8 DEF AddqQueue
  <2>1. \A u \in Urbs : Queued(u)' <=> Queued(u) \/ (u = w /\ ~Cancel[w])
    BY <1>3, <1>8, <2>2, QueueSame, QueueAppend DEF AddqQueue, Enqueue
  <2>6. submit' = [submit EXCEPT ![w] = IF Cancel[w] THEN "finish" ELSE "returned"]
    BY <1>8 DEF AddqQueue, Enqueue
  <2>7. ~send[w] /\ packet[w] = "none" /\ submit[w] = "checked"
    BY <1>1, <1>2, <1>8 DEF AddqQueue, PacketInv
  <2>3. NumberInv' /\ DistinctInv'
    BY <1>1, <1>5, <1>8, <2>1, <2>2, <2>6, <2>7 DEF AddqQueue, Spent, Drawn
  <2>4. PacketInv'
    BY <1>1, <1>2, <1>8, <2>1, <2>2, <2>6, <2>7 DEF AddqQueue, PacketInv
  <2>5. RejectInv' /\ WriteInv' /\ GoneInv'
    BY <1>1, <1>2, <1>8, <2>2, <2>6 DEF AddqQueue, RejectInv, WriteInv, GoneInv
  <2> QED BY <2>3, <2>4, <2>5 DEF ContractInv
<1>9. CASE AddqTake(w)
  <2>1. \A u \in Urbs : Queued(u)' <=> Queued(u)
    BY <1>9, QueueSame DEF AddqTake
  <2>2. ~Queued(w) /\ writeUrb # w /\ \A r \in Readers : readUrb[r] # w
    BY <1>4, <1>9 DEF AddqTake
  <2>7. ~send[w] /\ packet[w] = "none" /\ submit[w] = "checked" /\ ~Drawn(w)
    BY <1>1, <1>2, <1>9 DEF AddqTake, PacketInv, Drawn
  <2>8. submit' = [submit EXCEPT ![w] = "fill"] /\ UNCHANGED send
    BY <1>9 DEF AddqTake
  <2>9. w \notin Spent /\ w \in Spent' /\ Spent \subseteq Spent'
    BY <1>1, <2>1, <2>2, <2>7, <2>8 DEF Spent
  <2>10. \A u \in Urbs \ {w} : Drawn(u)' => Drawn(u)
    BY <1>1, <2>8 DEF Drawn
  <2>3. NumberInv' /\ DistinctInv'
    BY <1>2, <1>3, <1>9, <2>9, <2>10, DrawNumber DEF AddqTake
  <2>4. PacketInv'
    BY <1>1, <1>2, <1>9, <2>1, <2>2, <2>7 DEF AddqTake, PacketInv
  <2>5. RejectInv' /\ GoneInv'
    BY <1>1, <1>2, <1>9, <2>2 DEF AddqTake, RejectInv, GoneInv
  <2>6. WriteInv'
    BY <1>1, <1>2, <1>9, <2>7 DEF AddqTake, WriteInv
  <2> QED BY <2>3, <2>4, <2>5, <2>6 DEF ContractInv
<1>10. CASE AddqFillFails(w)
  <2>1. \A u \in Urbs : Queued(u)' <=> Queued(u)
    BY <1>10, QueueSame DEF AddqFillFails
  <2>2. ~Queued(w) /\ writeUrb # w /\ \A r \in Readers : readUrb[r] # w
    BY <1>4, <1>10 DEF AddqFillFails
  <2>3. NumberInv' /\ DistinctInv'
    BY <1>1, <1>5, <1>10, <2>1, <2>2 DEF AddqFillFails, Spent, Drawn
  <2>4. PacketInv'
    BY <1>1, <1>2, <1>10, <2>1, <2>2 DEF AddqFillFails, PacketInv
  <2>5. RejectInv' /\ WriteInv' /\ GoneInv'
    BY <1>1, <1>2, <1>10, <2>2 DEF AddqFillFails, RejectInv, WriteInv, GoneInv
  <2> QED BY <2>3, <2>4, <2>5 DEF ContractInv
<1>11. CASE AddqSent(w)
  <2>2. ~Queued(w) /\ writeUrb # w /\ \A r \in Readers : readUrb[r] # w
    BY <1>4, <1>11 DEF AddqSent
  <2>1. \A u \in Urbs : Queued(u)' <=> Queued(u) \/ (u = w /\ ~Cancel[w])
    BY <1>3, <1>11, <2>2, QueueSame, QueueAppend DEF AddqSent, Enqueue
  <2>6. /\ submit' = [submit EXCEPT ![w] = IF Cancel[w] THEN "dropped" ELSE "kept"]
        /\ send' = [send EXCEPT ![w] = TRUE]
        /\ urb_seq' = [urb_seq EXCEPT ![w] = pktSeq[w]]
    BY <1>11 DEF AddqSent, Enqueue, MarkSent
  <2>7. ~send[w] /\ packet[w] = "none" /\ submit[w] = "fill"
    BY <1>1, <1>2, <1>11 DEF AddqSent, PacketInv
  <2>3. NumberInv' /\ DistinctInv'
    BY <1>1, <1>5, <1>11, <2>1, <2>2, <2>6, <2>7 DEF AddqSent, Spent, Drawn
  <2>4. PacketInv'
    BY <1>1, <1>2, <1>11, <2>1, <2>2, <2>6, <2>7 DEF AddqSent, PacketInv
  <2>5. RejectInv' /\ WriteInv' /\ GoneInv'
    BY <1>1, <1>2, <1>11, <2>2, <2>6 DEF AddqSent, RejectInv, WriteInv, GoneInv
  <2> QED BY <2>3, <2>4, <2>5 DEF ContractInv
<1>12. CASE AddqCompleteRead(w)
  <2>1. \A u \in Urbs : Queued(u)' <=> Queued(u)
    BY <1>12, QueueSame DEF AddqCompleteRead
  <2>2. \A r \in Readers : readUrb[r] # w
    BY <1>1, <1>2, <1>12 DEF AddqCompleteRead, RejectInv
  <2>6. /\ submit' = [submit EXCEPT ![w] = IF submit[w] = "kept" THEN "returned"
                                           ELSE "finish"]
        /\ packet' = IF submit[w] = "failed" THEN packet
                     ELSE [packet EXCEPT ![w] = "out"]
        /\ submit[w] \in {"kept", "dropped", "failed"}
        /\ UNCHANGED <<send, urb_seq, pktSeq, seq_num, Cancel, readUrb, writeVars,
                       writeFor, unplugVars, Present>>
    BY <1>12 DEF AddqCompleteRead
  <2>7. packet[w] = "none" /\ (submit[w] # "failed" <=> send[w])
    BY <1>1, <1>2, <2>6 DEF PacketInv
  <2>8. submit[w] = "failed" => ~Queued(w)
    BY <1>4
  <2>3. NumberInv' /\ DistinctInv'
    BY <1>1, <1>5, <2>1, <2>6, <2>7, <2>8 DEF Spent, Drawn
  <2>10. \A u \in Urbs \ {w} : submit'[u] = submit[u] /\ packet'[u] = packet[u]
    BY <1>1, <2>6
  <2>11. /\ submit'[w] = IF submit[w] = "kept" THEN "returned" ELSE "finish"
         /\ packet'[w] = IF submit[w] = "failed" THEN "none" ELSE "out"
    BY <1>1, <2>6, <2>7
  <2>12. submit[w] = "dropped" => Cancel[w]
    BY <1>2, <2>6, <2>7 DEF PacketInv
  <2>4. PacketInv'
    BY <1>1, <1>2, <2>1, <2>6, <2>7, <2>8, <2>10, <2>11, <2>12 DEF PacketInv
  <2>5. RejectInv' /\ GoneInv'
    BY <1>1, <1>2, <2>2, <2>6 DEF RejectInv, GoneInv
  <2>9. WriteInv'
    BY <1>1, <1>2, <2>6, <2>7 DEF WriteInv
  <2> QED BY <2>3, <2>4, <2>5, <2>9 DEF ContractInv
<1>13. CASE SubmitFinish(w)
  <2>1. \A u \in Urbs : Queued(u)' <=> Queued(u)
    BY <1>13, QueueSame DEF SubmitFinish
  <2>2. ~Queued(w) /\ writeUrb # w /\ \A r \in Readers : readUrb[r] # w
    BY <1>4, <1>13 DEF SubmitFinish
  <2>3. NumberInv' /\ DistinctInv'
    BY <1>1, <1>5, <1>13, <2>1, <2>2 DEF SubmitFinish, Spent, Drawn
  <2>4. PacketInv'
    BY <1>1, <1>2, <1>13, <2>1, <2>2 DEF SubmitFinish, PacketInv
  <2>5. RejectInv' /\ WriteInv' /\ GoneInv'
    BY <1>1, <1>2, <1>13, <2>2 DEF SubmitFinish, RejectInv, WriteInv, GoneInv
  <2> QED BY <2>3, <2>4, <2>5 DEF ContractInv
<1> QED BY <1>6, <1>7, <1>8, <1>9, <1>10, <1>11, <1>12, <1>13
        DEF Submitting, SubmitStep

(* The steps of a reader.                                                   *)
LEMMA ReadContract ==
  ASSUME IInv, ContractInv, NEW r \in Readers, ReadStep(r)
  PROVE  ContractInv'
<1> USE DEF pdoVars, urbVars, irpVars, submitVars, cancelVars, readVars,
        writeVars, unplugVars, wireVars, histVars
<1>1. /\ send \in [Urbs -> BOOLEAN] /\ Cancel \in [Urbs -> BOOLEAN]
      /\ packet \in [Urbs -> {"none", "out", "answered"}]
      /\ pktSeq \in [Urbs -> 0..MaxSeq] /\ urb_seq \in [Urbs -> 0..MaxSeq]
      /\ readUrb \in [Readers -> Urbs \cup {None}] /\ None \notin Urbs
      /\ writeUrb \in Urbs \cup {None}
  BY ConstantsAssumption
     DEF IInv, TypeOK, DriverTypeOK, ThreadTypeOK, HistoryTypeOK
<1>2. NumberInv /\ DistinctInv /\ PacketInv /\ RejectInv /\ WriteInv /\ GoneInv
  BY DEF ContractInv
<1>3. TypeOK /\ InQueueOnce /\ QueuedInv /\ HeldInv
  BY DEF IInv
\* Taking a number for the URB at place i, whatever becomes of it.
<1>4. ASSUME NEW i \in DOMAIN ioctl_q, ReadTake(r, i), UNCHANGED submit,
             \A u \in Urbs : Queued(u)' => Queued(u),
             UNCHANGED <<Cancel, writeVars, writeFor, unplugVars, Present>>,
             packet' \in {packet, [packet EXCEPT ![ioctl_q[i]] = "out"]},
             \/ UNCHANGED readUrb
             \/ packet' = packet /\ readUrb' = [readUrb EXCEPT ![r] = ioctl_q[i]]
      PROVE  ContractInv'
  <2> DEFINE w == ioctl_q[i]
  <2>1. /\ w \in Urbs /\ Queued(w) /\ ~send[w] /\ submit[w] = "returned"
        /\ NumberInv' /\ DistinctInv'
    BY <1>4, ReadTakeDraws
  <2>2. /\ packet[w] = "none" /\ writeUrb # w
        /\ \A q \in Readers : readUrb[q] # w
    BY <1>2, <1>3, <2>1 DEF PacketInv, QueuedInv
  <2>3. /\ send' = [send EXCEPT ![w] = TRUE]
        /\ urb_seq' = [urb_seq EXCEPT ![w] = NextSeq(seq_num)]
        /\ pktSeq' = [pktSeq EXCEPT ![w] = NextSeq(seq_num)]
    BY <1>4 DEF ReadTake, MarkSent
  <2> HIDE DEF w
  <2>4. PacketInv'
    BY <1>1, <1>2, <1>4, <2>1, <2>2, <2>3 DEF PacketInv, w
  <2>5. RejectInv'
    BY <1>1, <1>2, <1>4, <2>1, <2>2 DEF RejectInv, w
  <2>6. WriteInv'
    <3>1. write # "idle" => writeFor # w
      BY <1>2, <2>2 DEF WriteInv
    <3> QED BY <1>1, <1>2, <1>3, <1>4, <2>1, <2>2, <2>3, <3>1
            DEF WriteInv, HeldInv, w
  <2>7. GoneInv'
    BY <1>2, <1>4 DEF GoneInv
  <2> QED BY <2>1, <2>4, <2>5, <2>6, <2>7 DEF ContractInv
<1>5. CASE ReadChecked(r)
  <2>1. (\A u \in Urbs : Queued(u)' => Queued(u)) /\ GoneInv'
    BY <1>2, <1>5, QueueSame DEF ReadChecked, GoneInv
  <2> QED BY <1>1, <1>3, <1>5, <2>1, QuietStep DEF ReadChecked
<1>6. CASE ReadWait(r)
  <2>1. (\A u \in Urbs : Queued(u)' => Queued(u)) /\ GoneInv'
    BY <1>2, <1>6, QueueSame DEF ReadWait, GoneInv
  <2> QED BY <1>1, <1>3, <1>6, <2>1, QuietStep DEF ReadWait
<1>7. ASSUME NEW i \in DOMAIN ioctl_q, ReadPacket(r, i) PROVE ContractInv'
  <2>1. \A u \in Urbs : Queued(u)' => Queued(u)
    BY <1>7, QueueSame DEF ReadPacket
  <2> QED BY <1>4, <1>7, <2>1 DEF ReadPacket
<1>8. ASSUME NEW i \in DOMAIN ioctl_q, ReadReject(r, i) PROVE ContractInv'
  <2>1. \A u \in Urbs : Queued(u)' => Queued(u)
    BY <1>3, <1>8, QueueRemove DEF ReadReject
  <2> QED BY <1>4, <1>8, <2>1 DEF ReadReject
<1>9. ASSUME NEW i \in DOMAIN ioctl_q, ReadRejectCancelled(r, i) PROVE ContractInv'
  <2>1. \A u \in Urbs : Queued(u)' => Queued(u)
    BY <1>9, QueueSame DEF ReadRejectCancelled
  <2> QED BY <1>4, <1>9, <2>1 DEF ReadRejectCancelled
<1>10. CASE ReadRejectComplete(r)
  <2>1. (\A u \in Urbs : Queued(u)' => Queued(u)) /\ GoneInv'
    BY <1>2, <1>10, QueueSame DEF ReadRejectComplete, GoneInv
  <2>2. \A q \in Readers : readUrb'[q] \in {readUrb[q], None}
    BY <1>1, <1>10 DEF ReadRejectComplete
  <2> QED BY <1>1, <1>3, <1>10, <2>1, <2>2, QuietStep DEF ReadRejectComplete
<1> QED BY <1>5, <1>6, <1>7, <1>8, <1>9, <1>10 DEF ReadStep

(* The steps of the writer.                                                 *)
LEMMA WriteContract ==
  ASSUME IInv, ContractInv, WriteStep \/ \E u \in Urbs : Reply(u)
  PROVE  ContractInv'
<1> USE DEF pdoVars, urbVars, irpVars, submitVars, cancelVars, readVars,
        writeVars, unplugVars, wireVars, histVars
<1>1. /\ packet \in [Urbs -> {"none", "out", "answered"}]
      /\ readUrb \in [Readers -> Urbs \cup {None}] /\ None \notin Urbs
      /\ writeUrb \in Urbs \cup {None}
  BY ConstantsAssumption
     DEF IInv, TypeOK, DriverTypeOK, ThreadTypeOK, HistoryTypeOK
<1>2. NumberInv /\ DistinctInv /\ PacketInv /\ RejectInv /\ WriteInv /\ GoneInv
  BY DEF ContractInv
<1>3. TypeOK /\ InQueueOnce
  BY DEF IInv
\* What is numbered, submitted and rejected stays as it is.
<1>4. ASSUME UNCHANGED <<urbVars, seq_num, pktSeq, submit, Cancel, readUrb,
                         Present, unplugVars>>,
             \A u \in Urbs : Queued(u)' => Queued(u),
             \A u \in Urbs : packet'[u] # packet[u] => packet[u] = "out",
             WriteInv'
      PROVE  ContractInv'
  <2>1. Spent \subseteq Spent' /\ \A u \in Urbs : Drawn(u)' => Drawn(u)
    BY <1>4 DEF Spent, Drawn
  <2>2. NumberInv' /\ DistinctInv'
    BY <1>2, <1>4, <2>1, KeepNumbers
  <2>3. PacketInv'
    BY <1>1, <1>2, <1>4 DEF PacketInv
  <2>4. RejectInv'
    BY <1>1, <1>2, <1>4 DEF RejectInv
  <2>5. GoneInv'
    BY <1>2, <1>4 DEF GoneInv
  <2> QED BY <1>4, <2>2, <2>3, <2>4, <2>5 DEF ContractInv
<1>5. ASSUME NEW u \in Urbs, WriteChecked(u) PROVE ContractInv'
  <2>1. \A v \in Urbs : Queued(v)' => Queued(v)
    BY <1>5, QueueSame DEF WriteChecked
  <2>2. \A v \in Urbs : packet'[v] # packet[v] => packet[v] = "out"
    BY <1>1, <1>5 DEF WriteChecked
  <2>3. WriteInv'
    BY <1>1, <1>5 DEF WriteChecked, WriteInv
  <2> QED BY <1>4, <1>5, <2>1, <2>2, <2>3 DEF WriteChecked
<1>6. ASSUME NEW u \in Urbs, WriteLost(u) PROVE ContractInv'
  <2>1. \A v \in Urbs : Queued(v)' => Queued(v)
    BY <1>6, QueueSame DEF WriteLost
  <2>2. \A v \in Urbs : packet'[v] # packet[v] => packet[v] = "out"
    BY <1>1, <1>6 DEF WriteLost
  <2>3. WriteInv'
    BY <1>1, <1>2, <1>6 DEF WriteLost, WriteInv
  <2> QED BY <1>4, <1>6, <2>1, <2>2, <2>3 DEF WriteLost
<1>7. ASSUME NEW i \in DOMAIN ioctl_q, WriteClaim(i) PROVE ContractInv'
  <2>1. \A v \in Urbs : Queued(v)' => Queued(v)
    BY <1>3, <1>7, QueueRemove DEF WriteClaim
  <2>2. urb_seq[ioctl_q[i]] = writeSeq
    BY <1>7 DEF WriteClaim, First, Matching
  <2>3. WriteInv'
    BY <1>2, <1>7, <2>2 DEF WriteClaim, WriteInv
  <2> QED BY <1>4, <1>7, <2>1, <2>3 DEF WriteClaim
<1>8. CASE WriteMiss
  <2>1. \A v \in Urbs : Queued(v)' => Queued(v)
    BY <1>8, QueueSame DEF WriteMiss
  <2>2. WriteInv'
    BY <1>8 DEF WriteMiss, WriteInv
  <2> QED BY <1>4, <1>8, <2>1, <2>2 DEF WriteMiss
<1>9. CASE WriteFinish
  <2>1. \A v \in Urbs : Queued(v)' => Queued(v)
    BY <1>9, QueueSame DEF WriteFinish
  <2>2. WriteInv'
    BY <1>9 DEF WriteFinish, WriteInv
  <2> QED BY <1>4, <1>9, <2>1, <2>2 DEF WriteFinish
<1> QED BY <1>5, <1>6, <1>7, <1>8, <1>9 DEF WriteStep, Reply

(* The steps of cancelling and of unplugging: nothing is numbered.          *)
LEMMA OtherContract ==
  ASSUME IInv, ContractInv,
         \/ \E u \in Urbs : IoCancelIrp(u)
         \/ CancelStep \/ UnplugMark \/ UnplugOther \/ UnplugStep
         \/ UNCHANGED vars
  PROVE  ContractInv'
<1> USE DEF pdoVars, urbVars, irpVars, submitVars, cancelVars, readVars,
        writeVars, unplugVars, wireVars, histVars
<1>1. TypeOK /\ InQueueOnce /\ GoneInv
  BY DEF IInv, ContractInv
<1>2. Cancel \in [Urbs -> BOOLEAN]
  BY DEF IInv, TypeOK, DriverTypeOK
<1>3. ASSUME UNCHANGED <<urbVars, wireVars, seq_num, submit, writeVars, writeFor,
                         readUrb>>,
             UNCHANGED ioctl_q, \A u \in Urbs : Cancel[u] => Cancel'[u], GoneInv'
      PROVE  ContractInv'
  <2>1. \A u \in Urbs : Queued(u)' => Queued(u)
    BY <1>3, QueueSame
  <2> QED BY <1>1, <1>3, <2>1, QuietStep
<1>4. ASSUME UNCHANGED <<urbVars, wireVars, seq_num, submit, writeVars, writeFor,
                         readUrb, Cancel>>,
             NEW i \in DOMAIN ioctl_q, ioctl_q' = RemoveAt(ioctl_q, i), GoneInv'
      PROVE  ContractInv'
  <2>1. \A u \in Urbs : Queued(u)' => Queued(u)
    BY <1>1, <1>4, QueueRemove
  <2> QED BY <1>1, <1>4, <2>1, QuietStep
<1>5. ASSUME NEW u \in Urbs, IoCancelIrp(u) PROVE ContractInv'
  <2>1. \A v \in Urbs : Cancel[v] => Cancel'[v]
    BY <1>2, <1>5 DEF IoCancelIrp
  <2>2. GoneInv'
    BY <1>1, <1>5 DEF IoCancelIrp, GoneInv
  <2> QED BY <1>3, <1>5, <2>1, <2>2 DEF IoCancelIrp
<1>6. CASE CancelFind
  <2>1. PICK i \in DOMAIN ioctl_q : ioctl_q' = RemoveAt(ioctl_q, i)
    BY <1>6 DEF CancelFind
  <2>2. GoneInv'
    BY <1>1, <1>6 DEF CancelFind, GoneInv
  <2> QED BY <1>4, <1>6, <2>1, <2>2 DEF CancelFind
<1>7. CASE CancelMiss \/ CancelComplete
  <2>1. GoneInv'
    BY <1>1, <1>7 DEF CancelMiss, CancelComplete, GoneInv
  <2> QED BY <1>3, <1>7, <2>1 DEF CancelMiss, CancelComplete
<1>8. CASE UnplugMark \/ UnplugRead \/ DrainBegin \/ UnplugOther \/ DrainEnd
  <2>1. GoneInv'
    BY <1>1, <1>8
       DEF UnplugMark, UnplugRead, DrainBegin, UnplugOther, DrainEnd, GoneInv
  <2> QED BY <1>3, <1>8, <2>1
          DEF UnplugMark, UnplugRead, DrainBegin, UnplugOther, DrainEnd
<1>9. CASE DrainTake
  <2>1. 1 \in DOMAIN ioctl_q /\ ioctl_q' = RemoveAt(ioctl_q, 1)
    BY <1>1, <1>9, TailIsRemoveAt DEF DrainTake
  <2>2. GoneInv'
    BY <1>1, <1>9 DEF DrainTake, GoneInv
  <2> QED BY <1>4, <1>9, <2>1, <2>2 DEF DrainTake
<1>10. CASE DrainComplete
  <2>1. GoneInv'
    BY <1>1, <1>10 DEF DrainComplete, GoneInv
  <2> QED BY <1>3, <1>10, <2>1 DEF DrainComplete
<1>11. CASE UNCHANGED vars
  <2>1. GoneInv'
    BY <1>1, <1>11 DEF GoneInv, vars
  <2> QED BY <1>3, <1>11, <2>1 DEF vars
<1> QED BY <1>5, <1>6, <1>7, <1>8, <1>9, <1>10, <1>11
        DEF CancelStep, UnplugStep

LEMMA StepContract == IInv /\ ContractInv /\ [Next]_vars => ContractInv'
BY SubmitContract, ReadContract, WriteContract, OtherContract DEF Next

(* Every reachable state has the invariant.                                 *)
THEOREM ContractInvariant == Spec => []ContractInv
BY InitContract, StepContract, Invariant, PTL DEF Spec

-----------------------------------------------------------------------------
(* What follows                                                             *)

(* process_write_irp meets an URB that was never sent only with number 0.   *)
THEOREM UnsentCorrect == Spec => []UnsentHitOnlyByZero
<1>1. ASSUME IInv, ContractInv PROVE UnsentHitOnlyByZero
  <2>1. SUFFICES ASSUME write = "finish", ~send[writeUrb] PROVE writeSeq = 0
    BY DEF UnsentHitOnlyByZero
  <2>2. writeUrb \in Urbs
    BY <1>1, <2>1 DEF IInv, HeldInv, TypeOK, ThreadTypeOK
  <2> QED BY <1>1, <2>1, <2>2 DEF ContractInv, PacketInv, WriteInv
<1> QED BY <1>1, Invariant, ContractInvariant, PTL

-----------------------------------------------------------------------------
(* The order of the packets                                                 *)

(* With one reader, who has drawn the last number holds the only read.      *)
LEMMA StepOrder ==
  ASSUME OneReader, IInv, ContractInv, OrderInv, [Next]_vars
  PROVE  OrderInv'
<1> USE DEF pdoVars, urbVars, irpVars, submitVars, cancelVars, readVars,
        writeVars, unplugVars, wireVars, histVars
<1>1. /\ pktSeq \in [Urbs -> 0..MaxSeq]
      /\ submitRead \in [Urbs -> Readers \cup {None}]
      /\ pending_read \in Readers \cup {None}
      /\ \A u \in Urbs : submitRead[u] # None => read[submitRead[u]] = "taken"
      /\ pending_read # None => read[pending_read] = "pending"
  BY DEF IInv, TypeOK, DriverTypeOK, ThreadTypeOK, HistoryTypeOK, ReadInv
<1>2. ASSUME UNCHANGED <<seq_num, pktSeq>>,
             \A u \in Urbs : submitRead'[u] \in {submitRead[u], None}
      PROVE  OrderInv'
  BY <1>2 DEF OrderInv
<1>3. ASSUME NEW u \in Urbs, AddqTake(u) PROVE OrderInv'
  <2>1. \A v \in Urbs : submitRead[v] = None
    BY <1>1, <1>3 DEF AddqTake, ReadWaits, OneReader
  <2>2. /\ pktSeq'[u] = seq_num'
        /\ \A v \in Urbs \ {u} : submitRead'[v] = submitRead[v]
    BY <1>1, <1>3 DEF AddqTake
  <2> QED BY <2>1, <2>2 DEF OrderInv
<1>4. ASSUME NEW r \in Readers, NEW i, ReadTake(r, i), UNCHANGED submitRead
      PROVE  OrderInv'
  BY <1>1, <1>4 DEF ReadTake, OneReader, OrderInv
<1>5. ASSUME NEW u \in Urbs, Submitting(u) \/ IoCancelIrp(u) \/ Reply(u)
      PROVE  OrderInv'
  <2>1. CASE AddqCompleteRead(u)
    BY <1>1, <1>2, <2>1 DEF AddqCompleteRead
  <2>2. CASE \/ SubmitImmediate(u) \/ SubmitChecked(u) \/ AddqQueue(u)
             \/ AddqFillFails(u) \/ AddqSent(u) \/ SubmitFinish(u)
             \/ IoCancelIrp(u) \/ Reply(u)
    BY <1>2, <2>2 DEF SubmitImmediate, SubmitChecked, AddqQueue, AddqFillFails,
          AddqSent, SubmitFinish, IoCancelIrp, Reply, WriteChecked, WriteLost
  <2> QED BY <1>3, <1>5, <2>1, <2>2 DEF Submitting, SubmitStep
<1>6. ASSUME NEW r \in Readers, ReadStep(r) PROVE OrderInv'
  <2>1. CASE ReadChecked(r) \/ ReadWait(r) \/ ReadRejectComplete(r)
    BY <1>2, <2>1 DEF ReadChecked, ReadWait, ReadRejectComplete
  <2>2. ASSUME NEW i, ReadPacket(r, i) \/ ReadReject(r, i) \/ ReadRejectCancelled(r, i)
        PROVE  OrderInv'
    BY <1>4, <2>2 DEF ReadPacket, ReadReject, ReadRejectCancelled
  <2> QED BY <1>6, <2>1, <2>2 DEF ReadStep
<1>7. CASE WriteStep \/ CancelStep
  BY <1>2, <1>7 DEF WriteStep, CancelStep, WriteClaim, WriteMiss, WriteFinish,
        CancelFind, CancelMiss, CancelComplete
<1>8. CASE UnplugMark \/ UnplugOther \/ UnplugStep \/ UNCHANGED vars
  BY <1>2, <1>8 DEF vars, UnplugStep, UnplugMark, UnplugOther, UnplugRead,
        DrainBegin, DrainTake, DrainComplete, DrainEnd
<1> QED BY <1>5, <1>6, <1>7, <1>8 DEF Next

(* The packet that goes out has the highest rank so far.                    *)
LEMMA StepInOrder ==
  ASSUME IInv, ContractInv, OrderInv, [Next]_vars,
         NEW u \in Urbs, NEW v \in Urbs,
         packet[u] = "none", packet'[u] = "out", packet[v] # "none"
  PROVE  Rank(pktSeq[v]) < Rank(pktSeq'[u])
<1> USE DEF pdoVars, urbVars, irpVars, submitVars, cancelVars, readVars,
        writeVars, unplugVars, wireVars, histVars
<1>1. /\ packet \in [Urbs -> {"none", "out", "answered"}]
      /\ pktSeq \in [Urbs -> 0..MaxSeq]
  BY DEF IInv, TypeOK, HistoryTypeOK
<1>2. Drawn(v) /\ v # u
  BY DEF ContractInv, PacketInv, Drawn
<1>3. CASE AddqCompleteRead(u)
  <2>1. submitRead[u] # None /\ pktSeq'[u] = pktSeq[u] /\ submit[u] # "failed"
    BY <1>1, <1>3 DEF AddqCompleteRead, IInv, ReadInv
  <2>2. pktSeq[u] = seq_num
    BY <2>1 DEF OrderInv
  <2>3. Drawn(u)
    BY <1>3, <2>1 DEF AddqCompleteRead, ContractInv, PacketInv, Drawn
  <2>4. PICK n \in 0..Cardinality(Spent) :
           StandsAt(n) /\ \A w \in Urbs : Drawn(w) => Rank(pktSeq[w]) \in 1..n
    BY DEF ContractInv, NumberInv
  <2>5. Rank(pktSeq[u]) \in 1..n /\ Rank(pktSeq[v]) \in 1..n
    BY <1>2, <2>3, <2>4
  <2>6. n \in Nat /\ Rank(pktSeq[u]) = n
    BY <2>2, <2>4, <2>5, SpentBounded DEF StandsAt
  <2>7. pktSeq[u] # pktSeq[v]
    BY <1>2, <2>3 DEF ContractInv, DistinctInv
  <2>8. Rank(pktSeq[u]) # Rank(pktSeq[v])
    BY <1>1, <2>7, RankOne
  <2> QED BY <2>1, <2>5, <2>6, <2>8
<1>4. ASSUME NEW r \in Readers, NEW i \in DOMAIN ioctl_q, ReadPacket(r, i)
      PROVE  Rank(pktSeq[v]) < Rank(pktSeq'[u])
  <2>1. \A w \in Urbs : Queued(w)' => Queued(w)
    BY <1>4, QueueSame DEF ReadPacket
  <2>2. /\ ioctl_q[i] \in Urbs
        /\ \A w \in Urbs : Drawn(w) => Rank(pktSeq[w]) < Rank(seq_num')
    BY <1>4, <2>1, ReadTakeDraws DEF ReadPacket
  <2>3. u = ioctl_q[i]
    BY <1>1, <1>4 DEF ReadPacket
  <2>4. pktSeq'[u] = seq_num'
    BY <1>1, <1>4, <2>3 DEF ReadPacket, ReadTake
  <2> QED BY <1>2, <2>2, <2>4
<1>5. ASSUME NEW w \in Urbs,
             \/ Submitting(w) /\ (AddqCompleteRead(w) => w # u)
             \/ IoCancelIrp(w) \/ Reply(w)
      PROVE  FALSE
  BY <1>1, <1>5 DEF Submitting, SubmitStep, SubmitImmediate, SubmitChecked,
        AddqQueue, AddqTake, AddqFillFails, AddqSent, AddqCompleteRead,
        SubmitFinish, IoCancelIrp, Reply, WriteChecked, WriteLost
<1>6. ASSUME NEW r \in Readers,
             \/ ReadChecked(r) \/ ReadWait(r) \/ ReadRejectComplete(r)
             \/ \E i : ReadReject(r, i) \/ ReadRejectCancelled(r, i)
      PROVE  FALSE
  BY <1>6 DEF ReadChecked, ReadWait, ReadRejectComplete, ReadReject,
        ReadRejectCancelled
<1>7. ~(WriteStep \/ CancelStep)
  BY DEF WriteStep, CancelStep, WriteClaim, WriteMiss, WriteFinish,
        CancelFind, CancelMiss, CancelComplete
<1>8. ~(UnplugMark \/ UnplugOther \/ UnplugStep \/ UNCHANGED vars)
  BY DEF vars, UnplugStep, UnplugMark, UnplugOther, UnplugRead,
        DrainBegin, DrainTake, DrainComplete, DrainEnd
<1> QED BY <1>3, <1>4, <1>5, <1>6, <1>7, <1>8
        DEF Next, Submitting, SubmitStep, ReadStep

(* As long as one thread reads, user space gets the packets in the order of *)
(* their numbers: try_addq completes the read it took only after it dropped *)
(* the lock, and no later packet overtakes it.                              *)
THEOREM OrderCorrect == ASSUME OneReader PROVE Spec => PacketsInOrder
<1>1. Init => OrderInv
  BY DEF Init, OrderInv
<1>2. IInv /\ ContractInv /\ OrderInv /\ [Next]_vars => OrderInv'
  BY StepOrder
<1>3. Spec => []OrderInv
  BY <1>1, <1>2, Invariant, ContractInvariant, PTL DEF Spec
<1>4. IInv /\ ContractInv /\ OrderInv /\ [Next]_vars =>
        [\A u, v \in Urbs :
           (packet[u] = "none" /\ packet'[u] = "out" /\ packet[v] # "none") =>
             Rank(pktSeq[v]) < Rank(pktSeq'[u])]_vars
  BY StepInOrder
<1> QED BY <1>3, <1>4, Invariant, ContractInvariant, PTL DEF Spec, PacketsInOrder

-----------------------------------------------------------------------------
(* The refinement                                                           *)

(* What UrbService calls the state of an URB.                               *)
StateOf(u) ==
  IF outcome[u] # <<>> THEN outcome[u][1]
  ELSE IF submit[u] = "new" THEN "new" ELSE "open"

LEMMA StateType ==
  ASSUME TypeOK, NEW u \in Urbs
  PROVE  /\ Open(u) => StateOf(u) \in {"new", "open"}
         /\ submit[u] # "new" => StateOf(u) # "new"
         /\ submit[u] # "new" /\ Open(u) => StateOf(u) = "open"
<1>1. CASE outcome[u] = <<>>
  BY <1>1 DEF StateOf, Open
<1>2. CASE outcome[u] # <<>>
  <2>1. outcome[u] \in Seq(Outcomes)
    BY DEF TypeOK, HistoryTypeOK
  <2>2. outcome[u][1] \in Outcomes
    BY <1>2, <2>1, EmptySeq, ElementOfSeq, LenProperties
  <2> QED BY <1>2, <2>2 DEF StateOf, Open, Outcomes
<1> QED BY <1>1, <1>2

(* A step that the contract does not see.                                   *)
LEMMA Unseen ==
  ASSUME UNCHANGED <<Present, packet, Cancel>>,
         \A u \in Urbs : StateOf(u)' = StateOf(u)
  PROVE  [Service!Next]_(Service!vars)
BY DEF Service!vars, StateOf

(* A step that submits nothing for the first time and completes nothing.    *)
LEMMA NothingEnds ==
  ASSUME UNCHANGED outcome,
         \A u \in Urbs : submit'[u] = "new" <=> submit[u] = "new"
  PROVE  \A u \in Urbs : StateOf(u)' = StateOf(u)
BY DEF StateOf

(* A step that completes one URB: for the first time, or not.               *)
LEMMA OneEnds ==
  ASSUME TypeOK, NEW w \in Urbs, NEW how, Complete(w, how),
         \A u \in Urbs \ {w} : submit'[u] = submit[u]
  PROVE  /\ \A u \in Urbs \ {w} : StateOf(u)' = StateOf(u)
         /\ Open(w) => StateOf(w)' = how
         /\ \A h : outcome[w] = <<h>> => StateOf(w)' = StateOf(w)
<1>1. /\ \A v \in Urbs : v # w => outcome'[v] = outcome[v]
      /\ outcome'[w] # <<>>
      /\ outcome[w] = <<>> => outcome'[w] = <<how>>
      /\ \A h : outcome[w] = <<h>> => outcome'[w] = <<h, how>>
  BY CompleteOutcome DEF TypeOK, HistoryTypeOK
<1>2. \A u \in Urbs \ {w} : StateOf(u)' = StateOf(u)
  BY <1>1 DEF StateOf
<1>3. Open(w) => StateOf(w)' = how
  BY <1>1 DEF StateOf, Open
<1>4. ASSUME NEW h, outcome[w] = <<h>> PROVE StateOf(w)' = StateOf(w)
  <2>1. <<h>> # <<>> /\ <<h, how>> # <<>> /\ <<h>>[1] = h /\ <<h, how>>[1] = h
    OBVIOUS
  <2> QED BY <1>1, <1>4, <2>1 DEF StateOf
<1> QED BY <1>2, <1>3, <1>4

(* What is to be shown of a step that completes an URB.                     *)
LEMMA EndStep ==
  ASSUME TypeOK, NEW w \in Urbs, NEW how \in Outcomes, Open(w), Complete(w, how),
         \A u \in Urbs \ {w} : submit'[u] = submit[u],
         UNCHANGED <<Present, packet, Cancel>>,
         \/ how = "answered" /\ submit[w] # "new" /\ packet[w] = "answered"
         \/ how = "cancelled" /\ submit[w] # "new" /\ Cancel[w]
         \/ how = "gone" /\ submit[w] # "new" /\ ~Present
         \/ how = "rejected" /\ submit[w] # "new" /\ packet[w] = "none"
         \/ /\ how = "unsent" /\ submit[w] # "new" /\ packet[w] = "none"
            /\ \E v \in Urbs \ {w} : packet[v] = "answered"
         \/ how = "immediate" /\ (submit[w] = "new" \/ packet[w] = "none" \/ Cancel[w])
  PROVE  Service!Next
<1> DEFINE S == [u \in Urbs |-> StateOf(u)]
<1>1. /\ \A u \in Urbs \ {w} : StateOf(u)' = StateOf(u)
      /\ StateOf(w)' = how
  BY OneEnds
<1>2. /\ StateOf(w) \in {"new", "open"}
      /\ submit[w] # "new" => StateOf(w) = "open"
      /\ submit[w] = "new" => StateOf(w) = "new"
  BY StateType DEF StateOf, Open
<1>3. S' = [S EXCEPT ![w] = how]
  BY <1>1
<1>4. Service!End(w, how)
  BY <1>2, <1>3 DEF Service!End, Service!Reason, StateOf
<1> QED BY <1>4 DEF Service!Next, Outcomes

LEMMA SubmitImplements ==
  ASSUME IInv, ContractInv, NEW w \in Urbs, Submitting(w)
  PROVE  [Service!Next]_(Service!vars)
<1> USE DEF pdoVars, urbVars, irpVars, submitVars, wireVars, Goto
<1> DEFINE S == [u \in Urbs |-> StateOf(u)]
<1>1. /\ TypeOK /\ PacketInv
      /\ submit \in [Urbs -> Submits1]
      /\ packet \in [Urbs -> {"none", "out", "answered"}]
  BY DEF IInv, ContractInv, TypeOK, ThreadTypeOK, HistoryTypeOK, Submits1
<1>2. ASSUME submit[w] \notin {"kept", "returned"} PROVE Open(w)
  BY <1>2, NotAccepted DEF IInv, Open
<1>3. CASE SubmitImmediate(w) \/ SubmitFinish(w)
  <2>1. Open(w) /\ Complete(w, "immediate") /\ "immediate" \in Outcomes
    BY <1>2, <1>3 DEF SubmitImmediate, SubmitFinish, Outcomes
  <2>2. /\ UNCHANGED <<Present, packet, Cancel>>
        /\ \A u \in Urbs \ {w} : submit'[u] = submit[u]
    BY <1>1, <1>3 DEF SubmitImmediate, SubmitFinish
  <2>3. submit[w] = "new" \/ packet[w] = "none" \/ Cancel[w]
    BY <1>1, <1>3 DEF SubmitImmediate, SubmitFinish, PacketInv
  <2> QED BY <1>1, <2>1, <2>2, <2>3, EndStep
<1>4. CASE SubmitChecked(w)
  <2>1. UNCHANGED <<Present, packet, Cancel, outcome>> /\ submit[w] = "new" /\ Present
    BY <1>4 DEF SubmitChecked, histVars
  <2>2. /\ \A u \in Urbs \ {w} : submit'[u] = submit[u]
        /\ submit'[w] = "checked" /\ outcome[w] = <<>>
    BY <1>1, <1>2, <1>4 DEF SubmitChecked, Open
  <2>3. /\ \A u \in Urbs \ {w} : StateOf(u)' = StateOf(u)
        /\ StateOf(w)' = "open" /\ StateOf(w) = "new"
    BY <2>1, <2>2 DEF StateOf
  <2>4. S' = [S EXCEPT ![w] = "open"]
    BY <2>3
  <2>5. Service!Open(w)
    BY <2>1, <2>3, <2>4 DEF Service!Open, StateOf
  <2> QED BY <2>5 DEF Service!Next
<1>5. CASE AddqQueue(w) \/ AddqTake(w) \/ AddqFillFails(w) \/ AddqSent(w)
  <2>1. UNCHANGED <<Present, packet, Cancel, outcome>>
    BY <1>5 DEF AddqQueue, AddqTake, AddqFillFails, AddqSent, histVars
  <2>2. \A u \in Urbs : submit'[u] = "new" <=> submit[u] = "new"
    BY <1>1, <1>5 DEF AddqQueue, AddqTake, AddqFillFails, AddqSent, Enqueue
  <2> QED BY <2>1, <2>2, NothingEnds, Unseen
<1>6. CASE AddqCompleteRead(w)
  <2>1. UNCHANGED <<Present, Cancel, outcome>>
    BY <1>6 DEF AddqCompleteRead, histVars
  <2>2. \A u \in Urbs : submit'[u] = "new" <=> submit[u] = "new"
    BY <1>1, <1>6 DEF AddqCompleteRead
  <2>3. \A u \in Urbs : StateOf(u)' = StateOf(u)
    BY <2>1, <2>2, NothingEnds
  <2>4. CASE submit[w] = "failed"
    BY <1>6, <2>1, <2>3, <2>4, Unseen DEF AddqCompleteRead
  <2>5. CASE submit[w] # "failed"
    <3>1. submit[w] # "new" /\ packet[w] = "none" /\ packet' = [packet EXCEPT ![w] = "out"]
      BY <1>1, <1>6, <2>5 DEF AddqCompleteRead, PacketInv
    <3>2. StateOf(w) # "new" /\ S' = S
      BY <1>1, <2>3, <3>1, StateType
    <3>3. Service!HandOut(w)
      BY <2>1, <3>1, <3>2 DEF Service!HandOut, StateOf
    <3> QED BY <3>3 DEF Service!Next
  <2> QED BY <2>4, <2>5
<1> QED BY <1>3, <1>4, <1>5, <1>6 DEF Submitting, SubmitStep

LEMMA ReadImplements ==
  ASSUME IInv, ContractInv, NEW r \in Readers, ReadStep(r)
  PROVE  [Service!Next]_(Service!vars)
<1> USE DEF pdoVars, urbVars, irpVars, submitVars, wireVars, histVars
<1> DEFINE S == [u \in Urbs |-> StateOf(u)]
<1>1. /\ TypeOK /\ PacketInv /\ RejectInv /\ HeldInv
      /\ packet \in [Urbs -> {"none", "out", "answered"}]
      /\ readUrb \in [Readers -> Urbs \cup {None}]
  BY DEF IInv, ContractInv, TypeOK, ThreadTypeOK, HistoryTypeOK
<1>2. CASE \/ ReadChecked(r) \/ ReadWait(r)
           \/ \E i \in DOMAIN ioctl_q : ReadReject(r, i) \/ ReadRejectCancelled(r, i)
  <2>1. UNCHANGED <<Present, packet, Cancel, outcome, submit>>
    BY <1>2 DEF ReadChecked, ReadWait, ReadReject, ReadRejectCancelled
  <2> QED BY <2>1, NothingEnds, Unseen
<1>3. ASSUME NEW i \in DOMAIN ioctl_q, ReadPacket(r, i)
      PROVE  [Service!Next]_(Service!vars)
  <2> DEFINE w == ioctl_q[i]
  <2>1. UNCHANGED <<Present, Cancel, outcome, submit>> /\ packet' = [packet EXCEPT ![w] = "out"]
    BY <1>3 DEF ReadPacket
  <2>2. \A u \in Urbs : Queued(u)' => Queued(u)
    BY <1>3, QueueSame DEF ReadPacket
  <2>3. w \in Urbs /\ submit[w] = "returned" /\ packet[w] = "none"
    BY <1>1, <1>3, <2>2, ReadTakeDraws DEF ReadPacket, PacketInv
  <2>4. \A u \in Urbs : StateOf(u)' = StateOf(u)
    BY <2>1, NothingEnds
  <2>5. StateOf(w) # "new" /\ S' = S
    BY <1>1, <2>3, <2>4, StateType
  <2>6. Service!HandOut(w)
    BY <2>1, <2>3, <2>5 DEF Service!HandOut, StateOf
  <2> QED BY <2>3, <2>6 DEF Service!Next
<1>4. CASE ReadRejectComplete(r)
  <2>1. PICK w \in Urbs : w = readUrb[r] /\ readUrb[r] # None
    BY <1>1, <1>4 DEF ReadRejectComplete, HeldInv
  <2>2. UNCHANGED <<Present, packet, Cancel, submit>> /\ Complete(w, "rejected")
    BY <1>4, <2>1 DEF ReadRejectComplete
  <2>3. Open(w) /\ submit[w] # "new" /\ packet[w] = "none" /\ "rejected" \in Outcomes
    BY <1>1, <2>1 DEF HeldInv, RejectInv, Outcomes
  <2> QED BY <1>1, <2>2, <2>3, EndStep
<1> QED BY <1>2, <1>3, <1>4 DEF ReadStep

(* The reply finds the URB it answers, or one that was never sent.          *)
LEMMA WriteImplements ==
  ASSUME IInv, ContractInv, WriteStep \/ \E u \in Urbs : Reply(u)
  PROVE  [Service!Next]_(Service!vars)
<1> USE DEF pdoVars, urbVars, irpVars, submitVars, wireVars, histVars
<1> DEFINE S == [u \in Urbs |-> StateOf(u)]
<1>1. /\ TypeOK /\ PacketInv /\ DistinctInv /\ WriteInv /\ HeldInv
      /\ packet \in [Urbs -> {"none", "out", "answered"}]
      /\ writeUrb \in Urbs \cup {None}
  BY DEF IInv, ContractInv, TypeOK, ThreadTypeOK, HistoryTypeOK
<1>2. ASSUME NEW w \in Urbs, Reply(w)
      PROVE  [Service!Next]_(Service!vars)
  <2>1. /\ UNCHANGED <<Present, Cancel, outcome, submit>> /\ packet[w] = "out"
        /\ packet' = [packet EXCEPT ![w] = "answered"]
    BY <1>2 DEF Reply, WriteChecked, WriteLost
  <2>2. S' = S
    BY <2>1, NothingEnds
  <2>3. Service!Answer(w)
    BY <2>1, <2>2 DEF Service!Answer, StateOf
  <2> QED BY <2>3 DEF Service!Next
<1>3. CASE WriteMiss \/ \E i \in DOMAIN ioctl_q : WriteClaim(i)
  <2>1. UNCHANGED <<Present, packet, Cancel, outcome, submit>>
    BY <1>3 DEF WriteMiss, WriteClaim
  <2> QED BY <2>1, NothingEnds, Unseen
<1>4. CASE WriteFinish
  <2>1. PICK w \in Urbs : w = writeUrb /\ writeUrb # None
    BY <1>1, <1>4 DEF WriteFinish, HeldInv
  <2>2. /\ UNCHANGED <<Present, packet, Cancel, submit>> /\ write = "finish"
        /\ Complete(w, IF send[w] THEN "answered" ELSE "unsent")
    BY <1>4, <2>1 DEF WriteFinish, FinishClaimed
  <2>3. Open(w) /\ submit[w] # "new"
    BY <1>1, <2>1 DEF HeldInv, Accepted
  <2>4. PICK v \in Urbs : /\ v = writeFor /\ packet[v] = "answered"
                          /\ pktSeq[v] = writeSeq /\ urb_seq[w] = writeSeq
    BY <1>1, <2>1, <2>2 DEF WriteInv
  <2>5. Drawn(v)
    BY <1>1, <2>4 DEF PacketInv, Drawn
  <2>6. CASE send[w]
    <3>1. pktSeq[w] = pktSeq[v] /\ Drawn(w)
      BY <1>1, <2>4, <2>6 DEF PacketInv, Drawn
    <3>2. w = v
      BY <1>1, <2>5, <3>1 DEF DistinctInv
    <3>3. packet[w] = "answered" /\ Complete(w, "answered") /\ "answered" \in Outcomes
      BY <2>2, <2>4, <2>6, <3>2 DEF Outcomes
    <3> QED BY <1>1, <2>2, <2>3, <3>3, EndStep
  <2>7. CASE ~send[w]
    <3>1. packet[w] = "none" /\ v # w
      BY <1>1, <2>4, <2>7 DEF PacketInv
    <3>2. Complete(w, "unsent") /\ "unsent" \in Outcomes
      BY <2>2, <2>7 DEF Outcomes
    <3> QED BY <1>1, <2>2, <2>3, <2>4, <3>1, <3>2, EndStep
  <2> QED BY <2>6, <2>7
<1> QED BY <1>2, <1>3, <1>4 DEF WriteStep

(* cancel_irp and complete_pending_irp may complete the same URB: the one   *)
(* that comes second changes nothing the sender has been promised.          *)
LEMMA OtherImplements ==
  ASSUME IInv, ContractInv,
         \/ \E u \in Urbs : IoCancelIrp(u)
         \/ CancelStep \/ UnplugMark \/ UnplugOther \/ UnplugStep
         \/ UNCHANGED vars
  PROVE  [Service!Next]_(Service!vars)
<1> USE DEF pdoVars, urbVars, irpVars, submitVars, wireVars, histVars
<1> DEFINE S == [u \in Urbs |-> StateOf(u)]
<1>1. /\ TypeOK /\ CancelInv /\ HeldInv /\ GoneInv
      /\ Cancel \in [Urbs -> BOOLEAN]
      /\ cancelUrb \in Urbs \cup {None} /\ drainUrb \in Urbs \cup {None}
  BY DEF IInv, ContractInv, TypeOK, DriverTypeOK, ThreadTypeOK
<1>2. ASSUME NEW w \in Urbs, IoCancelIrp(w)
      PROVE  [Service!Next]_(Service!vars)
  <2>1. /\ UNCHANGED <<Present, packet, outcome, submit>>
        /\ submit[w] # "new" /\ Open(w) /\ Cancel' = [Cancel EXCEPT ![w] = TRUE]
    BY <1>2 DEF IoCancelIrp, Open
  <2>2. StateOf(w) = "open" /\ S' = S
    BY <1>1, <2>1, NothingEnds, StateType
  <2>3. {u \in Urbs : Cancel'[u]} = {u \in Urbs : Cancel[u]} \cup {w}
    BY <1>1, <2>1
  <2>4. Service!Withdraw(w)
    BY <2>1, <2>2, <2>3 DEF Service!Withdraw, StateOf
  <2> QED BY <2>4 DEF Service!Next
<1>3. CASE \/ CancelFind \/ CancelMiss
           \/ UnplugRead \/ DrainBegin \/ DrainTake \/ DrainEnd
           \/ UnplugOther \/ UNCHANGED vars
  <2>1. UNCHANGED <<Present, packet, Cancel, outcome, submit>>
    BY <1>3 DEF CancelFind, CancelMiss, UnplugRead, DrainBegin, DrainTake,
          DrainEnd, UnplugOther, vars
  <2> QED BY <2>1, NothingEnds, Unseen
<1>4. CASE UnplugMark
  <2>1. UNCHANGED <<packet, Cancel, outcome, submit>> /\ Present' = FALSE
    BY <1>4 DEF UnplugMark
  <2>2. S' = S
    BY <2>1, NothingEnds
  <2>3. Service!Unplug
    BY <2>1, <2>2 DEF Service!Unplug, StateOf
  <2> QED BY <2>3 DEF Service!Next
<1>5. CASE CancelComplete
  <2>1. PICK w \in Urbs : w = cancelUrb /\ cancelUrb # None
    BY <1>1, <1>5 DEF CancelComplete
  <2>2. UNCHANGED <<Present, packet, Cancel, submit>> /\ Complete(w, "cancelled")
    BY <1>5, <2>1 DEF CancelComplete
  <2>3. submit[w] # "new" /\ Cancel[w] /\ (Open(w) \/ outcome[w] = <<"gone">>)
    BY <1>1, <2>1 DEF CancelInv, Accepted
  <2>4. CASE Open(w)
    BY <1>1, <2>2, <2>3, <2>4, EndStep DEF Outcomes
  <2>5. CASE outcome[w] = <<"gone">>
    <3>1. \A u \in Urbs : StateOf(u)' = StateOf(u)
      BY <1>1, <2>2, <2>5, OneEnds
    <3> QED BY <2>2, <3>1, Unseen
  <2> QED BY <2>3, <2>4, <2>5
<1>6. CASE DrainComplete
  <2>1. PICK w \in Urbs : w = drainUrb /\ drainUrb # None
    BY <1>1, <1>6 DEF DrainComplete
  <2>2. UNCHANGED <<Present, packet, Cancel, submit>> /\ Complete(w, "gone")
    BY <1>6, <2>1 DEF DrainComplete
  <2>3. /\ submit[w] # "new" /\ ~Present
        /\ Open(w) \/ outcome[w] = <<"cancelled">>
    BY <1>1, <2>1 DEF HeldInv, Accepted, GoneInv
  <2>4. CASE Open(w)
    BY <1>1, <2>2, <2>3, <2>4, EndStep DEF Outcomes
  <2>5. CASE outcome[w] = <<"cancelled">>
    <3>1. \A u \in Urbs : StateOf(u)' = StateOf(u)
      BY <1>1, <2>2, <2>5, OneEnds
    <3> QED BY <2>2, <3>1, Unseen
  <2> QED BY <2>3, <2>4, <2>5
<1> QED BY <1>2, <1>3, <1>4, <1>5, <1>6 DEF CancelStep, UnplugStep

(* Every URB ends at most once and for a reason, as UrbService promises.    *)
THEOREM Implements == Spec => ImplementsService
<1>1. Init => Service!Init
  BY DEF Init, Service!Init
<1>2. IInv /\ ContractInv /\ [Next]_vars => [Service!Next]_(Service!vars)
  BY SubmitImplements, ReadImplements, WriteImplements, OtherImplements DEF Next
<1> QED BY <1>1, <1>2, Invariant, ContractInvariant, PTL
        DEF Spec, ImplementsService, Service!Spec
=============================================================================
