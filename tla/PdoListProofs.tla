---------------------------- MODULE PdoListProofs ----------------------------
(***************************************************************************)
(* Proofs about PdoList, for any number of devices, file objects and ports *)
(* and whatever the PnP manager asks for.                                  *)
(***************************************************************************)
EXTENDS PdoList, SequenceLemmas, TLAPS

USE DEF busVars, pnpVars, callVars, doomVars

-----------------------------------------------------------------------------
(* Extensions                                                               *)

(* What the macros and assignments of the code do to an extension. *)
LEMMA ZeroedType == Zeroed \in Extension
BY DEF Zeroed, Extension, States

(* SET_NEW_PNP_STATE moves the state, and only the state.                   *)
LEMMA SetStateFields ==
  ASSUME NEW e \in Extension, NEW s \in States
  PROVE  /\ SetState(e, s) \in Extension
         /\ SetState(e, s).SerialNo = e.SerialNo
         /\ SetState(e, s).Present = e.Present
         /\ SetState(e, s).ReportedMissing = e.ReportedMissing
         /\ SetState(e, s).ParentFdo = e.ParentFdo
         /\ SetState(e, s).fo = e.fo
         /\ SetState(e, s).DevicePnPState = s
         /\ SetState(e, s).PreviousPnPState = e.DevicePnPState
BY DEF SetState, Extension

(* RESTORE_PREVIOUS_PNP_STATE does not forget what it restores.             *)
LEMMA RestoreStateFields ==
  ASSUME NEW e \in Extension
  PROVE  /\ RestoreState(e) \in Extension
         /\ RestoreState(e).SerialNo = e.SerialNo
         /\ RestoreState(e).Present = e.Present
         /\ RestoreState(e).ReportedMissing = e.ReportedMissing
         /\ RestoreState(e).ParentFdo = e.ParentFdo
         /\ RestoreState(e).fo = e.fo
         /\ RestoreState(e).DevicePnPState = e.PreviousPnPState
         /\ RestoreState(e).PreviousPnPState = e.PreviousPnPState
BY DEF RestoreState, Extension

(* The other changes leave an extension as well.                            *)
LEMMA FlagFields ==
  ASSUME NEW e \in Extension
  PROVE  /\ Absent(e) \in Extension
         /\ Missing(e) \in Extension
         /\ Orphan(e) \in Extension
         /\ Removed(e) \in Extension
<1>1. Absent(e) \in Extension
  BY DEF Absent, Extension
<1>2. Missing(e) \in Extension
  BY DEF Missing, Extension
<1>3. Orphan(e) \in Extension
  BY DEF Orphan, Extension
<1>4. Removed(e) \in Extension
  BY SetStateFields DEF Removed, States
<1> QED BY <1>1, <1>2, <1>3, <1>4

-----------------------------------------------------------------------------
(* The list                                                                 *)

LEMMA ListFacts ==
  ASSUME DriverTypeOK
  PROVE  /\ Len(ListOfPDOs) \in Nat
         /\ DOMAIN ListOfPDOs = 1..Len(ListOfPDOs)
         /\ \A i \in DOMAIN ListOfPDOs :
              ListOfPDOs[i] \in Pdos /\ InList(ListOfPDOs[i])
BY LenProperties, ElementOfSeq DEF DriverTypeOK, InList

(* IRP_MN_REMOVE_DEVICE takes its device off the list if it is there, and   *)
(* then counts it off.                                                      *)
LEMMA UnlinkEffect ==
  ASSUME DriverTypeOK, ListSound, RemoveUnlink
  PROVE  \/ /\ pdo[doomed].ParentFdo /\ InList(doomed)
            /\ ListOfPDOs' \in Seq(Pdos)
            /\ Len(ListOfPDOs') = Len(ListOfPDOs) - 1
            /\ NumPDOs' = NumPDOs - 1
            /\ Distinct(ListOfPDOs')
            /\ \A p \in Pdos : InList(p)' <=> InList(p) /\ p # doomed
         \/ ~pdo[doomed].ParentFdo /\ UNCHANGED <<ListOfPDOs, NumPDOs>>
<1>1. CASE ~pdo[doomed].ParentFdo
  BY <1>1 DEF RemoveUnlink
<1>2. CASE pdo[doomed].ParentFdo
  <2>1. PICK i \in DOMAIN ListOfPDOs :
          /\ ListOfPDOs[i] = doomed
          /\ ListOfPDOs' = RemoveAt(ListOfPDOs, i)
          /\ NumPDOs' = NumPDOs - 1
    BY <1>2 DEF RemoveUnlink
  <2>2. ListOfPDOs \in Seq(Pdos) /\ Distinct(ListOfPDOs)
    BY DEF DriverTypeOK, ListSound, Distinct
  <2>3. LET r == RemoveAt(ListOfPDOs, i) IN
        /\ ListOfPDOs[i] \in Pdos
        /\ r \in Seq(Pdos) /\ Len(r) = Len(ListOfPDOs) - 1
        /\ Distinct(r)
        /\ \A u \in Pdos :
             Holds(r, u) <=> Holds(ListOfPDOs, u) /\ u # ListOfPDOs[i]
    BY <2>2, RemoveAtDistinct
  <2> QED BY <1>2, <2>1, <2>3 DEF Holds, InList
<1> QED BY <1>1, <1>2

-----------------------------------------------------------------------------
(* What the steps have in common                                            *)

(* Steps that touch neither the list nor an extension nor a link, *)
Quiet ==
  \/ \E h \in Handles :
       \/ \E port \in Ports : PlugCheck(h, port)
       \/ PlugGiveUp(h) \/ PlugInvalidate(h)
       \/ UnplugMiss(h) \/ UnplugInvalidate(h)
       \/ CleanupTake(h) \/ CleanupLook(h)
       \/ ReadCheck(h) \/ ReadWait(h)
  \/ \E p \in Pdos : ReadServed(p)
  \/ RelationsNone
  \/ BusVanish

(* steps that take away a link between a file object and its device,       *)
Links ==
  \/ \E h \in Handles : CleanupForget(h) \/ CleanupPart(h)
  \/ RemoveLook \/ RemovePart \/ RemoveForget

(* and steps that change flags and states of many extensions. *)
Flags ==
  \/ \E h \in Handles, port \in Ports \cup {0} : UnplugMark(h, port)
  \/ \E h \in Handles : UnplugDrain(h)
  \/ Relations

(* Every step is of one of these kinds.                                     *)
LEMMA NextCases ==
  ASSUME Next
  PROVE  \/ Quiet
         \/ \E h \in Handles, p \in Pdos : PlugCreate(h, p)
         \/ \E h \in Handles : PlugInsert(h)
         \/ Flags
         \/ Links
         \/ \E p \in Pdos : PdoIrp(p)
         \/ RemoveUnlink
         \/ RemoveDelete
         \/ BusSurprise
         \/ BusRemove
BY DEF Next, NewCall, CallStep, RemoveStep, BusIrp, Quiet, Links, Flags

(* A quiet step lets the list, the extensions and the links be.             *)
LEMMA QuietEffect ==
  ASSUME Quiet
  PROVE  /\ UNCHANGED <<ListOfPDOs, NumPDOs, pdo, object, FsContext, node>>
         /\ UNCHANGED <<doomed, doomStep>>
         /\ bus' = bus \/ (bus = "started" /\ bus' = "vanishing")
<1>1. CASE \E h \in Handles : \/ CleanupTake(h) \/ CleanupLook(h)
                              \/ ReadCheck(h) \/ ReadWait(h)
  BY <1>1 DEF CleanupTake, CleanupLook, ReadCheck, ReadWait
<1>2. CASE \E h \in Handles : \/ \E port \in Ports : PlugCheck(h, port)
                              \/ PlugGiveUp(h) \/ PlugInvalidate(h)
  BY <1>2 DEF PlugCheck, PlugGiveUp, PlugInvalidate
<1>3. CASE \E h \in Handles : UnplugMiss(h) \/ UnplugInvalidate(h)
  BY <1>3 DEF UnplugMiss, UnplugInvalidate
<1>4. CASE (\E p \in Pdos : ReadServed(p)) \/ RelationsNone \/ BusVanish
  BY <1>4 DEF ReadServed, RelationsNone, BusVanish
<1> QED BY <1>1, <1>2, <1>3, <1>4 DEF Quiet

(* One extension after one of the flag steps. *)
Flagged(e) == {e, Absent(e), Removed(e), Missing(e)}

(* A flag, once it says absent or missing, stays.                           *)
LEMMA FlaggedFields ==
  ASSUME NEW e \in Extension, NEW f \in Flagged(e)
  PROVE  /\ f \in Extension
         /\ f.ParentFdo = e.ParentFdo
         /\ f.fo = e.fo
         /\ f.Present => e.Present
         /\ e.ReportedMissing => f.ReportedMissing
<1>1. f \in Extension
  BY FlagFields DEF Flagged
<1>2. CASE f = Removed(e)
  BY <1>1, <1>2, SetStateFields DEF Removed, States
<1>3. CASE f = Absent(e) \/ f = Missing(e) \/ f = e
  BY <1>1, <1>3 DEF Absent, Missing, Extension
<1> QED BY <1>1, <1>2, <1>3 DEF Flagged

(* A flag step flags devices of the list only.                              *)
LEMMA FlagsEffect ==
  ASSUME DriverTypeOK, Flags
  PROVE  /\ UNCHANGED <<ListOfPDOs, NumPDOs, object, FsContext, bus>>
         /\ UNCHANGED <<doomed, doomStep>>
         /\ pdo' \in [Pdos -> Extension]
         /\ \A p \in Pdos : pdo'[p] \in Flagged(pdo[p])
         /\ \A p \in Pdos : InList(p) \/ pdo'[p] = pdo[p]
         /\ \A p \in Pdos : \/ node'[p] = node[p]
                            \/ InList(p) /\ doomed = None /\ node'[p] = "new"
<1>0. pdo \in [Pdos -> Extension]
  BY DEF DriverTypeOK
<1> DEFINE R == /\ pdo' = [p \in Pdos |-> pdo'[p]]
                /\ \A p \in Pdos : pdo'[p] \in Flagged(pdo[p])
                /\ \A p \in Pdos : InList(p) \/ pdo'[p] = pdo[p]
                /\ \A p \in Pdos :
                     \/ node'[p] = node[p]
                     \/ InList(p) /\ doomed = None /\ node'[p] = "new"
<1>1. ASSUME NEW h \in Handles, NEW port \in Ports \cup {0}, UnplugMark(h, port)
      PROVE  R /\ UNCHANGED <<ListOfPDOs, NumPDOs, object, FsContext, bus,
                              doomed, doomStep>>
  BY <1>1 DEF UnplugMark, Changed, Flagged, InList, Found
<1>2. ASSUME NEW h \in Handles, UnplugDrain(h)
      PROVE  R /\ UNCHANGED <<ListOfPDOs, NumPDOs, object, FsContext, bus,
                              doomed, doomStep>>
  BY <1>2 DEF UnplugDrain, Changed, Flagged
<1>3. ASSUME Relations
      PROVE  R /\ UNCHANGED <<ListOfPDOs, NumPDOs, object, FsContext, bus,
                              doomed, doomStep>>
  BY <1>3 DEF Relations, Changed, Flagged
<1>4. R /\ UNCHANGED <<ListOfPDOs, NumPDOs, object, FsContext, bus,
                       doomed, doomStep>>
  BY <1>1, <1>2, <1>3 DEF Flags
<1>5. \A p \in Pdos : pdo'[p] \in Extension
  BY <1>0, <1>4, FlaggedFields
<1> QED BY <1>4, <1>5

(* An IRP for one device. *)
IrpFrame(p) ==
  /\ object[p] = "created" /\ node[p] # "unknown" /\ doomed = None
  /\ UNCHANGED <<ListOfPDOs, NumPDOs, object, FsContext, bus>>
  /\ UNCHANGED <<pending_read, open, call, arg, mine>>
  /\ \A q \in Pdos \ {p} : node'[q] = node[q]
  /\ node'[p] # "unknown"

(* What Irp does, for the nodes an IRP goes to.                             *)
LEMMA IrpEffect ==
  ASSUME TypeOK, NEW p \in Pdos, NEW from, NEW to, Irp(p, from, to),
         "unknown" \notin from, to # "unknown"
  PROVE  IrpFrame(p) /\ node'[p] = to
BY DEF Irp, IrpFrame, TypeOK, PnPTypeOK

(* It keeps what links an extension to the bus and to a file object. *)
Kept(e, f) ==
  /\ f \in Extension
  /\ f.ParentFdo = e.ParentFdo /\ f.fo = e.fo
  /\ f.ReportedMissing = e.ReportedMissing
  /\ f.Present => e.Present

(* What the IRPs do to an extension keeps the links.                        *)
LEMMA KeptBy ==
  ASSUME NEW e \in Extension
  PROVE  /\ Kept(e, e) /\ Kept(e, Absent(e))
         /\ \A s \in States : Kept(e, SetState(e, s))
         /\ \A query : Kept(e, Cancelled(e, query))
<1>1. Kept(e, e) /\ Kept(e, RestoreState(e))
  BY RestoreStateFields DEF Kept
<1>2. Kept(e, Absent(e))
  BY FlagFields DEF Kept, Absent, Extension
<1>3. \A s \in States : Kept(e, SetState(e, s))
  BY SetStateFields DEF Kept
<1>4. \A query : Kept(e, Cancelled(e, query))
  BY <1>1 DEF Cancelled
<1> QED BY <1>1, <1>2, <1>3, <1>4

(* An IRP changes one device, which has been reported to the PnP manager.   *)
LEMMA PdoIrpEffect ==
  ASSUME TypeOK, NEW p \in Pdos, PdoIrp(p)
  PROVE  /\ IrpFrame(p)
         /\ pdo' \in [Pdos -> Extension]
         /\ \A q \in Pdos \ {p} : pdo'[q] = pdo[q]
         /\ Kept(pdo[p], pdo'[p])
         /\ \/ UNCHANGED <<doomed, doomStep>>
            \/ /\ doomed' = p /\ doomStep' = "marked"
               /\ node'[p] = "gone" /\ pdo[p].ReportedMissing
<1>0. pdo \in [Pdos -> Extension] /\ pdo[p] \in Extension
  BY DEF TypeOK, DriverTypeOK
<1> DEFINE E == \E e : Kept(pdo[p], e) /\ pdo' = [pdo EXCEPT ![p] = e]
           S == \/ UNCHANGED <<doomed, doomStep>>
                \/ /\ doomed' = p /\ doomStep' = "marked"
                   /\ node'[p] = "gone" /\ pdo[p].ReportedMissing
<1>1. {"NotStarted", "Started", "StopPending", "Stopped", "RemovePending",
       "SurpriseRemovePending", "Deleted"} \subseteq States
  BY DEF States
<1>2. CASE Start(p)
  <2>1. IrpFrame(p)
    BY <1>2, IrpEffect DEF Start
  <2>2. E
    BY <1>2, <1>0, <1>1, KeptBy DEF Start, Put
  <2>3. S
    BY <1>2 DEF Start
  <2> QED BY <2>1, <2>2, <2>3, <1>0 DEF Kept
<1>3. CASE QueryStop(p)
  <2>1. IrpFrame(p)
    BY <1>3, IrpEffect DEF QueryStop
  <2>2. E
    BY <1>3, <1>0, <1>1, KeptBy DEF QueryStop, Put
  <2>3. S
    BY <1>3 DEF QueryStop
  <2> QED BY <2>1, <2>2, <2>3, <1>0 DEF Kept
<1>4. CASE CancelStop(p)
  <2>1. IrpFrame(p)
    BY <1>4, IrpEffect DEF CancelStop
  <2>2. E
    BY <1>4, <1>0, <1>1, KeptBy DEF CancelStop, Put
  <2>3. S
    BY <1>4 DEF CancelStop
  <2> QED BY <2>1, <2>2, <2>3, <1>0 DEF Kept
<1>5. CASE Stop(p)
  <2>1. IrpFrame(p)
    BY <1>5, IrpEffect DEF Stop
  <2>2. E
    BY <1>5, <1>0, <1>1, KeptBy DEF Stop, Put
  <2>3. S
    BY <1>5 DEF Stop
  <2> QED BY <2>1, <2>2, <2>3, <1>0 DEF Kept
<1>6. CASE QueryRemove(p)
  <2>1. IrpFrame(p)
    BY <1>6, IrpEffect DEF QueryRemove
  <2>2. E
    BY <1>6, <1>0, <1>1, KeptBy DEF QueryRemove, Put
  <2>3. S
    BY <1>6 DEF QueryRemove
  <2> QED BY <2>1, <2>2, <2>3, <1>0 DEF Kept
<1>7. CASE CancelRemove(p)
  <2>1. IrpFrame(p)
    BY <1>7, IrpEffect DEF CancelRemove
  <2>2. E
    BY <1>7, <1>0, <1>1, KeptBy DEF CancelRemove, Put
  <2>3. S
    BY <1>7 DEF CancelRemove
  <2> QED BY <2>1, <2>2, <2>3, <1>0 DEF Kept
<1>8. CASE RemoveDisable(p)
  <2>1. IrpFrame(p)
    BY <1>8, IrpEffect DEF RemoveDisable
  <2>2. E
    BY <1>8, <1>0, <1>1, KeptBy DEF RemoveDisable, Put
  <2>3. S
    BY <1>8 DEF RemoveDisable
  <2> QED BY <2>1, <2>2, <2>3, <1>0 DEF Kept
<1>9. CASE Eject(p)
  <2>1. IrpFrame(p)
    BY <1>9, IrpEffect DEF Eject
  <2>2. E
    BY <1>9, <1>0, <1>1, KeptBy DEF Eject, Put
  <2>3. S
    BY <1>9 DEF Eject
  <2> QED BY <2>1, <2>2, <2>3, <1>0 DEF Kept
<1>10. CASE SurpriseRemoval(p)
  <2>1. IrpFrame(p)
    BY <1>10, IrpEffect DEF SurpriseRemoval
  <2>2. E
    BY <1>10, <1>0, <1>1, KeptBy DEF SurpriseRemoval, Put
  <2>3. S
    BY <1>10 DEF SurpriseRemoval
  <2> QED BY <2>1, <2>2, <2>3, <1>0 DEF Kept
<1>11. CASE RemoveMissing(p)
  <2>1. IrpFrame(p) /\ S
    BY <1>11, IrpEffect DEF RemoveMissing
  <2>2. E
    BY <1>11, <1>0, <1>1, KeptBy DEF RemoveMissing, Put
  <2> QED BY <2>1, <2>2, <1>0 DEF Kept
<1> QED BY <1>2, <1>3, <1>4, <1>5, <1>6, <1>7, <1>8, <1>9, <1>10, <1>11 DEF PdoIrp

(* A device enters the list, *)
LEMMA InsertEffect ==
  ASSUME IInv, NEW h \in Handles, PlugInsert(h)
  PROVE  LET p == mine[h] IN
         /\ p \in Pdos /\ ~InList(p)
         /\ object[p] = "created" /\ node[p] = "unknown" /\ FsContext[h] = p
         /\ pdo[p] = Zeroed
         /\ ListOfPDOs' \in Seq(Pdos) /\ Distinct(ListOfPDOs')
         /\ Len(ListOfPDOs') = Len(ListOfPDOs) + 1
         /\ \A q \in Pdos : InList(q)' <=> InList(q) \/ q = p
         /\ pdo' \in [Pdos -> Extension]
         /\ \A q \in Pdos \ {p} : pdo'[q] = pdo[q]
         /\ pdo'[p] = [Zeroed EXCEPT !.SerialNo = arg[h], !.Present = TRUE,
                                     !.ParentFdo = TRUE, !.fo = h]
<1> DEFINE p == mine[h]
           new == [Zeroed EXCEPT !.SerialNo = arg[h], !.Present = TRUE,
                                 !.ParentFdo = TRUE, !.fo = h]
<1>1. call[h] = "insert" /\ pdo' = [pdo EXCEPT ![p] = new]
  BY DEF PlugInsert
<1>2. /\ p \in Pdos /\ object[p] = "created" /\ node[p] = "unknown"
      /\ FsContext[h] = p /\ pdo[p] = Zeroed
  BY <1>1 DEF IInv, CallInv
<1>3. ~InList(p)
  BY <1>2 DEF IInv, ListSound, InList, Zeroed
<1>4. /\ ListOfPDOs \in Seq(Pdos) /\ Distinct(ListOfPDOs)
      /\ ~Holds(ListOfPDOs, p) /\ ListOfPDOs' = Append(ListOfPDOs, p)
  BY <1>3 DEF IInv, TypeOK, DriverTypeOK, ListSound, Distinct, Holds, InList,
              PlugInsert
<1>5. LET r == Append(ListOfPDOs, p) IN
      /\ r \in Seq(Pdos) /\ Len(r) = Len(ListOfPDOs) + 1
      /\ Distinct(r)
      /\ \A q \in Pdos : Holds(r, q) <=> Holds(ListOfPDOs, q) \/ q = p
  BY <1>2, <1>4, AppendDistinct
<1>6. new \in Extension
  <2>1. arg[h] \in Ports \cup {0}
    BY DEF IInv, TypeOK, CallTypeOK
  <2> QED BY <2>1 DEF Zeroed, Extension, States
<1>7. pdo \in [Pdos -> Extension]
  BY DEF IInv, TypeOK, DriverTypeOK
<1> HIDE DEF new
<1>8. pdo' \in [Pdos -> Extension] /\ pdo'[p] = new
      /\ \A q \in Pdos \ {p} : pdo'[q] = pdo[q]
  BY <1>1, <1>2, <1>6, <1>7
<1>9. \A q \in Pdos : InList(q)' <=> InList(q) \/ q = p
  BY <1>4, <1>5 DEF Holds, InList
<1> QED BY <1>2, <1>3, <1>4, <1>5, <1>8, <1>9 DEF new

(* a link is taken away, *)
LEMMA LinksEffect ==
  ASSUME IInv, Links
  PROVE  /\ UNCHANGED <<ListOfPDOs, NumPDOs, object, node, bus, rescan>>
         /\ UNCHANGED <<doomed, pending_read, stranded, open, arg, mine>>
         /\ \/ doomStep' = doomStep
            \/ doomed # None /\ doomStep # "marked" /\ doomStep' # "marked"
         /\ pdo' \in [Pdos -> Extension]
         /\ \A p \in Pdos :
              /\ pdo'[p].ParentFdo = pdo[p].ParentFdo
              /\ pdo'[p].ReportedMissing = pdo[p].ReportedMissing
              /\ pdo'[p].Present = pdo[p].Present
              /\ pdo'[p].DevicePnPState = pdo[p].DevicePnPState
              /\ pdo'[p].PreviousPnPState = pdo[p].PreviousPnPState
         /\ FsContext' \in [Handles -> Pdos \cup {None}]
<1>0. /\ pdo \in [Pdos -> Extension]
      /\ FsContext \in [Handles -> Pdos \cup {None}]
      /\ doomed \in Pdos \cup {None}
  BY DEF IInv, TypeOK, DriverTypeOK, PnPTypeOK
<1>1. \/ pdo' = pdo
      \/ \E p \in Pdos : pdo' = [pdo EXCEPT ![p].fo = None]
  <2>1. \A h \in Handles : CleanupForget(h) => mine[h] \in Pdos
    BY DEF IInv, CallInv, CleanupForget
  <2>2. RemoveForget => doomed \in Pdos
    BY <1>0 DEF RemoveForget
  <2> QED
    BY <2>1, <2>2
    DEF Links, CleanupForget, CleanupPart, RemoveLook, RemovePart, RemoveForget
<1>2. pdo' \in [Pdos -> Extension]
  BY <1>0, <1>1 DEF Extension
<1>3. \A p \in Pdos :
        /\ pdo'[p].ParentFdo = pdo[p].ParentFdo
        /\ pdo'[p].ReportedMissing = pdo[p].ReportedMissing
        /\ pdo'[p].Present = pdo[p].Present
        /\ pdo'[p].DevicePnPState = pdo[p].DevicePnPState
        /\ pdo'[p].PreviousPnPState = pdo[p].PreviousPnPState
  BY <1>0, <1>1 DEF Extension
<1>4. FsContext' \in [Handles -> Pdos \cup {None}]
  BY <1>0
  DEF Links, CleanupForget, CleanupPart, RemoveLook, RemovePart, RemoveForget
<1>5. \/ doomStep' = doomStep
      \/ doomed # None /\ doomStep # "marked" /\ doomStep' # "marked"
  BY DEF Links, CleanupForget, CleanupPart, RemoveLook, RemovePart, RemoveForget
<1>6. /\ UNCHANGED <<ListOfPDOs, NumPDOs, object, node, bus, rescan>>
      /\ UNCHANGED <<doomed, pending_read, stranded, open, arg, mine>>
  BY DEF Links, CleanupForget, CleanupPart, RemoveLook, RemovePart, RemoveForget
<1> QED BY <1>2, <1>3, <1>4, <1>5, <1>6

(* a device is deleted, and *)
LEMMA DeleteEffect ==
  ASSUME IInv, RemoveDelete
  PROVE  /\ doomed \in Pdos /\ object[doomed] = "created" /\ ~InList(doomed)
         /\ node[doomed] = "gone" /\ pdo[doomed].ReportedMissing
         /\ pdo[doomed].fo = None
         /\ pdo' \in [Pdos -> Extension] /\ pdo'[doomed] = Zeroed
         /\ object'[doomed] = "deleted"
         /\ \A q \in Pdos \ {doomed} :
              /\ pdo'[q] = pdo[q] /\ object'[q] = object[q]
              /\ pending_read'[q] = pending_read[q]
              /\ q \in stranded' <=> q \in stranded
         /\ doomed' = None /\ doomStep' = "marked"
         /\ UNCHANGED <<ListOfPDOs, NumPDOs, FsContext, node, bus, rescan>>
         /\ UNCHANGED <<open, call, arg, mine>>
<1>1. /\ doomed \in Pdos /\ object[doomed] = "created" /\ ~InList(doomed)
      /\ node[doomed] = "gone" /\ pdo[doomed].ReportedMissing
      /\ pdo[doomed].fo = None
  BY DEF IInv, TypeOK, PnPTypeOK, LinkInv, DoomInv, RemoveDelete
<1>2. pdo' \in [Pdos -> Extension] /\ pdo'[doomed] = Zeroed
      /\ \A q \in Pdos \ {doomed} : pdo'[q] = pdo[q]
  BY <1>1, ZeroedType
     DEF IInv, TypeOK, DriverTypeOK, RemoveDelete, Changed, Freed
<1>3. /\ object'[doomed] = "deleted"
      /\ \A q \in Pdos \ {doomed} : object'[q] = object[q]
  BY <1>1 DEF RemoveDelete, IoDeleteDevice
<1>4. \A q \in Pdos \ {doomed} :
        /\ pending_read'[q] = pending_read[q]
        /\ q \in stranded' <=> q \in stranded
  BY <1>1 DEF IInv, TypeOK, DriverTypeOK, RemoveDelete, IoDeleteDevice
<1> QED BY <1>1, <1>2, <1>3, <1>4 DEF RemoveDelete

(* all leave it. *)
LEMMA OrphanFields ==
  ASSUME NEW e \in Extension
  PROVE  /\ Orphan(e) \in Extension
         /\ ~Orphan(e).ParentFdo /\ Orphan(e).ReportedMissing
         /\ Orphan(e).fo = e.fo /\ Orphan(e).Present = e.Present
         /\ Orphan(e).DevicePnPState = e.DevicePnPState
         /\ Orphan(e).PreviousPnPState = e.PreviousPnPState
BY FlagFields DEF Orphan, Extension

(* A surprise removal of the bus orphans what is in the list.               *)
LEMMA BusSurpriseEffect ==
  ASSUME IInv, BusSurprise
  PROVE  /\ ListOfPDOs' \in Seq(Pdos) /\ Len(ListOfPDOs') = 0
         /\ \A p \in Pdos : ~InList(p)'
         /\ doomed = None /\ bus' = "surprised"
         /\ UNCHANGED <<NumPDOs, object, pending_read, FsContext, node>>
         /\ UNCHANGED <<doomed, doomStep, open, call, arg, mine, stranded>>
         /\ pdo' \in [Pdos -> Extension]
         /\ \A p \in Pdos :
              pdo'[p] = IF InList(p) THEN Orphan(pdo[p]) ELSE pdo[p]
<1>1. ListOfPDOs' = <<>>
  BY DEF BusSurprise
<1>2. \A p \in Pdos : pdo'[p] = IF InList(p) THEN Orphan(pdo[p]) ELSE pdo[p]
  BY DEF BusSurprise, Changed
<1>3. pdo' \in [Pdos -> Extension]
  BY OrphanFields DEF IInv, TypeOK, DriverTypeOK, BusSurprise, Changed
<1>4. \A p \in Pdos : ~InList(p)'
  BY <1>1 DEF InList
<1>5. ListOfPDOs' \in Seq(Pdos) /\ Len(ListOfPDOs') = 0
  BY <1>1
<1> QED BY <1>2, <1>3, <1>4, <1>5 DEF BusSurprise

(* A removal of the bus deletes it, or spares it.                           *)
LEMMA BusRemoveEffect ==
  ASSUME IInv, BusRemove
  PROVE  LET deleted == {p \in Pdos : InList(p)} \ Spared IN
         /\ ListOfPDOs' \in Seq(Pdos) /\ Len(ListOfPDOs') = 0
         /\ NumPDOs' \in Nat
         /\ \A p \in Pdos : ~InList(p)'
         /\ doomed = None /\ bus' = "removed"
         /\ \A h \in Handles : call[h] = "idle"
         /\ UNCHANGED <<doomed, doomStep, open, call, arg, mine>>
         /\ pdo' \in [Pdos -> Extension]
         /\ FsContext' = Parted(deleted)
         /\ \A p \in Pdos :
              \/ /\ p \in deleted
                 /\ pdo'[p] = Zeroed /\ object'[p] = "deleted"
                 /\ node'[p] = "gone"
              \/ /\ p \notin deleted
                 /\ \/ InList(p) /\ pdo'[p] = Orphan(pdo[p])
                    \/ ~InList(p) /\ pdo'[p] = pdo[p]
                 /\ object'[p] = object[p] /\ node'[p] = node[p]
                 /\ pending_read'[p] = pending_read[p]
                 /\ p \in stranded' <=> p \in stranded
<1> DEFINE deleted == {p \in Pdos : InList(p)} \ Spared
<1>1. ListOfPDOs' = <<>>
  BY DEF BusRemove
<1>2. NumPDOs' \in Nat
  <2>1. ListOfPDOs \in Seq(Pdos) /\ NumPDOs \in Nat /\ NumPDOs >= Len(ListOfPDOs)
    BY DEF IInv, TypeOK, DriverTypeOK, CountMatches
  <2>2. deleted \in SUBSET Pdos /\ \A p \in deleted : Holds(ListOfPDOs, p)
    BY DEF InList, Holds
  <2>3. Cardinality(deleted) \in Nat /\ Cardinality(deleted) <= Len(ListOfPDOs)
    BY <2>1, <2>2, ElementsBounded
  <2>4. NumPDOs' = NumPDOs - Cardinality(deleted)
    BY DEF BusRemove
  <2>5. Len(ListOfPDOs) \in Nat
    BY <2>1, LenProperties
  <2> QED BY <2>1, <2>3, <2>4, <2>5
<1>3. \A p \in Pdos :
        pdo'[p] = IF p \in Spared THEN Orphan(pdo[p])
                  ELSE IF p \in deleted THEN Zeroed ELSE pdo[p]
  BY DEF BusRemove
<1>4. pdo \in [Pdos -> Extension]
  BY DEF IInv, TypeOK, DriverTypeOK
<1>5. \A p \in Pdos : pdo'[p] \in Extension
  BY <1>3, <1>4, OrphanFields, ZeroedType
<1>6. pdo' \in [Pdos -> Extension]
  <2>1. pdo' = [p \in Pdos |-> pdo'[p]]
    BY DEF BusRemove
  <2> QED BY <1>5, <2>1
<1>7. \A p \in Pdos : p \in Spared => InList(p)
  BY DEF Spared
<1>8. \A p \in Pdos :
        /\ p \in deleted => object'[p] = "deleted" /\ node'[p] = "gone"
        /\ p \notin deleted =>
             /\ object'[p] = object[p] /\ node'[p] = node[p]
             /\ pending_read'[p] = pending_read[p]
             /\ p \in stranded' <=> p \in stranded
  BY DEF BusRemove, IoDeleteDevice, IInv, TypeOK, DriverTypeOK
<1>9. FsContext' = Parted(deleted) /\ doomed = None /\ bus' = "removed"
      /\ (\A h \in Handles : call[h] = "idle")
      /\ UNCHANGED <<doomed, doomStep, open, call, arg, mine>>
  BY DEF BusRemove, IoDeleteDevice
<1>10. \A p \in Pdos : ~InList(p)'
  BY <1>1 DEF InList
<1> HIDE DEF deleted
<1>11. \A p \in Pdos :
         \/ p \in deleted /\ p \notin Spared
         \/ p \notin deleted /\ (InList(p) => p \in Spared)
  BY DEF deleted
<1>12. ListOfPDOs' \in Seq(Pdos) /\ Len(ListOfPDOs') = 0
  BY <1>1
<1>13. \A p \in Pdos :
         \/ p \in deleted /\ pdo'[p] = Zeroed
         \/ /\ p \notin deleted
            /\ \/ InList(p) /\ pdo'[p] = Orphan(pdo[p])
               \/ ~InList(p) /\ pdo'[p] = pdo[p]
  BY <1>3, <1>7, <1>11
<1> QED BY <1>2, <1>6, <1>8, <1>9, <1>10, <1>12, <1>13 DEF deleted

-----------------------------------------------------------------------------
(* Initially *)
LEMMA InitIInv == Init => IInv
<1> SUFFICES ASSUME Init PROVE IInv
  OBVIOUS
<1>1. TypeOK
  BY ZeroedType, ConstantsAssumption
     DEF Init, TypeOK, DriverTypeOK, PnPTypeOK, CallTypeOK
<1>2. Len(ListOfPDOs) = 0 /\ \A i \in DOMAIN ListOfPDOs : FALSE
  BY DEF Init
<1>3. ListSound /\ CountMatches
  BY <1>2 DEF Init, ListSound, CountMatches
<1>4. ContextMatches /\ StatesAgree
  BY DEF Init, ContextMatches, StatesAgree, Zeroed
<1>5. LinkInv /\ CallInv /\ DoomInv
  BY DEF Init, LinkInv, CallInv, DoomInv, Zeroed
<1>6. StateInv /\ ReadInv
  BY DEF Init, StateInv, ReadInv, Zeroed
<1> QED BY <1>1, <1>3, <1>4, <1>5, <1>6 DEF IInv

-----------------------------------------------------------------------------
(* The list and its counter                                                 *)

Sound ==
  /\ Distinct(ListOfPDOs)
  /\ \A p \in Pdos : InList(p) => object[p] = "created" /\ pdo[p].ParentFdo

(* The list is sound if its members are.                                    *)
LEMMA SoundIff == DriverTypeOK => (ListSound <=> Sound)
BY ListFacts DEF ListSound, Sound, InList, Distinct

ListInv == ListSound /\ CountMatches /\ LinkInv

(* Every step keeps the list sound, the counter right, the links closed.    *)
LEMMA ListStep ==
  ASSUME IInv, Next, DriverTypeOK'
  PROVE  ListInv'
<1> DEFINE L == Len(ListOfPDOs)
<1>0. /\ DriverTypeOK /\ PnPTypeOK
      /\ Sound /\ CountMatches /\ LinkInv /\ L \in Nat /\ NumPDOs \in Nat
  BY SoundIff, ListFacts DEF IInv, TypeOK, DriverTypeOK
<1>s. SUFFICES (Sound /\ CountMatches /\ LinkInv)'
  <2>1. (DriverTypeOK => (ListSound <=> Sound))'
    BY SoundIff, PTL
  <2> QED BY <2>1 DEF ListInv
<1> USE DEF Sound, CountMatches, LinkInv
<1>1. CASE Quiet
  BY <1>0, <1>1, QuietEffect DEF InList
<1>2. ASSUME NEW h \in Handles, NEW p \in Pdos, PlugCreate(h, p)
      PROVE  (Sound /\ CountMatches /\ LinkInv)'
  BY <1>0, <1>2 DEF PlugCreate, InList, DriverTypeOK
<1>3. ASSUME NEW h \in Handles, PlugInsert(h)
      PROVE  (Sound /\ CountMatches /\ LinkInv)'
  <2>1. /\ UNCHANGED <<object, node, bus, doomed, doomStep>>
        /\ NumPDOs' = NumPDOs + 1
    BY <1>3 DEF PlugInsert
  <2>2. LET p == mine[h] IN
        /\ p \in Pdos /\ ~InList(p) /\ object[p] = "created"
        /\ node[p] = "unknown" /\ Distinct(ListOfPDOs')
        /\ Len(ListOfPDOs') = L + 1
        /\ \A q \in Pdos : InList(q)' <=> InList(q) \/ q = p
        /\ \A q \in Pdos \ {p} : pdo'[q] = pdo[q]
        /\ pdo'[p].ParentFdo
    BY <1>3, InsertEffect DEF Zeroed
  <2>3. Sound'
    BY <1>0, <2>1, <2>2
  <2>4. CountMatches'
    BY <1>0, <2>1, <2>2
  <2>5. LinkInv'
    BY <1>0, <2>1, <2>2 DEF PnPTypeOK
  <2> QED BY <2>3, <2>4, <2>5
<1>4. CASE Flags
  <2>1. /\ UNCHANGED <<ListOfPDOs, NumPDOs, object, bus, doomed, doomStep>>
        /\ \A p \in Pdos : /\ pdo'[p].ParentFdo = pdo[p].ParentFdo
                           /\ pdo[p].ReportedMissing => pdo'[p].ReportedMissing
                           /\ node'[p] = node[p] \/ doomed = None
    BY <1>0, <1>4, FlagsEffect, FlaggedFields DEF DriverTypeOK
  <2> QED BY <1>0, <2>1 DEF InList, PnPTypeOK
<1>5. CASE Links
  <2>1. /\ UNCHANGED <<ListOfPDOs, NumPDOs, object, bus, node, doomed>>
        /\ \A p \in Pdos : /\ pdo'[p].ParentFdo = pdo[p].ParentFdo
                           /\ pdo'[p].ReportedMissing = pdo[p].ReportedMissing
        /\ \/ doomStep' = doomStep
           \/ doomed # None /\ doomStep # "marked" /\ doomStep' # "marked"
    BY <1>5, LinksEffect
  <2> QED BY <1>0, <2>1 DEF InList, PnPTypeOK
<1>6. ASSUME NEW p \in Pdos, PdoIrp(p)
      PROVE  (Sound /\ CountMatches /\ LinkInv)'
  <2>1. /\ UNCHANGED <<ListOfPDOs, NumPDOs, object, bus>>
        /\ doomed = None /\ object[p] = "created"
        /\ \A q \in Pdos : /\ pdo'[q].ParentFdo = pdo[q].ParentFdo
                           /\ pdo'[q].ReportedMissing = pdo[q].ReportedMissing
        /\ \/ UNCHANGED <<doomed, doomStep>>
           \/ /\ doomed' = p /\ doomStep' = "marked"
              /\ node'[p] = "gone" /\ pdo[p].ReportedMissing
    BY <1>6, PdoIrpEffect DEF IInv, IrpFrame, Kept
  <2>2. \A q \in Pdos : InList(q)' <=> InList(q)
    BY <2>1 DEF InList
  <2>3. Sound' /\ CountMatches'
    BY <1>0, <2>1, <2>2
  <2>4. LinkInv'
    BY <1>0, <2>1, <2>2, ConstantsAssumption
  <2> QED BY <2>3, <2>4
<1>7. CASE RemoveUnlink
  <2>1. /\ UNCHANGED <<pdo, object, node, bus, doomed>>
        /\ doomed \in Pdos /\ doomStep = "marked" /\ doomStep' = "unlinked"
    BY <1>0, <1>7 DEF RemoveUnlink, PnPTypeOK
  <2>2. CASE ~pdo[doomed].ParentFdo /\ UNCHANGED <<ListOfPDOs, NumPDOs>>
    BY <1>0, <2>1, <2>2 DEF InList
  <2>3. CASE /\ pdo[doomed].ParentFdo /\ InList(doomed)
             /\ Len(ListOfPDOs') = L - 1 /\ NumPDOs' = NumPDOs - 1
             /\ Distinct(ListOfPDOs')
             /\ \A p \in Pdos : InList(p)' <=> InList(p) /\ p # doomed
    <3>1. Sound' /\ LinkInv'
      BY <1>0, <2>1, <2>3
    <3>2. CountMatches'
      BY <1>0, <2>1, <2>3
    <3> QED BY <3>1, <3>2
  <2>4. ListSound
    BY DEF IInv
  <2> QED BY <1>0, <1>7, <2>2, <2>3, <2>4, UnlinkEffect
<1>8. CASE RemoveDelete
  <2>1. \A q \in Pdos : InList(q)' <=> InList(q)
    BY <1>8, DeleteEffect DEF InList
  <2>2. /\ doomed \in Pdos /\ ~InList(doomed)
        /\ pdo'[doomed] = Zeroed
        /\ \A q \in Pdos \ {doomed} : pdo'[q] = pdo[q] /\ object'[q] = object[q]
        /\ doomed' = None
        /\ UNCHANGED <<ListOfPDOs, NumPDOs, bus>>
    BY <1>8, DeleteEffect
  <2> QED BY <1>0, <2>1, <2>2 DEF Zeroed
<1>9. CASE BusSurprise
  <2>1. /\ Distinct(ListOfPDOs') /\ Len(ListOfPDOs') = 0
        /\ \A p \in Pdos : ~InList(p)'
        /\ bus' = "surprised" /\ doomed' = None
        /\ NumPDOs' = NumPDOs
        /\ \A p \in Pdos : ~pdo'[p].ParentFdo
    <3>1. \A p \in Pdos : pdo[p] \in Extension
      BY <1>0 DEF DriverTypeOK
    <3>2. \A p \in Pdos : ~InList(p) => ~pdo[p].ParentFdo
      BY <1>0, <1>9, BusSurpriseEffect, ConstantsAssumption
    <3>3. Distinct(ListOfPDOs')
      BY <1>9, BusSurpriseEffect, LenProperties DEF Distinct
    <3> QED BY <1>9, <3>1, <3>2, <3>3, BusSurpriseEffect, OrphanFields
  <2> QED BY <1>0, <2>1
<1>10. CASE BusRemove
  <2>1. /\ Distinct(ListOfPDOs') /\ Len(ListOfPDOs') = 0
        /\ \A p \in Pdos : ~InList(p)'
        /\ bus' = "removed" /\ doomed' = None
        /\ NumPDOs' \in Nat
        /\ \A p \in Pdos : ~pdo'[p].ParentFdo
    <3>1. \A p \in Pdos : pdo[p] \in Extension
      BY <1>0 DEF DriverTypeOK
    <3>2. \A p \in Pdos : ~InList(p) => ~pdo[p].ParentFdo
      BY <1>0, <1>10, BusRemoveEffect, ConstantsAssumption
    <3>3. Distinct(ListOfPDOs')
      BY <1>10, BusRemoveEffect, LenProperties DEF Distinct
    <3>4. ~Zeroed.ParentFdo
      BY DEF Zeroed
    <3> QED BY <1>10, <3>1, <3>2, <3>3, <3>4, BusRemoveEffect, OrphanFields
  <2> QED BY <2>1
<1> QED
  BY <1>1, <1>2, <1>3, <1>4, <1>5, <1>6, <1>7, <1>8, <1>9, <1>10, NextCases

-----------------------------------------------------------------------------
(* Type correctness                                                         *)

LEMMA DriverTypeStep ==
  ASSUME IInv, Next
  PROVE  DriverTypeOK'
<1>0. DriverTypeOK /\ PnPTypeOK /\ CallTypeOK
  BY DEF IInv, TypeOK
<1>1. ASSUME NEW h \in Handles, NEW port \in Ports, PlugCheck(h, port)
      PROVE  DriverTypeOK'
  BY <1>0, <1>1 DEF DriverTypeOK, PlugCheck
<1>2. ASSUME NEW h \in Handles, PlugGiveUp(h)
      PROVE  DriverTypeOK'
  BY <1>0, <1>2 DEF DriverTypeOK, PlugGiveUp
<1>3. ASSUME NEW h \in Handles, NEW p \in Pdos, PlugCreate(h, p)
      PROVE  DriverTypeOK'
  BY <1>0, <1>3 DEF DriverTypeOK, PlugCreate
<1>4. ASSUME NEW h \in Handles, PlugInvalidate(h)
      PROVE  DriverTypeOK'
  BY <1>0, <1>4 DEF DriverTypeOK, PlugInvalidate
<1>5. ASSUME NEW h \in Handles, NEW port \in Ports \cup {0}, UnplugMark(h, port)
      PROVE  DriverTypeOK'
  BY <1>0, <1>5, FlagFields DEF DriverTypeOK, UnplugMark, Changed, CompleteRead
<1>6. ASSUME NEW h \in Handles, UnplugMiss(h)
      PROVE  DriverTypeOK'
  BY <1>0, <1>6 DEF DriverTypeOK, UnplugMiss
<1>7. ASSUME NEW h \in Handles, UnplugInvalidate(h)
      PROVE  DriverTypeOK'
  BY <1>0, <1>7 DEF DriverTypeOK, UnplugInvalidate
<1>8. ASSUME NEW h \in Handles, UnplugDrain(h)
      PROVE  DriverTypeOK'
  BY <1>0, <1>8, FlagFields DEF DriverTypeOK, UnplugDrain, Changed
<1>9. ASSUME NEW h \in Handles, CleanupTake(h)
      PROVE  DriverTypeOK'
  BY <1>0, <1>9 DEF DriverTypeOK, CleanupTake
<1>10. ASSUME NEW h \in Handles, ReadCheck(h)
      PROVE  DriverTypeOK'
  BY <1>0, <1>10 DEF DriverTypeOK, ReadCheck
<1>11. ASSUME NEW p \in Pdos, ReadServed(p)
      PROVE  DriverTypeOK'
  BY <1>0, <1>11 DEF DriverTypeOK, ReadServed
<1>12. ASSUME NEW h \in Handles, PlugInsert(h)
      PROVE  DriverTypeOK'
  <2>1. /\ UNCHANGED <<object, pending_read, FsContext, stranded>>
        /\ NumPDOs' = NumPDOs + 1
    BY <1>12 DEF PlugInsert
  <2>2. ListOfPDOs' \in Seq(Pdos) /\ pdo' \in [Pdos -> Extension]
    BY <1>12, InsertEffect
  <2> QED BY <1>0, <2>1, <2>2 DEF DriverTypeOK
<1>13. CASE Links \/ \E h \in Handles : CleanupLook(h)
  BY <1>0, <1>13, LinksEffect DEF DriverTypeOK, CleanupLook
<1>14. ASSUME NEW h \in Handles, ReadWait(h)
      PROVE  DriverTypeOK'
  <2>1. mine[h] \in Pdos
    BY <1>14 DEF IInv, CallInv, ReadWait
  <2> QED BY <1>0, <1>14, <2>1 DEF DriverTypeOK, ReadWait
<1>15. ASSUME NEW p \in Pdos, PdoIrp(p)
      PROVE  DriverTypeOK'
  <2>1. stranded' \subseteq Pdos
    <3>1. CASE Eject(p)
      BY <1>0, <3>1 DEF DriverTypeOK, Eject
    <3>2. CASE Start(p) \/ QueryStop(p) \/ CancelStop(p) \/ Stop(p)
      BY <1>0, <3>2 DEF DriverTypeOK, Start, QueryStop, CancelStop, Stop
    <3>3. CASE \/ QueryRemove(p) \/ CancelRemove(p) \/ RemoveDisable(p)
               \/ SurpriseRemoval(p) \/ RemoveMissing(p)
      BY <1>0, <3>3 DEF DriverTypeOK, QueryRemove, CancelRemove,
                        RemoveDisable, SurpriseRemoval, RemoveMissing
    <3> QED BY <1>15, <3>1, <3>2, <3>3 DEF PdoIrp
  <2>2. TypeOK
    BY DEF IInv
  <2> QED BY <1>0, <1>15, <2>1, <2>2, PdoIrpEffect DEF DriverTypeOK, IrpFrame
<1>16. CASE RemoveUnlink
  <2>1. UNCHANGED <<pdo, object, pending_read, FsContext, stranded>>
    BY <1>16 DEF RemoveUnlink
  <2>2. ListSound /\ NumPDOs >= Len(ListOfPDOs) /\ Len(ListOfPDOs) \in Nat
    BY <1>0, ListFacts DEF IInv, CountMatches
  <2>3. ListOfPDOs' \in Seq(Pdos) /\ NumPDOs' \in Nat
    <3>1. CASE UNCHANGED <<ListOfPDOs, NumPDOs>>
      BY <1>0, <3>1 DEF DriverTypeOK
    <3>2. CASE /\ InList(doomed) /\ ListOfPDOs' \in Seq(Pdos)
               /\ NumPDOs' = NumPDOs - 1
      <4>1. Len(ListOfPDOs) # 0
        BY <1>0, <3>2, ListFacts DEF InList
      <4> QED BY <1>0, <2>2, <3>2, <4>1 DEF DriverTypeOK
    <3> QED BY <1>0, <1>16, <2>2, <3>1, <3>2, UnlinkEffect
  <2> QED BY <1>0, <2>1, <2>3 DEF DriverTypeOK
<1>17. CASE RemoveDelete
  <2>1. /\ object' \in [Pdos -> {"none", "created", "deleted"}]
        /\ pending_read' \in [Pdos -> BOOLEAN]
        /\ stranded' \subseteq Pdos
    BY <1>0, <1>17 DEF DriverTypeOK, RemoveDelete, IoDeleteDevice
  <2> QED BY <1>0, <1>17, <2>1, DeleteEffect DEF DriverTypeOK
<1>18. CASE Relations
  <2>1. UNCHANGED <<pending_read, stranded>>
    BY <1>18 DEF Relations
  <2> QED BY <1>0, <1>18, <2>1, FlagsEffect DEF DriverTypeOK, Flags
<1>19. CASE RelationsNone \/ BusVanish
  BY <1>0, <1>19 DEF DriverTypeOK, RelationsNone, BusVanish
<1>20. CASE BusSurprise
  BY <1>0, <1>20, BusSurpriseEffect DEF DriverTypeOK
<1>21. CASE BusRemove
  <2>1. /\ FsContext' \in [Handles -> Pdos \cup {None}]
        /\ object' \in [Pdos -> {"none", "created", "deleted"}]
        /\ pending_read' \in [Pdos -> BOOLEAN]
        /\ stranded' \subseteq Pdos
    BY <1>0, <1>21 DEF DriverTypeOK, BusRemove, IoDeleteDevice, Parted
  <2> QED BY <1>0, <1>21, <2>1, BusRemoveEffect DEF DriverTypeOK
<1> QED
  BY <1>1, <1>2, <1>3, <1>4, <1>5, <1>6, <1>7, <1>8, <1>9, <1>10, <1>11, <1>12, <1>13, <1>14, <1>15, <1>16, <1>17, <1>18, <1>19, <1>20, <1>21
  DEF Next, NewCall, CallStep, RemoveStep, BusIrp, Links

(* The PnP manager's view stays well-typed.                                 *)
LEMMA PnPTypeStep ==
  ASSUME IInv, Next
  PROVE  PnPTypeOK'
<1>0. PnPTypeOK
  BY DEF IInv, TypeOK
<1>1. ASSUME NEW h \in Handles, NEW port \in Ports, PlugCheck(h, port)
      PROVE  PnPTypeOK'
  BY <1>0, <1>1 DEF PnPTypeOK, PlugCheck
<1>2. ASSUME NEW h \in Handles, PlugGiveUp(h)
      PROVE  PnPTypeOK'
  BY <1>0, <1>2 DEF PnPTypeOK, PlugGiveUp
<1>3. ASSUME NEW h \in Handles, NEW p \in Pdos, PlugCreate(h, p)
      PROVE  PnPTypeOK'
  BY <1>0, <1>3 DEF PnPTypeOK, PlugCreate
<1>4. ASSUME NEW h \in Handles, PlugInsert(h)
      PROVE  PnPTypeOK'
  BY <1>0, <1>4 DEF PnPTypeOK, PlugInsert
<1>5. ASSUME NEW h \in Handles, PlugInvalidate(h)
      PROVE  PnPTypeOK'
  BY <1>0, <1>5 DEF PnPTypeOK, PlugInvalidate
<1>6. ASSUME NEW h \in Handles, NEW port \in Ports \cup {0}, UnplugMark(h, port)
      PROVE  PnPTypeOK'
  BY <1>0, <1>6 DEF PnPTypeOK, UnplugMark
<1>7. ASSUME NEW h \in Handles, UnplugMiss(h)
      PROVE  PnPTypeOK'
  BY <1>0, <1>7 DEF PnPTypeOK, UnplugMiss
<1>8. ASSUME NEW h \in Handles, UnplugInvalidate(h)
      PROVE  PnPTypeOK'
  BY <1>0, <1>8 DEF PnPTypeOK, UnplugInvalidate
<1>9. ASSUME NEW h \in Handles, UnplugDrain(h)
      PROVE  PnPTypeOK'
  BY <1>0, <1>9 DEF PnPTypeOK, UnplugDrain
<1>10. ASSUME NEW h \in Handles, CleanupTake(h)
      PROVE  PnPTypeOK'
  BY <1>0, <1>10 DEF PnPTypeOK, CleanupTake
<1>11. ASSUME NEW h \in Handles,
              CleanupForget(h) \/ CleanupPart(h) \/ CleanupLook(h)
      PROVE  PnPTypeOK'
  BY <1>0, <1>11 DEF PnPTypeOK, CleanupForget, CleanupPart, CleanupLook
<1>12. ASSUME NEW h \in Handles, ReadCheck(h)
      PROVE  PnPTypeOK'
  BY <1>0, <1>12 DEF PnPTypeOK, ReadCheck
<1>13. ASSUME NEW h \in Handles, ReadWait(h)
      PROVE  PnPTypeOK'
  BY <1>0, <1>13 DEF PnPTypeOK, ReadWait
<1>14. ASSUME NEW p \in Pdos, ReadServed(p)
      PROVE  PnPTypeOK'
  BY <1>0, <1>14 DEF PnPTypeOK, ReadServed
<1>15. ASSUME NEW p \in Pdos, Start(p)
      PROVE  PnPTypeOK'
  BY <1>0, <1>15 DEF PnPTypeOK, Start, Irp
<1>16. ASSUME NEW p \in Pdos, QueryStop(p)
      PROVE  PnPTypeOK'
  BY <1>0, <1>16 DEF PnPTypeOK, QueryStop, Irp
<1>17. ASSUME NEW p \in Pdos, CancelStop(p)
      PROVE  PnPTypeOK'
  BY <1>0, <1>17 DEF PnPTypeOK, CancelStop, Irp
<1>18. ASSUME NEW p \in Pdos, Stop(p)
      PROVE  PnPTypeOK'
  BY <1>0, <1>18 DEF PnPTypeOK, Stop, Irp
<1>19. ASSUME NEW p \in Pdos, QueryRemove(p)
      PROVE  PnPTypeOK'
  BY <1>0, <1>19 DEF PnPTypeOK, QueryRemove, Irp
<1>20. ASSUME NEW p \in Pdos, CancelRemove(p)
      PROVE  PnPTypeOK'
  BY <1>0, <1>20 DEF PnPTypeOK, CancelRemove, Irp
<1>21. ASSUME NEW p \in Pdos, RemoveDisable(p)
      PROVE  PnPTypeOK'
  BY <1>0, <1>21 DEF PnPTypeOK, RemoveDisable, Irp
<1>22. ASSUME NEW p \in Pdos, Eject(p)
      PROVE  PnPTypeOK'
  BY <1>0, <1>22 DEF PnPTypeOK, Eject, Irp
<1>23. ASSUME NEW p \in Pdos, SurpriseRemoval(p)
      PROVE  PnPTypeOK'
  BY <1>0, <1>23 DEF PnPTypeOK, SurpriseRemoval, Irp
<1>24. ASSUME NEW p \in Pdos, RemoveMissing(p)
      PROVE  PnPTypeOK'
  BY <1>0, <1>24 DEF PnPTypeOK, RemoveMissing, Irp
<1>25. ASSUME RemoveUnlink
      PROVE  PnPTypeOK'
  BY <1>0, <1>25 DEF PnPTypeOK, RemoveUnlink
<1>26. ASSUME RemoveLook \/ RemovePart \/ RemoveForget \/ RemoveDelete
      PROVE  PnPTypeOK'
  <2>1. doomed # None => pdo[doomed].fo \in Handles \cup {None}
    BY <1>0 DEF IInv, TypeOK, DriverTypeOK, PnPTypeOK, Extension
  <2> QED
    BY <1>0, <1>26, <2>1
    DEF PnPTypeOK, RemoveLook, RemovePart, RemoveForget, RemoveDelete
<1>27. ASSUME Relations
      PROVE  PnPTypeOK'
  BY <1>0, <1>27 DEF PnPTypeOK, Relations
<1>28. ASSUME RelationsNone
      PROVE  PnPTypeOK'
  BY <1>0, <1>28 DEF PnPTypeOK, RelationsNone
<1>29. ASSUME BusVanish
      PROVE  PnPTypeOK'
  BY <1>0, <1>29 DEF PnPTypeOK, BusVanish
<1>30. ASSUME BusSurprise
      PROVE  PnPTypeOK'
  BY <1>0, <1>30 DEF PnPTypeOK, BusSurprise
<1>31. ASSUME BusRemove
      PROVE  PnPTypeOK'
  BY <1>0, <1>31 DEF PnPTypeOK, BusRemove
<1> QED
  BY <1>1, <1>2, <1>3, <1>4, <1>5, <1>6, <1>7, <1>8, <1>9, <1>10, <1>11, <1>12, <1>13, <1>14, <1>15, <1>16, <1>17, <1>18, <1>19, <1>20, <1>21, <1>22, <1>23, <1>24, <1>25, <1>26, <1>27, <1>28, <1>29, <1>30, <1>31
  DEF Next, NewCall, CallStep, PdoIrp, RemoveStep, BusIrp

(* The calls' variables stay well-typed.                                    *)
LEMMA CallTypeStep ==
  ASSUME IInv, Next
  PROVE  CallTypeOK'
<1>0. CallTypeOK /\ DriverTypeOK
  BY DEF IInv, TypeOK
<1>1. ASSUME NEW h \in Handles, NEW port \in Ports, PlugCheck(h, port)
      PROVE  CallTypeOK'
  BY <1>0, <1>1 DEF CallTypeOK, DriverTypeOK, Goto, Return, Ready, Extension, PlugCheck
<1>2. ASSUME NEW h \in Handles, PlugGiveUp(h)
      PROVE  CallTypeOK'
  BY <1>0, <1>2 DEF CallTypeOK, DriverTypeOK, Goto, Return, Ready, Extension, PlugGiveUp
<1>3. ASSUME NEW h \in Handles, NEW p \in Pdos, PlugCreate(h, p)
      PROVE  CallTypeOK'
  BY <1>0, <1>3 DEF CallTypeOK, DriverTypeOK, Goto, Return, Ready, Extension, PlugCreate
<1>4. ASSUME NEW h \in Handles, PlugInsert(h)
      PROVE  CallTypeOK'
  BY <1>0, <1>4 DEF CallTypeOK, DriverTypeOK, Goto, Return, Ready, Extension, PlugInsert
<1>5. ASSUME NEW h \in Handles, PlugInvalidate(h)
      PROVE  CallTypeOK'
  BY <1>0, <1>5 DEF CallTypeOK, DriverTypeOK, Goto, Return, Ready, Extension, PlugInvalidate
<1>6. ASSUME NEW h \in Handles, NEW port \in Ports \cup {0}, UnplugMark(h, port)
      PROVE  CallTypeOK'
  BY <1>0, <1>6 DEF CallTypeOK, DriverTypeOK, Goto, Return, Ready, Extension, UnplugMark
<1>7. ASSUME NEW h \in Handles, UnplugMiss(h)
      PROVE  CallTypeOK'
  BY <1>0, <1>7 DEF CallTypeOK, DriverTypeOK, Goto, Return, Ready, Extension, UnplugMiss
<1>8. ASSUME NEW h \in Handles, UnplugInvalidate(h)
      PROVE  CallTypeOK'
  BY <1>0, <1>8 DEF CallTypeOK, DriverTypeOK, Goto, Return, Ready, Extension, UnplugInvalidate
<1>9. ASSUME NEW h \in Handles, UnplugDrain(h)
      PROVE  CallTypeOK'
  BY <1>0, <1>9 DEF CallTypeOK, DriverTypeOK, Goto, Return, Ready, Extension, UnplugDrain
<1>10. ASSUME NEW h \in Handles, CleanupTake(h)
      PROVE  CallTypeOK'
  BY <1>0, <1>10 DEF CallTypeOK, DriverTypeOK, Goto, Return, Ready, Extension, CleanupTake
<1>11. ASSUME NEW h \in Handles, ReadCheck(h)
      PROVE  CallTypeOK'
  BY <1>0, <1>11 DEF CallTypeOK, DriverTypeOK, Goto, Return, Ready, Extension, ReadCheck
<1>12. ASSUME NEW h \in Handles, ReadWait(h)
      PROVE  CallTypeOK'
  BY <1>0, <1>12 DEF CallTypeOK, DriverTypeOK, Goto, Return, Ready, Extension, ReadWait
<1>15. ASSUME NEW h \in Handles, CleanupForget(h) \/ CleanupPart(h)
      PROVE  CallTypeOK'
  BY <1>0, <1>15 DEF CallTypeOK, Goto, CleanupForget, CleanupPart
<1>16. ASSUME NEW h \in Handles, CleanupLook(h)
      PROVE  CallTypeOK'
  <2>1. mine[h] \in Pdos
    BY <1>16 DEF IInv, CallInv, CleanupLook
  <2>2. pdo[mine[h]].SerialNo \in Ports \cup {0}
    BY <1>0, <2>1 DEF DriverTypeOK, Extension
  <2> QED
    BY <1>0, <1>16, <2>2 DEF CallTypeOK, Goto, Return, CleanupLook
<1>13. ASSUME NEW p \in Pdos, PdoIrp(p)
      PROVE  CallTypeOK'
  BY <1>0, <1>13, PdoIrpEffect DEF IInv, CallTypeOK, IrpFrame
<1>14. CASE \/ \E p \in Pdos : ReadServed(p)
            \/ RemoveStep \/ BusIrp
  BY <1>0, <1>14 DEF CallTypeOK, ReadServed, RemoveStep, RemoveUnlink,
     RemoveLook, RemovePart, RemoveForget, RemoveDelete, BusIrp, Relations,
     RelationsNone, BusVanish, BusSurprise, BusRemove
<1> QED
  BY <1>1, <1>2, <1>3, <1>4, <1>5, <1>6, <1>7, <1>8, <1>9, <1>10, <1>11, <1>12, <1>13, <1>14, <1>15, <1>16
  DEF Next, NewCall, CallStep

-----------------------------------------------------------------------------
(* File objects, devices and the calls between them                         *)

ContextInv == ContextMatches /\ CallInv

(* A call in the middle of its plug-in, cleanup or read that does not move. *)
Still(g) == call'[g] = call[g] /\ mine'[g] = mine[g]

(* A device in the list is not one that is being plugged in. *)
LEMMA ListedFacts ==
  ASSUME IInv, NEW p \in Pdos, InList(p)
  PROVE  /\ object[p] = "created" /\ pdo[p].ParentFdo
         /\ \A h \in Handles : call[h] = "insert" => mine[h] # p
<1>1. object[p] = "created" /\ pdo[p].ParentFdo
  BY DEF IInv, ListSound, InList
<1> QED BY <1>1 DEF IInv, CallInv, Zeroed

(* A step that keeps the links, and changes the extension or node only of   *)
(* devices that have been plugged in.                                       *)
LEMMA LinksKept ==
  ASSUME IInv, UNCHANGED <<object, FsContext, open, call, mine>>,
         doomed # None => UNCHANGED doomed
                          /\ (doomStep = "forget" => UNCHANGED doomStep),
         \A p \in Pdos :
           /\ pdo'[p].fo = pdo[p].fo
           /\ \/ pdo'[p] = pdo[p] /\ node'[p] = node[p]
              \/ /\ object[p] = "created"
                 /\ \A h \in Handles : call[h] = "insert" => mine[h] # p
  PROVE  ContextInv'
<1>0. DriverTypeOK
  BY DEF IInv, TypeOK
<1>1. ContextMatches'
  <2>1. \A p \in Pdos : p # None
    BY ConstantsAssumption
  <2> QED BY <1>0, <2>1 DEF IInv, ContextMatches, DriverTypeOK
<1>2. CallInv'
  BY DEF IInv, CallInv
<1> QED BY <1>1, <1>2 DEF ContextInv

(* A step that only moves one call, and not to or from where a link is half *)
(* made or half taken away.                                                 *)
LEMMA CallMoves ==
  ASSUME IInv, NEW h \in Handles,
         UNCHANGED <<pdo, object, FsContext, node, open, doomed, doomStep>>,
         \A g \in Handles \ {h} : Still(g),
         call[h] \notin {"insert", "part"},
         call'[h] \notin {"insert", "cleanup", "part"},
         call'[h] = "create" => h \in open,
         call'[h] \in {"look", "read"} =>
           mine'[h] \in Pdos /\ object[mine'[h]] # "none"
  PROVE  ContextInv'
<1>0. DriverTypeOK /\ CallTypeOK /\ ContextMatches /\ CallInv
  BY DEF IInv, TypeOK
<1>1. ContextMatches'
  BY <1>0 DEF ContextMatches, Still, DriverTypeOK
<1>2. CallInv'
  BY <1>0 DEF CallInv, Still
<1> QED BY <1>1, <1>2 DEF ContextInv

(* What the extension of a device that enters the list says. *)
LEMMA NewFields ==
  ASSUME IInv, NEW h \in Handles, PlugInsert(h)
  PROVE  LET e == pdo'[mine[h]] IN
         /\ e.fo = h /\ e.Present /\ ~e.ReportedMissing
         /\ e.DevicePnPState = "NotStarted"
<1>1. pdo'[mine[h]] = [Zeroed EXCEPT !.SerialNo = arg[h], !.Present = TRUE,
                                     !.ParentFdo = TRUE, !.fo = h]
  BY InsertEffect
<1> QED BY <1>1 DEF Zeroed

(* Bus_Cleanup takes the file object out of its device,                     *)
LEMMA ForgetByCleanup ==
  ASSUME IInv, NEW h \in Handles, CleanupForget(h)
  PROVE  ContextInv'
<1> DEFINE p == mine[h]
<1>0. DriverTypeOK /\ CallTypeOK /\ ContextMatches /\ CallInv
  BY DEF IInv, TypeOK
<1>1. /\ UNCHANGED <<object, FsContext, node, open, mine, doomed, doomStep>>
      /\ call[h] = "cleanup" /\ call'[h] = "part"
      /\ \A g \in Handles \ {h} : call'[g] = call[g]
  BY <1>0 DEF CallTypeOK, CleanupForget, Goto
<1>2. /\ p \in Pdos /\ h \notin open /\ FsContext[h] \in {p, None}
      /\ \A g \in Handles \ {h} : FsContext[g] # p
      /\ object[p] # "none"
  BY <1>0, <1>1 DEF CallInv
<1>3. /\ \A q \in Pdos \ {p} : pdo'[q] = pdo[q]
      /\ pdo'[p].fo = None
      /\ object[p] # "created" => pdo'[p] = pdo[p]
  <2>1. pdo \in [Pdos -> Extension]
    BY <1>0 DEF DriverTypeOK
  <2>2. CASE object[p] # "created"
    BY <1>0, <1>2, <2>2 DEF CleanupForget, CallInv, Zeroed
  <2>3. CASE object[p] = "created"
    BY <1>2, <2>1, <2>3 DEF CleanupForget, Extension
  <2> QED BY <2>2, <2>3
<1>4. ContextMatches'
  <2>1. ASSUME NEW g \in Handles, FsContext[g] # None
        PROVE  \/ object[FsContext[g]] = "created" /\ pdo'[FsContext[g]].fo = g
               \/ object[FsContext[g]] = "created" /\ call'[g] = "insert"
               \/ call'[g] = "part" /\ mine[g] = FsContext[g]
    <3>1. CASE g = h
      BY <1>1, <1>2, <2>1, <3>1
    <3>2. CASE g # h
      <4>1. FsContext[g] \in Pdos \ {p}
        BY <1>0, <1>2, <2>1, <3>2 DEF DriverTypeOK
      <4>2. pdo'[FsContext[g]] = pdo[FsContext[g]] /\ call'[g] = call[g]
        BY <1>1, <1>3, <3>2, <4>1
      <4> QED BY <1>0, <2>1, <4>2 DEF ContextMatches
    <3> QED BY <3>1, <3>2
  <2>2. ASSUME NEW q \in Pdos, pdo'[q].fo # None
        PROVE  \/ FsContext[pdo'[q].fo] = q
               \/ doomed = q /\ doomStep = "forget"
    BY <1>0, <1>3, <2>2 DEF ContextMatches
  <2> QED BY <1>1, <2>1, <2>2 DEF ContextMatches
<1>5. CallInv'
  <2>1. \A g \in Handles : call'[g] = "insert" =>
          call[g] = "insert" /\ mine[g] \in Pdos \ {p}
    BY <1>0, <1>1, <1>2 DEF CallInv
  <2>2. \A g \in Handles : call'[g] \in {"cleanup", "part"} =>
          /\ call[g] \in {"cleanup", "part"}
          /\ mine[g] \in Pdos
          /\ call'[g] = "part" => pdo'[mine[g]].fo = None
    BY <1>0, <1>1, <1>2, <1>3 DEF CallInv
  <2>3. \A q \in Pdos : object[q] # "created" => pdo'[q] = Zeroed
    BY <1>0, <1>3 DEF CallInv
  <2> QED BY <1>0, <1>1, <1>2, <1>3, <2>1, <2>2, <2>3 DEF CallInv
<1> QED BY <1>4, <1>5 DEF ContextInv

(* and the device out of the file object.                                   *)
LEMMA PartByCleanup ==
  ASSUME IInv, NEW h \in Handles, CleanupPart(h)
  PROVE  ContextInv'
<1> DEFINE p == mine[h]
<1>0. DriverTypeOK /\ CallTypeOK /\ ContextMatches /\ CallInv
  BY DEF IInv, TypeOK
<1>1. /\ UNCHANGED <<pdo, object, node, open, mine, doomed, doomStep>>
      /\ call[h] = "part" /\ call'[h] = "look"
      /\ \A g \in Handles \ {h} : call'[g] = call[g]
      /\ FsContext'[h] = None
      /\ \A g \in Handles \ {h} : FsContext'[g] = FsContext[g]
  BY <1>0 DEF CallTypeOK, DriverTypeOK, CleanupPart, Goto
<1>2. /\ p \in Pdos /\ FsContext[h] \in {p, None} /\ pdo[p].fo = None
      /\ object[p] # "none"
  BY <1>0, <1>1 DEF CallInv
<1>3. ContextMatches'
  <2>1. ASSUME NEW g \in Handles, FsContext'[g] # None
        PROVE  g # h /\ FsContext'[g] = FsContext[g] /\ call'[g] = call[g]
    BY <1>1, <2>1
  <2>2. ASSUME NEW q \in Pdos, pdo[q].fo # None,
               ~(doomed = q /\ doomStep = "forget")
        PROVE  FsContext'[pdo[q].fo] = q
    <3>1. pdo[q].fo \in Handles /\ FsContext[pdo[q].fo] = q
      BY <1>0, <2>2 DEF ContextMatches, DriverTypeOK, Extension
    <3>2. pdo[q].fo # h
      BY <1>2, <2>2, <3>1, ConstantsAssumption
    <3> QED BY <1>1, <3>1, <3>2
  <2> QED BY <1>0, <1>1, <2>1, <2>2 DEF ContextMatches
<1>4. CallInv'
  <2>1. \A g, f \in Handles : FsContext'[g] = FsContext'[f] =>
          g = f \/ FsContext'[g] = None
    BY <1>0, <1>1 DEF CallInv
  <2>2. \A g \in Handles : call'[g] \in {"cleanup", "part"} =>
          /\ call[g] \in {"cleanup", "part"} /\ call'[g] = call[g] /\ g # h
          /\ \A f \in Handles \ {g} : FsContext'[f] # mine[g]
    BY <1>0, <1>1, ConstantsAssumption DEF CallInv
  <2>3. \A g \in Handles : call'[g] \in {"create", "insert", "read"} =>
          call'[g] = call[g] /\ FsContext'[g] = FsContext[g]
    BY <1>1
  <2> QED BY <1>0, <1>1, <1>2, <2>1, <2>2, <2>3 DEF CallInv
<1> QED BY <1>3, <1>4 DEF ContextInv

(* Bus_DestroyPdo takes the device out of the file object it had,           *)
LEMMA PartByRemove ==
  ASSUME IInv, RemovePart
  PROVE  ContextInv'
<1>0. /\ DriverTypeOK /\ CallTypeOK /\ ContextMatches /\ CallInv /\ DoomInv
      /\ LinkInv /\ doomed \in Pdos /\ doomStep = "part" /\ None \notin Pdos
  BY ConstantsAssumption DEF IInv, TypeOK, PnPTypeOK, RemovePart
<1>1. UNCHANGED <<pdo, object, node, open, call, mine, doomed>>
  BY DEF RemovePart
<1>2. CASE UNCHANGED FsContext
  <2>1. ContextMatches'
    BY <1>0, <1>1, <1>2 DEF ContextMatches
  <2>2. CallInv'
    BY <1>0, <1>1, <1>2 DEF CallInv
  <2> QED BY <2>1, <2>2 DEF ContextInv
<1>3. CASE FsContext' = [FsContext EXCEPT ![doomFo] = None] /\ doomStep' = "forget"
  <2>1. doomFo \in Handles /\ FsContext[doomFo] \in {doomed, None}
    <3>1. doomFo \in Handles
      BY <1>0 DEF IInv, TypeOK, PnPTypeOK, DoomInv
    <3> QED BY <1>0, <3>1 DEF DoomInv, ContextMatches
  <2>2. /\ FsContext'[doomFo] = None
        /\ \A g \in Handles \ {doomFo} : FsContext'[g] = FsContext[g]
    BY <1>0, <1>3, <2>1 DEF DriverTypeOK
  <2>3. ContextMatches'
    <3>1. \A g \in Handles : FsContext'[g] # None => FsContext'[g] = FsContext[g]
      BY <2>2
    <3>2. ASSUME NEW q \in Pdos, pdo[q].fo # None, q # doomed
          PROVE  FsContext'[pdo[q].fo] = q
      <4>1. pdo[q].fo \in Handles /\ FsContext[pdo[q].fo] = q
        BY <1>0, <3>2 DEF ContextMatches, DriverTypeOK, Extension
      <4>2. pdo[q].fo # doomFo
        BY <1>0, <2>1, <3>2, <4>1
      <4> QED BY <2>2, <4>1, <4>2
    <3> QED BY <1>0, <1>1, <1>3, <3>1, <3>2 DEF ContextMatches
  <2>4. CallInv'
    <3>1. \A g \in Handles : call[g] = "insert" => g # doomFo
      BY <1>0, <2>1 DEF CallInv, LinkInv
    <3>2. \A g, f \in Handles : FsContext'[g] = FsContext'[f] =>
            g = f \/ FsContext'[g] = None
      BY <1>0, <2>2 DEF CallInv
    <3>3. \A g \in Handles : call[g] \in {"cleanup", "part"} =>
            /\ FsContext'[g] \in {mine[g], None}
            /\ \A f \in Handles \ {g} : FsContext'[f] # mine[g]
      BY <1>0, <2>2 DEF CallInv
    <3> QED BY <1>0, <1>1, <2>2, <3>1, <3>2, <3>3 DEF CallInv
  <2> QED BY <2>3, <2>4 DEF ContextInv
<1> QED BY <1>2, <1>3 DEF RemovePart

(* and the file object out of the device,                                   *)
LEMMA ForgetByRemove ==
  ASSUME IInv, RemoveForget
  PROVE  ContextInv'
<1>0. /\ DriverTypeOK /\ CallTypeOK /\ ContextMatches /\ CallInv /\ DoomInv
      /\ LinkInv /\ doomed \in Pdos /\ doomStep = "forget" /\ None \notin Pdos
  BY ConstantsAssumption DEF IInv, TypeOK, PnPTypeOK, RemoveForget
<1>1. /\ UNCHANGED <<object, FsContext, node, open, call, mine, doomed>>
      /\ pdo'[doomed].fo = None
      /\ \A q \in Pdos \ {doomed} : pdo'[q] = pdo[q]
  BY <1>0 DEF RemoveForget, DriverTypeOK, Extension
<1>2. /\ object[doomed] = "created" /\ node[doomed] = "gone"
      /\ pdo[doomed].fo \in {doomFo, None} /\ FsContext[doomFo] # doomed
  BY <1>0 DEF LinkInv, DoomInv
<1>3. \A g \in Handles : call[g] = "insert" => mine[g] # doomed
  BY <1>0, <1>2 DEF CallInv
<1>4. \A g \in Handles : FsContext[g] = doomed => pdo[doomed].fo # g
  BY <1>2, ConstantsAssumption
<1>5. ContextMatches'
  <2>1. ASSUME NEW g \in Handles, FsContext[g] # None
        PROVE  \/ object[FsContext[g]] = "created" /\ pdo'[FsContext[g]].fo = g
               \/ object[FsContext[g]] = "created" /\ call[g] = "insert"
               \/ call[g] = "part" /\ mine[g] = FsContext[g]
    <3>1. FsContext[g] \in Pdos
      BY <1>0, <2>1 DEF DriverTypeOK
    <3> QED BY <1>0, <1>1, <1>4, <2>1, <3>1 DEF ContextMatches
  <2>2. ASSUME NEW q \in Pdos, pdo'[q].fo # None
        PROVE  FsContext[pdo'[q].fo] = q
    BY <1>0, <1>1, <2>2 DEF ContextMatches
  <2> QED BY <1>1, <2>1, <2>2 DEF ContextMatches
<1>6. CallInv'
  BY <1>0, <1>1, <1>2, <1>3 DEF CallInv
<1> QED BY <1>5, <1>6 DEF ContextInv

(* and deletes it.                                                          *)
LEMMA DeleteByRemove ==
  ASSUME IInv, RemoveDelete
  PROVE  ContextInv'
<1>0. /\ DriverTypeOK /\ CallTypeOK /\ ContextMatches /\ CallInv
      /\ doomStep = "delete" /\ None \notin Pdos
  BY ConstantsAssumption DEF IInv, TypeOK, RemoveDelete
<1>1. /\ doomed \in Pdos /\ object[doomed] = "created"
      /\ node[doomed] = "gone" /\ pdo[doomed].fo = None
      /\ pdo'[doomed] = Zeroed /\ object'[doomed] = "deleted"
      /\ \A q \in Pdos \ {doomed} : pdo'[q] = pdo[q] /\ object'[q] = object[q]
      /\ UNCHANGED <<FsContext, node, open, call, mine>>
  BY DeleteEffect
<1>2. \A g \in Handles : call[g] = "insert" =>
        mine[g] # doomed /\ mine[g] = FsContext[g]
  BY <1>0, <1>1 DEF CallInv
<1>3. Zeroed.fo = None
  BY DEF Zeroed
<1>4. ContextMatches'
  <2>1. ASSUME NEW g \in Handles, FsContext[g] # None
        PROVE  \/ object'[FsContext[g]] = "created" /\ pdo'[FsContext[g]].fo = g
               \/ object'[FsContext[g]] = "created" /\ call[g] = "insert"
               \/ call[g] = "part" /\ mine[g] = FsContext[g]
    <3>1. FsContext[g] \in Pdos
      BY <1>0, <2>1 DEF DriverTypeOK
    <3>2. g # None
      BY ConstantsAssumption
    <3> QED BY <1>0, <1>1, <1>2, <2>1, <3>1, <3>2 DEF ContextMatches
  <2>2. ASSUME NEW q \in Pdos, pdo'[q].fo # None
        PROVE  FsContext[pdo'[q].fo] = q
    BY <1>0, <1>1, <1>3, <2>2 DEF ContextMatches
  <2> QED BY <1>1, <2>1, <2>2 DEF ContextMatches
<1>5. CallInv'
  BY <1>0, <1>1, <1>2, <1>3 DEF CallInv
<1> QED BY <1>4, <1>5 DEF ContextInv

(* Every step keeps what file objects, devices and calls say of each other. *)
LEMMA ContextStep ==
  ASSUME IInv, Next, TypeOK'
  PROVE  ContextInv'
<1>0. DriverTypeOK /\ CallTypeOK /\ ContextMatches /\ CallInv
  BY DEF IInv, TypeOK
<1>1. ASSUME NEW h \in Handles,
             \/ \E port \in Ports : PlugCheck(h, port)
             \/ PlugGiveUp(h) \/ PlugInvalidate(h)
      PROVE  ContextInv'
  <2>1. /\ UNCHANGED <<pdo, object, FsContext, node, open, doomed, doomStep>>
        /\ call[h] \in {"idle", "create", "plugged"}
        /\ \A g \in Handles \ {h} : Still(g)
        /\ call'[h] \in {"idle", "create"}
        /\ call'[h] = "create" => h \in open
    BY <1>0, <1>1
    DEF CallTypeOK, PlugCheck, PlugGiveUp, PlugInvalidate, Ready, Goto, Return, Still
  <2> QED BY <2>1, CallMoves
<1>2. ASSUME NEW h \in Handles, UnplugMiss(h) \/ UnplugInvalidate(h)
      PROVE  ContextInv'
  <2>1. /\ UNCHANGED <<pdo, object, FsContext, node, open, doomed, doomStep>>
        /\ call[h] \in {"unplug", "marked"}
        /\ \A g \in Handles \ {h} : Still(g)
        /\ call'[h] \in {"idle", "drain"}
    BY <1>0, <1>2
    DEF CallTypeOK, UnplugMiss, UnplugInvalidate, Goto, Return, Still
  <2> QED BY <2>1, CallMoves
<1>3. ASSUME NEW h \in Handles, CleanupLook(h) \/ ReadWait(h)
      PROVE  ContextInv'
  <2>1. /\ UNCHANGED <<pdo, object, FsContext, node, open, doomed, doomStep>>
        /\ call[h] \in {"look", "read"}
        /\ \A g \in Handles \ {h} : Still(g)
        /\ call'[h] \in {"idle", "unplug"}
    BY <1>0, <1>3 DEF CallTypeOK, CleanupLook, ReadWait, Goto, Return, Still
  <2> QED BY <2>1, CallMoves
<1>4. ASSUME NEW h \in Handles, ReadCheck(h)
      PROVE  ContextInv'
  <2>1. /\ UNCHANGED <<pdo, object, FsContext, node, open, doomed, doomStep>>
        /\ call[h] = "idle" /\ call'[h] = "read" /\ mine'[h] = FsContext[h]
        /\ FsContext[h] \in Pdos /\ h \in open
        /\ \A g \in Handles \ {h} : Still(g)
    BY <1>0, <1>4 DEF CallTypeOK, DriverTypeOK, ReadCheck, Ready, Goto, Still
  <2>2. object[FsContext[h]] = "created"
    BY <1>0, <2>1, ConstantsAssumption DEF ContextMatches
  <2> QED BY <2>1, <2>2, CallMoves
<1>5. ASSUME NEW h \in Handles, CleanupTake(h)
      PROVE  ContextInv'
  <2>1. /\ UNCHANGED <<pdo, object, FsContext, node, doomed, doomStep>>
        /\ call[h] = "idle" /\ mine'[h] = FsContext[h]
        /\ call'[h] = IF FsContext[h] = None THEN "idle" ELSE "cleanup"
        /\ open' = open \ {h}
        /\ \A g \in Handles \ {h} : Still(g)
    BY <1>0, <1>5 DEF CallTypeOK, CleanupTake, Ready, Goto, Still
  <2>2. FsContext[h] # None =>
          FsContext[h] \in Pdos /\ object[FsContext[h]] = "created"
    BY <1>0, <2>1 DEF ContextMatches, DriverTypeOK
  <2>3. ContextMatches'
    BY <1>0, <2>1 DEF ContextMatches, Still, DriverTypeOK
  <2>4. CallInv'
    BY <1>0, <2>1, <2>2 DEF CallInv, Still
  <2> QED BY <2>3, <2>4 DEF ContextInv
<1>9. ASSUME NEW h \in Handles, NEW p \in Pdos, PlugCreate(h, p)
      PROVE  ContextInv'
  <2>1. /\ object[p] = "none" /\ FsContext[h] = None /\ call[h] = "create"
        /\ UNCHANGED <<pdo, node, open, doomed, doomStep>>
        /\ object'[p] = "created"
        /\ \A q \in Pdos \ {p} : object'[q] = object[q]
        /\ FsContext'[h] = p /\ mine'[h] = p /\ call'[h] = "insert"
        /\ \A g \in Handles \ {h} : Still(g) /\ FsContext'[g] = FsContext[g]
    BY <1>0, <1>9 DEF DriverTypeOK, CallTypeOK, PlugCreate, Goto, Still
  <2>2. pdo[p] = Zeroed /\ node[p] = "unknown" /\ h \in open
    BY <1>0, <2>1 DEF CallInv
  <2>3. \A g \in Handles : FsContext[g] # p
    BY <1>0, <2>1, ConstantsAssumption DEF ContextMatches, CallInv
  <2>4. \A q \in Pdos : pdo[q].fo = h => doomed = q /\ doomStep = "forget"
    BY <1>0, <2>1, ConstantsAssumption DEF ContextMatches
  <2>5. ContextMatches'
    <3>1. ASSUME NEW g \in Handles, FsContext'[g] # None, g # h
          PROVE  \/ /\ object'[FsContext'[g]] = "created"
                    /\ pdo[FsContext'[g]].fo = g \/ call'[g] = "insert"
                 \/ call'[g] = "part" /\ mine'[g] = FsContext'[g]
      BY <1>0, <2>1, <2>3, <3>1 DEF ContextMatches, Still, DriverTypeOK
    <3>2. ASSUME NEW q \in Pdos, pdo[q].fo # None,
                 ~(doomed = q /\ doomStep = "forget")
          PROVE  FsContext'[pdo[q].fo] = q
      <4>1. pdo[q].fo \in Handles /\ pdo[q].fo # h
        BY <1>0, <2>4, <3>2 DEF DriverTypeOK, Extension
      <4> QED BY <1>0, <2>1, <3>2, <4>1 DEF ContextMatches
    <3> QED BY <2>1, <3>1, <3>2 DEF ContextMatches
  <2>6. CallInv'
    <3>1. \A g \in Handles \ {h} : call[g] \in {"cleanup", "part"} =>
            mine[g] # p
      BY <1>0, <2>1 DEF CallInv
    <3>2. \A f, g \in Handles : FsContext'[f] = FsContext'[g] =>
            f = g \/ FsContext'[f] = None
      BY <1>0, <2>1, <2>3 DEF CallInv
    <3> QED BY <1>0, <2>1, <2>2, <2>3, <3>1, <3>2 DEF CallInv, Still
  <2> QED BY <2>5, <2>6 DEF ContextInv
<1>10. ASSUME NEW h \in Handles, PlugInsert(h)
      PROVE  ContextInv'
  <2> DEFINE p == mine[h]
  <2>1. /\ call[h] = "insert" /\ call'[h] = "plugged"
        /\ UNCHANGED <<object, FsContext, node, open, doomed, doomStep>>
        /\ \A g \in Handles \ {h} : Still(g)
    BY <1>0, <1>10 DEF CallTypeOK, PlugInsert, Goto, Still
  <2>2. /\ p \in Pdos /\ object[p] = "created" /\ FsContext[h] = p
        /\ pdo[p] = Zeroed
        /\ \A q \in Pdos \ {p} : pdo'[q] = pdo[q]
        /\ pdo'[p].fo = h
    BY <1>10, InsertEffect, NewFields
  <2>3. \A g \in Handles \ {h} : FsContext[g] # p
    BY <1>0, <2>2, ConstantsAssumption DEF CallInv
  <2>4. ContextMatches'
    BY <1>0, <2>1, <2>2, <2>3 DEF ContextMatches, Still, DriverTypeOK
  <2>5. CallInv'
    <3>1. \A g \in Handles \ {h} : call[g] \in {"insert", "cleanup", "part"} =>
            mine[g] \in Pdos \ {p}
      BY <1>0, <2>1, <2>2, <2>3 DEF CallInv
    <3> QED BY <1>0, <2>1, <2>2, <2>3, <3>1 DEF CallInv, Still
  <2> QED BY <2>4, <2>5 DEF ContextInv
<1>11. CASE Links
  <2>1. CASE RemoveLook
    <3>1. /\ UNCHANGED <<pdo, object, FsContext, node, open, call, mine, doomed>>
          /\ doomStep = "unlinked"
      BY <2>1 DEF RemoveLook
    <3> QED BY <3>1, LinksKept
  <2> QED
    BY <1>11, <2>1, ForgetByCleanup, PartByCleanup, PartByRemove, ForgetByRemove
    DEF Links
<1>12. ASSUME NEW h \in Handles,
             UnplugDrain(h) \/ \E port \in Ports \cup {0} : UnplugMark(h, port)
      PROVE  ContextInv'
  <2>0. Flags
    BY <1>12 DEF Flags
  <2> DEFINE G == /\ call[h] \notin {"insert", "part"}
                  /\ call'[h] \in {"marked", "idle"}
                  /\ \A g \in Handles \ {h} : Still(g)
                  /\ UNCHANGED <<node, open, doomed, doomStep>>
  <2>1. G
    <3>1. CASE UnplugDrain(h)
      BY <1>0, <3>1 DEF CallTypeOK, UnplugDrain, Return, Goto, Still
    <3>2. ASSUME NEW port \in Ports \cup {0}, UnplugMark(h, port)
          PROVE  G
      BY <1>0, <3>2 DEF CallTypeOK, UnplugMark, Ready, Goto, Still
    <3> QED BY <1>12, <3>1, <3>2
  <2>2. /\ UNCHANGED <<object, FsContext>>
        /\ \A p \in Pdos : pdo'[p].fo = pdo[p].fo
        /\ \A p \in Pdos : InList(p) \/ pdo'[p] = pdo[p]
    BY <1>0, <2>0, FlagsEffect, FlaggedFields DEF DriverTypeOK
  <2>3. ContextMatches'
    BY <1>0, <2>1, <2>2 DEF ContextMatches, Still, DriverTypeOK
  <2>4. CallInv'
    BY <1>0, <2>1, <2>2, ListedFacts DEF CallInv, Still
  <2> QED BY <2>3, <2>4 DEF ContextInv
<1>13. CASE Relations
  <2>1. UNCHANGED <<open, call, mine, doomed, doomStep>>
    BY <1>13 DEF Relations
  <2>2. /\ UNCHANGED <<object, FsContext>>
        /\ \A p \in Pdos : pdo'[p].fo = pdo[p].fo
        /\ \A p \in Pdos : InList(p) \/ pdo'[p] = pdo[p]
        /\ \A p \in Pdos : InList(p) \/ node'[p] = node[p]
    BY <1>0, <1>13, FlagsEffect, FlaggedFields DEF DriverTypeOK, Flags
  <2> QED BY <2>1, <2>2, ListedFacts, LinksKept
<1>14. CASE (\E p \in Pdos : ReadServed(p)) \/ RelationsNone \/ BusVanish
             \/ RemoveUnlink
  <2>1. /\ UNCHANGED <<pdo, object, FsContext, node, open, call, mine, doomed>>
        /\ doomStep' = doomStep \/ doomStep = "marked"
    BY <1>14 DEF ReadServed, RelationsNone, BusVanish, RemoveUnlink
  <2> QED BY <2>1, LinksKept
<1>15. ASSUME NEW p \in Pdos, PdoIrp(p)
      PROVE  ContextInv'
  <2>1. /\ UNCHANGED <<object, FsContext, open, call, mine>>
        /\ object[p] = "created" /\ node[p] # "unknown" /\ doomed = None
        /\ pdo'[p].fo = pdo[p].fo
        /\ \A q \in Pdos \ {p} : pdo'[q] = pdo[q] /\ node'[q] = node[q]
    BY <1>15, PdoIrpEffect DEF IInv, IrpFrame, Kept
  <2>2. \A h \in Handles : call[h] = "insert" => mine[h] # p
    BY <1>0, <2>1 DEF CallInv
  <2> QED BY <2>1, <2>2, LinksKept
<1>16. CASE RemoveDelete
  BY <1>16, DeleteByRemove
<1>17. CASE BusSurprise
  <2>1. /\ UNCHANGED <<object, FsContext, open, call, mine, node>>
        /\ doomed = None
        /\ \A p \in Pdos : pdo'[p].fo = pdo[p].fo
        /\ \A p \in Pdos : InList(p) \/ pdo'[p] = pdo[p]
    BY <1>0, <1>17, BusSurpriseEffect, OrphanFields DEF DriverTypeOK, BusSurprise
  <2> QED BY <2>1, ListedFacts, LinksKept
<1>18. CASE BusRemove
  <2> DEFINE deleted == {p \in Pdos : InList(p)} \ Spared
  <2>1. /\ \A h \in Handles : call[h] = "idle"
        /\ UNCHANGED <<open, call, mine>>
        /\ FsContext' = Parted(deleted) /\ doomed = None
    BY <1>18, BusRemoveEffect
  <2>2. \A p \in Pdos :
          \/ p \in deleted /\ pdo'[p] = Zeroed /\ object'[p] = "deleted"
          \/ /\ p \notin deleted
             /\ InList(p) \/ pdo'[p] = pdo[p]
             /\ pdo'[p].fo = pdo[p].fo
             /\ object'[p] = object[p] /\ node'[p] = node[p]
    BY <1>0, <1>18, BusRemoveEffect, OrphanFields DEF DriverTypeOK
  <2>3. \A h \in Handles : FsContext'[h] =
          IF \E p \in deleted : pdo[p].fo = h THEN None ELSE FsContext[h]
    BY <2>1 DEF Parted
  <2>4. deleted \subseteq Pdos
    OBVIOUS
  <2>5. /\ \A h \in Handles : FsContext[h] # None =>
             object[FsContext[h]] = "created" /\ pdo[FsContext[h]].fo = h
        /\ \A p \in Pdos : pdo[p].fo # None => FsContext[pdo[p].fo] = p
    BY <1>0, <2>1, ConstantsAssumption DEF ContextMatches
  <2> HIDE DEF deleted
  <2>6. ContextMatches'
    <3>1. ASSUME NEW g \in Handles, FsContext'[g] # None
          PROVE  object'[FsContext'[g]] = "created" /\ pdo'[FsContext'[g]].fo = g
      <4>1. FsContext'[g] = FsContext[g] /\ ~\E p \in deleted : pdo[p].fo = g
        BY <2>3, <3>1
      <4>2. FsContext[g] \in Pdos \ deleted
        BY <1>0, <2>5, <3>1, <4>1 DEF DriverTypeOK
      <4> QED BY <2>2, <2>5, <3>1, <4>1, <4>2
    <3>2. ASSUME NEW q \in Pdos, pdo'[q].fo # None
          PROVE  FsContext'[pdo'[q].fo] = q
      <4>1. q \notin deleted /\ pdo'[q].fo = pdo[q].fo
        BY <2>2, <3>2 DEF Zeroed
      <4>2. pdo[q].fo \in Handles
        BY <1>0, <3>2, <4>1 DEF DriverTypeOK, Extension
      <4>3. FsContext[pdo[q].fo] = q
        BY <2>5, <3>2, <4>1
      <4>4. \A p \in deleted : pdo[p].fo = pdo[q].fo => p = q
        BY <2>4, <2>5, <3>2, <4>1, <4>3
      <4> QED BY <2>3, <4>1, <4>2, <4>3, <4>4
    <3> QED BY <3>1, <3>2 DEF ContextMatches
  <2>7. CallInv'
    <3>1. \A p \in Pdos : object'[p] # "created" => pdo'[p] = Zeroed
      BY <1>0, <2>2, ListedFacts DEF CallInv
    <3>2. \A p \in Pdos : object'[p] = "none" => node'[p] = "unknown"
      BY <1>0, <2>2 DEF CallInv
    <3>3. \A h, g \in Handles : FsContext'[h] = FsContext'[g] =>
            h = g \/ FsContext'[h] = None
      BY <1>0, <2>3 DEF CallInv
    <3> QED BY <2>1, <3>1, <3>2, <3>3 DEF CallInv
  <2> QED BY <2>6, <2>7 DEF ContextInv
<1> QED
  BY <1>1, <1>2, <1>3, <1>4, <1>5, <1>9, <1>10, <1>11, <1>12, <1>13, <1>14, <1>15,
     <1>16, <1>17, <1>18
  DEF Next, NewCall, CallStep, RemoveStep, BusIrp, Links

(* A step that is none of Bus_DestroyPdo, and touches neither the fo of the *)
(* doomed device nor, but to part it, the file object it was.               *)
LEMMA DoomKept ==
  ASSUME IInv, UNCHANGED <<doomed, doomStep, doomFo>>, open' \subseteq open,
         doomed # None => pdo'[doomed].fo = pdo[doomed].fo,
         \A g \in Handles : \/ FsContext'[g] \in {FsContext[g], None}
                            \/ g \in open /\ FsContext'[g] # doomed
  PROVE  DoomInv'
<1>0. /\ doomed \in Pdos \cup {None} /\ doomFo \in Handles \cup {None}
      /\ DoomInv /\ None \notin Pdos
  BY ConstantsAssumption DEF IInv, TypeOK, PnPTypeOK
<1>1. CASE doomed = None
  BY <1>0, <1>1 DEF DoomInv
<1>2. CASE doomed # None
  BY <1>0, <1>2 DEF DoomInv
<1> QED BY <1>1, <1>2

(* Every step keeps what Bus_DestroyPdo may rely on.                        *)
LEMMA DoomStep ==
  ASSUME IInv, Next
  PROVE  DoomInv'
<1>0. /\ DriverTypeOK /\ CallTypeOK /\ ContextMatches /\ CallInv /\ DoomInv
      /\ doomed \in Pdos \cup {None} /\ doomFo \in Handles \cup {None}
      /\ None \notin Pdos /\ LinkInv
  BY ConstantsAssumption DEF IInv, TypeOK, PnPTypeOK
<1>1. CASE Quiet
  <2>1. UNCHANGED doomFo /\ open' \subseteq open
    BY <1>1
    DEF Quiet, PlugCheck, PlugGiveUp, PlugInvalidate, UnplugMiss,
        UnplugInvalidate, CleanupTake, CleanupLook, ReadCheck, ReadWait,
        ReadServed, RelationsNone, BusVanish
  <2> QED BY <1>1, <2>1, QuietEffect, DoomKept
<1>2. ASSUME NEW h \in Handles, NEW p \in Pdos, PlugCreate(h, p)
      PROVE  DoomInv'
  <2>1. /\ UNCHANGED <<pdo, open, doomed, doomStep, doomFo>>
        /\ object[p] = "none" /\ FsContext'[h] = p /\ call[h] = "create"
        /\ \A g \in Handles \ {h} : FsContext'[g] = FsContext[g]
    BY <1>0, <1>2 DEF DriverTypeOK, PlugCreate
  <2>2. h \in open /\ p # doomed
    BY <1>0, <2>1 DEF CallInv, LinkInv
  <2> QED BY <2>1, <2>2, DoomKept
<1>3. ASSUME NEW h \in Handles, PlugInsert(h)
      PROVE  DoomInv'
  <2>1. UNCHANGED <<FsContext, open, doomed, doomStep, doomFo>>
    BY <1>3 DEF PlugInsert
  <2>2. /\ mine[h] \in Pdos /\ node[mine[h]] = "unknown"
        /\ \A q \in Pdos \ {mine[h]} : pdo'[q] = pdo[q]
    BY <1>3, InsertEffect
  <2>3. doomed # mine[h]
    BY <1>0, <2>2 DEF LinkInv
  <2>4. doomed # None => pdo'[doomed].fo = pdo[doomed].fo
    BY <1>0, <2>2, <2>3
  <2> QED BY <2>1, <2>4, DoomKept
<1>4. CASE Flags
  <2>1. UNCHANGED <<doomFo, open>>
    BY <1>4 DEF Flags, UnplugMark, UnplugDrain, Relations
  <2>2. \A p \in Pdos : pdo'[p].fo = pdo[p].fo
    BY <1>0, <1>4, FlagsEffect, FlaggedFields DEF DriverTypeOK
  <2> QED BY <1>0, <1>4, <2>1, <2>2, FlagsEffect, DoomKept
<1>5. ASSUME NEW h \in Handles, CleanupForget(h)
      PROVE  DoomInv'
  <2> DEFINE p == mine[h]
  <2>1. /\ UNCHANGED <<FsContext, open, doomed, doomStep, doomFo>>
        /\ call[h] = "cleanup"
    BY <1>5 DEF CleanupForget
  <2>2. /\ p \in Pdos /\ h \notin open /\ FsContext[h] \in {p, None}
        /\ \A g \in Handles \ {h} : FsContext[g] # p
    BY <1>0, <2>1 DEF CallInv
  <2>3. CASE doomed # p
    <3>1. doomed # None => pdo'[doomed] = pdo[doomed]
      BY <1>0, <1>5, <2>2, <2>3 DEF CleanupForget, DriverTypeOK
    <3> QED BY <2>1, <3>1, DoomKept
  <2>4. CASE doomed = p
    <3>1. pdo'[p].fo = None
      <4>1. object[p] = "created"
        BY <1>0, <2>2, <2>4 DEF LinkInv
      <4> QED BY <1>0, <1>5, <2>2, <4>1 DEF CleanupForget, DriverTypeOK, Extension
    <3>2. doomStep = "part" => doomFo \notin open /\ FsContext[doomFo] \in {p, None}
      <4>1. CASE doomStep = "part" /\ pdo[p].fo = doomFo
        <5>1. FsContext[doomFo] = p /\ doomFo \in Handles
          BY <1>0, <2>2, <2>4, <4>1 DEF ContextMatches, DoomInv
        <5> QED BY <2>2, <5>1
      <4> QED BY <1>0, <2>2, <2>4, <4>1 DEF DoomInv
    <3> QED BY <1>0, <2>1, <2>2, <2>4, <3>1, <3>2 DEF DoomInv
  <2> QED BY <2>3, <2>4
<1>6. ASSUME NEW h \in Handles, CleanupPart(h)
      PROVE  DoomInv'
  <2>1. /\ UNCHANGED <<pdo, open, doomed, doomStep, doomFo>>
        /\ \A g \in Handles : FsContext'[g] \in {FsContext[g], None}
    BY <1>0, <1>6 DEF CleanupPart, DriverTypeOK
  <2> QED BY <2>1, DoomKept
<1>7. ASSUME NEW p \in Pdos, PdoIrp(p)
      PROVE  DoomInv'
  <2>1. /\ doomed = None
        /\ UNCHANGED <<doomed, doomStep>> \/ doomStep' = "marked"
    BY <1>7, PdoIrpEffect DEF IInv, IrpFrame
  <2> QED BY <1>0, <2>1 DEF DoomInv
<1>8. CASE RemoveUnlink
  BY <1>8 DEF RemoveUnlink, DoomInv
<1>9. CASE RemoveLook
  BY <1>0, <1>9 DEF RemoveLook, DoomInv
<1>10. CASE RemovePart
  <2>1. /\ UNCHANGED <<pdo, doomed, doomFo>> /\ doomed \in Pdos
        /\ doomFo \in Handles /\ pdo[doomed].fo \in {doomFo, None}
        /\ doomStep' \in {"forget", "crashed"}
    BY <1>0, <1>10 DEF RemovePart, DoomInv
  <2>2. doomStep' = "forget" => FsContext'[doomFo] = None
    BY <1>0, <1>10, <2>1 DEF RemovePart, DriverTypeOK
  <2> QED BY <1>0, <2>1, <2>2, ConstantsAssumption DEF DoomInv
<1>11. CASE RemoveForget
  <2>1. pdo'[doomed].fo = None /\ doomStep' = "delete" /\ UNCHANGED doomed
    BY <1>0, <1>11 DEF RemoveForget, DriverTypeOK, Extension
  <2> QED BY <2>1 DEF DoomInv
<1>12. CASE RemoveDelete
  BY <1>12 DEF RemoveDelete, DoomInv
<1>13. CASE BusSurprise \/ BusRemove
  <2>1. doomed = None /\ UNCHANGED <<doomed, doomStep>>
    BY <1>13 DEF BusSurprise, BusRemove
  <2> QED BY <1>0, <2>1 DEF DoomInv
<1> QED
  BY NextCases, <1>1, <1>2, <1>3, <1>4, <1>5, <1>6, <1>7, <1>8, <1>9, <1>10, <1>11,
     <1>12, <1>13
  DEF Links

-----------------------------------------------------------------------------
(* PnP states                                                               *)

(* StatesAgree and StateInv for a device with object o, node n, extension e.*)
Agrees(o, n, e) ==
  /\ o = "deleted" => n = "gone"
  /\ o = "created" =>
       /\ e.Present => e.DevicePnPState = StateOf(n)
       /\ e.Present /\ n \in {"stop queried", "remove queried"} =>
            e.PreviousPnPState = "Started"
       /\ n = "surprised" =>
            e.DevicePnPState \in {"SurpriseRemovePending", "PNP_DEVICE_REMOVED"}

(* Agrees, of every device, is what the invariant says of states.           *)
LEMMA AgreesAll ==
  (\A p \in Pdos : Agrees(object[p], node[p], pdo[p])) <=> StatesAgree /\ StateInv
BY DEF Agrees, StatesAgree, StateInv

(* Nothing but whether it is present, missing or linked can have changed.   *)
LEMMA AgreesKept ==
  ASSUME NEW o, NEW n, NEW e \in Extension, NEW f \in Extension, Agrees(o, n, e),
         f.Present => e.Present,
         f.DevicePnPState = e.DevicePnPState,
         f.PreviousPnPState = e.PreviousPnPState
  PROVE  Agrees(o, n, f)
BY DEF Agrees

(* What an unplug and the bus change, and what they keep.                   *)
LEMMA AbsentFields ==
  ASSUME NEW e \in Extension
  PROVE  /\ ~Absent(e).Present
         /\ Absent(e).DevicePnPState = e.DevicePnPState
         /\ Absent(e).PreviousPnPState = e.PreviousPnPState
         /\ Missing(e).Present = e.Present /\ Missing(e).ReportedMissing
         /\ Missing(e).DevicePnPState = e.DevicePnPState
         /\ Missing(e).PreviousPnPState = e.PreviousPnPState
         /\ Absent(e).ReportedMissing = e.ReportedMissing
         /\ ~Removed(e).Present <=> ~e.Present
         /\ Removed(e).ReportedMissing = e.ReportedMissing
         /\ Removed(e).DevicePnPState = "PNP_DEVICE_REMOVED"
<1>1. "PNP_DEVICE_REMOVED" \in States
  BY DEF States
<1>2. /\ ~Removed(e).Present <=> ~e.Present
      /\ Removed(e).ReportedMissing = e.ReportedMissing
      /\ Removed(e).DevicePnPState = "PNP_DEVICE_REMOVED"
  BY <1>1, SetStateFields DEF Removed
<1> QED BY <1>2 DEF Absent, Missing, Extension

(* Every IRP for a device sets the state its node then stands for, and no   *)
(* IRP but an ejection makes a device absent.                               *)
IrpSound(p) ==
  /\ Agrees(object[p], node'[p], pdo'[p])
  /\ \/ pdo'[p].Present = pdo[p].Present /\ stranded' = stranded
     \/ /\ ~pdo'[p].Present
        /\ stranded' = stranded \cup {q \in {p} : pending_read[q]}

(* An IRP leaves its device sound.                                          *)
LEMMA IrpState ==
  ASSUME IInv, NEW p \in Pdos, PdoIrp(p)
  PROVE  IrpSound(p)
<1>0. pdo \in [Pdos -> Extension] /\ pdo[p] \in Extension
  BY DEF IInv, TypeOK, DriverTypeOK
<1>n. node \in [Pdos -> {"unknown", "new", "started", "failed",
                      "stop queried", "stopped", "remove queried",
                      "disabled", "surprised", "gone"}]
  BY DEF IInv, TypeOK, PnPTypeOK
<1>1. Agrees(object[p], node[p], pdo[p]) /\ object[p] = "created"
  BY PdoIrpEffect, AgreesAll DEF IInv, IrpFrame
<1>2. {"NotStarted", "Started", "StopPending", "Stopped", "RemovePending",
       "SurpriseRemovePending", "Deleted"} \subseteq States
  BY DEF States
<1>3. CASE Start(p)
  <2>1. pdo'[p] = SetState(pdo[p], "Started") /\ stranded' = stranded
    BY <1>0, <1>3 DEF Start, Put
  <2>2. /\ pdo'[p].Present = pdo[p].Present
        /\ pdo'[p].DevicePnPState = "Started"
        /\ pdo'[p].PreviousPnPState = pdo[p].DevicePnPState
    BY <1>0, <1>2, <2>1, SetStateFields
  <2>3. node'[p] \in {"started", "failed"}
    BY <1>n, <1>3 DEF Start, Irp
  <2> QED BY <1>1, <2>1, <2>2, <2>3 DEF IrpSound, Agrees, StateOf
<1>4. CASE QueryStop(p)
  <2>1. pdo'[p] = SetState(pdo[p], "StopPending") /\ stranded' = stranded
    BY <1>0, <1>4 DEF QueryStop, Put
  <2>2. /\ pdo'[p].Present = pdo[p].Present
        /\ pdo'[p].DevicePnPState = "StopPending"
        /\ pdo'[p].PreviousPnPState = pdo[p].DevicePnPState
    BY <1>0, <1>2, <2>1, SetStateFields
  <2>3. node'[p] = "stop queried" /\ node[p] = "started"
    BY <1>n, <1>4 DEF QueryStop, Irp
  <2> QED BY <1>1, <2>1, <2>2, <2>3 DEF IrpSound, Agrees, StateOf
<1>5. CASE Stop(p)
  <2>1. pdo'[p] = SetState(pdo[p], "Stopped") /\ stranded' = stranded
    BY <1>0, <1>5 DEF Stop, Put
  <2>2. /\ pdo'[p].Present = pdo[p].Present
        /\ pdo'[p].DevicePnPState = "Stopped"
        /\ pdo'[p].PreviousPnPState = pdo[p].DevicePnPState
    BY <1>0, <1>2, <2>1, SetStateFields
  <2>3. node'[p] = "stopped" /\ node[p] = "stop queried"
    BY <1>n, <1>5 DEF Stop, Irp
  <2> QED BY <1>1, <2>1, <2>2, <2>3 DEF IrpSound, Agrees, StateOf
<1>6. CASE QueryRemove(p)
  <2>1. pdo'[p] = SetState(pdo[p], "RemovePending") /\ stranded' = stranded
    BY <1>0, <1>6 DEF QueryRemove, Put
  <2>2. /\ pdo'[p].Present = pdo[p].Present
        /\ pdo'[p].DevicePnPState = "RemovePending"
        /\ pdo'[p].PreviousPnPState = pdo[p].DevicePnPState
    BY <1>0, <1>2, <2>1, SetStateFields
  <2>3. node'[p] = "remove queried" /\ node[p] = "started"
    BY <1>n, <1>6 DEF QueryRemove, Irp
  <2> QED BY <1>1, <2>1, <2>2, <2>3 DEF IrpSound, Agrees, StateOf
<1>7. CASE SurpriseRemoval(p)
  <2>1. pdo'[p] = SetState(pdo[p], "SurpriseRemovePending") /\ stranded' = stranded
    BY <1>0, <1>7 DEF SurpriseRemoval, Put
  <2>2. /\ pdo'[p].Present = pdo[p].Present
        /\ pdo'[p].DevicePnPState = "SurpriseRemovePending"
        /\ pdo'[p].PreviousPnPState = pdo[p].DevicePnPState
    BY <1>0, <1>2, <2>1, SetStateFields
  <2>3. node'[p] = "surprised"
    BY <1>n, <1>7 DEF SurpriseRemoval, Irp
  <2> QED BY <1>1, <2>1, <2>2, <2>3 DEF IrpSound, Agrees, StateOf
<1>8. CASE RemoveMissing(p)
  <2>1. pdo'[p] = SetState(pdo[p], "Deleted") /\ stranded' = stranded
    BY <1>0, <1>8 DEF RemoveMissing, Put
  <2>2. /\ pdo'[p].Present = pdo[p].Present
        /\ pdo'[p].DevicePnPState = "Deleted"
        /\ pdo'[p].PreviousPnPState = pdo[p].DevicePnPState
    BY <1>0, <1>2, <2>1, SetStateFields
  <2>3. node'[p] = "gone"
    BY <1>n, <1>8 DEF RemoveMissing, Irp
  <2> QED BY <1>1, <2>1, <2>2, <2>3 DEF IrpSound, Agrees, StateOf
<1>9. CASE CancelStop(p)
  <2>1. pdo'[p] = Cancelled(pdo[p], "StopPending") /\ stranded' = stranded
    BY <1>0, <1>9 DEF CancelStop, Put
  <2>2. /\ pdo'[p].Present = pdo[p].Present
        /\ pdo'[p].DevicePnPState =
             IF pdo[p].DevicePnPState = "StopPending" THEN pdo[p].PreviousPnPState
             ELSE pdo[p].DevicePnPState
    BY <1>0, <2>1, RestoreStateFields DEF Cancelled
  <2>3. node'[p] = "started" /\ node[p] \in {"stop queried", "started"}
    BY <1>n, <1>9 DEF CancelStop, Irp
  <2> QED BY <1>1, <2>1, <2>2, <2>3 DEF IrpSound, Agrees, StateOf
<1>10. CASE CancelRemove(p)
  <2>1. pdo'[p] = Cancelled(pdo[p], "RemovePending") /\ stranded' = stranded
    BY <1>0, <1>10 DEF CancelRemove, Put
  <2>2. /\ pdo'[p].Present = pdo[p].Present
        /\ pdo'[p].DevicePnPState =
             IF pdo[p].DevicePnPState = "RemovePending" THEN pdo[p].PreviousPnPState
             ELSE pdo[p].DevicePnPState
    BY <1>0, <2>1, RestoreStateFields DEF Cancelled
  <2>3. node'[p] = "started" /\ node[p] \in {"remove queried", "started"}
    BY <1>n, <1>10 DEF CancelRemove, Irp
  <2> QED BY <1>1, <2>1, <2>2, <2>3 DEF IrpSound, Agrees, StateOf
<1>11. CASE RemoveDisable(p)
  <2>1. node'[p] = "disabled" /\ stranded' = stranded
    BY <1>n, <1>11 DEF RemoveDisable, Irp
  <2>2. CASE pdo[p].Present
    <3>1. pdo'[p] = SetState(pdo[p], "NotStarted")
      BY <1>0, <1>11, <2>2 DEF RemoveDisable, Put
    <3>2. /\ pdo'[p].Present = pdo[p].Present
          /\ pdo'[p].DevicePnPState = "NotStarted"
      BY <1>0, <1>2, <3>1, SetStateFields
    <3> QED BY <1>1, <2>1, <3>2 DEF IrpSound, Agrees, StateOf
  <2>3. CASE ~pdo[p].Present
    <3>1. pdo'[p] = pdo[p]
      BY <1>11, <2>3 DEF RemoveDisable
    <3> QED BY <1>1, <2>1, <2>3, <3>1 DEF IrpSound, Agrees
  <2> QED BY <2>2, <2>3
<1>12. CASE Eject(p)
  <2>1. /\ node'[p] = "disabled" /\ pdo'[p] = Absent(pdo[p])
        /\ stranded' = stranded \cup {q \in {p} : pending_read[q]}
    BY <1>0, <1>n, <1>12 DEF Eject, Irp, Put
  <2>2. ~pdo'[p].Present
    BY <1>0, <2>1, AbsentFields
  <2> QED BY <1>1, <2>1, <2>2 DEF IrpSound, Agrees
<1> QED BY <1>3, <1>4, <1>5, <1>6, <1>7, <1>8, <1>9, <1>10, <1>11, <1>12 DEF PdoIrp

(* Every step keeps the PnP states right,                                   *)
LEMMA StateStep ==
  ASSUME IInv, Next, TypeOK'
  PROVE  StatesAgree' /\ StateInv'
<1>0. /\ DriverTypeOK /\ CallInv
      /\ \A p \in Pdos : pdo[p] \in Extension /\ pdo'[p] \in Extension
      /\ \A p \in Pdos : Agrees(object[p], node[p], pdo[p])
  BY AgreesAll DEF IInv, TypeOK, DriverTypeOK
<1> DEFINE Good == \A p \in Pdos : Agrees(object'[p], node'[p], pdo'[p])
<1>s. SUFFICES Good
  <2>1. ((\A p \in Pdos : Agrees(object[p], node[p], pdo[p]))
           <=> StatesAgree /\ StateInv)'
    BY AgreesAll, PTL
  <2> QED BY <2>1
<1>1. CASE Quiet \/ RemoveUnlink
  <2>1. UNCHANGED <<pdo, object, node>>
    BY <1>1, QuietEffect DEF RemoveUnlink
  <2> QED BY <1>0, <2>1
<1>2. ASSUME NEW h \in Handles, NEW p \in Pdos, PlugCreate(h, p)
      PROVE  Good
  <2>1. /\ object[p] = "none" /\ UNCHANGED <<pdo, node>>
        /\ object'[p] = "created"
        /\ \A q \in Pdos \ {p} : object'[q] = object[q]
    BY <1>0, <1>2 DEF DriverTypeOK, PlugCreate
  <2>2. pdo[p] = Zeroed /\ node[p] = "unknown"
    BY <1>0, <2>1 DEF CallInv
  <2>3. Agrees(object'[p], node'[p], pdo'[p])
    BY <2>1, <2>2 DEF Agrees, Zeroed
  <2> QED BY <1>0, <2>1, <2>3
<1>3. ASSUME NEW h \in Handles, PlugInsert(h)
      PROVE  Good
  <2>1. UNCHANGED <<object, node>>
    BY <1>3 DEF PlugInsert
  <2>2. /\ mine[h] \in Pdos /\ node[mine[h]] = "unknown"
        /\ object[mine[h]] = "created"
        /\ \A q \in Pdos \ {mine[h]} : pdo'[q] = pdo[q]
    BY <1>3, InsertEffect
  <2>3. pdo'[mine[h]].DevicePnPState = "NotStarted"
    BY <1>3, NewFields
  <2>4. Agrees(object'[mine[h]], node'[mine[h]], pdo'[mine[h]])
    BY <2>1, <2>2, <2>3 DEF Agrees, StateOf
  <2> QED BY <1>0, <2>1, <2>2, <2>4
<1>4. ASSUME NEW h \in Handles, NEW port \in Ports \cup {0}, UnplugMark(h, port)
      PROVE  Good
  <2>1. UNCHANGED <<object, node>>
    BY <1>4 DEF UnplugMark
  <2>2. \A p \in Pdos : pdo'[p] \in {pdo[p], Absent(pdo[p])}
    BY <1>4 DEF UnplugMark, Changed
  <2> QED BY <1>0, <2>1, <2>2, AbsentFields, AgreesKept
<1>5. ASSUME NEW h \in Handles, UnplugDrain(h)
      PROVE  Good
  <2>1. UNCHANGED <<object, node>>
    BY <1>5 DEF UnplugDrain
  <2>2. \A p \in Pdos : \/ pdo'[p] = pdo[p]
                        \/ ~pdo[p].Present /\ pdo'[p] = Removed(pdo[p])
    BY <1>5 DEF UnplugDrain, Changed
  <2>3. ASSUME NEW p \in Pdos, ~pdo[p].Present, pdo'[p] = Removed(pdo[p])
        PROVE  Agrees(object[p], node[p], pdo'[p])
    <3>1. ~pdo'[p].Present /\ pdo'[p].DevicePnPState = "PNP_DEVICE_REMOVED"
      BY <1>0, <2>3, AbsentFields
    <3> QED BY <1>0, <3>1 DEF Agrees
  <2> QED BY <1>0, <2>1, <2>2, <2>3
<1>6. CASE Relations
  <2>1. UNCHANGED object
    BY <1>6 DEF Relations
  <2>2. \A p \in Pdos : \/ node'[p] = node[p]
                        \/ /\ InList(p) /\ node[p] = "unknown"
                           /\ node'[p] = "new"
    BY <1>6 DEF Relations
  <2>3. \A p \in Pdos : pdo'[p] \in {pdo[p], Missing(pdo[p])}
    BY <1>6 DEF Relations, Changed
  <2>4. \A p \in Pdos : Agrees(object[p], node[p], pdo'[p])
    BY <1>0, <2>3, AbsentFields, AgreesKept
  <2>5. ASSUME NEW p \in Pdos, InList(p), node[p] = "unknown", node'[p] = "new"
        PROVE  Agrees(object[p], node'[p], pdo'[p])
    <3>1. object[p] = "created"
      BY <2>5, ListedFacts
    <3> QED BY <2>4, <2>5, <3>1 DEF Agrees, StateOf
  <2> QED BY <2>1, <2>2, <2>4, <2>5
<1>7. CASE Links
  BY <1>0, <1>7, LinksEffect, AgreesKept
<1>8. ASSUME NEW p \in Pdos, PdoIrp(p)
      PROVE  Good
  BY <1>0, <1>8, PdoIrpEffect, IrpState DEF IInv, IrpFrame, IrpSound
<1>9. CASE RemoveDelete
  <2>1. Agrees("deleted", "gone", Zeroed)
    BY DEF Agrees
  <2> QED BY <1>0, <1>9, <2>1, DeleteEffect
<1>10. CASE BusSurprise
  BY <1>0, <1>10, BusSurpriseEffect, OrphanFields, AgreesKept
<1>11. CASE BusRemove
  <2>1. Agrees("deleted", "gone", Zeroed)
    BY DEF Agrees
  <2>2. \A p \in Pdos :
          \/ pdo'[p] = Zeroed /\ object'[p] = "deleted" /\ node'[p] = "gone"
          \/ /\ pdo'[p] = Orphan(pdo[p]) \/ pdo'[p] = pdo[p]
             /\ object'[p] = object[p] /\ node'[p] = node[p]
    BY <1>11, BusRemoveEffect
  <2> QED BY <1>0, <2>1, <2>2, OrphanFields, AgreesKept
<1> QED
  BY NextCases, <1>1, <1>2, <1>3, <1>4, <1>5, <1>6, <1>7, <1>8, <1>9, <1>10, <1>11
  DEF Flags

-----------------------------------------------------------------------------
(* Reads                                                                    *)

LEMMA ReadStep ==
  ASSUME IInv, Next
  PROVE  ReadInv'
<1>0. /\ DriverTypeOK /\ CallInv /\ ReadInv
      /\ \A p \in Pdos : pdo[p] \in Extension
      /\ bus \in {"started", "vanishing", "surprised", "removed"}
  BY DEF IInv, TypeOK, DriverTypeOK, PnPTypeOK
<1> DEFINE Live(b) == b \in {"started", "vanishing"}
           Flagless(p) == pdo'[p].Present = pdo[p].Present
                          /\ pdo'[p].ReportedMissing = pdo[p].ReportedMissing
<1>1. ASSUME UNCHANGED <<object, pending_read, stranded>>,
             Live(bus') => Live(bus),
             \A p \in Pdos :
               \/ Flagless(p)
               \/ ~pdo[p].Present /\ ~pdo'[p].Present
      PROVE  ReadInv'
  BY <1>0, <1>1 DEF ReadInv
<1>2. ASSUME NEW h \in Handles, ReadWait(h)
      PROVE  ReadInv'
  <2>1. mine[h] \in Pdos /\ UNCHANGED <<pdo, object, bus>>
    BY <1>0, <1>2 DEF ReadWait, CallInv
  <2>2. \A q \in Pdos \ {mine[h]} : pending_read'[q] = pending_read[q]
    BY <1>0, <1>2, <2>1 DEF DriverTypeOK, ReadWait
  <2>3. stranded \subseteq stranded'
    BY <1>2 DEF ReadWait
  <2>4. pending_read'[mine[h]] =>
          /\ object[mine[h]] = "created"
          /\ pdo[mine[h]].Present \/ mine[h] \in stranded'
    BY <1>0, <1>2, <2>1 DEF DriverTypeOK, ReadWait
  <2> QED BY <1>0, <2>1, <2>2, <2>3, <2>4 DEF ReadInv
<1>3. ASSUME NEW p \in Pdos, ReadServed(p)
      PROVE  ReadInv'
  <2>1. UNCHANGED <<pdo, object, bus, stranded>>
    BY <1>3 DEF ReadServed
  <2>2. \A q \in Pdos : pending_read'[q] => pending_read[q]
    BY <1>0, <1>3 DEF DriverTypeOK, ReadServed
  <2> QED BY <1>0, <2>1, <2>2 DEF ReadInv
<1>4. ASSUME Quiet \/ RemoveUnlink
      PROVE  ReadInv'
  <2>1. UNCHANGED pdo /\ (Live(bus') => Live(bus))
    BY <1>4, QuietEffect DEF RemoveUnlink
  <2>2. CASE \E h \in Handles : \/ \E port \in Ports : PlugCheck(h, port)
                                \/ PlugGiveUp(h) \/ PlugInvalidate(h)
                                \/ UnplugMiss(h) \/ UnplugInvalidate(h)
                                \/ CleanupTake(h) \/ CleanupLook(h)
                                \/ ReadCheck(h)
    <3>1. UNCHANGED <<object, pending_read, stranded>>
      BY <2>2 DEF PlugCheck, PlugGiveUp, PlugInvalidate, UnplugMiss,
                  UnplugInvalidate, CleanupTake, CleanupLook, ReadCheck
    <3> QED BY <1>1, <2>1, <3>1
  <2>3. CASE RelationsNone \/ BusVanish \/ RemoveUnlink
    <3>1. UNCHANGED <<object, pending_read, stranded>>
      BY <2>3 DEF RelationsNone, BusVanish, RemoveUnlink
    <3> QED BY <1>1, <2>1, <3>1
  <2> QED BY <1>2, <1>3, <1>4, <2>2, <2>3 DEF Quiet
<1>5. ASSUME NEW h \in Handles, NEW p \in Pdos, PlugCreate(h, p)
      PROVE  ReadInv'
  <2>1. /\ UNCHANGED <<pdo, pending_read, bus, stranded>>
        /\ \A q \in Pdos : object[q] = "created" => object'[q] = "created"
    BY <1>0, <1>5 DEF DriverTypeOK, PlugCreate
  <2> QED BY <1>0, <2>1 DEF ReadInv
<1>6. ASSUME NEW h \in Handles, PlugInsert(h)
      PROVE  ReadInv'
  <2>1. UNCHANGED <<object, pending_read, bus, stranded>>
    BY <1>6 DEF PlugInsert
  <2>2. /\ mine[h] \in Pdos
        /\ \A q \in Pdos \ {mine[h]} : pdo'[q] = pdo[q]
    BY <1>6, InsertEffect
  <2>3. pdo'[mine[h]].Present /\ ~pdo'[mine[h]].ReportedMissing
    BY <1>6, NewFields
  <2> QED BY <1>0, <2>1, <2>2, <2>3 DEF ReadInv
<1>7. ASSUME NEW h \in Handles, NEW port \in Ports \cup {0}, UnplugMark(h, port)
      PROVE  ReadInv'
  <2> DEFINE hit == {ListOfPDOs[i] : i \in Found(port)}
  <2>1. UNCHANGED <<object, bus>>
    BY <1>7 DEF UnplugMark
  <2>2. \A p \in Pdos :
          \/ /\ p \in hit /\ ~pending_read'[p] /\ pdo'[p] = Absent(pdo[p])
          \/ /\ p \notin hit /\ pdo'[p] = pdo[p]
             /\ pending_read'[p] = pending_read[p]
             /\ p \in stranded => p \in stranded'
    BY <1>0, <1>7 DEF DriverTypeOK, UnplugMark, Changed, CompleteRead
  <2> HIDE DEF hit
  <2> QED BY <1>0, <2>1, <2>2, AbsentFields DEF ReadInv
<1>8. ASSUME NEW h \in Handles, UnplugDrain(h)
      PROVE  ReadInv'
  <2>1. UNCHANGED <<object, pending_read, stranded, bus>>
    BY <1>8 DEF UnplugDrain
  <2>2. \A p \in Pdos : \/ pdo'[p] = pdo[p]
                        \/ ~pdo[p].Present /\ pdo'[p] = Removed(pdo[p])
    BY <1>8 DEF UnplugDrain, Changed
  <2>3. \A p \in Pdos : Flagless(p) \/ (~pdo[p].Present /\ ~pdo'[p].Present)
    BY <1>0, <2>2, AbsentFields
  <2> QED BY <1>1, <2>1, <2>3
<1>9. ASSUME Relations
      PROVE  ReadInv'
  <2>1. UNCHANGED <<object, pending_read, stranded, bus>>
    BY <1>9 DEF Relations
  <2>2. \A p \in Pdos : \/ pdo'[p] = pdo[p]
                        \/ ~pdo[p].Present /\ pdo'[p] = Missing(pdo[p])
    BY <1>9 DEF Relations, Changed
  <2>3. \A p \in Pdos : Flagless(p) \/ (~pdo[p].Present /\ ~pdo'[p].Present)
    BY <1>0, <2>2, AbsentFields
  <2> QED BY <1>1, <2>1, <2>3
<1>10. ASSUME Links
      PROVE  ReadInv'
  <2>1. \A p \in Pdos : Flagless(p)
    BY <1>10, LinksEffect
  <2> QED BY <1>1, <1>10, <2>1, LinksEffect
<1>11. ASSUME NEW p \in Pdos, PdoIrp(p)
      PROVE  ReadInv'
  <2>1. /\ UNCHANGED <<object, pending_read, bus>>
        /\ \A q \in Pdos \ {p} : pdo'[q] = pdo[q]
        /\ pdo'[p].ReportedMissing = pdo[p].ReportedMissing
        /\ pdo'[p].Present => pdo[p].Present
    BY <1>11, PdoIrpEffect DEF IInv, IrpFrame, Kept
  <2>2. IrpSound(p)
    BY <1>11, IrpState
  <2>3. stranded \subseteq stranded'
    BY <2>2 DEF IrpSound
  <2>4. ~pdo'[p].Present /\ pending_read[p] => p \in stranded'
    BY <1>0, <2>2 DEF IrpSound, ReadInv
  <2> QED BY <1>0, <2>1, <2>3, <2>4 DEF ReadInv
<1>12. ASSUME RemoveDelete
      PROVE  ReadInv'
  <2>1. ~pending_read'[doomed]
    BY <1>12, DeleteEffect DEF RemoveDelete, IoDeleteDevice
  <2> QED BY <1>0, <1>12, <2>1, DeleteEffect DEF ReadInv, Zeroed
<1>13. ASSUME BusSurprise
      PROVE  ReadInv'
  <2>1. \A p \in Pdos : pdo'[p].Present = pdo[p].Present
    BY <1>0, <1>13, BusSurpriseEffect, OrphanFields
  <2> QED BY <1>0, <1>13, <2>1, BusSurpriseEffect DEF ReadInv
<1>14. ASSUME BusRemove
      PROVE  ReadInv'
  <2> DEFINE deleted == {p \in Pdos : InList(p)} \ Spared
  <2>1. \A p \in Pdos : p \in deleted => ~pending_read'[p]
    BY <1>14 DEF BusRemove, IoDeleteDevice
  <2>2. /\ bus' = "removed"
        /\ \A p \in Pdos : p \notin deleted =>
             /\ pdo'[p] = Orphan(pdo[p]) \/ pdo'[p] = pdo[p]
             /\ object'[p] = object[p] /\ pending_read'[p] = pending_read[p]
             /\ p \in stranded' <=> p \in stranded
    BY <1>14, BusRemoveEffect
  <2> HIDE DEF deleted
  <2>3. \A p \in Pdos : p \notin deleted => pdo'[p].Present = pdo[p].Present
    BY <1>0, <2>2, OrphanFields
  <2> QED BY <1>0, <2>1, <2>2, <2>3 DEF ReadInv
<1> QED
  BY NextCases, <1>4, <1>5, <1>6, <1>7, <1>8, <1>9, <1>10, <1>11, <1>12, <1>13,
     <1>14
  DEF Flags

-----------------------------------------------------------------------------
(* The theorems                                                             *)

LEMMA StepIInv == IInv /\ [Next]_vars => IInv'
<1>1. ASSUME IInv, Next
      PROVE  IInv'
  <2>1. TypeOK'
    BY <1>1, DriverTypeStep, PnPTypeStep, CallTypeStep DEF TypeOK
  <2>2. ListInv'
    BY <1>1, <2>1, ListStep DEF TypeOK
  <2> QED
    BY <1>1, <2>1, <2>2, ContextStep, DoomStep, StateStep, ReadStep
    DEF IInv, ListInv, ContextInv
<1>2. ASSUME IInv, UNCHANGED vars
      PROVE  IInv'
  <2>1. TypeOK'
    BY <1>2 DEF vars, IInv, TypeOK, DriverTypeOK, PnPTypeOK, CallTypeOK
  <2>2. ListSound' /\ CountMatches' /\ LinkInv'
    BY <1>2 DEF vars, IInv, ListSound, CountMatches, LinkInv, InList
  <2>3. ContextMatches' /\ CallInv' /\ DoomInv'
    BY <1>2 DEF vars, IInv, ContextMatches, CallInv, DoomInv
  <2>4. StatesAgree' /\ StateInv' /\ ReadInv'
    BY <1>2 DEF vars, IInv, StatesAgree, StateInv, ReadInv
  <2> QED BY <2>1, <2>2, <2>3, <2>4 DEF IInv
<1> QED BY <1>1, <1>2

(* Every reachable state has the inductive invariant. *)
THEOREM Invariant == Spec => []IInv
BY InitIInv, StepIInv, PTL DEF Spec

(* Every variable keeps its type; NumPDOs does not become negative. *)
THEOREM TypeCorrect == Spec => []TypeOK
<1>1. IInv => TypeOK
  BY DEF IInv
<1> QED BY <1>1, Invariant, PTL

(* The list of the bus holds no device twice and none that is deleted. *)
THEOREM ListCorrect == Spec => []ListSound
<1>1. IInv => ListSound
  BY DEF IInv
<1> QED BY <1>1, Invariant, PTL

(* NumPDOs counts the list, as long as the bus has not been removed by      *)
(* surprise.                                                                *)
THEOREM CountCorrect == Spec => []CountMatches
<1>1. IInv => CountMatches
  BY DEF IInv
<1> QED BY <1>1, Invariant, PTL

(* A file object and its device point to each other, but for the steps of   *)
(* Bus_Cleanup and of Bus_DestroyPdo that part them; no other call follows  *)
(* a pointer to a deleted device.                                           *)
THEOREM ContextCorrect == Spec => []ContextMatches
<1>1. IInv => ContextMatches
  BY DEF IInv
<1> QED BY <1>1, Invariant, PTL

(* The PnP state of a device that is plugged in is the one the PnP manager  *)
(* has in mind, after any queries, cancels and restarts.                    *)
THEOREM StatesCorrect == Spec => []StatesAgree
<1>1. IInv => StatesAgree
  BY DEF IInv
<1> QED BY <1>1, Invariant, PTL

(* A device is deleted by its own IRP_MN_REMOVE_DEVICE or by that of the    *)
(* bus.                                                                     *)
LEMMA DeletedBy ==
  ASSUME IInv, [Next]_vars, NEW p \in Pdos, object'[p] = "deleted"
  PROVE  \/ object[p] = "deleted"
         \/ RemoveDelete /\ p = doomed
         \/ BusRemove /\ InList(p) /\ p \notin Spared
<1>1. CASE UNCHANGED vars
  BY <1>1 DEF vars
<1>2. CASE Quiet \/ Flags \/ Links \/ RemoveUnlink
  <2>1. UNCHANGED object
    BY <1>2, QuietEffect, FlagsEffect, LinksEffect
    DEF IInv, TypeOK, RemoveUnlink
  <2> QED BY <2>1
<1>3. CASE \E h \in Handles : \/ PlugInsert(h)
                              \/ \E q \in Pdos : PlugCreate(h, q)
  BY <1>3 DEF IInv, TypeOK, DriverTypeOK, PlugInsert, PlugCreate
<1>4. CASE BusSurprise \/ \E q \in Pdos : PdoIrp(q)
  <2>1. UNCHANGED object
    BY <1>4, BusSurpriseEffect, PdoIrpEffect DEF IInv, IrpFrame
  <2> QED BY <2>1
<1>5. CASE RemoveDelete
  BY <1>5, DeleteEffect
<1>6. CASE BusRemove
  BY <1>6, BusRemoveEffect
<1> QED BY NextCases, <1>1, <1>2, <1>3, <1>4, <1>5, <1>6

(* Removing the bus spares every device that waits for its own REMOVE and   *)
(* whose state no unplug has overwritten.                                   *)
THEOREM SparedCorrect == Spec => SurprisedSpared
<1>1. ASSUME IInv, [Next]_vars, NEW p \in Pdos,
             node[p] = "surprised", object'[p] = "deleted"
      PROVE  pdo[p].DevicePnPState = "PNP_DEVICE_REMOVED"
  <2>1. object[p] # "deleted"
    BY <1>1 DEF IInv, StateInv
  <2>2. CASE RemoveDelete /\ p = doomed
    BY <1>1, <2>2, DeleteEffect
  <2>3. CASE BusRemove /\ InList(p) /\ p \notin Spared
    <3>1. object[p] = "created" /\ pdo[p].DevicePnPState # "SurpriseRemovePending"
      BY <1>1, <2>3, ListedFacts DEF Spared
    <3> QED BY <1>1, <3>1 DEF IInv, StateInv
  <2> QED BY <1>1, <2>1, <2>2, <2>3, DeletedBy
<1>2. IInv /\ [Next]_vars =>
        [\A p \in Pdos :
           node[p] = "surprised" /\ object'[p] = "deleted" =>
             pdo[p].DevicePnPState = "PNP_DEVICE_REMOVED"]_vars
  BY <1>1
<1> QED BY <1>2, Invariant, PTL DEF Spec, SurprisedSpared

(* No read goes with its device that the unplug had the chance to complete. *)
THEOREM ReadsCorrect == Spec => ReadLostOnly
<1>1. ASSUME IInv, [Next]_vars, NEW p \in Pdos, object[p] = "created",
             object'[p] = "deleted", pending_read[p]
      PROVE  p \in stranded \/ bus' # "started"
  <2>1. CASE RemoveDelete /\ p = doomed
    <3>1. pdo[p].ReportedMissing /\ bus' = bus
      BY <1>1, <2>1, DeleteEffect
    <3> QED BY <1>1, <3>1 DEF IInv, ReadInv
  <2>2. CASE BusRemove
    BY <1>1, <2>2, BusRemoveEffect
  <2> QED BY <1>1, <2>1, <2>2, DeletedBy
<1>2. IInv /\ [Next]_vars =>
        [\A p \in Pdos :
           object[p] = "created" /\ object'[p] = "deleted" /\ pending_read[p] =>
             p \in stranded \/ bus' # "started"]_vars
  BY <1>1
<1> QED BY <1>2, Invariant, PTL DEF Spec, ReadLostOnly

=============================================================================
