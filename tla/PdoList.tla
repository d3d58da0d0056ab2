-------------------------------- MODULE PdoList --------------------------------
(***************************************************************************)
(* The devices on the virtual bus: how user space plugs them in and out    *)
(* (bus_plugin_dev, bus_unplug_dev, Bus_Cleanup), how the PnP manager       *)
(* learns of them and removes them (Bus_FDO_PnP, Bus_PDO_PnP,               *)
(* Bus_DestroyPdo), and how a file object points to its device meanwhile.   *)
(*                                                                         *)
(* A section under the bus's mutex is one action, and so is each stretch    *)
(* between two of them.  What happens in a device's queue is in UrbQueue;   *)
(* here only the read that waits for a packet is kept.  The PnP manager is  *)
(* external: one thread that sends one IRP at a time.                       *)
(***************************************************************************)
EXTENDS Naturals, FiniteSets, Sequences, SequencesExt

CONSTANTS
  Pdos,     (* the device objects that can be created                       *)
  Handles,  (* the file objects of user space, each used by one thread      *)
  Ports,    (* the serial numbers user space asks for: 1..127 in C          *)
  Irps,     (* what may come: from the PnP manager "STOP", "REMOVE" and     *)
            (* "EJECT" of a device and removal of the "BUS", from user      *)
            (* space "READ"                                                 *)
  None      (* the null pointer                                             *)

ASSUME ConstantsAssumption ==
  /\ IsFiniteSet(Pdos)
  /\ Ports \subseteq Nat \ {0}
  /\ None \notin Pdos
  /\ None \notin Handles

VARIABLES
  ListOfPDOs,   (* the devices on the bus, the oldest first                 *)
  NumPDOs,
  pdo,          (* the extension of each device object                      *)
  object,       (* is the device object there: none yet, created, deleted   *)
  pending_read, (* does a read wait in the device?                          *)
  FsContext     (* the device a file object points to                       *)

busVars == <<ListOfPDOs, NumPDOs>>

VARIABLES
  node,     (* what the PnP manager knows of each device                    *)
  bus,      (* what it knows of the bus device                              *)
  rescan    (* has it been asked for the devices on the bus, did that fail? *)

pnpVars == <<node, bus, rescan>>

VARIABLES
  open,     (* the file objects that have not been cleaned up               *)
  call,     (* where the call of each of them is                            *)
  arg,      (* its serial number: 0 is for all devices                      *)
  mine,     (* its pdodata                                                  *)
  doomed,   (* the device IRP_MN_REMOVE_DEVICE is deleting                  *)
  doomStep, (* how far it has come                                          *)
  doomFo    (* the fo of the device when it was tested                      *)

callVars == <<open, call, arg, mine>>
doomVars == <<doomed, doomStep, doomFo>>

VARIABLES
  stranded  (* history: the devices in which a read waits that had missed   *)
            (* the unplug, or was there when the device was ejected         *)

vars == <<busVars, pdo, object, pending_read, FsContext, pnpVars, callVars,
          doomVars, stranded>>

(* The PnP state of a device, with the value that bus_unplug_dev stores in  *)
(* it and that is not one of DEVICE_PNP_STATE.                              *)
States == {"NotStarted", "Started", "StopPending", "Stopped", "RemovePending",
           "SurpriseRemovePending", "Deleted", "PNP_DEVICE_REMOVED"}

Extension ==
  [SerialNo : Ports \cup {0}, Present : BOOLEAN, ReportedMissing : BOOLEAN,
   DevicePnPState : States, PreviousPnPState : States, ParentFdo : BOOLEAN,
   fo : Handles \cup {None}]

DriverTypeOK ==
  /\ ListOfPDOs \in Seq(Pdos)
  /\ NumPDOs \in Nat
  /\ pdo \in [Pdos -> Extension]
  /\ object \in [Pdos -> {"none", "created", "deleted"}]
  /\ pending_read \in [Pdos -> BOOLEAN]
  /\ FsContext \in [Handles -> Pdos \cup {None}]
  /\ stranded \subseteq Pdos

PnPTypeOK ==
  /\ node \in [Pdos -> {"unknown", "new", "started", "failed", "stop queried",
                        "stopped", "remove queried", "disabled", "surprised",
                        "gone"}]
  /\ bus \in {"started", "vanishing", "surprised", "removed"}
  /\ rescan \in {"no", "wanted", "failed"}
  /\ doomed \in Pdos \cup {None}
  /\ doomStep \in {"marked", "unlinked", "part", "forget", "delete", "crashed"}
  /\ doomFo \in Handles \cup {None}

CallTypeOK ==
  /\ open \subseteq Handles
  /\ call \in [Handles -> {"idle", "create", "insert", "plugged", "unplug",
                           "marked", "drain", "cleanup", "part", "look",
                           "read"}]
  /\ arg \in [Handles -> Ports \cup {0}]
  /\ mine \in [Handles -> Pdos \cup {None}]

TypeOK == DriverTypeOK /\ PnPTypeOK /\ CallTypeOK

Zeroed ==
  [SerialNo |-> 0, Present |-> FALSE, ReportedMissing |-> FALSE,
   DevicePnPState |-> "NotStarted", PreviousPnPState |-> "NotStarted",
   ParentFdo |-> FALSE, fo |-> None]

Init ==
  /\ ListOfPDOs = <<>>
  /\ NumPDOs = 0
  /\ pdo = [p \in Pdos |-> Zeroed]
  /\ object = [p \in Pdos |-> "none"]
  /\ pending_read = [p \in Pdos |-> FALSE]
  /\ FsContext = [h \in Handles |-> None]
  /\ node = [p \in Pdos |-> "unknown"]
  /\ bus = "started"
  /\ rescan = "no"
  /\ open = Handles
  /\ call = [h \in Handles |-> "idle"]
  /\ arg = [h \in Handles |-> 0]
  /\ mine = [h \in Handles |-> None]
  /\ doomed = None
  /\ doomStep = "marked"
  /\ doomFo = None
  /\ stranded = {}

-----------------------------------------------------------------------------
(* Helpers                                                                  *)

InList(p) == \E i \in DOMAIN ListOfPDOs : ListOfPDOs[i] = p

(* SET_NEW_PNP_STATE and RESTORE_PREVIOUS_PNP_STATE on an extension         *)
SetState(e, s) ==
  [e EXCEPT !.PreviousPnPState = e.DevicePnPState, !.DevicePnPState = s]
RestoreState(e) == [e EXCEPT !.DevicePnPState = e.PreviousPnPState]

(* The extensions after f has been applied to those of the devices in S.    *)
Changed(S, f(_)) == [p \in Pdos |-> IF p \in S THEN f(pdo[p]) ELSE pdo[p]]

Goto(h, where) == call' = [call EXCEPT ![h] = where]

(* A call that returns forgets its variables. *)
Return(h) ==
  /\ Goto(h, "idle")
  /\ arg' = [arg EXCEPT ![h] = 0]
  /\ mine' = [mine EXCEPT ![h] = None]

(* A call may be dispatched: the bus device is there. *)
Ready(h) == h \in open /\ call[h] = "idle" /\ bus # "removed"

(* The machine has not stopped in Bus_DestroyPdo. *)
Running == doomStep # "crashed"

-----------------------------------------------------------------------------
(* Plugging in: bus_plugin_dev                                              *)

(* First section: no device has the serial number, but one that has been    *)
(* removed by surprise.  Otherwise the call fails.                          *)
PlugCheck(h, port) ==
  /\ Ready(h)
  /\ \A i \in DOMAIN ListOfPDOs :
       LET e == pdo[ListOfPDOs[i]] IN
       e.SerialNo = port => e.DevicePnPState = "SurpriseRemovePending"
  /\ Goto(h, "create")
  /\ arg' = [arg EXCEPT ![h] = port]
  /\ UNCHANGED <<busVars, pdo, object, pending_read, FsContext, pnpVars, open,
                 mine, doomVars, stranded>>

(* There is no memory, or the file object has a device already; what was    *)
(* created is deleted again.                                                *)
PlugGiveUp(h) ==
  /\ call[h] = "create"
  /\ Return(h)
  /\ UNCHANGED <<busVars, pdo, object, pending_read, FsContext, pnpVars, open,
                 doomVars, stranded>>

(* A device object is created, and the file object points to it.            *)
PlugCreate(h, p) ==
  /\ call[h] = "create"
  /\ object[p] = "none"
  /\ FsContext[h] = None
  /\ object' = [object EXCEPT ![p] = "created"]
  /\ FsContext' = [FsContext EXCEPT ![h] = p]
  /\ mine' = [mine EXCEPT ![h] = p]
  /\ Goto(h, "insert")
  /\ UNCHANGED <<busVars, pdo, pending_read, pnpVars, open, arg, doomVars,
                 stranded>>

\* Faulty variant: the new device is not counted.
PlugInsertUncounted(h) ==
  /\ call[h] = "insert"
  /\ pdo' = [pdo EXCEPT ![mine[h]] =
       [Zeroed EXCEPT !.SerialNo = arg[h], !.Present = TRUE,
                      !.ParentFdo = TRUE, !.fo = h]]
  /\ ListOfPDOs' = Append(ListOfPDOs, mine[h])
  /\ Goto(h, "plugged")
  /\ UNCHANGED <<NumPDOs, object, pending_read, FsContext, pnpVars, open, arg,
                 mine, doomVars, stranded>>

(* bus_init_pdo: the second section. *)
PlugInsert(h) ==
  /\ call[h] = "insert"
  /\ pdo' = [pdo EXCEPT ![mine[h]] =
       [Zeroed EXCEPT !.SerialNo = arg[h], !.Present = TRUE,
                      !.ParentFdo = TRUE, !.fo = h]]
  /\ ListOfPDOs' = Append(ListOfPDOs, mine[h])
  /\ NumPDOs' = NumPDOs + 1
  /\ Goto(h, "plugged")
  /\ UNCHANGED <<object, pending_read, FsContext, pnpVars, open, arg, mine,
                 doomVars, stranded>>

(* IoInvalidateDeviceRelations *)
PlugInvalidate(h) ==
  /\ call[h] = "plugged"
  /\ rescan' = "wanted"
  /\ Return(h)
  /\ UNCHANGED <<busVars, pdo, object, pending_read, FsContext, node, bus, open,
                 doomVars, stranded>>

-----------------------------------------------------------------------------
(* Unplugging: bus_unplug_dev and Bus_Cleanup                               *)

(* The places of the devices an unplug finds: all, or the first that has    *)
(* the serial number.                                                       *)
Found(port) ==
  {i \in DOMAIN ListOfPDOs :
     \/ port = 0
     \/ /\ pdo[ListOfPDOs[i]].SerialNo = port
        /\ \A j \in 1..(i - 1) : pdo[ListOfPDOs[j]].SerialNo # port}

Absent(e) == [e EXCEPT !.Present = FALSE]

\* Faulty variant: the reads stay.
ReadStays(S) == UNCHANGED <<pending_read, stranded>>

(* complete_pending_read_irp for the devices in S *)
CompleteRead(S) ==
  /\ pending_read' = [p \in Pdos |-> p \notin S /\ pending_read[p]]
  /\ stranded' = stranded \ S

(* First section: the devices found are marked absent, and their reads      *)
(* completed.  The call comes from user space, or from Bus_Cleanup.         *)
UnplugMark(h, port) ==
  LET hit == {ListOfPDOs[i] : i \in Found(port)} IN
  /\ \/ Ready(h)
     \/ call[h] = "unplug" /\ port = arg[h]
  /\ NumPDOs # 0 /\ hit # {}
  /\ pdo' = Changed(hit, Absent)
  /\ CompleteRead(hit)
  /\ Goto(h, "marked")
  /\ arg' = [arg EXCEPT ![h] = port]
  /\ UNCHANGED <<busVars, object, FsContext, pnpVars, open, mine, doomVars>>

(* The call of Bus_Cleanup finds none. *)
UnplugMiss(h) ==
  /\ call[h] = "unplug"
  /\ NumPDOs = 0 \/ Found(arg[h]) = {}
  /\ Return(h)
  /\ UNCHANGED <<busVars, pdo, object, pending_read, FsContext, pnpVars, open,
                 doomVars, stranded>>

\* Faulty variant: the PnP manager is not told.
UnplugInvalidateNot(h) ==
  /\ call[h] = "marked"
  /\ Goto(h, "drain")
  /\ UNCHANGED <<busVars, pdo, object, pending_read, FsContext, pnpVars, open,
                 arg, mine, doomVars, stranded>>

(* IoInvalidateDeviceRelations, between the sections *)
UnplugInvalidate(h) ==
  /\ call[h] = "marked"
  /\ rescan' = "wanted"
  /\ Goto(h, "drain")
  /\ UNCHANGED <<busVars, pdo, object, pending_read, FsContext, node, bus, open,
                 arg, mine, doomVars, stranded>>

Removed(e) == SetState(e, "PNP_DEVICE_REMOVED")

(* Second section: every absent device is drained and gets a new PnP state. *)
UnplugDrain(h) ==
  /\ call[h] = "drain"
  /\ pdo' = Changed({p \in Pdos : InList(p) /\ ~pdo[p].Present}, Removed)
  /\ Return(h)
  /\ UNCHANGED <<busVars, object, pending_read, FsContext, pnpVars, open,
                 doomVars, stranded>>

(* Bus_Cleanup, when the last handle of the file object is closed: reads    *)
(* its device, without a lock,                                              *)
CleanupTake(h) ==
  /\ Ready(h)
  /\ open' = open \ {h}
  /\ mine' = [mine EXCEPT ![h] = FsContext[h]]
  /\ Goto(h, IF FsContext[h] = None THEN "idle" ELSE "cleanup")
  /\ UNCHANGED <<busVars, pdo, object, pending_read, FsContext, pnpVars, arg,
                 doomVars, stranded>>

(* takes the file object out of it,                                         *)
CleanupForget(h) ==
  /\ call[h] = "cleanup"
  /\ pdo' = IF object[mine[h]] = "created" THEN [pdo EXCEPT ![mine[h]].fo = None]
                                           ELSE pdo
  /\ Goto(h, "part")
  /\ UNCHANGED <<busVars, object, pending_read, FsContext, pnpVars, open, arg,
                 mine, doomVars, stranded>>

(* and it out of the file object,                                           *)
CleanupPart(h) ==
  /\ call[h] = "part"
  /\ FsContext' = [FsContext EXCEPT ![h] = None]
  /\ Goto(h, "look")
  /\ UNCHANGED <<busVars, pdo, object, pending_read, pnpVars, open, arg, mine,
                 doomVars, stranded>>

(* and looks whether, and by which serial number, it is to be unplugged.    *)
(* The device may be deleted before any of these steps: what is read is     *)
(* then anything, and what is written is lost.                              *)
CleanupLook(h) ==
  LET p == mine[h]
      there == object[p] = "created"
  IN
  /\ call[h] = "look"
  /\ \/ /\ there => ~pdo[p].Present
        /\ Return(h)
     \/ /\ there => pdo[p].Present
        /\ \E a \in IF there THEN {pdo[p].SerialNo} ELSE Ports \cup {0} :
             arg' = [arg EXCEPT ![h] = a]
        /\ mine' = [mine EXCEPT ![h] = None]
        /\ Goto(h, "unplug")
  /\ UNCHANGED <<busVars, pdo, object, pending_read, FsContext, pnpVars, open,
                 doomVars, stranded>>

-----------------------------------------------------------------------------
(* Reading                                                                  *)

(* Bus_Read sees the device present and no read waiting,                    *)
ReadCheck(h) ==
  /\ "READ" \in Irps
  /\ Ready(h)
  /\ FsContext[h] # None
  /\ pdo[FsContext[h]].Present /\ ~pending_read[FsContext[h]]
  /\ mine' = [mine EXCEPT ![h] = FsContext[h]]
  /\ Goto(h, "read")
  /\ UNCHANGED <<busVars, pdo, object, pending_read, FsContext, pnpVars, open,
                 arg, doomVars, stranded>>

(* and process_read_irp lets the read wait; the device may be absent by     *)
(* now, or deleted: then the read waits in freed memory.                    *)
ReadWait(h) ==
  LET p == mine[h] IN
  /\ call[h] = "read"
  /\ pending_read' = [pending_read EXCEPT ![p] = object[p] = "created"]
  /\ stranded' = IF object[p] # "created" \/ pdo[p].Present THEN stranded
                 ELSE stranded \cup {p}
  /\ Return(h)
  /\ UNCHANGED <<busVars, pdo, object, FsContext, pnpVars, open, doomVars>>

(* An URB is submitted to the device, and its packet completes the read.    *)
ReadServed(p) ==
  /\ object[p] = "created" /\ pdo[p].Present /\ pending_read[p]
  /\ pending_read' = [pending_read EXCEPT ![p] = FALSE]
  /\ UNCHANGED <<busVars, pdo, object, FsContext, pnpVars, callVars, doomVars,
                 stranded>>

-----------------------------------------------------------------------------
(* PnP IRPs for a device: Bus_PDO_PnP                                       *)

(* One IRP at a time; the PnP manager's view goes from one of from to to.   *)
Irp(p, from, to) ==
  /\ doomed = None
  /\ object[p] = "created"
  /\ node[p] \in from
  /\ node' = [node EXCEPT ![p] = to]
  /\ UNCHANGED <<busVars, object, pending_read, FsContext, bus, callVars>>

Put(p, e) == pdo' = [pdo EXCEPT ![p] = e]

(* The state is set before the interface is registered, which may fail.     *)
Start(p) ==
  /\ ~pdo[p].ReportedMissing /\ bus = "started"
  /\ \E to \in {"started", "failed"} :
       Irp(p, {"new", "disabled", "stopped"}, to)
  /\ Put(p, SetState(pdo[p], "Started"))
  /\ UNCHANGED <<rescan, doomVars, stranded>>

QueryStop(p) ==
  /\ "STOP" \in Irps
  /\ Irp(p, {"started"}, "stop queried")
  /\ Put(p, SetState(pdo[p], "StopPending"))
  /\ UNCHANGED <<rescan, doomVars, stranded>>

Stop(p) ==
  /\ Irp(p, {"stop queried"}, "stopped")
  /\ Put(p, SetState(pdo[p], "Stopped"))
  /\ UNCHANGED <<rescan, doomVars, stranded>>

\* Faulty variant: a cancel restores whatever the state is.
CancelAlways(e, query) == RestoreState(e)

(* A cancelled query restores the state, if the query came here: the cancel *)
(* comes also when another driver failed the query before it did.           *)
Cancelled(e, query) ==
  IF e.DevicePnPState = query THEN RestoreState(e) ELSE e

CancelStop(p) ==
  /\ Irp(p, {"stop queried", "started"}, "started")
  /\ Put(p, Cancelled(pdo[p], "StopPending"))
  /\ UNCHANGED <<rescan, doomVars, stranded>>

(* Whoever uses the device's interface keeps it from being removed: then    *)
(* nothing changes.                                                         *)
QueryRemove(p) ==
  /\ "REMOVE" \in Irps
  /\ Irp(p, {"started"}, "remove queried")
  /\ Put(p, SetState(pdo[p], "RemovePending"))
  /\ UNCHANGED <<rescan, doomVars, stranded>>

CancelRemove(p) ==
  /\ Irp(p, {"remove queried", "started"}, "started")
  /\ Put(p, Cancelled(pdo[p], "RemovePending"))
  /\ UNCHANGED <<rescan, doomVars, stranded>>

(* The device is missing, or the bus is. *)
SurpriseRemoval(p) ==
  /\ pdo[p].ReportedMissing \/ bus = "vanishing"
  /\ Irp(p, {"started", "stop queried", "stopped", "remove queried"},
         "surprised")
  /\ Put(p, SetState(pdo[p], "SurpriseRemovePending"))
  /\ UNCHANGED <<rescan, doomVars, stranded>>

(* IRP_MN_REMOVE_DEVICE for a device not reported missing: it is disabled.  *)
RemoveDisable(p) ==
  /\ ~pdo[p].ReportedMissing
  /\ Irp(p, {"remove queried", "failed"}, "disabled")
  /\ IF pdo[p].Present THEN Put(p, SetState(pdo[p], "NotStarted"))
                       ELSE UNCHANGED pdo
  /\ UNCHANGED <<rescan, doomVars, stranded>>

(* The PnP manager asks for the devices again after it has ejected one.     *)
Eject(p) ==
  /\ "EJECT" \in Irps
  /\ Irp(p, {"disabled"}, "disabled")
  /\ ~pdo[p].ReportedMissing
  /\ Put(p, Absent(pdo[p]))
  /\ rescan' = "wanted"
  /\ stranded' = stranded \cup {q \in {p} : pending_read[q]}
  /\ UNCHANGED doomVars

(* IRP_MN_REMOVE_DEVICE for a device reported missing: it is marked,        *)
RemoveMissing(p) ==
  /\ pdo[p].ReportedMissing
  /\ Irp(p, {"new", "failed", "remove queried", "disabled", "surprised"},
         "gone")
  /\ Put(p, SetState(pdo[p], "Deleted"))
  /\ doomed' = p
  /\ doomStep' = "marked"
  /\ UNCHANGED <<rescan, doomFo, stranded>>

\* Faulty variant: it is counted off, and left in the list.
RemoveUnlinkNot ==
  /\ doomed # None /\ doomStep = "marked"
  /\ NumPDOs' = IF pdo[doomed].ParentFdo THEN NumPDOs - 1 ELSE NumPDOs
  /\ doomStep' = "unlinked"
  /\ UNCHANGED <<ListOfPDOs, pdo, object, pending_read, FsContext, pnpVars,
                 callVars, doomed, doomFo, stranded>>

(* taken off the list, unless the bus has done so,                          *)
RemoveUnlink ==
  /\ doomed # None /\ doomStep = "marked"
  /\ IF pdo[doomed].ParentFdo
       THEN /\ \E i \in DOMAIN ListOfPDOs :
                 /\ ListOfPDOs[i] = doomed
                 /\ ListOfPDOs' = RemoveAt(ListOfPDOs, i)
            /\ NumPDOs' = NumPDOs - 1
       ELSE UNCHANGED busVars
  /\ doomStep' = "unlinked"
  /\ UNCHANGED <<pdo, object, pending_read, FsContext, pnpVars, callVars,
                 doomed, doomFo, stranded>>

(* and destroyed, without the mutex, while Bus_Cleanup may be at work on    *)
(* it: does it have a file object?                                          *)
RemoveLook ==
  /\ doomed # None /\ doomStep = "unlinked"
  /\ doomFo' = pdo[doomed].fo
  /\ doomStep' = IF pdo[doomed].fo = None THEN "delete" ELSE "part"
  /\ UNCHANGED <<busVars, pdo, object, pending_read, FsContext, pnpVars,
                 callVars, doomed, stranded>>

\* Faulty variant: the file object goes on pointing to what is deleted.
RemovePartNot ==
  /\ doomed # None /\ doomStep = "part"
  /\ doomStep' = "forget"
  /\ UNCHANGED <<busVars, pdo, object, pending_read, FsContext, pnpVars,
                 callVars, doomed, doomFo, stranded>>

(* It shall point to the device no more.  The compiler may use the pointer  *)
(* that was tested or read it again, and when Bus_Cleanup has cleared it in *)
(* between, that is a write through the null pointer, the machine's end.    *)
RemovePart ==
  /\ doomed # None /\ doomStep = "part"
  /\ \/ /\ FsContext' = [FsContext EXCEPT ![doomFo] = None]
        /\ doomStep' = "forget"
     \/ /\ pdo[doomed].fo = None
        /\ doomStep' = "crashed"
        /\ UNCHANGED FsContext
  /\ UNCHANGED <<busVars, pdo, object, pending_read, pnpVars, callVars, doomed,
                 doomFo, stranded>>

RemoveForget ==
  /\ doomed # None /\ doomStep = "forget"
  /\ pdo' = [pdo EXCEPT ![doomed].fo = None]
  /\ doomStep' = "delete"
  /\ UNCHANGED <<busVars, object, pending_read, FsContext, pnpVars, callVars,
                 doomed, doomFo, stranded>>

(* The devices in S are deleted: their extensions are gone, and the reads   *)
(* that wait in them with them.                                             *)
IoDeleteDevice(S) ==
  /\ object' = [p \in Pdos |-> IF p \in S THEN "deleted" ELSE object[p]]
  /\ pending_read' = [p \in Pdos |-> p \notin S /\ pending_read[p]]
  /\ stranded' = stranded \ S

Freed(e) == Zeroed

RemoveDelete ==
  /\ doomed # None /\ doomStep = "delete"
  /\ IoDeleteDevice({doomed})
  /\ pdo' = Changed({doomed}, Freed)
  /\ doomed' = None
  /\ doomStep' = "marked"
  /\ doomFo' = None
  /\ UNCHANGED <<busVars, FsContext, pnpVars, callVars>>

-----------------------------------------------------------------------------
(* PnP IRPs for the bus: Bus_FDO_PnP                                        *)

Missing(e) == [e EXCEPT !.ReportedMissing = TRUE]
Orphan(e) == [e EXCEPT !.ReportedMissing = TRUE, !.ParentFdo = FALSE]

(* IRP_MN_QUERY_DEVICE_RELATIONS: the present devices are reported, the     *)
(* others noted as reported missing.                                        *)
Relations ==
  /\ doomed = None /\ bus = "started" /\ rescan = "wanted"
  /\ rescan' = "no"
  /\ node' = [p \in Pdos |->
       IF InList(p) /\ pdo[p].Present /\ node[p] = "unknown" THEN "new"
       ELSE node[p]]
  /\ pdo' = Changed({p \in Pdos : InList(p) /\ ~pdo[p].Present}, Missing)
  /\ UNCHANGED <<busVars, object, pending_read, FsContext, bus, callVars,
                 doomVars, stranded>>

(* There is no memory, or no device to add to those of another driver. *)
RelationsNone ==
  /\ doomed = None /\ bus = "started" /\ rescan = "wanted"
  /\ rescan' \in {"failed"} \cup (IF NumPDOs = 0 THEN {"no"} ELSE {})
  /\ UNCHANGED <<busVars, pdo, object, pending_read, FsContext, node, bus,
                 callVars, doomVars, stranded>>

(* The PnP manager finds the bus device gone; it tells the devices first.   *)
BusVanish ==
  /\ "BUS" \in Irps
  /\ doomed = None /\ bus = "started"
  /\ bus' = "vanishing"
  /\ UNCHANGED <<busVars, pdo, object, pending_read, FsContext, node, rescan,
                 callVars, doomVars, stranded>>

(* IRP_MN_SURPRISE_REMOVAL: the list is emptied, the devices stay.          *)
BusSurprise ==
  /\ doomed = None /\ bus = "vanishing"
  /\ \A p \in Pdos : node[p] \notin
       {"started", "stop queried", "stopped", "remove queried"}
  /\ bus' = "surprised"
  /\ pdo' = Changed({p \in Pdos : InList(p)}, Orphan)
  /\ ListOfPDOs' = <<>>
  /\ UNCHANGED <<NumPDOs, object, pending_read, FsContext, node, rescan,
                 callVars, doomVars, stranded>>

\* Faulty variant: no device is spared.
SparedNone == {}

(* The devices that IRP_MN_REMOVE_DEVICE of the bus does not delete. *)
Spared ==
  {p \in Pdos : InList(p) /\ pdo[p].DevicePnPState = "SurpriseRemovePending"}

(* The file objects of the devices in S point to nothing any more. *)
Parted(S) ==
  [h \in Handles |-> IF \E p \in S : pdo[p].fo = h THEN None ELSE FsContext[h]]

(* IRP_MN_REMOVE_DEVICE, once no call is inside the bus device (IoCount):   *)
(* what is still in the list is destroyed, or waits for its own REMOVE.  No *)
(* Bus_Cleanup can come in between, so Bus_DestroyPdo is part of the step.  *)
BusRemove ==
  LET deleted == {p \in Pdos : InList(p)} \ Spared IN
  /\ "BUS" \in Irps
  /\ doomed = None /\ bus \in {"started", "surprised"}
  /\ \A h \in Handles : call[h] = "idle"
  /\ \A p \in Pdos : node[p] \notin
       {"started", "stop queried", "stopped", "remove queried"}
  /\ bus' = "removed"
  /\ ListOfPDOs' = <<>>
  /\ NumPDOs' = NumPDOs - Cardinality(deleted)
  /\ FsContext' = Parted(deleted)
  /\ IoDeleteDevice(deleted)
  /\ pdo' = [p \in Pdos |-> CASE p \in Spared -> Orphan(pdo[p])
                               [] p \in deleted -> Zeroed
                               [] OTHER -> pdo[p]]
  /\ node' = [p \in Pdos |-> IF p \in deleted THEN "gone" ELSE node[p]]
  /\ UNCHANGED <<rescan, callVars, doomVars>>

-----------------------------------------------------------------------------
CallStep(h) ==
  /\ Running
  /\ \/ PlugGiveUp(h)
     \/ \E p \in Pdos : PlugCreate(h, p)
     \/ PlugInsert(h)
     \/ PlugInvalidate(h)
     \/ \E port \in Ports \cup {0} : call[h] = "unplug" /\ UnplugMark(h, port)
     \/ UnplugMiss(h)
     \/ UnplugInvalidate(h)
     \/ UnplugDrain(h)
     \/ CleanupForget(h) \/ CleanupPart(h) \/ CleanupLook(h)
     \/ ReadWait(h)

NewCall(h) ==
  /\ Running
  /\ \/ \E port \in Ports : PlugCheck(h, port)
     \/ \E port \in Ports \cup {0} : UnplugMark(h, port)
     \/ CleanupTake(h)
     \/ ReadCheck(h)

PdoIrp(p) ==
  \/ Start(p)
  \/ QueryStop(p) \/ CancelStop(p) \/ Stop(p)
  \/ QueryRemove(p) \/ CancelRemove(p) \/ RemoveDisable(p) \/ Eject(p)
  \/ SurpriseRemoval(p)
  \/ RemoveMissing(p)

RemoveStep ==
  \/ RemoveUnlink
  \/ RemoveLook \/ RemovePart \/ RemoveForget \/ RemoveDelete

BusIrp == Relations \/ RelationsNone \/ BusVanish \/ BusSurprise \/ BusRemove

Next ==
  \/ \E h \in Handles : NewCall(h) \/ CallStep(h)
  \/ \E p \in Pdos : PdoIrp(p) \/ (Running /\ ReadServed(p))
  \/ RemoveStep
  \/ BusIrp

Spec == Init /\ [][Next]_vars

(* A call that has begun goes on; the PnP manager asks for the devices when *)
(* it has been told to, and removes those that are missing.                 *)
Fairness ==
  /\ \A h \in Handles : WF_vars(CallStep(h))
  /\ \A p \in Pdos : WF_vars(SurpriseRemoval(p)) /\ WF_vars(RemoveMissing(p))
  /\ WF_vars(RemoveStep)
  /\ WF_vars(Relations \/ RelationsNone)

FairSpec == Spec /\ Fairness

-----------------------------------------------------------------------------
(* Properties                                                               *)

(* The list holds each device once, and only devices that have not been     *)
(* deleted and that point back to the bus.                                  *)
ListSound ==
  /\ \A i, j \in DOMAIN ListOfPDOs : ListOfPDOs[i] = ListOfPDOs[j] => i = j
  /\ \A i \in DOMAIN ListOfPDOs :
       object[ListOfPDOs[i]] = "created" /\ pdo[ListOfPDOs[i]].ParentFdo

(* NumPDOs, which decides whether an unplug looks at the list at all        *)
(* (pnp.c:1349), counts it; a surprise removal of the bus empties the list  *)
(* and not the counter, which then never falls below it.                    *)
CountMatches ==
  /\ NumPDOs >= Len(ListOfPDOs)
  /\ bus \in {"started", "vanishing"} => NumPDOs = Len(ListOfPDOs)

(* A file object and its device point to each other; Bus_Cleanup and        *)
(* Bus_DestroyPdo, which part the two without a lock, may cross, and only   *)
(* this comes of it.  A file object points to a device that does not point  *)
(* back only before the device is in the list (pnp.c:1262), or between the  *)
(* two writes of its own Bus_Cleanup (busenum.c:1246), when REMOVE may even *)
(* have deleted the device; a device points to a file object that points    *)
(* elsewhere only between the two writes of Bus_DestroyPdo (pnp.c:1084).    *)
(* So no other call follows a pointer to a deleted device, and parting one  *)
(* device from its file object does not cut off another.                    *)
ContextMatches ==
  /\ \A h \in Handles : FsContext[h] # None =>
       \/ object[FsContext[h]] = "created" /\ pdo[FsContext[h]].fo = h
       \/ object[FsContext[h]] = "created" /\ call[h] = "insert"
       \/ call[h] = "part" /\ mine[h] = FsContext[h]
  /\ \A p \in Pdos : pdo[p].fo # None =>
       FsContext[pdo[p].fo] = p \/ (doomed = p /\ doomStep = "forget")

(* As long as a device is plugged in, its PnP state is what the PnP manager *)
(* thinks it is: the one previous state that is kept is enough to restore.  *)
StateOf(where) ==
  CASE where \in {"unknown", "new", "disabled"} -> "NotStarted"
    [] where \in {"started", "failed"} -> "Started"
    [] where = "stop queried" -> "StopPending"
    [] where = "stopped" -> "Stopped"
    [] where = "remove queried" -> "RemovePending"
    [] where = "surprised" -> "SurpriseRemovePending"
    [] where = "gone" -> "Deleted"

StatesAgree ==
  \A p \in Pdos :
    object[p] = "created" /\ pdo[p].Present =>
      pdo[p].DevicePnPState = StateOf(node[p])

(* Removing the bus does not delete a device that waits for its own REMOVE  *)
(* (pnp.c:556), unless an unplug has overwritten the state by which it is   *)
(* recognised (pnp.c:1395).                                                 *)
SurprisedSpared ==
  [][\A p \in Pdos :
       node[p] = "surprised" /\ object'[p] = "deleted" =>
         pdo[p].DevicePnPState = "PNP_DEVICE_REMOVED"]_vars

(* A read is deleted with its device only if the device was ejected, the    *)
(* bus went away, or the read came after the unplug had looked.             *)
ReadLostOnly ==
  [][\A p \in Pdos :
       object[p] = "created" /\ object'[p] = "deleted" /\ pending_read[p] =>
         p \in stranded \/ bus' # "started"]_vars

(* The inductive invariant behind these: where a device is in the list,     *)
LinkInv ==
  /\ \A p \in Pdos : pdo[p].ParentFdo =>
       InList(p) \/ (doomed = p /\ doomStep # "marked")
  /\ doomed # None =>
       /\ object[doomed] = "created" /\ node[doomed] = "gone"
       /\ pdo[doomed].ReportedMissing
       /\ doomStep # "marked" => ~InList(doomed)

(* what a call that has begun may rely on,                                  *)
CallInv ==
  /\ \A p \in Pdos : object[p] # "created" => pdo[p] = Zeroed
  /\ \A p \in Pdos : object[p] = "none" => node[p] = "unknown"
  /\ \A h, g \in Handles : FsContext[h] = FsContext[g] =>
       h = g \/ FsContext[h] = None
  /\ \A h \in Handles : call[h] = "insert" =>
       /\ mine[h] \in Pdos /\ FsContext[h] = mine[h]
       /\ object[mine[h]] = "created" /\ pdo[mine[h]] = Zeroed
       /\ node[mine[h]] = "unknown"
  /\ \A h \in Handles : call[h] \in {"create", "insert"} => h \in open
  /\ \A h \in Handles : call[h] \in {"cleanup", "part"} =>
       /\ h \notin open /\ FsContext[h] \in {mine[h], None}
       /\ \A g \in Handles \ {h} : FsContext[g] # mine[h]
       /\ call[h] = "part" => pdo[mine[h]].fo = None
  /\ \A h \in Handles : call[h] \in {"cleanup", "part", "look", "read"} =>
       mine[h] \in Pdos /\ object[mine[h]] # "none"

(* what Bus_DestroyPdo may, whatever Bus_Cleanup does meanwhile,            *)
DoomInv ==
  /\ doomStep \in {"part", "forget", "crashed"} =>
       doomed # None /\ doomFo # None
  /\ doomed # None /\ doomStep = "part" =>
       \/ pdo[doomed].fo = doomFo
       \/ /\ pdo[doomed].fo = None /\ doomFo \notin open
          /\ FsContext[doomFo] \in {doomed, None}
  /\ doomed # None /\ doomStep = "forget" =>
       pdo[doomed].fo \in {doomFo, None} /\ FsContext[doomFo] # doomed
  /\ doomed # None /\ doomStep = "delete" => pdo[doomed].fo = None

(* which previous state a cancel restores,                                  *)
StateInv ==
  /\ \A p \in Pdos : object[p] = "deleted" => node[p] = "gone"
  /\ \A p \in Pdos : object[p] = "created" =>
       /\ pdo[p].Present /\ node[p] \in {"stop queried", "remove queried"} =>
            pdo[p].PreviousPnPState = "Started"
       /\ node[p] = "surprised" =>
            pdo[p].DevicePnPState \in
              {"SurpriseRemovePending", "PNP_DEVICE_REMOVED"}

(* and which reads the unplug has not seen.                                 *)
ReadInv ==
  \A p \in Pdos :
    /\ pending_read[p] => object[p] = "created"
    /\ ~pdo[p].Present /\ pending_read[p] => p \in stranded
    /\ pdo[p].ReportedMissing /\ bus \in {"started", "vanishing"} =>
         ~pdo[p].Present

IInv ==
  /\ TypeOK
  /\ ListSound /\ CountMatches /\ ContextMatches /\ StatesAgree
  /\ LinkInv /\ CallInv /\ DoomInv /\ StateInv /\ ReadInv

(* A device the PnP manager knows goes away when it has been unplugged, if  *)
(* the machine goes on.  One it does not know yet is never reported, and    *)
(* stays in the list.                                                       *)
UnpluggedGoes ==
  \A p \in Pdos :
    (node[p] # "unknown" /\ ~pdo[p].Present) ~>
      \/ object[p] = "deleted" \/ rescan = "failed" \/ bus # "started"
      \/ ~Running

(* busenum.h:230 "Present is set to TRUE when the PDO is exposed via PlugIn *)
(* IOCTL, and set to FALSE when a UnPlug IOCTL is received": an unplug that *)
(* succeeds has unplugged the device that is present in the port, though    *)
(* one removed by surprise, which a plug-in ignores, may still be there.    *)
AloneInPort(p) ==
  /\ InList(p) /\ pdo[p].Present
  /\ \A q \in Pdos \ {p} :
       InList(q) /\ pdo[q].SerialNo = pdo[p].SerialNo =>
         pdo[q].DevicePnPState = "SurpriseRemovePending"

UnplugClearsPresent ==
  [][\A h \in Handles, p \in Pdos :
       /\ call[h] # "marked" /\ call'[h] = "marked"
       /\ AloneInPort(p) /\ arg'[h] = pdo[p].SerialNo
       => ~pdo'[p].Present]_vars

=============================================================================
