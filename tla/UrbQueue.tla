------------------------------- MODULE UrbQueue -------------------------------
(***************************************************************************)
(* The request queue of one device of the virtual bus driver, and the      *)
(* threads that meet on it: function drivers submitting and cancelling     *)
(* URBs (Bus_Internal_IoCtl, try_addq, cancel_irp), the user-mode          *)
(* forwarder reading packets and writing replies (Bus_Read, Bus_Write),    *)
(* and an unplug (bus_unplug_dev) that empties the queue.                  *)
(*                                                                         *)
(* Each section the code runs under pdodata->q_lock is one action, and so  *)
(* is each stretch between two of them: a thread that has released the     *)
(* lock can be overtaken by any other before its next step.  URB and read  *)
(* IRPs are named by model values; a packet is the URB it was made from    *)
(* and the number it carries.                                              *)
(***************************************************************************)
EXTENDS Naturals, Sequences, SequencesExt

CONSTANTS
  Urbs,     (* the URB IRPs function drivers send; each is sent once        *)
  Readers,  (* the user-mode threads that read packets, one read IRP each   *)
  MaxSeq,   (* the last sequence number before it wraps: 2^32 - 1 in C      *)
  FirstSeq, (* the number drawn last before the behaviour begins: 0 for a   *)
            (* new device, anything for one that has served URBs before     *)
  None      (* the null pointer                                             *)

ASSUME ConstantsAssumption ==
  /\ MaxSeq \in Nat
  /\ FirstSeq \in 0..MaxSeq
  /\ None \notin Urbs
  /\ None \notin Readers
  /\ Urbs \cap Readers = {}

(* There are never more URBs than sequence numbers: in C there are 2^32.    *)
ASSUME FewerUrbsThanNumbers ==
  IsFiniteSet(Urbs) /\ Cardinality(Urbs) <= MaxSeq + 1

VARIABLES
  Present,        (* pdodata->Present                                       *)
  ioctl_q,        (* pdodata->ioctl_q, the URBs from head to tail           *)
  pending_read,   (* pdodata->pending_read_irp                              *)
  seq_num,        (* pdodata->seq_num                                       *)
  send,           (* urb_r->send of each URB                                *)
  urb_seq,        (* urb_r->seq_num of each URB; 0 until it is sent         *)
  Cancel,         (* Irp->Cancel of each URB                                *)
  CancelRoutine   (* is cancel_irp the IRP's cancel routine?                *)

pdoVars == <<Present, ioctl_q, pending_read, seq_num>>
urbVars == <<send, urb_seq>>
irpVars == <<Cancel, CancelRoutine>>

VARIABLES
  submit,       (* where the thread that submits each URB is                *)
  submitRead,   (* read_irp of try_addq: the read this thread has taken     *)
  cancelUrb,    (* the URB cancel_irp runs for: IoCancelIrp holds the       *)
                (* system's one cancel spin lock until it has returned      *)
  cancelStep,   (* whether cancel_irp has searched the queue, what it found *)
  read,         (* where each reader is                                     *)
  readUrb,      (* ioctl_irp of process_read_irp, when it must be completed *)
  write,        (* where the thread that writes replies is                  *)
  writeSeq,     (* h->base.seqnum of the reply being written                *)
  writeUrb,     (* ioctl_irp of process_write_irp, once found               *)
  unplug,       (* where bus_unplug_dev is; two of its sections run under   *)
                (* the bus's mutex, and another call can come between them  *)
  drainUrb      (* irp of complete_pending_irp                              *)

submitVars == <<submit, submitRead>>
cancelVars == <<cancelUrb, cancelStep>>
readVars   == <<read, readUrb>>
writeVars  == <<write, writeSeq, writeUrb>>
unplugVars == <<unplug, drainUrb>>

VARIABLES
  packet,       (* the packet of each URB: not read yet, out, answered      *)
  pktSeq,       (* the number in it                                         *)
  outcome,      (* history: how each URB was completed, in order            *)
  writeFor,     (* history: the URB whose packet is being answered          *)
  late          (* history: URBs and readers that were put in the queue     *)
                (* after Present had been cleared                           *)

wireVars == <<packet, pktSeq>>
histVars == <<outcome, writeFor, late>>
vars == <<pdoVars, urbVars, irpVars, submitVars, cancelVars, readVars,
          writeVars, unplugVars, wireVars, histVars>>

(* How an URB can end: completed by the submitting call itself, found not   *)
(* to fit a packet, answered, hit by a reply although it was never sent,    *)
(* cancelled by cancel_irp, gone with the device.                           *)
Outcomes ==
  {"immediate", "rejected", "answered", "unsent", "cancelled", "gone"}

DriverTypeOK ==
  /\ Present \in BOOLEAN
  /\ ioctl_q \in Seq(Urbs)
  /\ pending_read \in Readers \cup {None}
  /\ seq_num \in 0..MaxSeq
  /\ send \in [Urbs -> BOOLEAN]
  /\ urb_seq \in [Urbs -> 0..MaxSeq]
  /\ Cancel \in [Urbs -> BOOLEAN]
  /\ CancelRoutine \in [Urbs -> BOOLEAN]

ThreadTypeOK ==
  /\ submit \in [Urbs -> {"new", "checked", "fill", "kept", "dropped",
                          "failed", "finish", "returned"}]
  /\ submitRead \in [Urbs -> Readers \cup {None}]
  /\ cancelUrb \in Urbs \cup {None}
  /\ cancelStep \in {"search", "found", "missing"}
  /\ read \in [Readers -> {"idle", "checked", "pending", "taken", "reject"}]
  /\ readUrb \in [Readers -> Urbs \cup {None}]
  /\ write \in {"idle", "checked", "finish"}
  /\ writeSeq \in 0..MaxSeq
  /\ writeUrb \in Urbs \cup {None}
  /\ unplug \in {"idle", "read", "listed", "drain"}
  /\ drainUrb \in Urbs \cup {None}

HistoryTypeOK ==
  /\ packet \in [Urbs -> {"none", "out", "answered"}]
  /\ pktSeq \in [Urbs -> 0..MaxSeq]
  /\ outcome \in [Urbs -> Seq(Outcomes)]
  /\ writeFor \in Urbs \cup {None}
  /\ late \subseteq Urbs \cup Readers

TypeOK == DriverTypeOK /\ ThreadTypeOK /\ HistoryTypeOK

Init ==
  /\ Present = TRUE
  /\ ioctl_q = <<>>
  /\ pending_read = None
  /\ seq_num = FirstSeq
  /\ send = [u \in Urbs |-> FALSE]
  /\ urb_seq = [u \in Urbs |-> 0]
  /\ Cancel = [u \in Urbs |-> FALSE]
  /\ CancelRoutine = [u \in Urbs |-> FALSE]
  /\ submit = [u \in Urbs |-> "new"]
  /\ submitRead = [u \in Urbs |-> None]
  /\ cancelUrb = None
  /\ cancelStep = "search"
  /\ read = [r \in Readers |-> "idle"]
  /\ readUrb = [r \in Readers |-> None]
  /\ write = "idle"
  /\ writeSeq = 0
  /\ writeUrb = None
  /\ unplug = "idle"
  /\ drainUrb = None
  /\ packet = [u \in Urbs |-> "none"]
  /\ pktSeq = [u \in Urbs |-> 0]
  /\ outcome = [u \in Urbs |-> <<>>]
  /\ writeFor = None
  /\ late = {}

-----------------------------------------------------------------------------
(* Helpers                                                                  *)

\* Faulty variants: the counter is not kept to its width; it is read but not
\* advanced.
NextSeqUnbounded(s) == s + 1
NextSeqSame(s) == s

(* ++(pdodata->seq_num) on an unsigned 32-bit counter *)
NextSeq(s) == IF s = MaxSeq THEN 0 ELSE s + 1

\* Faulty variant: an URB is always queued, a read that waits left waiting.
ReadNeverWaits == FALSE

(* try_addq takes the read IRP that waits, if any. *)
ReadWaits == pending_read # None

\* Faulty variant: urb_r->send stays 0.
MarkNothing(u) == send

(* urb_r->send = 1 *)
MarkSent(u) == [send EXCEPT ![u] = TRUE]

(* The places in the queue of the URBs not yet sent, and of those whose     *)
(* sequence number is s; both loops of the code stop at the first.          *)
Unsent == {i \in DOMAIN ioctl_q : ~send[ioctl_q[i]]}

\* Faulty variant: replies are taken to come in the order of the requests.
MatchingHead(s) == DOMAIN ioctl_q

Matching(s) == {i \in DOMAIN ioctl_q : urb_seq[ioctl_q[i]] = s}
First(I) == {i \in I : \A j \in I : i <= j}

(* IoCompleteRequest on an URB's IRP *)
Complete(u, how) == outcome' = [outcome EXCEPT ![u] = Append(@, how)]

Goto(u, where) == submit' = [submit EXCEPT ![u] = where]

(* IoSetCancelRoutine(Irp, cancel_irp), the test of Irp->Cancel and the     *)
(* insertion at the tail; an IRP cancelled before gets its routine back     *)
(* and is not inserted.                                                     *)
Enqueue(u, kept, dropped) ==
  IF Cancel[u]
    THEN /\ Goto(u, dropped)
         /\ UNCHANGED <<ioctl_q, CancelRoutine, late>>
    ELSE /\ Goto(u, kept)
         /\ ioctl_q' = Append(ioctl_q, u)
         /\ CancelRoutine' = [CancelRoutine EXCEPT ![u] = TRUE]
         /\ late' = IF Present THEN late ELSE late \cup {u}

-----------------------------------------------------------------------------
(* Submitting: Bus_Internal_IoCtl and try_addq                              *)

(* The device is gone, or the request needs no packet or is not supported,  *)
(* or there is no memory for the urb_req: it is completed before any lock   *)
(* is taken.                                                                *)
SubmitImmediate(u) ==
  /\ submit[u] = "new"
  /\ Goto(u, "returned")
  /\ Complete(u, "immediate")
  /\ UNCHANGED <<pdoVars, urbVars, irpVars, submitRead, cancelVars, readVars,
                 writeVars, unplugVars, wireVars, writeFor, late>>

(* Bus_Internal_IoCtl sees the device present and goes on to try_addq. *)
SubmitChecked(u) ==
  /\ submit[u] = "new"
  /\ Present
  /\ Goto(u, "checked")
  /\ UNCHANGED <<pdoVars, urbVars, irpVars, submitRead, cancelVars, readVars,
                 writeVars, unplugVars, wireVars, histVars>>

(* try_addq, first section: no read waits, the URB is queued unsent. *)
AddqQueue(u) ==
  /\ submit[u] = "checked"
  /\ ~ReadWaits
  /\ Enqueue(u, "returned", "finish")
  /\ UNCHANGED <<Present, pending_read, seq_num, urbVars, Cancel, submitRead,
                 cancelVars, readVars, writeVars, unplugVars, wireVars,
                 outcome, writeFor>>

(* try_addq, first section: a read waits; this thread takes it and a        *)
(* sequence number, and drops the lock with the URB in no queue.            *)
AddqTake(u) ==
  /\ submit[u] = "checked"
  /\ ReadWaits
  /\ seq_num' = NextSeq(seq_num)
  /\ pktSeq' = [pktSeq EXCEPT ![u] = NextSeq(seq_num)]
  /\ submitRead' = [submitRead EXCEPT ![u] = pending_read]
  /\ read' = [read EXCEPT ![pending_read] = "taken"]
  /\ pending_read' = None
  /\ Goto(u, "fill")
  /\ late' = late \ {pending_read}
  /\ UNCHANGED <<Present, ioctl_q, urbVars, irpVars, cancelVars, readUrb,
                 writeVars, unplugVars, packet, outcome, writeFor>>

(* set_read_irp_data finds that the URB has no packet form, or that the     *)
(* read's buffer is too short.                                              *)
AddqFillFails(u) ==
  /\ submit[u] = "fill"
  /\ Goto(u, "failed")
  /\ UNCHANGED <<pdoVars, urbVars, irpVars, submitRead, cancelVars, readVars,
                 writeVars, unplugVars, wireVars, histVars>>

(* set_read_irp_data succeeds; try_addq, second section: the URB is queued  *)
(* as sent, unless it has been cancelled meanwhile.                         *)
AddqSent(u) ==
  /\ submit[u] = "fill"
  /\ send' = MarkSent(u)
  /\ urb_seq' = [urb_seq EXCEPT ![u] = pktSeq[u]]
  /\ Enqueue(u, "kept", "dropped")
  /\ UNCHANGED <<Present, pending_read, seq_num, Cancel, submitRead,
                 cancelVars, readVars, writeVars, unplugVars, wireVars,
                 outcome, writeFor>>

(* try_addq completes the read it has taken: with the packet, even when the *)
(* URB was cancelled after the packet was made, or with an error.           *)
AddqCompleteRead(u) ==
  /\ submit[u] \in {"kept", "dropped", "failed"}
  /\ Goto(u, IF submit[u] = "kept" THEN "returned" ELSE "finish")
  /\ packet' = IF submit[u] = "failed" THEN packet
               ELSE [packet EXCEPT ![u] = "out"]
  /\ read' = [read EXCEPT ![submitRead[u]] = "idle"]
  /\ submitRead' = [submitRead EXCEPT ![u] = None]
  /\ UNCHANGED <<pdoVars, urbVars, irpVars, cancelVars, readUrb, writeVars,
                 unplugVars, pktSeq, histVars>>

(* Bus_Internal_IoCtl completes what try_addq did not keep. *)
SubmitFinish(u) ==
  /\ submit[u] = "finish"
  /\ Goto(u, "returned")
  /\ Complete(u, "immediate")
  /\ UNCHANGED <<pdoVars, urbVars, irpVars, submitRead, cancelVars, readVars,
                 writeVars, unplugVars, wireVars, writeFor, late>>

-----------------------------------------------------------------------------
(* Cancelling                                                               *)

(* IoCancelIrp on an URB its sender has not got back: sets Irp->Cancel and  *)
(* runs the cancel routine, if there is one, under the cancel spin lock.    *)
IoCancelIrp(u) ==
  /\ cancelUrb = None
  /\ submit[u] # "new" /\ outcome[u] = <<>> /\ ~Cancel[u]
  /\ Cancel' = [Cancel EXCEPT ![u] = TRUE]
  /\ CancelRoutine' = [CancelRoutine EXCEPT ![u] = FALSE]
  /\ cancelUrb' = IF CancelRoutine[u] THEN u ELSE None
  /\ cancelStep' = "search"
  /\ UNCHANGED <<pdoVars, urbVars, submitVars, readVars, writeVars,
                 unplugVars, wireVars, histVars>>

(* cancel_irp looks for the IRP in the queue, under q_lock, *)
CancelFind ==
  /\ cancelUrb # None /\ cancelStep = "search"
  /\ \E i \in DOMAIN ioctl_q :
       /\ ioctl_q[i] = cancelUrb
       /\ ioctl_q' = RemoveAt(ioctl_q, i)
  /\ cancelStep' = "found"
  /\ UNCHANGED <<Present, pending_read, seq_num, urbVars, irpVars, submitVars,
                 cancelUrb, readVars, writeVars, unplugVars, wireVars,
                 histVars>>

(* and may not find it. *)
CancelMiss ==
  /\ cancelUrb # None /\ cancelStep = "search"
  /\ \A i \in DOMAIN ioctl_q : ioctl_q[i] # cancelUrb
  /\ cancelStep' = "missing"
  /\ UNCHANGED <<pdoVars, urbVars, irpVars, submitVars, cancelUrb, readVars,
                 writeVars, unplugVars, wireVars, histVars>>

(* cancel_irp completes the IRP, found or not, and drops the cancel lock. *)
CancelComplete ==
  /\ cancelUrb # None /\ cancelStep # "search"
  /\ Complete(cancelUrb, "cancelled")
  /\ cancelUrb' = None
  /\ cancelStep' = "search"
  /\ UNCHANGED <<pdoVars, urbVars, irpVars, submitVars, readVars, writeVars,
                 unplugVars, wireVars, writeFor, late>>

-----------------------------------------------------------------------------
(* Reading: Bus_Read and process_read_irp                                   *)

(* Bus_Read sees the device present and, without the lock, no read waiting; *)
(* otherwise the read fails and nothing changes.                            *)
ReadChecked(r) ==
  /\ read[r] = "idle"
  /\ Present
  /\ pending_read = None
  /\ read' = [read EXCEPT ![r] = "checked"]
  /\ UNCHANGED <<pdoVars, urbVars, irpVars, submitVars, cancelVars, readUrb,
                 writeVars, unplugVars, wireVars, histVars>>

(* process_read_irp has nothing to send: the read waits, unless another     *)
(* one has come to wait since the check.                                    *)
ReadWait(r) ==
  /\ read[r] = "checked"
  /\ Unsent = {}
  /\ IF pending_read # None
       THEN /\ read' = [read EXCEPT ![r] = "idle"]
            /\ UNCHANGED <<pending_read, late>>
       ELSE /\ read' = [read EXCEPT ![r] = "pending"]
            /\ pending_read' = r
            /\ late' = IF Present THEN late ELSE late \cup {r}
  /\ UNCHANGED <<Present, ioctl_q, seq_num, urbVars, irpVars, submitVars,
                 cancelVars, readUrb, writeVars, unplugVars, wireVars,
                 outcome, writeFor>>

(* process_read_irp numbers and marks the first unsent URB, the i-th of the *)
(* queue, under the lock.                                                   *)
ReadTake(r, i) ==
  /\ read[r] = "checked"
  /\ i \in First(Unsent)
  /\ seq_num' = NextSeq(seq_num)
  /\ send' = MarkSent(ioctl_q[i])
  /\ urb_seq' = [urb_seq EXCEPT ![ioctl_q[i]] = NextSeq(seq_num)]
  /\ pktSeq' = [pktSeq EXCEPT ![ioctl_q[i]] = NextSeq(seq_num)]

(* set_read_irp_data succeeds: the read returns the URB's packet. *)
ReadPacket(r, i) ==
  /\ ReadTake(r, i)
  /\ packet' = [packet EXCEPT ![ioctl_q[i]] = "out"]
  /\ read' = [read EXCEPT ![r] = "idle"]
  /\ UNCHANGED <<Present, ioctl_q, pending_read, irpVars, submitVars,
                 cancelVars, readUrb, writeVars, unplugVars, histVars>>

(* set_read_irp_data fails: the URB leaves the queue to be completed, *)
ReadReject(r, i) ==
  /\ ReadTake(r, i)
  /\ CancelRoutine[ioctl_q[i]]
  /\ CancelRoutine' = [CancelRoutine EXCEPT ![ioctl_q[i]] = FALSE]
  /\ ioctl_q' = RemoveAt(ioctl_q, i)
  /\ read' = [read EXCEPT ![r] = "reject"]
  /\ readUrb' = [readUrb EXCEPT ![r] = ioctl_q[i]]
  /\ UNCHANGED <<Present, pending_read, Cancel, submitVars, cancelVars,
                 writeVars, unplugVars, packet, histVars>>

(* or is left to cancel_irp when that has begun; either way the read fails. *)
ReadRejectCancelled(r, i) ==
  /\ ReadTake(r, i)
  /\ ~CancelRoutine[ioctl_q[i]]
  /\ read' = [read EXCEPT ![r] = "idle"]
  /\ UNCHANGED <<Present, ioctl_q, pending_read, irpVars, submitVars,
                 cancelVars, readUrb, writeVars, unplugVars, packet, histVars>>

(* process_read_irp completes the URB it has removed. *)
ReadRejectComplete(r) ==
  /\ read[r] = "reject"
  /\ Complete(readUrb[r], "rejected")
  /\ read' = [read EXCEPT ![r] = "idle"]
  /\ readUrb' = [readUrb EXCEPT ![r] = None]
  /\ UNCHANGED <<pdoVars, urbVars, irpVars, submitVars, cancelVars,
                 writeVars, unplugVars, wireVars, writeFor, late>>

-----------------------------------------------------------------------------
(* Replying: Bus_Write and process_write_irp, by the forwarder's one thread *)

(* The server answers the packet of u; Bus_Write sees the device present.   *)
WriteChecked(u) ==
  /\ write = "idle"
  /\ packet[u] = "out"
  /\ Present
  /\ packet' = [packet EXCEPT ![u] = "answered"]
  /\ write' = "checked"
  /\ writeSeq' = pktSeq[u]
  /\ writeFor' = u
  /\ UNCHANGED <<pdoVars, urbVars, irpVars, submitVars, cancelVars, readVars,
                 writeUrb, unplugVars, pktSeq, outcome, late>>

(* Bus_Write finds the device gone: the reply is lost. *)
WriteLost(u) ==
  /\ write = "idle"
  /\ packet[u] = "out"
  /\ ~Present
  /\ packet' = [packet EXCEPT ![u] = "answered"]
  /\ UNCHANGED <<pdoVars, urbVars, irpVars, submitVars, cancelVars, readVars,
                 writeVars, unplugVars, pktSeq, histVars>>

\* Faulty variant: the result of IoSetCancelRoutine is ignored.
ClaimAlways(u) == TRUE

(* IoSetCancelRoutine(ioctl_irp, NULL) returns the routine it replaces. *)
Claim(u) == CancelRoutine[u]

(* process_write_irp looks the number up under q_lock and takes the first   *)
(* URB that has it,                                                         *)
WriteClaim(i) ==
  /\ write = "checked"
  /\ i \in First(Matching(writeSeq))
  /\ Claim(ioctl_q[i])
  /\ CancelRoutine' = [CancelRoutine EXCEPT ![ioctl_q[i]] = FALSE]
  /\ ioctl_q' = RemoveAt(ioctl_q, i)
  /\ write' = "finish"
  /\ writeUrb' = ioctl_q[i]
  /\ UNCHANGED <<Present, pending_read, seq_num, urbVars, Cancel, submitVars,
                 cancelVars, readVars, writeSeq, writeFor, unplugVars,
                 wireVars, outcome, late>>

(* unless there is none or cancel_irp is about to remove it: the reply is   *)
(* dropped and the write succeeds.                                          *)
WriteMiss ==
  /\ write = "checked"
  /\ \A i \in First(Matching(writeSeq)) : ~Claim(ioctl_q[i])
  /\ write' = "idle"
  /\ writeSeq' = 0
  /\ writeFor' = None
  /\ UNCHANGED <<pdoVars, urbVars, irpVars, submitVars, cancelVars, readVars,
                 writeUrb, unplugVars, wireVars, outcome, late>>

\* Faulty variant: an URB that was not sent is dropped and not completed.
FinishSent(u) ==
  IF send[u] THEN Complete(u, "answered") ELSE UNCHANGED outcome

(* The claimed URB is completed with the device's result, or with an error  *)
(* when it had not been sent.                                               *)
FinishClaimed(u) == Complete(u, IF send[u] THEN "answered" ELSE "unsent")

WriteFinish ==
  /\ write = "finish"
  /\ FinishClaimed(writeUrb)
  /\ write' = "idle"
  /\ writeSeq' = 0
  /\ writeUrb' = None
  /\ writeFor' = None
  /\ UNCHANGED <<pdoVars, urbVars, irpVars, submitVars, cancelVars, readVars,
                 unplugVars, wireVars, late>>

-----------------------------------------------------------------------------
(* Unplugging: bus_unplug_dev                                               *)

(* The device is marked absent; a second call for it does the same again.   *)
UnplugMark ==
  /\ unplug \in {"idle", "listed"}
  /\ Present' = FALSE
  /\ unplug' = "read"
  /\ UNCHANGED <<ioctl_q, pending_read, seq_num, urbVars, irpVars, submitVars,
                 cancelVars, readVars, writeVars, drainUrb, wireVars,
                 histVars>>

\* Faulty variant: the read that waits is left alone.
UnplugReadNot ==
  /\ unplug = "read"
  /\ unplug' = "listed"
  /\ UNCHANGED <<pdoVars, urbVars, irpVars, submitVars, cancelVars, readVars,
                 writeVars, drainUrb, wireVars, histVars>>

(* complete_pending_read_irp; then the mutex is dropped. *)
UnplugRead ==
  /\ unplug = "read"
  /\ unplug' = "listed"
  /\ IF pending_read # None
       THEN /\ read' = [read EXCEPT ![pending_read] = "idle"]
            /\ pending_read' = None
            /\ late' = late \ {pending_read}
       ELSE UNCHANGED <<read, pending_read, late>>
  /\ UNCHANGED <<Present, ioctl_q, seq_num, urbVars, irpVars, submitVars,
                 cancelVars, readUrb, writeVars, drainUrb, wireVars, outcome,
                 writeFor>>

(* The second section drains every device that is absent, *)
DrainBegin ==
  /\ unplug = "listed"
  /\ unplug' = "drain"
  /\ UNCHANGED <<pdoVars, urbVars, irpVars, submitVars, cancelVars, readVars,
                 writeVars, drainUrb, wireVars, histVars>>

(* and so does the second section of a call for another device. *)
UnplugOther ==
  /\ unplug = "idle"
  /\ ~Present
  /\ unplug' = "drain"
  /\ UNCHANGED <<pdoVars, urbVars, irpVars, submitVars, cancelVars, readVars,
                 writeVars, drainUrb, wireVars, histVars>>

(* complete_pending_irp takes the head of the queue under q_lock, and drops *)
(* the lock with the IRP's cancel routine still set.                        *)
DrainTake ==
  /\ unplug = "drain" /\ drainUrb = None
  /\ ioctl_q # <<>>
  /\ drainUrb' = Head(ioctl_q)
  /\ ioctl_q' = Tail(ioctl_q)
  /\ UNCHANGED <<Present, pending_read, seq_num, urbVars, irpVars, submitVars,
                 cancelVars, readVars, writeVars, unplug, wireVars, histVars>>

(* Then it clears the cancel routine, whatever that was, and completes. *)
DrainComplete ==
  /\ drainUrb # None
  /\ CancelRoutine' = [CancelRoutine EXCEPT ![drainUrb] = FALSE]
  /\ Complete(drainUrb, "gone")
  /\ drainUrb' = None
  /\ UNCHANGED <<pdoVars, urbVars, Cancel, submitVars, cancelVars, readVars,
                 writeVars, unplug, wireVars, writeFor, late>>

\* Faulty variant: the loop stops one request short.
DrainEndEarly ==
  /\ unplug = "drain" /\ drainUrb = None
  /\ Len(ioctl_q) <= 1
  /\ unplug' = "idle"
  /\ UNCHANGED <<pdoVars, urbVars, irpVars, submitVars, cancelVars, readVars,
                 writeVars, drainUrb, wireVars, histVars>>

(* The loop ends when it finds the queue empty. *)
DrainEnd ==
  /\ unplug = "drain" /\ drainUrb = None
  /\ ioctl_q = <<>>
  /\ unplug' = "idle"
  /\ UNCHANGED <<pdoVars, urbVars, irpVars, submitVars, cancelVars, readVars,
                 writeVars, drainUrb, wireVars, histVars>>

-----------------------------------------------------------------------------
SubmitStep(u) ==
  \/ AddqQueue(u)
  \/ AddqTake(u)
  \/ AddqFillFails(u)
  \/ AddqSent(u)
  \/ AddqCompleteRead(u)
  \/ SubmitFinish(u)

Submitting(u) ==
  \/ SubmitImmediate(u)
  \/ SubmitChecked(u)
  \/ SubmitStep(u)

ReadStep(r) ==
  \/ ReadChecked(r)
  \/ ReadWait(r)
  \/ \E i \in DOMAIN ioctl_q :
       ReadPacket(r, i) \/ ReadReject(r, i) \/ ReadRejectCancelled(r, i)
  \/ ReadRejectComplete(r)

Reply(u) == WriteChecked(u) \/ WriteLost(u)
WriteStep ==
  \/ \E i \in DOMAIN ioctl_q : WriteClaim(i)
  \/ WriteMiss
  \/ WriteFinish
CancelStep == CancelFind \/ CancelMiss \/ CancelComplete
UnplugStep ==
  UnplugRead \/ DrainBegin \/ DrainTake \/ DrainComplete \/ DrainEnd

Next ==
  \/ \E u \in Urbs : Submitting(u) \/ IoCancelIrp(u) \/ Reply(u)
  \/ \E r \in Readers : ReadStep(r)
  \/ WriteStep
  \/ CancelStep
  \/ UnplugMark
  \/ UnplugOther
  \/ UnplugStep

Spec == Init /\ [][Next]_vars

(* Every thread that has begun a call goes on with it, user space keeps     *)
(* reading, and the device answers every packet.  Nobody has to submit,     *)
(* cancel or unplug.  A call of bus_unplug_dev that waits for the mutex     *)
(* gets it, however many other calls come in between.                       *)
Fairness ==
  /\ \A u \in Urbs : WF_vars(SubmitStep(u)) /\ WF_vars(Reply(u))
  /\ \A r \in Readers : WF_vars(ReadStep(r))
  /\ WF_vars(WriteStep)
  /\ WF_vars(CancelStep)
  /\ WF_vars(UnplugStep)
  /\ SF_vars(DrainBegin)

FairSpec == Spec /\ Fairness

-----------------------------------------------------------------------------
(* Properties                                                               *)

Queued(u) == \E i \in DOMAIN ioctl_q : ioctl_q[i] = u
Removed(u) ==
  \/ writeUrb = u
  \/ drainUrb = u
  \/ cancelUrb = u
  \/ \E r \in Readers : readUrb[r] = u

(* Submitters, the two user-mode threads, cancel_irp and the unplug all     *)
(* complete IRPs, and each IRP must be completed once.  The one way to      *)
(* complete one twice is complete_pending_irp, which does not look at the   *)
(* result of IoSetCancelRoutine (pnp.c:1033), against cancel_irp.           *)
CompletedOnce ==
  \A u \in Urbs :
    \/ Len(outcome[u]) <= 1
    \/ outcome[u] \in {<<"cancelled", "gone">>, <<"gone", "cancelled">>}

(* cancel_irp is always the last to hold an URB it does not find in the     *)
(* queue, unless complete_pending_irp has just taken it: then both complete *)
(* the same IRP.                                                            *)
CancelMissesOnlyDrained ==
  (cancelUrb # None /\ cancelStep = "missing") =>
    (drainUrb = cancelUrb \/ outcome[cancelUrb] = <<"gone">>)

(* busenum.c:1647 "Warning, why we can't found it?": cancel_irp expects     *)
(* every IRP it is called for to be in the queue.                           *)
CancelFindsItsUrb == cancelUrb # None => cancelStep # "missing"

(* An URB whose submission has returned STATUS_PENDING is in the queue, or  *)
(* in the hands of a thread that will complete it, or completed: no path    *)
(* through read, write, cancel and unplug drops one.                        *)
NoUrbLost ==
  \A u \in Urbs :
    submit[u] = "returned" => Queued(u) \/ Removed(u) \/ outcome[u] # <<>>

(* A read never waits while an URB waits to be sent: otherwise neither      *)
(* would wake the other, since only a submission takes a waiting read       *)
(* (busenum.c:1667) and only a new read looks for unsent URBs.              *)
NoMissedRead == pending_read # None => Unsent = {}

(* "Warning, recv not send" (busenum.c:367): a reply meets an URB that was  *)
(* never sent only with number 0, the number of every unsent URB, which a   *)
(* packet carries only after the counter has wrapped.                       *)
UnsentHitOnlyByZero ==
  (write = "finish" /\ ~send[writeUrb]) => writeSeq = 0

(* What is left in the queue or waiting to read when the unplug has ended   *)
(* was put there after Present had been cleared, by a thread that had seen  *)
(* it set.                                                                  *)
LeftBehindOnlyLate ==
  (unplug = "idle" /\ ~Present) =>
    /\ \A i \in DOMAIN ioctl_q : ioctl_q[i] \in late
    /\ pending_read \in late \cup {None}

(* User space gets the packets in the order of their numbers, as long as    *)
(* one thread reads: try_addq completes the read it took only after it      *)
(* dropped the lock (busenum.c:1706), yet no later packet can overtake it.  *)
Rank(s) == IF s > FirstSeq THEN s - FirstSeq ELSE s + MaxSeq + 1 - FirstSeq

PacketsInOrder ==
  [][\A u, v \in Urbs :
       (packet[u] = "none" /\ packet'[u] = "out" /\ packet[v] # "none") =>
         Rank(pktSeq[v]) < Rank(pktSeq'[u])]_vars

(* Every URB is completed, if it was not queued after Present had been      *)
(* cleared, and if its number was not 0: a reply with number 0 may find an  *)
(* unsent URB first (busenum.c:347), and its own URB then waits for ever.   *)
NumberedZero(u) == packet[u] = "answered" /\ pktSeq[u] = 0

EveryUrbCompleted ==
  \A u \in Urbs :
    (submit[u] # "new") ~> (outcome[u] # <<>> \/ u \in late \/ NumberedZero(u))

(* A read that waits when the device goes is completed, unless it came to   *)
(* wait only afterwards.                                                    *)
WaitingReadReleased ==
  \A r \in Readers :
    (read[r] = "pending" /\ ~Present) ~> (read[r] # "pending" \/ r \in late)

(* The inductive invariant, from which the properties above follow.  An URB *)
(* that can still be completed is in one place: in the hands of its         *)
(* submitter, in the queue, or removed from it by one thread; only          *)
(* complete_pending_irp and cancel_irp can hold the same URB.               *)
InQueueOnce ==
  \A i, j \in DOMAIN ioctl_q : ioctl_q[i] = ioctl_q[j] => i = j

Accepted(u) == submit[u] \in {"kept", "returned"}
Open(u) == outcome[u] = <<>>

QueuedInv ==
  \A u \in Urbs : Queued(u) =>
    /\ Accepted(u) /\ Open(u)
    /\ writeUrb # u /\ drainUrb # u
    /\ \A r \in Readers : readUrb[r] # u
    /\ CancelRoutine[u] \/ cancelUrb = u
    /\ cancelUrb = u => cancelStep = "search"

CancelInv ==
  /\ \A u \in Urbs : CancelRoutine[u] =>
       /\ Queued(u) \/ (drainUrb = u /\ Open(u))
       /\ cancelUrb # u /\ ~Cancel[u]
  /\ cancelUrb # None =>
       /\ Accepted(cancelUrb) /\ Cancel[cancelUrb]
       /\ writeUrb # cancelUrb
       /\ \A r \in Readers : readUrb[r] # cancelUrb
       /\ \/ Open(cancelUrb)
          \/ outcome[cancelUrb] = <<"gone">> /\ cancelStep # "found"
       /\ cancelStep = "found" => drainUrb # cancelUrb
       /\ \/ Queued(cancelUrb) \/ drainUrb = cancelUrb
          \/ cancelStep = "found" \/ outcome[cancelUrb] = <<"gone">>

HeldInv ==
  /\ (write = "finish") <=> (writeUrb # None)
  /\ writeUrb # None =>
       /\ Accepted(writeUrb) /\ Open(writeUrb) /\ drainUrb # writeUrb
       /\ \A r \in Readers : readUrb[r] # writeUrb
  /\ \A r \in Readers :
       /\ (read[r] = "reject") <=> (readUrb[r] # None)
       /\ readUrb[r] # None =>
            /\ Accepted(readUrb[r]) /\ Open(readUrb[r])
            /\ drainUrb # readUrb[r]
            /\ \A q \in Readers : readUrb[q] = readUrb[r] => q = r
  /\ drainUrb # None =>
       /\ Accepted(drainUrb)
       /\ \/ Open(drainUrb)
          \/ outcome[drainUrb] = <<"cancelled">> /\ cancelUrb # drainUrb

SubmitInv ==
  \A u \in Urbs : ~Accepted(u) => Open(u)

(* A read waits, or is in the hands of one submitter, or of its own thread. *)
ReadInv ==
  /\ pending_read # None => read[pending_read] = "pending"
  /\ \A u \in Urbs :
       /\ submitRead[u] # None <=>
            submit[u] \in {"fill", "kept", "dropped", "failed"}
       /\ submitRead[u] # None => read[submitRead[u]] = "taken"
  /\ \A u, v \in Urbs :
       (submitRead[u] # None /\ submitRead[u] = submitRead[v]) => u = v

(* NoUrbLost, from the moment the URB enters the queue. *)
AcceptedInv ==
  \A u \in Urbs : Accepted(u) => Queued(u) \/ Removed(u) \/ ~Open(u)

(* NoMissedRead, without the places in the queue. *)
SentInv == pending_read # None => \A u \in Urbs : Queued(u) => send[u]

(* LeftBehindOnlyLate, from the moment the unplug has passed the read. *)
UnplugInv ==
  /\ (unplug # "read" /\ ~Present) => pending_read \in late \cup {None}
  /\ (unplug = "idle" /\ ~Present) => \A u \in Urbs : Queued(u) => u \in late

IInv ==
  /\ TypeOK
  /\ InQueueOnce
  /\ QueuedInv
  /\ CancelInv
  /\ HeldInv
  /\ SubmitInv
  /\ ReadInv
  /\ AcceptedInv
  /\ SentInv
  /\ UnplugInv
  /\ CompletedOnce

(* The queue keeps the contract of UrbService: see there.  An URB completed *)
(* a second time has kept it the first time.                                *)
Service == INSTANCE UrbService WITH
  Urbs     <- Urbs,
  plugged  <- Present,
  state    <- [u \in Urbs |-> IF outcome[u] # <<>> THEN outcome[u][1]
                              ELSE IF submit[u] = "new" THEN "new"
                              ELSE "open"],
  packet   <- packet,
  withdrawn <- {u \in Urbs : Cancel[u]}

ImplementsService == Service!Spec

=============================================================================
