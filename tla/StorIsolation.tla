--------------------------- MODULE StorIsolation ----------------------------
(* EnumDiskAndRemap (StorIsolation.c): a thread of the service finds the disk *)
(* of its device, takes the letters of its volumes away from everybody, notes *)
(* the volumes in a list and gives them letters in the user's session; when   *)
(* usbip.exe has ended it removes the letters and frees the list.  The list   *)
(* is one for all threads and there is no lock: every access to it is a step. *)
(* A cell that is freed keeps its content until malloc hands it out again; an *)
(* access to it may fault.                                                    *)
EXTENDS RedirHost

Garbage == -1
Unread == -2
NULL == 0
RawCell == [free |-> FALSE, vol |-> 0, letter |-> 0, next |-> Garbage]

At(t, pc) == th[t].pc = pc
Become(t, pc) == th' = [th EXCEPT ![t].pc = pc]
Point(t, pc, nxt) == th' = [th EXCEPT ![t].pc = pc, ![t].nxt = nxt]

OnlyThread == UNCHANGED <<set, userVars, deviceVars, alive, sock, lost>>
OnlyPc     == OnlyThread /\ UNCHANGED <<defs, listVars>>
OnlyList   == OnlyThread /\ UNCHANGED <<defs, crowd>>

\* The process ends: its threads, its heap and its sockets go, nothing else.
Alive == alive = "running"
Threading == {t \in Threads : th[t].pc \notin {"none", "ended"}}
Die(how) ==
    /\ alive' = how
    /\ th' = [t \in Threads |-> IF t \in Threading THEN [th[t] EXCEPT !.pc = "ended"]
                                ELSE th[t]]
    /\ lost' = lost \cup Threading
    /\ sock' = [t \in Threads |-> IF sock[t] = "open" THEN "closed" ELSE sock[t]]
    /\ head' = NULL
    /\ cell' = [c \in Cells |-> [RawCell EXCEPT !.free = TRUE]]
    /\ UNCHANGED <<set, userVars, deviceVars, defs, crowd>>

Invalid(c) == c \notin Cells
MayFault(c) == c \in Cells => cell[c].free
Fault(t, pc, c) == At(t, pc) /\ MayFault(c) /\ Die("faulted")

\* The cells a walk from head comes to, and whether it ends.
Closed(S) == \A c \in S : ~Invalid(c) => cell[c].next \in S
Walk == {c \in Cells \cup {NULL, Garbage} :
            \A S \in SUBSET (Cells \cup {NULL, Garbage}) :
                head \in S /\ Closed(S) => c \in S}
WalkEnds == NULL \in Walk
WalkMayFault == \E c \in Walk \ {NULL} : MayFault(c)

\* A thread that uses the list, or has noted volumes in it.
UsesList(u) ==
    \/ th[u].pc \in {"scan", "append", "first", "gohead", "link", "gonext", "fill",
                     "remount", "map", "notify", "over", "unmap", "take", "pass", "free"}
    \/ th[u].round > 0 /\ th[u].pc \notin {"close", "ended"}
Enter(t) == crowd' = crowd \cup {{t, u} : u \in {x \in Threads \ {t} : UsesList(x)}}

-----------------------------------------------------------------------------
(* DoEnumDiskAndRemap, under the loops that look for the disk and then for    *)
(* its volumes until there are some or the child has ended.                   *)
LeaveSearch(t) ==
    /\ th[t].pc \in {"search", "enum"} /\ ~Running(t)
    /\ Become(t, "await") /\ OnlyPc

\* The number of the disk is read once, or cannot be read; the loop over the
\* volumes goes on with it, whatever becomes of the disk.
ReadDiskNumber(t) ==
    /\ At(t, "search") /\ Running(t) /\ dev[th[t].dev] = "ready"
    /\ \E n \in {disk[th[t].dev]} \cup (IF set.fails THEN {NoDisk} ELSE {}) :
          th' = [th EXCEPT ![t].pc = "enum", ![t].disk = n]
    /\ OnlyPc

\* DoEnumVolumeAndUnmount keeps the head of the list it finds on entry, and
\* has not read the number of a volume yet.
BeginScan(t) ==
    /\ At(t, "enum") /\ Running(t) /\ th[t].round < set.rounds
    /\ th' = [th EXCEPT ![t].pc = "scan", ![t].nxt = head, ![t].at = 0,
                        ![t].hit = FALSE, ![t].last = Unread]
    /\ Enter(t)
    /\ OnlyThread /\ UNCHANGED <<defs, head, cell>>

Ahead(t) == {v \in vols : v > th[t].at}

\* What the code takes for the number of a volume's disk: where it cannot be
\* read, what is left from the volume before or, at first, anything, which may
\* be the number looked for.
NumberFound(t, v) ==
    {disk[DevOf[v]]} \cup
    (IF ~set.fails THEN {}
     ELSE IF th[t].last = Unread THEN {th[t].disk, Unread} ELSE {th[t].last})

DelMountPoint(v) == vletter' = [vletter EXCEPT ![v] = 0]

\* A volume with the number of the disk loses its letter; that can fail.
Unmount(t, v) ==
    /\ th[t].disk \in NumberFound(t, v)
    /\ th' = [th EXCEPT ![t].pc = "append", ![t].at = v, ![t].hit = TRUE,
                        ![t].last = th[t].disk]
    /\ \/ DelMountPoint(v)
       \/ set.fails /\ vletter' = vletter

\* Another volume is passed over, and so is one that cannot be opened.
PassOver(t, v) ==
    /\ \E n \in (NumberFound(t, v) \ {th[t].disk})
              \cup (IF set.fails THEN {th[t].last} ELSE {}) :
          th' = [th EXCEPT ![t].at = v, ![t].last = n]
    /\ vletter' = vletter

\* The disk is found, and the search ends if QueryDosDevice fails for a volume.
NoDosDevice(t, v) ==
    /\ set.fails /\ th[t].disk \in NumberFound(t, v)
    /\ th' = [th EXCEPT ![t].pc = "remount", ![t].round = @ + 1, ![t].last = Unread]
    /\ vletter' = vletter

NextVolume(t) ==
    /\ At(t, "scan") /\ Ahead(t) # {}
    /\ LET v == Min(Ahead(t)) IN Unmount(t, v) \/ PassOver(t, v) \/ NoDosDevice(t, v)
    /\ UNCHANGED <<set, userVars, dev, holder, disk, vols, acl, sddl, defs, alive,
                   sock, listVars, lost>>

\* No more volumes, or FindNextVolume fails.
EndScan(t) ==
    /\ At(t, "scan") /\ (Ahead(t) = {} \/ set.fails)
    /\ \/ th[t].hit /\ th' = [th EXCEPT ![t].pc = "remount", ![t].round = @ + 1,
                                        ![t].last = Unread]
       \/ ~th[t].hit /\ th' = [th EXCEPT ![t].pc = "enum", ![t].last = Unread]
    /\ OnlyPc

-----------------------------------------------------------------------------
(* The list.  Memory is never short: where Cells are, the thread waits.       *)
Fresh == Min({c \in Cells : cell[c].free})
HeapLeft == \E c \in Cells : cell[c].free

\* From here on the letters given before are not noted for sure: an append
\* drops the cells behind the head, and ReMount overwrites what is in the rest.
TestHead(t) ==
    /\ At(t, "append")
    /\ th' = [th EXCEPT ![t].pc = IF head = NULL THEN "first" ELSE "link",
                        ![t].gave = {}]
    /\ OnlyPc

First(t) ==
    /\ At(t, "first") /\ HeapLeft
    /\ head' = Fresh /\ cell' = [cell EXCEPT ![Fresh] = RawCell]
    /\ Become(t, "gohead")
    /\ OnlyList

\* Appends behind nxt, which is the head found on entry or this thread's last.
Link(t) ==
    \/ /\ At(t, "link") /\ HeapLeft /\ ~Invalid(th[t].nxt)
       /\ cell' = [[cell EXCEPT ![Fresh] = RawCell] EXCEPT ![th[t].nxt].next = Fresh]
       /\ Become(t, "gonext")
       /\ OnlyList /\ UNCHANGED head
    \/ Fault(t, "link", th[t].nxt)

\* nxt is read again from where the new cell was stored.
Advance(t) ==
    \/ At(t, "gohead") /\ Point(t, "fill", head) /\ OnlyPc
    \/ At(t, "gonext") /\ Point(t, "fill", cell[th[t].nxt].next) /\ OnlyPc
    \/ Fault(t, "gonext", th[t].nxt)

\* Mutant: nxt->next = NULL is forgotten.
FilledOpen(c, v) == [cell EXCEPT ![c].vol = v]
Filled(c, v) == [cell EXCEPT ![c].vol = v, ![c].next = NULL]

Fill(t) ==
    \/ /\ At(t, "fill") /\ ~Invalid(th[t].nxt)
       /\ cell' = Filled(th[t].nxt, th[t].at)
       /\ Become(t, "scan")
       /\ OnlyList /\ UNCHANGED head
    \/ Fault(t, "fill", th[t].nxt)

-----------------------------------------------------------------------------
(* ReMount tests a result it has not set: where that is 0 it leaves at once.  *)
ReMount(t) ==
    /\ At(t, "remount")
    /\ \/ th' = [th EXCEPT ![t].pc = "map", ![t].nxt = head, ![t].at = 1,
                           ![t].hit = TRUE, ![t].as = NsOf(Host(t)), ![t].gave = {}]
       \/ set.fails /\ th' = [th EXCEPT ![t].pc = "notify", ![t].hit = FALSE]
    /\ OnlyPc

\* The letter reached stays where it is; the last one is taken, used or not.
NextLetter(t) ==
    LET free == (th[t].at .. LastLetter) \ Used(th[t].as) IN
    IF free = {} THEN LastLetter ELSE Min(free)

Map(t) ==
    LET c == th[t].nxt IN
    \/ /\ At(t, "map") /\ c = NULL
       /\ Become(t, "notify") /\ OnlyPc
    \/ /\ At(t, "map") /\ ~Invalid(c)
       /\ \/ /\ defs' = defs \cup {<<th[t].as, NextLetter(t), cell[c].vol>>}
             /\ cell' = [cell EXCEPT ![c].letter = NextLetter(t)]
             /\ th' = [th EXCEPT ![t].nxt = cell[c].next, ![t].at = NextLetter(t),
                           ![t].hit = TRUE,
                           ![t].gave = @ \cup {<<th[t].as, NextLetter(t), cell[c].vol>>}]
          \/ /\ set.fails
             /\ th' = [th EXCEPT ![t].nxt = cell[c].next, ![t].at = NextLetter(t),
                                 ![t].hit = FALSE]
             /\ UNCHANGED <<defs, cell>>
       /\ OnlyThread /\ UNCHANGED <<head, crowd>>
    \/ c # NULL /\ Fault(t, "map", c)

\* EdpNotify walks the list; then the loop over the disks goes on or ends.
Notify(t) ==
    \/ /\ At(t, "notify") /\ WalkEnds
       /\ Become(t, IF th[t].hit THEN "await" ELSE "search")
       /\ OnlyPc
    \/ At(t, "notify") /\ WalkMayFault /\ Die("faulted")

-----------------------------------------------------------------------------
(* usbip.exe has ended: EdpNotify, then DelMountPoint2 with the whole list.   *)
ChildOver(t) ==
    /\ At(t, "await") /\ ~Running(t)
    /\ Become(t, "over") /\ Enter(t)
    /\ OnlyThread /\ UNCHANGED <<defs, head, cell>>

BeginUnmap(t) ==
    \/ /\ At(t, "over") /\ WalkEnds
       /\ th' = [th EXCEPT ![t].pc = "unmap", ![t].nxt = head, ![t].as = NsOf(Host(t))]
       /\ OnlyPc
    \/ At(t, "over") /\ WalkMayFault /\ Die("faulted")

Unmapped(t) == {<<th[t].as, cell[head].letter, cell[head].vol>>}

\* Windows may refuse to remove a letter; the message about it is taken from
\* the cell that was freed last, if there is one.
Unmap(t) ==
    \/ /\ At(t, "unmap") /\ head = NULL
       /\ Become(t, "close") /\ OnlyPc
    \/ /\ At(t, "unmap") /\ ~Invalid(head)
       /\ \/ /\ defs' = defs \ Unmapped(t)
             /\ Become(t, "take")
          \/ /\ set.fails /\ ~Invalid(th[t].nxt)
             /\ th' = [th EXCEPT ![t].pc = "take", ![t].gave = @ \ Unmapped(t)]
             /\ UNCHANGED defs
       /\ OnlyThread /\ UNCHANGED listVars
    \/ At(t, "unmap") /\ ~Invalid(head) /\ set.fails /\ MayFault(th[t].nxt)
       /\ Die("logfault")
    \/ head # NULL /\ Fault(t, "unmap", head)

TakeHead(t) ==
    \/ /\ At(t, "take") /\ Point(t, "pass", head) /\ OnlyPc
    \/ /\ At(t, "pass") /\ ~Invalid(head)
       /\ head' = cell[head].next
       /\ Become(t, "free")
       /\ OnlyList /\ UNCHANGED cell
    \/ Fault(t, "pass", head)

\* Freeing NULL does nothing, freeing a cell twice faults.
Free(t) ==
    LET c == th[t].nxt IN
    \/ /\ At(t, "free") /\ (c = NULL \/ ~MayFault(c))
       /\ cell' = [x \in Cells |-> IF x = c THEN [cell[x] EXCEPT !.free = TRUE] ELSE cell[x]]
       /\ Become(t, "unmap")
       /\ OnlyList /\ UNCHANGED head
    \/ c # NULL /\ Fault(t, "free", c)

EnumDiskAndRemap(t) ==
    \/ LeaveSearch(t) \/ ReadDiskNumber(t) \/ BeginScan(t) \/ NextVolume(t) \/ EndScan(t)
    \/ TestHead(t) \/ First(t) \/ Link(t) \/ Advance(t) \/ Fill(t)
    \/ ReMount(t) \/ Map(t) \/ Notify(t)
    \/ ChildOver(t) \/ BeginUnmap(t) \/ Unmap(t) \/ TakeHead(t) \/ Free(t)
=============================================================================
