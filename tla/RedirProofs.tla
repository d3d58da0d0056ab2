---------------------------- MODULE RedirProofs -----------------------------
(* Theorems about the redirection service: the shape of its state, and that   *)
(* a fault in the list of volumes takes two threads that used it at once.     *)
EXTENDS RedirService, FiniteSetTheorems, WellFoundedInduction, TLAPS

-----------------------------------------------------------------------------
(* The shape of the state.                                                    *)

Unstarted == {"none", "recv", "session"}
Noting == {"append", "first", "gohead", "link", "gonext", "fill"}

CellsOrNone == Cells \cup {NULL, Garbage}
LetterOf == (Hosts \cup {Public}) \X Letters \X (Vols \cup {0})
ThreadRecord == [pc : Pcs, dev : Devs, disk : Int, last : Int, nxt : CellsOrNone,
                 at : Nat, hit : BOOLEAN, as : Hosts \cup {Public}, round : Nat,
                 gave : SUBSET LetterOf]
CellRecord == [free : BOOLEAN, vol : Vols \cup {0}, letter : Letters \cup {0},
               next : CellsOrNone]

DisksOK ==
    /\ disk \in [Devs -> DiskNumbers \cup {NoDisk}]
    /\ \A d \in Devs : disk[d] # NoDisk => dev[d] = "ready"

WorldOK ==
    /\ set \in Settings
    /\ session \in [Hosts -> {"none", "active", "ended"}]
    /\ child \in [Threads -> {"none", "running", "ended"}]
    /\ dev \in [Devs -> {"absent", "usb", "ready"}] /\ holder \in [Devs -> Threads]
    /\ DisksOK
    /\ vols \subseteq Vols /\ vletter \in [Vols -> Letters \cup {0}]
    /\ \A v \in vols : dev[DevOf[v]] = "ready"
    /\ acl \in [Devs -> SUBSET (Hosts \cup {Everyone, Admins})]
    /\ sddl \in [Devs -> {"default", "cut"}]

ListOK ==
    /\ defs \subseteq LetterOf
    /\ head \in CellsOrNone /\ cell \in [Cells -> CellRecord]

\* What a thread notes.
RecordOK(r) ==
    /\ r \in ThreadRecord
    /\ r.pc \in Noting => r.at \in Vols
    /\ r.pc = "gonext" => r.nxt \in Cells
    /\ r.pc = "map" => r.at \in Letters

\* A thread whose usbip.exe has not been started, by the state of its socket.
Childless(t) ==
    th[t].pc \in Unstarted \/ (At(t, "ended") /\ sock[t] = "open") => child[t] = "none"

Ways == {"running", "stopped", "faulted", "logfault"}
ThreadsOK ==
    /\ alive \in Ways
    /\ sock \in [Threads -> {"none", "open", "closed"}]
    /\ th \in [Threads -> ThreadRecord]
    /\ \A t \in Threads : /\ RecordOK(th[t]) /\ Childless(t)
                          /\ (sock[t] = "none") <=> (th[t].pc = "none")
    /\ ~Alive => Threading = {} /\ head = NULL

TypeInv == WorldOK /\ ListOK /\ ThreadsOK

-----------------------------------------------------------------------------
(* Operators.                                                                 *)

\* A set of natural numbers has a least element.
LEMMA MinIsIn ==
    ASSUME NEW S \in SUBSET Nat, S # {}
    PROVE  Min(S) \in S
<1>1. IsWellFoundedOn(OpToRel(<, Nat), Nat)
    BY NatLessThanWellFounded
<1>2. PICK x \in S : \A y \in S : ~(<<y, x>> \in OpToRel(<, Nat))
    BY <1>1, WFMin
<1>3. \A y \in S : ~(y < x)
    BY <1>2 DEF OpToRel
<1>4. \A y \in S : x <= y
    BY <1>3
<1> QED
    BY <1>4 DEF Min

LEMMA Constants ==
    /\ NULL \notin Cells /\ Garbage \notin Cells /\ 0 \notin Vols /\ NULL # Garbage
    /\ Vols \subseteq Nat /\ Cells \subseteq Nat /\ 1 \in Letters
    /\ Letters \subseteq Nat
    /\ LastLetter \in Letters /\ 0 \notin Letters
BY RedirAssumption DEF NULL, Garbage, Letters

\* There are as many numbers as disks, so that one without finds one left.
LEMMA FreeNumberIs ==
    ASSUME NEW d \in Devs, disk \in [Devs -> DiskNumbers \cup {NoDisk}],
           disk[d] = NoDisk
    PROVE  FreeNumber \in DiskNumbers
<1> DEFINE D == Devs \ {d}
           used == {disk[e] : e \in D}
           n == Cardinality(Devs)
<1>1. IsFiniteSet(Devs) /\ IsFiniteSet(D) /\ Cardinality(D) = n - 1 /\ n \in Nat
    BY RedirAssumption, FS_RemoveElement, FS_CardinalityType
<1>2. IsFiniteSet(used) /\ Cardinality(used) <= Cardinality(D)
    <2> DEFINE f == [e \in D |-> disk[e]]
    <2>1. f \in Surjection(D, used)
        BY DEF Surjection
    <2> QED
        BY <1>1, <2>1, FS_Surjection
<1>3. Cardinality(DiskNumbers) = n
    <2>1. 0 \in Int /\ n - 1 \in Int
        BY <1>1
    <2>2. Cardinality(0 .. (n - 1)) = IF 0 > n - 1 THEN 0 ELSE (n - 1) - 0 + 1
        BY <2>1, FS_Interval
    <2> QED
        BY <1>1, <2>2 DEF DiskNumbers
<1>4. ~(DiskNumbers \subseteq used)
    <2>1. DiskNumbers \subseteq used => Cardinality(DiskNumbers) <= Cardinality(used)
        BY <1>2, FS_Subset
    <2>2. Cardinality(used) \in Nat
        BY <1>2, FS_CardinalityType
    <2> HIDE DEF used, n, D
    <2> QED
        BY <1>1, <1>2, <1>3, <2>1, <2>2
<1>5. NoDisk \notin DiskNumbers
    BY DEF NoDisk, DiskNumbers
<1>6. DiskNumbers \ {disk[e] : e \in Devs} # {}
    BY <1>4, <1>5
<1>7. DiskNumbers \ {disk[e] : e \in Devs} \in SUBSET Nat
    BY <1>1 DEF DiskNumbers
<1> QED
    BY <1>6, <1>7, MinIsIn DEF FreeNumber

LEMMA DiskNumbersAre == DiskNumbers \cup {NoDisk} \subseteq Int /\ Unread \in Int
<1>1. Cardinality(Devs) \in Nat
    BY RedirAssumption, FS_CardinalityType
<1> QED
    BY <1>1 DEF DiskNumbers, NoDisk, Unread

-----------------------------------------------------------------------------
LEMMA TypeInvImplies == TypeInv => TypeOK
<1> SUFFICES ASSUME TypeInv PROVE TypeOK
    OBVIOUS
<1>1. ASSUME NEW t \in Threads
      PROVE /\ th[t].pc \in Pcs /\ th[t].as \in Hosts \cup {Public}
            /\ th[t].nxt \in Cells \cup {NULL, Garbage}
            /\ (sock[t] = "none") <=> (th[t].pc = "none")
            /\ At(t, "ended") /\ sock[t] = "open" => child[t] = "none"
    BY DEF TypeInv, ThreadsOK, RecordOK, ThreadRecord, CellsOrNone, Childless
<1>2. cell \in [Cells -> [free : BOOLEAN, vol : Vols \cup {0},
                letter : Letters \cup {0}, next : Cells \cup {NULL, Garbage}]]
    BY DEF TypeInv, ListOK, CellRecord, CellsOrNone
<1>3. ~Alive => Threading = {} /\ head = NULL
    BY DEF TypeInv, ThreadsOK
<1> QED
    BY <1>1, <1>2, <1>3 DEF TypeInv, WorldOK, ListOK, DisksOK, TypeOK, CellsOrNone,
                            LetterOf

LEMMA TypeInit == Init => TypeInv
<1> SUFFICES ASSUME Init PROVE TypeInv
    OBVIOUS
<1> USE RedirAssumption, SettingsAssumption
<1>1. WorldOK
    <2>1. holder \in [Devs -> Threads]
        BY DEF Init
    <2>2. DisksOK
        BY DEF Init, DisksOK
    <2> QED
        BY <2>1, <2>2 DEF Init, WorldOK
<1>2. ListOK
    BY DEF Init, ListOK, CellRecord, CellsOrNone, RawCell, Garbage, NULL
<1>3. ASSUME NEW t \in Threads
      PROVE  RecordOK(Idle(set.req[t].dev))
    <2>1. set.req[t].dev \in Devs
        BY DEF Init
    <2> DEFINE r == Idle(set.req[t].dev)
    <2>2. r \in ThreadRecord
        BY <2>1 DEF Idle, ThreadRecord, Pcs, CellsOrNone, NoDisk, Unread
    <2> QED
        BY <2>2 DEF Idle, RecordOK, Noting
<1>4. ThreadsOK
    <2>1. \A t \in Threads : th[t] = Idle(set.req[t].dev) /\ th[t].pc = "none"
                             /\ sock[t] = "none" /\ child[t] = "none"
        BY DEF Init, Idle
    <2>2. th \in [Threads -> ThreadRecord]
        BY <1>3 DEF Init, RecordOK
    <2>3. \A t \in Threads : Childless(t)
        BY <2>1 DEF Childless
    <2>4. Alive /\ alive \in Ways
        BY Zenon DEF Init, Alive, Ways
    <2>5. sock \in [Threads -> {"none", "open", "closed"}]
        BY DEF Init
    <2> QED
        BY <1>3, <2>1, <2>2, <2>3, <2>4, <2>5 DEF ThreadsOK
<1> QED
    BY <1>1, <1>2, <1>4 DEF TypeInv

\* A step of one thread.
LEMMA ThreadStep ==
    ASSUME TypeInv, NEW t \in Threads, NEW r, RecordOK(r),
           th[t].pc \notin {"none", "ended"}, r.pc \notin Unstarted \cup {"ended"},
           th' = [th EXCEPT ![t] = r], UNCHANGED <<child, alive, sock>>
    PROVE  ThreadsOK'
<1>1. t \in Threading
    BY DEF Threading
<1>2. Alive
    BY <1>1 DEF TypeInv, ThreadsOK
<1>3. r \in ThreadRecord
    BY DEF RecordOK
<1>4. \A u \in Threads : th'[u] = IF u = t THEN r ELSE th[u]
    BY DEF TypeInv, ThreadsOK
<1>5. th' \in [Threads -> ThreadRecord]
    BY <1>3 DEF TypeInv, ThreadsOK
<1>6. \A u \in Threads : RecordOK(th[u])'
    BY <1>4 DEF TypeInv, ThreadsOK, RecordOK
<1>7. \A u \in Threads : Childless(u)'
    BY <1>4 DEF TypeInv, ThreadsOK, Childless, At
<1>8. \A u \in Threads : (sock'[u] = "none") <=> (th'[u].pc = "none")
    BY <1>4 DEF TypeInv, ThreadsOK, Unstarted
<1>9. Alive'
    BY <1>2 DEF Alive
<1> QED
    BY <1>5, <1>6, <1>7, <1>8, <1>9 DEF TypeInv, ThreadsOK

Plain == Pcs \ (Unstarted \cup Noting \cup {"ended", "map"})
LEMMA PlainPcs ==
    {"close", "wait", "other", "restricted", "printing", "search",
     "enum", "scan", "remount", "notify", "await", "over", "unmap", "take",
     "pass", "free"} \subseteq Plain
BY DEF Plain, Pcs, Unstarted, Noting

\* What is noted stays as it should when a thread only goes on.
LEMMA PlainRecord ==
    ASSUME NEW r, r \in ThreadRecord, r.pc \in Plain
    PROVE  RecordOK(r) /\ r.pc \notin Unstarted \cup {"ended"}
BY DEF RecordOK, Plain, Noting

LEMMA PlainStep ==
    ASSUME TypeInv, NEW t \in Threads, NEW p \in Plain, Become(t, p),
           th[t].pc \notin {"none", "ended"}, UNCHANGED <<child, alive, sock>>
    PROVE  ThreadsOK'
<1> DEFINE r == [th[t] EXCEPT !.pc = p]
<1>1. r \in ThreadRecord /\ r.pc = p
    BY DEF TypeInv, ThreadsOK, ThreadRecord, Plain
<1>2. th' = [th EXCEPT ![t] = r]
    BY DEF Become
<1> HIDE DEF r
<1> QED
    BY <1>1, <1>2, PlainRecord, ThreadStep

LEMMA WorldSame == TypeInv /\ UNCHANGED <<set, userVars, deviceVars>> => WorldOK'
BY DEF TypeInv, WorldOK, DisksOK, userVars, deviceVars

LEMMA ListSame == TypeInv /\ UNCHANGED <<defs, head, cell>> => ListOK'
BY DEF TypeInv, ListOK

\* A step outside the service: no usbip.exe is started.
LEMMA ThreadsSame ==
    ASSUME TypeInv, UNCHANGED <<alive, sock, th, head>>,
           \A t \in Threads : child[t] = "none" => child'[t] = "none"
    PROVE  ThreadsOK'
<1>1. \A u \in Threads : RecordOK(th[u])'
    BY DEF TypeInv, ThreadsOK, RecordOK
<1>2. \A u \in Threads : Childless(u)'
    BY DEF TypeInv, ThreadsOK, Childless, At
<1>3. Threading' = Threading /\ Alive' = Alive
    BY DEF Threading, Alive
<1> QED
    BY <1>1, <1>2, <1>3 DEF TypeInv, ThreadsOK

\* Steps that only go on to another place.
LEMMA PlainOnly ==
    ASSUME TypeInv, NEW t \in Threads, NEW p \in Plain, Become(t, p),
           th[t].pc \notin {"none", "ended"}, OnlyPc
    PROVE  TypeInv'
<1>1. UNCHANGED <<set, userVars, deviceVars, child, alive, sock, defs, head, cell>>
    BY DEF OnlyPc, OnlyThread, listVars, userVars
<1> QED
    BY <1>1, PlainStep, WorldSame, ListSame DEF TypeInv

\* Steps of a thread that change its own record only.
LEMMA RecordOnly ==
    ASSUME TypeInv, NEW t \in Threads, NEW r, RecordOK(r),
           th[t].pc \notin {"none", "ended"}, r.pc \notin Unstarted \cup {"ended"},
           th' = [th EXCEPT ![t] = r], OnlyThread, UNCHANGED <<defs, head, cell>>
    PROVE  TypeInv'
<1>1. UNCHANGED <<set, userVars, deviceVars, child, alive, sock>>
    BY DEF OnlyThread, userVars
<1> QED
    BY <1>1, ThreadStep, WorldSame, ListSame DEF TypeInv

\* The process ends.
LEMMA DieStep ==
    ASSUME TypeInv, NEW how \in Ways \ {"running"}, Die(how)
    PROVE  TypeInv'
<1>1. WorldOK'
    BY WorldSame DEF Die
<1>2. ListOK'
    BY DEF TypeInv, Die, ListOK, CellRecord, CellsOrNone, RawCell, Garbage, NULL
<1>3. ASSUME NEW t \in Threads
      PROVE  /\ RecordOK(th'[t]) /\ th'[t].pc \in {"none", "ended"}
             /\ (sock'[t] = "none") <=> (th'[t].pc = "none")
             /\ sock'[t] # "open"
             /\ th'[t].pc = "none" => child'[t] = "none"
    <2> DEFINE r == [th[t] EXCEPT !.pc = "ended"]
    <2>1. RecordOK(th[t]) /\ th[t] \in ThreadRecord
        BY DEF TypeInv, ThreadsOK
    <2>2. r \in ThreadRecord /\ r.pc = "ended"
        BY <2>1 DEF ThreadRecord, Pcs
    <2>3. RecordOK(r)
        BY <2>2 DEF RecordOK, Noting
    <2>4. th'[t] = IF th[t].pc \notin {"none", "ended"} THEN r ELSE th[t]
        BY DEF Die, Threading
    <2>5. sock'[t] = IF sock[t] = "open" THEN "closed" ELSE sock[t]
        BY DEF Die
    <2>6. child' = child
        BY DEF Die, userVars
    <2>7. Childless(t) /\ ((sock[t] = "none") <=> (th[t].pc = "none"))
        BY DEF TypeInv, ThreadsOK
    <2>8. th'[t].pc = "none" => child'[t] = "none"
        BY <2>2, <2>4, <2>6, <2>7 DEF Childless, Unstarted
    <2> QED
        BY <2>1, <2>2, <2>3, <2>4, <2>5, <2>7, <2>8
<1>4. th' \in [Threads -> ThreadRecord]
    <2>1. \A t \in Threads : th'[t] \in ThreadRecord
        BY <1>3 DEF RecordOK
    <2> QED
        BY <2>1 DEF Die
<1>5. sock' \in [Threads -> {"none", "open", "closed"}]
    BY DEF TypeInv, ThreadsOK, Die
<1>6. alive' \in Ways
    BY DEF Die
<1>7. Threading' = {} /\ head' = NULL
    BY <1>3 DEF Threading, Die
<1>8. \A t \in Threads : RecordOK(th[t])'
    BY <1>3 DEF RecordOK, Die
<1>9. \A t \in Threads : Childless(t)'
    BY <1>3 DEF Childless, Unstarted, At
<1>10. ThreadsOK'
    BY <1>3, <1>4, <1>5, <1>6, <1>7, <1>8, <1>9 DEF ThreadsOK
<1> QED
    BY <1>1, <1>2, <1>10 DEF TypeInv

LEMMA FaultStep ==
    ASSUME TypeInv, NEW t, NEW p, NEW c, Fault(t, p, c) PROVE TypeInv'
<1>1. "faulted" \in Ways \ {"running"}
    BY Zenon DEF Ways
<1> QED
    BY <1>1, DieStep DEF Fault

\* The devices of some children go.
LEMMA GoneStep ==
    ASSUME TypeInv, NEW T \in SUBSET Threads, Gone(T),
           UNCHANGED <<set, holder, acl>>, session' \in [Hosts -> {"none", "active", "ended"}]
    PROVE  WorldOK'
<1>1. \A v \in Vols : DevOf[v] \in Devs
    BY RedirAssumption
<1>2. DisksOK'
    BY DEF TypeInv, WorldOK, DisksOK, Gone
<1> QED
    BY <1>1, <1>2 DEF TypeInv, WorldOK, Gone

-----------------------------------------------------------------------------
\* The world around the service.
LEMMA AttachType == ASSUME TypeInv, NEW t \in Threads, Attach(t) PROVE TypeInv'
<1>1. set.req[t].dev \in Devs
    BY SettingsAssumption DEF TypeInv, WorldOK
<1>2. WorldOK'
    BY <1>1, RedirAssumption DEF TypeInv, WorldOK, DisksOK, Attach, userVars
<1>3. ListOK'
    BY ListSame DEF Attach, listVars
<1> QED
    BY <1>2, <1>3, ThreadsSame DEF TypeInv, Attach, listVars, userVars

LEMMA InstallType == ASSUME TypeInv, NEW d \in Devs, Install(d) PROVE TypeInv'
<1>1. disk \in [Devs -> DiskNumbers \cup {NoDisk}] /\ disk[d] = NoDisk
    BY DEF TypeInv, WorldOK, DisksOK, Install
<1>2. FreeNumber \in DiskNumbers
    BY <1>1, FreeNumberIs
<1>3. DisksOK'
    BY <1>1, <1>2 DEF TypeInv, WorldOK, DisksOK, Install
<1>4. WorldOK'
    BY <1>3, RedirAssumption DEF TypeInv, WorldOK, Install, userVars
<1> QED
    BY <1>4, ListSame, ThreadsSame DEF TypeInv, Install, listVars, userVars

LEMMA ArriveType == ASSUME TypeInv, NEW v \in Vols, Arrive(v) PROVE TypeInv'
<1> DEFINE free == Letters \ Used(Public)
           l == IF free = {} THEN 0 ELSE Min(free)
<1>1. l \in Letters \cup {0}
    BY Constants, MinIsIn
<1>2. vletter' = [vletter EXCEPT ![v] = l] /\ vols' = vols \cup {v}
      /\ dev[DevOf[v]] = "ready"
    BY DEF Arrive
<1> HIDE DEF l
<1>3. UNCHANGED <<set, userVars, dev, holder, disk, acl, sddl, defs, alive, sock, th,
                  listVars>>
    BY DEF Arrive
<1>4. WorldOK'
    BY <1>1, <1>2, <1>3 DEF TypeInv, WorldOK, DisksOK, userVars
<1> QED
    BY <1>3, <1>4, ListSame, ThreadsSame DEF TypeInv, listVars, userVars

LEMMA ChildEndsType == ASSUME TypeInv, NEW t \in Threads, ChildEnds(t) PROVE TypeInv'
<1>1. WorldOK'
    BY GoneStep DEF ChildEnds, TypeInv, WorldOK
<1>2. \A u \in Threads : child[u] = "none" => child'[u] = "none"
    BY DEF ChildEnds, Gone, Running
<1> QED
    BY <1>1, <1>2, ListSame, ThreadsSame DEF TypeInv, ChildEnds, listVars

LEMMA LogOnType == ASSUME TypeInv, NEW h \in Hosts, LogOn(h) PROVE TypeInv'
<1>1. WorldOK'
    BY DEF TypeInv, WorldOK, DisksOK, LogOn, deviceVars
<1> QED
    BY <1>1, ListSame, ThreadsSame DEF TypeInv, LogOn, listVars

LEMMA LogOffType == ASSUME TypeInv, NEW h \in Hosts, LogOff(h) PROVE TypeInv'
<1>1. session' \in [Hosts -> {"none", "active", "ended"}]
    BY DEF TypeInv, WorldOK, LogOff
<1>2. WorldOK'
    BY <1>1, GoneStep DEF LogOff
<1>3. ListOK'
    BY DEF TypeInv, ListOK, LogOff, listVars
<1>4. \A u \in Threads : child[u] = "none" => child'[u] = "none"
    BY DEF LogOff, Gone, Running
<1> QED
    BY <1>2, <1>3, <1>4, ThreadsSame DEF TypeInv, LogOff, listVars

-----------------------------------------------------------------------------
\* The service.
LEMMA StopType == ASSUME TypeInv, ServiceHandler PROVE TypeInv'
<1>1. "stopped" \in Ways \ {"running"}
    BY Zenon DEF Ways
<1> QED
    BY <1>1, DieStep DEF ServiceHandler

LEMMA ServiceMainType == ASSUME TypeInv, ServiceMain PROVE TypeInv'
<1>1. WorldOK' /\ ListOK'
    BY WorldSame, ListSame DEF ServiceMain, listVars
<1>2. alive' \in Ways /\ Alive'
    BY Zenon DEF ServiceMain, Ways, Alive
<1>3. ThreadsOK'
    BY <1>2 DEF TypeInv, ThreadsOK, RecordOK, Childless, At, ServiceMain, userVars
<1> QED
    BY <1>1, <1>3 DEF TypeInv

LEMMA WaitForConnectType ==
    ASSUME TypeInv, NEW t \in Threads, WaitForConnect(t) PROVE TypeInv'
<1>1. WorldOK' /\ ListOK'
    BY WorldSame, ListSame DEF WaitForConnect, listVars
<1> DEFINE r == [th[t] EXCEPT !.pc = "recv"]
<1>2. RecordOK(th[t]) /\ th[t] \in ThreadRecord /\ th[t].pc = "none"
      /\ child[t] = "none"
    BY DEF TypeInv, ThreadsOK, WaitForConnect, At, Childless, Unstarted
<1>3. r \in ThreadRecord /\ r.pc = "recv"
    BY <1>2 DEF ThreadRecord, Pcs
<1>4. RecordOK(r)
    BY <1>3 DEF RecordOK, Noting
<1>5. \A u \in Threads : th'[u] = IF u = t THEN r ELSE th[u]
    BY DEF TypeInv, ThreadsOK, Become, WaitForConnect
<1>6. th' \in [Threads -> ThreadRecord]
    BY <1>3 DEF TypeInv, ThreadsOK, Become, WaitForConnect
<1>7. /\ sock' \in [Threads -> {"none", "open", "closed"}]
      /\ \A u \in Threads : sock'[u] = IF u = t THEN "open" ELSE sock[u]
    BY DEF TypeInv, ThreadsOK, WaitForConnect
<1>8. child' = child /\ alive' \in Ways /\ Alive'
    BY DEF WaitForConnect, userVars, Alive, TypeInv, ThreadsOK
<1> HIDE DEF r
<1>9. \A u \in Threads : RecordOK(th[u])'
    <2>1. \A u \in Threads : RecordOK(th'[u])
        BY <1>4, <1>5 DEF TypeInv, ThreadsOK
    <2> QED
        BY <2>1 DEF RecordOK
<1>10. \A u \in Threads : (sock'[u] = "none") <=> (th'[u].pc = "none")
    BY <1>3, <1>5, <1>7 DEF TypeInv, ThreadsOK
<1>11. \A u \in Threads : Childless(u)'
    BY <1>2, <1>3, <1>5, <1>7, <1>8 DEF TypeInv, ThreadsOK, Childless, At
<1> QED
    BY <1>1, <1>6, <1>7, <1>8, <1>9, <1>10, <1>11 DEF TypeInv, ThreadsOK

\* A thread whose usbip.exe has not been started goes on, or returns.
LEMMA UnstartedStep ==
    ASSUME TypeInv, NEW t \in Threads, NEW p \in {"session", "ended"}, Become(t, p),
           th[t].pc \in {"recv", "session"}, OnlyPc
    PROVE  TypeInv'
<1> DEFINE r == [th[t] EXCEPT !.pc = p]
<1>1. UNCHANGED <<set, userVars, deviceVars, child, alive, sock, defs, head, cell>>
    BY DEF OnlyPc, OnlyThread, listVars, userVars
<1>2. r \in ThreadRecord /\ r.pc = p
    <2>1. p \in Pcs
        BY DEF Pcs
    <2> QED
        BY <2>1 DEF TypeInv, ThreadsOK, ThreadRecord
<1>3. RecordOK(r)
    BY <1>2 DEF RecordOK, Noting
<1>4. \A u \in Threads : th'[u] = IF u = t THEN r ELSE th[u]
    BY DEF TypeInv, ThreadsOK, Become
<1>5. th' \in [Threads -> ThreadRecord]
    BY <1>2 DEF TypeInv, ThreadsOK, Become
<1>6. child[t] = "none" /\ Alive
    BY DEF TypeInv, ThreadsOK, Childless, Unstarted, Threading
<1> HIDE DEF r
<1>7. \A u \in Threads : RecordOK(th[u])'
    <2>1. \A u \in Threads : RecordOK(th'[u])
        BY <1>3, <1>4 DEF TypeInv, ThreadsOK
    <2> QED
        BY <2>1 DEF RecordOK
<1>8. \A u \in Threads : (sock'[u] = "none") <=> (th'[u].pc = "none")
    BY <1>1, <1>2, <1>4 DEF TypeInv, ThreadsOK
<1>9. \A u \in Threads : Childless(u)'
    BY <1>1, <1>4, <1>6 DEF TypeInv, ThreadsOK, Childless, At
<1>10. Alive' /\ alive' \in Ways
    BY <1>1, <1>6 DEF Alive, TypeInv, ThreadsOK
<1>11. ThreadsOK'
    BY <1>1, <1>5, <1>7, <1>8, <1>9, <1>10 DEF TypeInv, ThreadsOK
<1> QED
    BY <1>1, <1>11, WorldSame, ListSame DEF TypeInv

LEMMA ReceiveType == ASSUME TypeInv, NEW t \in Threads, Receive(t) PROVE TypeInv'
BY UnstartedStep, PlainOnly, PlainPcs DEF Receive, At

LEMMA NoSessionType ==
    ASSUME TypeInv, NEW t \in Threads, NoSession(t) PROVE TypeInv'
BY UnstartedStep DEF NoSession, At

LEMMA StartChildType ==
    ASSUME TypeInv, NEW t \in Threads, StartChild(t) PROVE TypeInv'
<1>1. PICK p \in {"usb", "close"} : Become(t, p)
    BY DEF StartChild
<1> DEFINE r == [th[t] EXCEPT !.pc = p]
<1>2. th[t] \in ThreadRecord /\ th[t].pc = "session" /\ Alive
    BY DEF TypeInv, ThreadsOK, StartChild, At, Threading
<1>3. r \in ThreadRecord /\ r.pc = p
    BY <1>2 DEF ThreadRecord, Pcs
<1>4. RecordOK(r)
    BY <1>3 DEF RecordOK, Noting
<1>5. UNCHANGED <<set, alive, sock, head, cell, defs>>
    BY DEF StartChild, listVars
<1>6. \A u \in Threads : th'[u] = IF u = t THEN r ELSE th[u]
    BY <1>1 DEF TypeInv, ThreadsOK, Become
<1>7. th' \in [Threads -> ThreadRecord]
    BY <1>1, <1>3 DEF TypeInv, ThreadsOK, Become
<1>8. \A u \in Threads \ {t} : child'[u] = child[u]
    BY DEF StartChild, TypeInv, WorldOK
<1> HIDE DEF r
<1>9. \A u \in Threads : RecordOK(th[u])'
    <2>1. \A u \in Threads : RecordOK(th'[u])
        BY <1>4, <1>6 DEF TypeInv, ThreadsOK
    <2> QED
        BY <2>1 DEF RecordOK
<1>10. \A u \in Threads : (sock'[u] = "none") <=> (th'[u].pc = "none")
    BY <1>2, <1>3, <1>5, <1>6 DEF TypeInv, ThreadsOK
<1>11. \A u \in Threads : Childless(u)'
    BY <1>3, <1>5, <1>6, <1>8 DEF TypeInv, ThreadsOK, Childless, At, Unstarted
<1>12. Alive' /\ alive' \in Ways
    BY <1>2, <1>5 DEF Alive, TypeInv, ThreadsOK
<1>13. ThreadsOK'
    BY <1>5, <1>7, <1>9, <1>10, <1>11, <1>12 DEF TypeInv, ThreadsOK
<1>14. WorldOK'
    BY DEF TypeInv, WorldOK, DisksOK, StartChild, deviceVars
<1> QED
    BY <1>5, <1>13, <1>14, ListSame DEF TypeInv

LEMMA CloseType == ASSUME TypeInv, NEW t \in Threads, Close(t) PROVE TypeInv'
<1> DEFINE r == [th[t] EXCEPT !.pc = "ended"]
<1>1. th[t] \in ThreadRecord /\ th[t].pc = "close" /\ Alive
    BY DEF TypeInv, ThreadsOK, Close, At, Threading
<1>2. r \in ThreadRecord /\ r.pc = "ended"
    BY <1>1 DEF ThreadRecord, Pcs
<1>3. RecordOK(r)
    BY <1>2 DEF RecordOK, Noting
<1>4. \A u \in Threads : th'[u] = IF u = t THEN r ELSE th[u]
    BY DEF TypeInv, ThreadsOK, Close, Become
<1>5. th' \in [Threads -> ThreadRecord]
    BY <1>2 DEF TypeInv, ThreadsOK, Close, Become
<1>6. UNCHANGED <<set, child, userVars, deviceVars, alive, defs, head, cell>>
    BY DEF Close, listVars, userVars
<1> HIDE DEF r
<1>7. \A u \in Threads : RecordOK(th[u])'
    <2>1. \A u \in Threads : RecordOK(th'[u])
        BY <1>3, <1>4 DEF TypeInv, ThreadsOK
    <2> QED
        BY <2>1 DEF RecordOK
<1>8. /\ sock' \in [Threads -> {"none", "open", "closed"}]
      /\ \A u \in Threads : sock'[u] = IF u = t THEN "closed" ELSE sock[u]
    BY DEF TypeInv, ThreadsOK, Close
<1>9. \A u \in Threads : (sock'[u] = "none") <=> (th'[u].pc = "none")
    BY <1>2, <1>4, <1>8 DEF TypeInv, ThreadsOK
<1>10. \A u \in Threads : Childless(u)'
    BY <1>2, <1>4, <1>6, <1>8 DEF TypeInv, ThreadsOK, Childless, At, Unstarted
<1>11. Alive' /\ alive' \in Ways
    BY <1>1, <1>6 DEF Alive, TypeInv, ThreadsOK
<1>12. ThreadsOK'
    BY <1>5, <1>7, <1>8, <1>9, <1>10, <1>11 DEF TypeInv, ThreadsOK
<1> QED
    BY <1>6, <1>12, WorldSame, ListSame DEF TypeInv

LEMMA FindDeviceType ==
    ASSUME TypeInv, NEW t \in Threads, FindDevice(t) PROVE TypeInv'
<1>1. PICK d \in Alike[set.req[t].dev], p \in {"search", "printer", "other"} :
        th' = [th EXCEPT ![t].dev = d, ![t].pc = p]
    <2>1. PICK d \in Alike[set.req[t].dev] :
            th' = [th EXCEPT ![t].dev = d,
                    ![t].pc = CASE Kind[d] = "storage" -> "search"
                                [] Kind[d] = "printer" -> "printer"
                                [] OTHER -> "other"]
        BY DEF FindDevice
    <2> DEFINE p == CASE Kind[d] = "storage" -> "search"
                      [] Kind[d] = "printer" -> "printer"
                      [] OTHER -> "other"
    <2>2. p \in {"search", "printer", "other"}
        OBVIOUS
    <2> QED
        BY <2>1, <2>2
<1> DEFINE r == [th[t] EXCEPT !.dev = d, !.pc = p]
<1>2. d \in Devs
    BY RedirAssumption, SettingsAssumption DEF TypeInv, WorldOK
<1>3. th[t] \in ThreadRecord /\ th[t].pc = "usb"
    BY DEF TypeInv, ThreadsOK, FindDevice, At
<1>4. r \in ThreadRecord /\ r.pc = p
    BY <1>2, <1>3 DEF ThreadRecord, Pcs
<1>5. RecordOK(r)
    BY <1>4 DEF RecordOK, Noting
<1>6. OnlyThread /\ UNCHANGED <<defs, head, cell>>
    BY DEF FindDevice, OnlyPc, listVars
<1>7. r.pc \notin Unstarted \cup {"ended"} /\ th[t].pc \notin {"none", "ended"}
    BY <1>3, <1>4 DEF Unstarted
<1>8. th' = [th EXCEPT ![t] = r]
    BY <1>1
<1> HIDE DEF r
<1> QED
    BY <1>5, <1>6, <1>7, <1>8, RecordOnly

LEMMA WaitType ==
    ASSUME TypeInv, NEW t \in Threads, NoDeviceType(t) \/ ChildHasEnded(t)
    PROVE  TypeInv'
<1>1. CASE NoDeviceType(t)
    BY <1>1, PlainPcs, PlainOnly DEF NoDeviceType, At
<1>2. CASE ChildHasEnded(t)
    BY <1>2, PlainPcs, PlainOnly DEF ChildHasEnded
<1> QED
    BY <1>1, <1>2

LEMMA SetSecurityType ==
    ASSUME TypeInv, NEW t \in Threads, SetSecurity(t) PROVE TypeInv'
<1>1. PICK p \in {"restricted", "close"} : Become(t, p)
    BY DEF SetSecurity
<1>2. th[t].pc \in {"other", "restricted"}
    BY DEF SetSecurity, At
<1>3. ThreadsOK'
    BY <1>1, <1>2, PlainPcs, PlainStep DEF SetSecurity, userVars
<1>4. WorldOK'
    BY DEF TypeInv, WorldOK, DisksOK, SetSecurity, userVars
<1> QED
    BY <1>3, <1>4, ListSame DEF TypeInv, SetSecurity, listVars

\* A step at a printer: the record goes on with the same fields but two.
LEMMA PrinterStep ==
    ASSUME TypeInv, NEW t \in Threads, th[t].pc \in {"printer", "printing"},
           OnlyAcl, acl' \in [Devs -> SUBSET (Hosts \cup {Everyone, Admins})],
           NEW p \in {"printing", "close"}, NEW hit \in BOOLEAN,
           th' = [th EXCEPT ![t].pc = p, ![t].hit = hit]
    PROVE  TypeInv'
<1> DEFINE r == [th[t] EXCEPT !.pc = p, !.hit = hit]
<1>1. UNCHANGED <<set, userVars, dev, holder, disk, vols, vletter, sddl, defs, alive,
                  sock, head, cell, child>>
    BY DEF OnlyAcl, listVars, userVars
<1>2. WorldOK'
    BY <1>1 DEF TypeInv, WorldOK, DisksOK, userVars
<1>3. r \in ThreadRecord /\ r.pc = p
    <2>1. p \in Pcs
        BY DEF Pcs
    <2> QED
        BY <2>1 DEF TypeInv, ThreadsOK, ThreadRecord
<1>4. r.pc \in Plain /\ th[t].pc \notin {"none", "ended"}
    BY <1>3, PlainPcs
<1>5. th' = [th EXCEPT ![t] = r]
    OBVIOUS
<1> HIDE DEF r
<1>6. ThreadsOK'
    BY <1>1, <1>3, <1>4, <1>5, PlainRecord, ThreadStep
<1> QED
    BY <1>1, <1>2, <1>6, ListSame DEF TypeInv

LEMMA BecomeIs ==
    ASSUME TypeInv, NEW t \in Threads, NEW p, Become(t, p)
    PROVE  th' = [th EXCEPT ![t].pc = p, ![t].hit = th[t].hit] /\ th[t].hit \in BOOLEAN
BY DEF Become, TypeInv, ThreadsOK, ThreadRecord

LEMMA SetPrinterACLType ==
    ASSUME TypeInv, NEW t \in Threads, SetPrinterACL(t) PROVE TypeInv'
<1> DEFINE d == th[t].dev
<1>1. d \in Devs /\ Host(t) \in Hosts /\ th[t].pc = "printer"
    BY RedirAssumption, SettingsAssumption
       DEF TypeInv, WorldOK, ThreadsOK, ThreadRecord, Host, SetPrinterACL, At
<1>2. acl' \in [Devs -> SUBSET (Hosts \cup {Everyone, Admins})]
    BY <1>1 DEF SetPrinterACL, TypeInv, WorldOK
<1>3. \E hit \in BOOLEAN : th' = [th EXCEPT ![t].pc = "printing", ![t].hit = hit]
    BY BecomeIs DEF SetPrinterACL
<1>4. OnlyAcl
    BY DEF SetPrinterACL
<1>5. PICK hit \in BOOLEAN : th' = [th EXCEPT ![t].pc = "printing", ![t].hit = hit]
    BY <1>3
<1> QED
    BY <1>1, <1>2, <1>4, <1>5, PrinterStep

LEMMA RemovePrinterACLType ==
    ASSUME TypeInv, NEW t \in Threads, RemovePrinterACL(t) PROVE TypeInv'
<1>1. th[t].dev \in Devs /\ th[t].pc \in {"printer", "printing"}
    BY DEF TypeInv, ThreadsOK, ThreadRecord, RemovePrinterACL
<1>2. acl' \in [Devs -> SUBSET (Hosts \cup {Everyone, Admins})]
    BY <1>1 DEF RemovePrinterACL, TypeInv, WorldOK
<1>3. \E hit \in BOOLEAN : th' = [th EXCEPT ![t].pc = "close", ![t].hit = hit]
    BY BecomeIs DEF RemovePrinterACL
<1>4. OnlyAcl
    BY DEF RemovePrinterACL
<1>5. PICK hit \in BOOLEAN : th' = [th EXCEPT ![t].pc = "close", ![t].hit = hit]
    BY <1>3
<1> QED
    BY <1>1, <1>2, <1>4, <1>5, PrinterStep

-----------------------------------------------------------------------------
\* The storage.
LEMMA ScanType ==
    ASSUME TypeInv, NEW t \in Threads,
           LeaveSearch(t) \/ ChildOver(t) \/ Notify(t)
    PROVE  TypeInv'
<1>1. CASE LeaveSearch(t)
    BY <1>1, PlainPcs, PlainOnly DEF LeaveSearch
<1>2. CASE ChildOver(t)
    <2>1. UNCHANGED <<set, userVars, deviceVars, child, alive, sock, defs, head, cell>>
        BY <1>2 DEF ChildOver, OnlyThread, userVars
    <2>2. ThreadsOK'
        BY <1>2, <2>1, PlainPcs, PlainStep DEF ChildOver, At
    <2> QED
        BY <2>1, <2>2, WorldSame, ListSame DEF TypeInv
<1>3. CASE Notify(t)
    <2>1. CASE Die("faulted")
        <3>1. "faulted" \in Ways \ {"running"}
            BY Zenon DEF Ways
        <3> QED
            BY <2>1, <3>1, DieStep
    <2>2. CASE ~Die("faulted")
        <3>1. PICK p \in {"await", "search"} : Become(t, p)
            BY <1>3, <2>2 DEF Notify
        <3> QED
            BY <1>3, <2>2, <3>1, PlainPcs, PlainOnly DEF Notify, At
    <2> QED
        BY <2>1, <2>2
<1> QED
    BY <1>1, <1>2, <1>3

LEMMA ReadDiskNumberType ==
    ASSUME TypeInv, NEW t \in Threads, ReadDiskNumber(t) PROVE TypeInv'
<1>1. PICK n : /\ n \in {disk[th[t].dev], NoDisk}
               /\ th' = [th EXCEPT ![t].pc = "enum", ![t].disk = n]
    BY DEF ReadDiskNumber
<1> DEFINE r == [th[t] EXCEPT !.pc = "enum", !.disk = n]
<1>2. th[t] \in ThreadRecord /\ th[t].pc = "search"
    BY DEF TypeInv, ThreadsOK, ReadDiskNumber, At
<1>3. n \in Int
    BY <1>1, <1>2, DiskNumbersAre DEF TypeInv, WorldOK, DisksOK, ThreadRecord, NoDisk
<1>4. r \in ThreadRecord /\ r.pc = "enum"
    <2>1. "enum" \in Pcs
        BY DEF Pcs
    <2> QED
        BY <1>2, <1>3, <2>1 DEF ThreadRecord
<1>5. r.pc \in Plain /\ th[t].pc \notin {"none", "ended"}
    BY <1>2, <1>4, PlainPcs
<1>6. OnlyThread /\ UNCHANGED <<defs, head, cell>>
    BY DEF ReadDiskNumber, OnlyPc, listVars
<1>7. th' = [th EXCEPT ![t] = r]
    BY <1>1
<1> HIDE DEF r
<1> QED
    BY <1>4, <1>5, <1>6, <1>7, PlainRecord, RecordOnly

LEMMA BeginScanType ==
    ASSUME TypeInv, NEW t \in Threads, BeginScan(t) PROVE TypeInv'
<1> DEFINE r == [th[t] EXCEPT !.pc = "scan", !.nxt = head, !.at = 0,
                              !.hit = FALSE, !.last = Unread]
<1>1. th[t] \in ThreadRecord /\ th[t].pc = "enum" /\ head \in CellsOrNone
    BY DEF TypeInv, ThreadsOK, ListOK, BeginScan, At
<1>2. r \in ThreadRecord /\ r.pc = "scan"
    <2>1. "scan" \in Pcs
        BY DEF Pcs
    <2> QED
        BY <1>1, <2>1, DiskNumbersAre DEF ThreadRecord
<1>3. r.pc \in Plain /\ th[t].pc \notin {"none", "ended"}
    BY <1>1, <1>2, PlainPcs
<1>4. OnlyThread /\ UNCHANGED <<defs, head, cell>>
    BY DEF BeginScan
<1>5. th' = [th EXCEPT ![t] = r]
    BY DEF BeginScan
<1> HIDE DEF r
<1> QED
    BY <1>2, <1>3, <1>4, <1>5, PlainRecord, RecordOnly

LEMMA NextVolumeIs ==
    ASSUME TypeInv, NEW t \in Threads, NextVolume(t)
    PROVE  Min(Ahead(t)) \in vols
<1>1. Ahead(t) \in SUBSET Nat /\ Ahead(t) # {}
    BY Constants DEF Ahead, NextVolume, TypeInv, WorldOK
<1> QED
    BY <1>1, MinIsIn DEF Ahead

LEMMA NumberFoundIs ==
    ASSUME TypeInv, NEW t \in Threads, NEW v \in Vols
    PROVE  NumberFound(t, v) \cup {th[t].last, th[t].disk} \subseteq Int
<1>1. DevOf[v] \in Devs
    BY RedirAssumption
<1>2. disk[DevOf[v]] \in Int
    BY <1>1, DiskNumbersAre DEF TypeInv, WorldOK, DisksOK
<1>3. th[t].last \in Int /\ th[t].disk \in Int
    BY DEF TypeInv, ThreadsOK, ThreadRecord
<1> QED
    BY <1>2, <1>3, DiskNumbersAre DEF NumberFound

LEMMA NextVolumeType ==
    ASSUME TypeInv, NEW t \in Threads, NextVolume(t) PROVE TypeInv'
<1> DEFINE v == Min(Ahead(t))
           a == [th[t] EXCEPT !.pc = "append", !.at = v, !.hit = TRUE,
                              !.last = th[t].disk]
           b(n) == [th[t] EXCEPT !.at = v, !.last = n]
           c == [th[t] EXCEPT !.pc = "remount", !.round = @ + 1, !.last = Unread]
<1>1. th[t] \in ThreadRecord /\ th[t].pc = "scan"
    BY DEF TypeInv, ThreadsOK, NextVolume, At
<1>2. v \in vols /\ v \in Vols /\ v \in Nat
    BY NextVolumeIs, Constants DEF TypeInv, WorldOK
<1>3. th[t].disk \in Int
    BY <1>1 DEF ThreadRecord
<1>4. "append" \in Pcs /\ "remount" \in Pcs /\ "append" \in Noting
    BY DEF Pcs, Noting
<1> HIDE DEF v
<1>5. RecordOK(a) /\ a.pc \notin Unstarted \cup {"ended"}
    <2>1. a \in ThreadRecord /\ a.pc = "append" /\ a.at = v
        BY <1>1, <1>2, <1>3, <1>4 DEF ThreadRecord
    <2> QED
        BY <1>2, <2>1 DEF RecordOK, Unstarted
<1>6. ASSUME NEW n \in Int PROVE RecordOK(b(n)) /\ b(n).pc \notin Unstarted \cup {"ended"}
    <2>1. b(n) \in ThreadRecord /\ b(n).pc = "scan"
        BY <1>1, <1>2 DEF ThreadRecord
    <2> QED
        BY <2>1, PlainPcs, PlainRecord
<1>7. RecordOK(c) /\ c.pc \notin Unstarted \cup {"ended"}
    <2>1. th[t].round + 1 \in Nat
        BY <1>1 DEF ThreadRecord
    <2>2. c \in ThreadRecord /\ c.pc = "remount"
        BY <1>1, <1>4, <2>1, DiskNumbersAre DEF ThreadRecord
    <2> QED
        BY <2>2, PlainPcs, PlainRecord
<1>8. PICK r : /\ th' = [th EXCEPT ![t] = r]
               /\ RecordOK(r) /\ r.pc \notin Unstarted \cup {"ended"}
    <2>1. CASE Unmount(t, v)
        BY <1>5, <2>1 DEF Unmount
    <2>2. CASE PassOver(t, v)
        <3>1. PICK n \in NumberFound(t, v) \cup {th[t].last} :
                th' = [th EXCEPT ![t].at = v, ![t].last = n]
            BY <2>2 DEF PassOver
        <3>2. n \in Int
            BY <1>2, NumberFoundIs
        <3>3. th' = [th EXCEPT ![t] = b(n)]
            BY <3>1
        <3> QED
            BY <1>6, <3>2, <3>3
    <2>3. CASE NoDosDevice(t, v)
        BY <1>7, <2>3 DEF NoDosDevice
    <2> QED
        BY <2>1, <2>2, <2>3 DEF NextVolume, v
<1>9. UNCHANGED <<set, userVars, dev, holder, disk, vols, acl, sddl, defs, alive, sock,
                  head, cell, child>>
    BY DEF NextVolume, listVars, userVars
<1>10. ThreadsOK'
    BY <1>1, <1>8, <1>9, ThreadStep
<1>11. vletter' \in [Vols -> Letters \cup {0}]
    BY DEF NextVolume, TypeInv, WorldOK, Unmount, PassOver, NoDosDevice, DelMountPoint
<1>12. WorldOK'
    BY <1>9, <1>11 DEF TypeInv, WorldOK, DisksOK, userVars
<1> QED
    BY <1>9, <1>10, <1>12, ListSame DEF TypeInv

LEMMA EndScanType ==
    ASSUME TypeInv, NEW t \in Threads, EndScan(t) PROVE TypeInv'
<1> DEFINE a == [th[t] EXCEPT !.pc = "remount", !.round = @ + 1, !.last = Unread]
           b == [th[t] EXCEPT !.pc = "enum", !.last = Unread]
<1>1. th[t] \in ThreadRecord /\ th[t].pc = "scan"
    BY DEF TypeInv, ThreadsOK, EndScan, At
<1>2. "remount" \in Pcs /\ "enum" \in Pcs /\ th[t].round + 1 \in Nat
    <2>1. th[t].round + 1 \in Nat
        BY <1>1 DEF ThreadRecord
    <2> QED
        BY <2>1 DEF Pcs
<1>3. /\ a \in ThreadRecord /\ a.pc = "remount"
      /\ b \in ThreadRecord /\ b.pc = "enum"
    BY <1>1, <1>2, DiskNumbersAre DEF ThreadRecord
<1>4. PICK r \in {a, b} : th' = [th EXCEPT ![t] = r]
    BY DEF EndScan
<1>5. r \in ThreadRecord /\ r.pc \in Plain
    BY <1>3, <1>4, PlainPcs
<1>6. OnlyThread /\ UNCHANGED <<defs, head, cell>>
    BY DEF EndScan, OnlyPc, listVars
<1> HIDE DEF a, b
<1> QED
    BY <1>1, <1>4, <1>5, <1>6, PlainRecord, RecordOnly

-----------------------------------------------------------------------------
\* The list.
LEMMA FreshIsFree ==
    ASSUME TypeInv, HeapLeft
    PROVE  Fresh \in Cells /\ cell[Fresh].free
<1>1. {c \in Cells : cell[c].free} \in SUBSET Nat /\ {c \in Cells : cell[c].free} # {}
    BY Constants DEF HeapLeft
<1> QED
    BY <1>1, MinIsIn DEF Fresh

Linked(t, p) == p = "gonext" => th[t].nxt \in Cells
LEMMA AppendPcs ==
    ASSUME TypeInv, NEW t \in Threads, th[t].pc \in Noting,
           NEW p \in Noting, NEW g \in SUBSET LetterOf,
           th' = [th EXCEPT ![t].pc = p, ![t].gave = g],
           UNCHANGED <<child, alive, sock>>,
           Linked(t, p)
    PROVE  ThreadsOK'
<1> DEFINE r == [th[t] EXCEPT !.pc = p, !.gave = g]
<1>1. RecordOK(th[t]) /\ th[t] \in ThreadRecord
      /\ th[t].pc \notin {"none", "ended"}
    BY DEF TypeInv, ThreadsOK, Noting
<1>2. p \in Pcs
    BY DEF Pcs, Noting
<1>3. r \in ThreadRecord /\ r.pc = p /\ r.at = th[t].at /\ r.nxt = th[t].nxt
    BY <1>1, <1>2 DEF ThreadRecord
<1>4. p # "map" /\ p \notin Unstarted \cup {"ended"}
    BY DEF Noting, Unstarted
<1>5. RecordOK(r)
    BY <1>1, <1>3, <1>4 DEF RecordOK, Linked
<1>6. th' = [th EXCEPT ![t] = r]
    OBVIOUS
<1> HIDE DEF r
<1> QED
    BY <1>1, <1>3, <1>4, <1>5, <1>6, ThreadStep

LEMMA BecomeGave ==
    ASSUME TypeInv, NEW t \in Threads, NEW p, Become(t, p)
    PROVE  /\ th' = [th EXCEPT ![t].pc = p, ![t].gave = th[t].gave]
           /\ th[t].gave \in SUBSET LetterOf
BY DEF Become, TypeInv, ThreadsOK, ThreadRecord

LEMMA TestHeadType ==
    ASSUME TypeInv, NEW t \in Threads, TestHead(t) PROVE TypeInv'
<1>1. PICK p \in {"first", "link"} : th' = [th EXCEPT ![t].pc = p, ![t].gave = {}]
    BY DEF TestHead
<1>2. th[t].pc \in Noting /\ p \in Noting /\ Linked(t, p)
    BY DEF TestHead, At, Noting, Linked
<1>3. UNCHANGED <<set, userVars, deviceVars, child, alive, sock, defs, head, cell>>
    BY DEF TestHead, OnlyPc, OnlyThread, listVars, userVars
<1>4. {} \in SUBSET LetterOf
    OBVIOUS
<1>5. ThreadsOK'
    BY <1>1, <1>2, <1>3, <1>4, AppendPcs
<1> QED
    BY <1>3, <1>5, WorldSame, ListSame DEF TypeInv

LEMMA RawCellIs == RawCell \in CellRecord /\ RawCell.next = Garbage /\ ~RawCell.free
BY DEF RawCell, CellRecord, CellsOrNone

LEMMA FirstType ==
    ASSUME TypeInv, NEW t \in Threads, First(t) PROVE TypeInv'
<1>1. UNCHANGED <<set, userVars, deviceVars, child, alive, sock, defs>>
    BY DEF First, OnlyList, OnlyThread, userVars
<1>2. Fresh \in Cells
    BY FreshIsFree DEF First
<1>3. ListOK'
    BY <1>1, <1>2, RawCellIs DEF First, TypeInv, ListOK, CellsOrNone
<1>4. th[t].pc \in Noting /\ Become(t, "gohead") /\ "gohead" \in Noting
    BY DEF First, At, Noting
<1>5. Linked(t, "gohead")
    BY DEF Linked
<1>6. ThreadsOK'
    <2>1. /\ th' = [th EXCEPT ![t].pc = "gohead", ![t].gave = th[t].gave]
          /\ th[t].gave \in SUBSET LetterOf
        BY <1>4, BecomeGave
    <2> QED
        BY <1>1, <1>4, <1>5, <2>1, AppendPcs
<1> QED
    BY <1>1, <1>3, <1>6, WorldSame DEF TypeInv


LEMMA LinkType ==
    ASSUME TypeInv, NEW t \in Threads, Link(t) PROVE TypeInv'
<1>1. CASE Fault(t, "link", th[t].nxt)
    BY <1>1, FaultStep
<1>2. CASE ~Fault(t, "link", th[t].nxt)
    <2>1. /\ At(t, "link") /\ HeapLeft /\ ~Invalid(th[t].nxt)
          /\ cell' = [[cell EXCEPT ![Fresh] = RawCell] EXCEPT ![th[t].nxt].next = Fresh]
          /\ Become(t, "gonext") /\ OnlyList /\ UNCHANGED head
        BY <1>2 DEF Link
    <2>2. UNCHANGED <<set, userVars, deviceVars, child, alive, sock, defs, head>>
        BY <2>1 DEF OnlyList, OnlyThread, userVars
    <2>3. Fresh \in Cells /\ th[t].nxt \in Cells
        BY <2>1, FreshIsFree DEF Invalid
    <2> DEFINE c1 == [cell EXCEPT ![Fresh] = RawCell]
    <2>4. c1 \in [Cells -> CellRecord]
        BY <2>3, RawCellIs DEF TypeInv, ListOK
    <2>5. [c1[th[t].nxt] EXCEPT !.next = Fresh] \in CellRecord
        BY <2>3, <2>4 DEF CellRecord, CellsOrNone
    <2>6. cell' = [c1 EXCEPT ![th[t].nxt] = [c1[th[t].nxt] EXCEPT !.next = Fresh]]
        BY <2>1
    <2> HIDE DEF c1
    <2>7. cell' \in [Cells -> CellRecord]
        BY <2>4, <2>5, <2>6
    <2>8. ListOK'
        BY <2>2, <2>7 DEF TypeInv, ListOK
    <2>9. ThreadsOK'
        <3>1. th[t].pc \in Noting /\ Linked(t, "gonext") /\ "gonext" \in Noting
            BY <2>1, <2>3 DEF At, Noting, Linked
        <3>2. /\ th' = [th EXCEPT ![t].pc = "gonext", ![t].gave = th[t].gave]
              /\ th[t].gave \in SUBSET LetterOf
            BY <2>1, BecomeGave
        <3> QED
            BY <2>2, <3>1, <3>2, AppendPcs
    <2> QED
        BY <2>2, <2>8, <2>9, WorldSame DEF TypeInv
<1> QED
    BY <1>1, <1>2

LEMMA AdvanceType ==
    ASSUME TypeInv, NEW t \in Threads, Advance(t) PROVE TypeInv'
<1>1. CASE Fault(t, "gonext", th[t].nxt)
    BY <1>1, FaultStep
<1>2. CASE ~Fault(t, "gonext", th[t].nxt)
    <2>1. PICK n \in {head, cell[th[t].nxt].next} :
            /\ \/ At(t, "gohead") /\ n = head
               \/ At(t, "gonext") /\ n = cell[th[t].nxt].next
            /\ Point(t, "fill", n) /\ OnlyPc
        <3>1. \/ At(t, "gohead") /\ Point(t, "fill", head) /\ OnlyPc
              \/ At(t, "gonext") /\ Point(t, "fill", cell[th[t].nxt].next) /\ OnlyPc
            BY <1>2 DEF Advance
        <3> QED
            BY <3>1
    <2>2. RecordOK(th[t]) /\ th[t] \in ThreadRecord
          /\ th[t].pc \in {"gohead", "gonext"}
        BY <2>1 DEF TypeInv, ThreadsOK, At
    <2>3. n \in CellsOrNone
        <3>1. CASE n = head
            BY <3>1 DEF TypeInv, ListOK
        <3>2. CASE At(t, "gonext") /\ n = cell[th[t].nxt].next
            <4>1. th[t].nxt \in Cells
                BY <2>2, <3>2 DEF RecordOK, At
            <4>2. cell[th[t].nxt] \in CellRecord
                BY <4>1 DEF TypeInv, ListOK
            <4> QED
                BY <3>2, <4>2 DEF CellRecord
        <3> QED
            BY <2>1, <3>1, <3>2
    <2> DEFINE r == [th[t] EXCEPT !.pc = "fill", !.nxt = n]
    <2>4. r \in ThreadRecord /\ r.pc = "fill" /\ r.at = th[t].at
        <3>1. "fill" \in Pcs
            BY DEF Pcs
        <3> QED
            BY <2>2, <2>3, <3>1 DEF ThreadRecord
    <2>5. RecordOK(r) /\ r.pc \notin Unstarted \cup {"ended"}
          /\ th[t].pc \notin {"none", "ended"}
        BY <2>2, <2>4 DEF RecordOK, Noting, Unstarted
    <2>6. OnlyThread /\ UNCHANGED <<defs, head, cell>>
        BY <2>1 DEF OnlyPc, listVars
    <2>7. th' = [th EXCEPT ![t] = r]
        BY <2>1 DEF Point
    <2> HIDE DEF r
    <2> QED
        BY <2>5, <2>6, <2>7, RecordOnly
<1> QED
    BY <1>1, <1>2

LEMMA FillType ==
    ASSUME TypeInv, NEW t \in Threads, Fill(t) PROVE TypeInv'
<1>1. CASE Fault(t, "fill", th[t].nxt)
    BY <1>1, FaultStep
<1>2. CASE ~Fault(t, "fill", th[t].nxt)
    <2>1. /\ At(t, "fill") /\ ~Invalid(th[t].nxt)
          /\ cell' = [cell EXCEPT ![th[t].nxt].vol = th[t].at,
                                  ![th[t].nxt].next = NULL]
          /\ Become(t, "scan") /\ OnlyList /\ UNCHANGED head
        BY <1>2 DEF Fill, Filled
    <2>2. UNCHANGED <<set, userVars, deviceVars, child, alive, sock, defs, head>>
        BY <2>1 DEF OnlyList, OnlyThread, userVars
    <2>3. th[t].nxt \in Cells /\ th[t].at \in Vols
        <3>1. RecordOK(th[t]) /\ th[t].pc \in Noting
            BY <2>1 DEF At, TypeInv, ThreadsOK, Noting
        <3> QED
            BY <3>1, <2>1 DEF Invalid, RecordOK
    <2> DEFINE k == [cell[th[t].nxt] EXCEPT !.vol = th[t].at, !.next = NULL]
    <2>4. k \in CellRecord
        BY <2>3 DEF TypeInv, ListOK, CellRecord, CellsOrNone
    <2>5. cell' = [cell EXCEPT ![th[t].nxt] = k]
        BY <2>1
    <2> HIDE DEF k
    <2>6. cell' \in [Cells -> CellRecord]
        BY <2>4, <2>5 DEF TypeInv, ListOK
    <2>7. ListOK'
        BY <2>2, <2>6 DEF TypeInv, ListOK
    <2>8. ThreadsOK'
        <3>1. "scan" \in Plain /\ th[t].pc \notin {"none", "ended"}
              /\ Become(t, "scan") /\ UNCHANGED <<child, alive, sock>>
            BY <2>1, <2>2, PlainPcs DEF At
        <3> QED
            BY <3>1, PlainStep
    <2> QED
        BY <2>2, <2>7, <2>8, WorldSame DEF TypeInv
<1> QED
    BY <1>1, <1>2

LEMMA ReMountType ==
    ASSUME TypeInv, NEW t \in Threads, ReMount(t) PROVE TypeInv'
<1> DEFINE a == [th[t] EXCEPT !.pc = "map", !.nxt = head, !.at = 1,
                              !.hit = TRUE, !.as = NsOf(Host(t)), !.gave = {}]
           b == [th[t] EXCEPT !.pc = "notify", !.hit = FALSE]
<1>1. th[t] \in ThreadRecord /\ th[t].pc = "remount"
    BY DEF TypeInv, ThreadsOK, ReMount, At
<1>2. NsOf(Host(t)) \in Hosts \cup {Public}
    BY RedirAssumption, SettingsAssumption DEF TypeInv, WorldOK, NsOf, Host
<1>3. head \in CellsOrNone
    BY DEF TypeInv, ListOK
<1>4. "map" \in Pcs /\ "notify" \in Pcs /\ 1 \in Nat
    <2>1. 1 \in Nat
        OBVIOUS
    <2> QED
        BY <2>1 DEF Pcs
<1>5. /\ a \in ThreadRecord /\ a.pc = "map" /\ a.at = 1
      /\ b \in ThreadRecord /\ b.pc = "notify"
    BY <1>1, <1>2, <1>3, <1>4 DEF ThreadRecord
<1>6. /\ RecordOK(a) /\ a.pc \notin Unstarted \cup {"ended"}
      /\ RecordOK(b) /\ b.pc \notin Unstarted \cup {"ended"}
    BY <1>5, Constants DEF RecordOK, Noting, Unstarted
<1>7. OnlyThread /\ UNCHANGED <<defs, head, cell>>
    BY DEF ReMount, OnlyPc, listVars
<1>8. \E r \in {a, b} : th' = [th EXCEPT ![t] = r]
    BY DEF ReMount
<1>9. PICK r : /\ th' = [th EXCEPT ![t] = r]
               /\ RecordOK(r) /\ r.pc \notin Unstarted \cup {"ended"}
    BY <1>6, <1>8
<1> HIDE DEF a, b
<1> QED
    BY <1>1, <1>7, <1>9, RecordOnly

LEMMA NextLetterIs == ASSUME TypeInv, NEW t \in Threads, th[t].pc = "map"
                      PROVE  NextLetter(t) \in Letters
<1> DEFINE free == (th[t].at .. LastLetter) \ Used(th[t].as)
<1>1. th[t].at \in Letters
    BY DEF TypeInv, ThreadsOK, RecordOK
<1>2. th[t].at .. LastLetter \subseteq Letters
    BY <1>1, RedirAssumption DEF Letters
<1>3. free \subseteq Letters
    BY <1>2
<1>4. CASE free = {}
    BY <1>4, Constants DEF NextLetter
<1>5. CASE free # {}
    <2>1. Min(free) \in free
        BY <1>3, <1>5, Constants, MinIsIn
    <2> QED
        BY <1>3, <1>5, <2>1 DEF NextLetter
<1> QED
    BY <1>4, <1>5

\* What a step of Map that gives a letter, or fails to, writes.
Given(t, hit, g) ==
    th' = [th EXCEPT ![t].nxt = cell[th[t].nxt].next, ![t].at = NextLetter(t),
                     ![t].hit = hit, ![t].gave = g]

LEMMA MapIs ==
    ASSUME TypeInv, NEW t \in Threads, Map(t)
    PROVE  \/ th[t].nxt = NULL /\ Become(t, "notify") /\ OnlyPc /\ At(t, "map")
           \/ th[t].nxt # NULL /\ Fault(t, "map", th[t].nxt)
           \/ /\ At(t, "map") /\ th[t].nxt \in Cells /\ OnlyThread
              /\ UNCHANGED <<head, crowd>>
              /\ \/ /\ defs' = defs \cup {<<th[t].as, NextLetter(t), cell[th[t].nxt].vol>>}
                    /\ cell' = [cell EXCEPT ![th[t].nxt].letter = NextLetter(t)]
                    /\ Given(t, TRUE, th[t].gave
                          \cup {<<th[t].as, NextLetter(t), cell[th[t].nxt].vol>>})
                 \/ UNCHANGED <<defs, cell>> /\ Given(t, FALSE, th[t].gave)
<1>1. ASSUME th' = [th EXCEPT ![t].nxt = cell[th[t].nxt].next,
                              ![t].at = NextLetter(t), ![t].hit = FALSE]
      PROVE  Given(t, FALSE, th[t].gave)
    BY <1>1 DEF Given, TypeInv, ThreadsOK, ThreadRecord
<1>2. ASSUME th' = [th EXCEPT ![t].nxt = cell[th[t].nxt].next, ![t].at = NextLetter(t),
                      ![t].hit = TRUE,
                      ![t].gave = @ \cup {<<th[t].as, NextLetter(t), cell[th[t].nxt].vol>>}]
      PROVE  Given(t, TRUE, th[t].gave
                          \cup {<<th[t].as, NextLetter(t), cell[th[t].nxt].vol>>})
    BY <1>2 DEF Given
<1> QED
    BY <1>1, <1>2 DEF Map, Invalid

LEMMA MapType ==
    ASSUME TypeInv, NEW t \in Threads, Map(t) PROVE TypeInv'
<1> DEFINE c == th[t].nxt
           l == NextLetter(t)
           d == <<th[t].as, l, cell[c].vol>>
<1>1. CASE Fault(t, "map", c)
    BY <1>1, FaultStep
<1>2. CASE Become(t, "notify") /\ OnlyPc /\ At(t, "map")
    BY <1>2, PlainPcs, PlainOnly DEF At
<1>3. CASE /\ At(t, "map") /\ c \in Cells /\ OnlyThread /\ UNCHANGED <<head, crowd>>
           /\ \/ /\ defs' = defs \cup {d}
                 /\ cell' = [cell EXCEPT ![c].letter = l]
                 /\ Given(t, TRUE, th[t].gave \cup {d})
              \/ UNCHANGED <<defs, cell>> /\ Given(t, FALSE, th[t].gave)
    <2>1. th[t] \in ThreadRecord /\ th[t].pc = "map"
        BY <1>3 DEF TypeInv, ThreadsOK, At
    <2>2. l \in Letters /\ l \in Nat
        BY <2>1, NextLetterIs, Constants
    <2>3. c \in Cells /\ cell[c] \in CellRecord
        BY <1>3 DEF TypeInv, ListOK
    <2>4. th[t].as \in Hosts \cup {Public} /\ cell[c].vol \in Vols \cup {0}
          /\ cell[c].next \in CellsOrNone /\ th[t].gave \in SUBSET LetterOf
        BY <2>1, <2>3 DEF ThreadRecord, CellRecord
    <2> HIDE DEF l
    <2>5. d \in LetterOf
        BY <2>2, <2>4 DEF LetterOf
    <2>6. [cell[c] EXCEPT !.letter = l] \in CellRecord
        BY <2>2, <2>3 DEF CellRecord
    <2>7. PICK hit \in BOOLEAN, g \in SUBSET LetterOf : Given(t, hit, g)
        BY <1>3, <2>4, <2>5
    <2>8. \/ defs' = defs \cup {d} /\ cell' = [cell EXCEPT ![c].letter = l]
          \/ UNCHANGED <<defs, cell>>
        BY <1>3
    <2> HIDE DEF c, d
    <2>9. ListOK'
        <3>1. cell' = [cell EXCEPT ![c] = [cell[c] EXCEPT !.letter = l]]
              \/ cell' = cell
            BY <2>8
        <3>2. cell' \in [Cells -> CellRecord]
            BY <2>3, <2>6, <3>1 DEF TypeInv, ListOK
        <3> QED
            BY <1>3, <2>5, <2>8, <3>2 DEF TypeInv, ListOK
    <2> DEFINE r == [th[t] EXCEPT !.nxt = cell[c].next, !.at = l, !.hit = hit,
                                  !.gave = g]
    <2>10. r \in ThreadRecord /\ r.pc = "map" /\ r.at = l
        BY <2>1, <2>2, <2>4 DEF ThreadRecord
    <2>11. RecordOK(r) /\ r.pc \notin Unstarted \cup {"ended"}
        BY <2>2, <2>10 DEF RecordOK, Noting, Unstarted
    <2>12. UNCHANGED <<set, userVars, deviceVars, child, alive, sock>>
        BY <1>3 DEF OnlyThread, userVars
    <2>13. th' = [th EXCEPT ![t] = r]
        BY <2>7 DEF Given, l, c
    <2> HIDE DEF r
    <2>14. ThreadsOK'
        BY <2>1, <2>11, <2>12, <2>13, ThreadStep
    <2> QED
        BY <2>9, <2>12, <2>14, WorldSame DEF TypeInv
<1> QED
    BY <1>1, <1>2, <1>3, MapIs

LEMMA BeginUnmapType ==
    ASSUME TypeInv, NEW t \in Threads, BeginUnmap(t) PROVE TypeInv'
<1>1. CASE Die("faulted")
    <2>1. "faulted" \in Ways \ {"running"}
        BY Zenon DEF Ways
    <2> QED
        BY <1>1, <2>1, DieStep
<1>2. CASE ~Die("faulted")
    <2> DEFINE r == [th[t] EXCEPT !.pc = "unmap", !.nxt = head, !.as = NsOf(Host(t))]
    <2>1. At(t, "over") /\ th' = [th EXCEPT ![t] = r] /\ OnlyPc
        BY <1>2 DEF BeginUnmap
    <2>2. th[t] \in ThreadRecord /\ th[t].pc = "over" /\ head \in CellsOrNone
        BY <2>1 DEF TypeInv, ThreadsOK, ListOK, At
    <2>3. NsOf(Host(t)) \in Hosts \cup {Public}
        BY RedirAssumption, SettingsAssumption DEF TypeInv, WorldOK, NsOf, Host
    <2>4. r \in ThreadRecord /\ r.pc = "unmap"
        <3>1. "unmap" \in Pcs
            BY DEF Pcs
        <3> QED
            BY <2>2, <2>3, <3>1 DEF ThreadRecord
    <2>5. r.pc \in Plain /\ th[t].pc \notin {"none", "ended"}
        BY <2>2, <2>4, PlainPcs
    <2>6. OnlyThread /\ UNCHANGED <<defs, head, cell>>
        BY <2>1 DEF OnlyPc, listVars
    <2>7. th' = [th EXCEPT ![t] = r]
        BY <2>1
    <2> HIDE DEF r
    <2> QED
        BY <2>4, <2>5, <2>6, <2>7, PlainRecord, RecordOnly
<1> QED
    BY <1>1, <1>2

LogFault(t) == /\ At(t, "unmap") /\ ~Invalid(head) /\ set.fails /\ MayFault(th[t].nxt)
               /\ Die("logfault")

LEMMA UnmapIs ==
    ASSUME TypeInv, NEW t \in Threads, Unmap(t)
    PROVE  \/ At(t, "unmap") /\ head = NULL /\ Become(t, "close") /\ OnlyPc
           \/ head # NULL /\ Fault(t, "unmap", head)
           \/ LogFault(t)
           \/ /\ At(t, "unmap") /\ ~Invalid(head) /\ OnlyThread /\ UNCHANGED listVars
              /\ defs' \subseteq defs
              /\ \E g \in SUBSET LetterOf :
                    th' = [th EXCEPT ![t].pc = "take", ![t].gave = g]
<1>1. ASSUME Become(t, "take")
      PROVE  \E g \in SUBSET LetterOf : th' = [th EXCEPT ![t].pc = "take", ![t].gave = g]
    BY <1>1, BecomeGave
<1>2. ASSUME th' = [th EXCEPT ![t].pc = "take", ![t].gave = @ \ Unmapped(t)]
      PROVE  \E g \in SUBSET LetterOf : th' = [th EXCEPT ![t].pc = "take", ![t].gave = g]
    <2>1. th[t].gave \ Unmapped(t) \in SUBSET LetterOf
        BY DEF TypeInv, ThreadsOK, ThreadRecord
    <2>2. th' = [th EXCEPT ![t].pc = "take", ![t].gave = th[t].gave \ Unmapped(t)]
        BY <1>2
    <2> QED
        BY <2>1, <2>2
<1>3. \/ At(t, "unmap") /\ head = NULL /\ Become(t, "close") /\ OnlyPc
      \/ head # NULL /\ Fault(t, "unmap", head)
      \/ LogFault(t)
      \/ /\ At(t, "unmap") /\ ~Invalid(head) /\ OnlyThread /\ UNCHANGED listVars
         /\ \/ defs' = defs \ Unmapped(t) /\ Become(t, "take")
            \/ /\ th' = [th EXCEPT ![t].pc = "take", ![t].gave = @ \ Unmapped(t)]
               /\ UNCHANGED defs
    BY Zenon DEF Unmap, LogFault
<1> QED
    BY <1>1, <1>2, <1>3

LEMMA UnmapType ==
    ASSUME TypeInv, NEW t \in Threads, Unmap(t) PROVE TypeInv'
<1>1. CASE Fault(t, "unmap", head)
    BY <1>1, FaultStep
<1>2. CASE At(t, "unmap") /\ Become(t, "close") /\ OnlyPc
    BY <1>2, PlainPcs, PlainOnly DEF At
<1>3. CASE LogFault(t)
    <2>1. "logfault" \in Ways \ {"running"}
        BY Zenon DEF Ways
    <2> QED
        BY <1>3, <2>1, DieStep DEF LogFault
<1>4. ASSUME At(t, "unmap"), OnlyThread, UNCHANGED listVars, defs' \subseteq defs,
             NEW g \in SUBSET LetterOf,
             th' = [th EXCEPT ![t].pc = "take", ![t].gave = g]
      PROVE  TypeInv'
    <2> DEFINE r == [th[t] EXCEPT !.pc = "take", !.gave = g]
    <2>1. UNCHANGED <<set, userVars, deviceVars, child, alive, sock, head, cell>>
        BY <1>4 DEF OnlyThread, listVars, userVars
    <2>2. ListOK'
        BY <1>4, <2>1 DEF TypeInv, ListOK
    <2>3. r \in ThreadRecord /\ r.pc = "take"
        <3>1. "take" \in Pcs
            BY DEF Pcs
        <3> QED
            BY <3>1 DEF TypeInv, ThreadsOK, ThreadRecord
    <2>4. r.pc \in Plain /\ th[t].pc \notin {"none", "ended"}
        BY <1>4, <2>3, PlainPcs DEF At
    <2>5. th' = [th EXCEPT ![t] = r]
        BY <1>4
    <2> HIDE DEF r
    <2>6. ThreadsOK'
        BY <2>1, <2>3, <2>4, <2>5, PlainRecord, ThreadStep
    <2> QED
        BY <2>1, <2>2, <2>6, WorldSame DEF TypeInv
<1> QED
    BY <1>1, <1>2, <1>3, <1>4, UnmapIs

LEMMA TakeHeadType ==
    ASSUME TypeInv, NEW t \in Threads, TakeHead(t) PROVE TypeInv'
<1>1. CASE Fault(t, "pass", head)
    BY <1>1, FaultStep
<1>2. CASE At(t, "take") /\ Point(t, "pass", head) /\ OnlyPc
    <2> DEFINE r == [th[t] EXCEPT !.pc = "pass", !.nxt = head]
    <2>1. th[t] \in ThreadRecord /\ th[t].pc = "take" /\ head \in CellsOrNone
        BY <1>2 DEF TypeInv, ThreadsOK, ListOK, At
    <2>2. r \in ThreadRecord /\ r.pc = "pass"
        <3>1. "pass" \in Pcs
            BY DEF Pcs
        <3> QED
            BY <2>1, <3>1 DEF ThreadRecord
    <2>3. r.pc \in Plain /\ th[t].pc \notin {"none", "ended"}
        BY <2>1, <2>2, PlainPcs
    <2>4. OnlyThread /\ UNCHANGED <<defs, head, cell>>
        BY <1>2 DEF OnlyPc, listVars
    <2>5. th' = [th EXCEPT ![t] = r]
        BY <1>2 DEF Point
    <2> HIDE DEF r
    <2> QED
        BY <2>2, <2>3, <2>4, <2>5, PlainRecord, RecordOnly
<1>3. CASE /\ At(t, "pass") /\ ~Invalid(head) /\ head' = cell[head].next
           /\ Become(t, "free") /\ OnlyList /\ UNCHANGED cell
    <2>1. UNCHANGED <<set, userVars, deviceVars, child, alive, sock, defs, cell>>
        BY <1>3 DEF OnlyList, OnlyThread, userVars
    <2>2. ListOK'
        BY <1>3, <2>1 DEF TypeInv, ListOK, CellRecord, Invalid
    <2>3. ThreadsOK'
        BY <1>3, <2>1, PlainPcs, PlainStep DEF At
    <2> QED
        BY <2>1, <2>2, <2>3, WorldSame DEF TypeInv
<1> QED
    BY <1>1, <1>2, <1>3 DEF TakeHead

LEMMA FreeType ==
    ASSUME TypeInv, NEW t \in Threads, Free(t) PROVE TypeInv'
<1> DEFINE c == th[t].nxt
<1>1. CASE Fault(t, "free", c)
    BY <1>1, FaultStep
<1>2. CASE ~Fault(t, "free", c)
    <2>1. /\ At(t, "free") /\ Become(t, "unmap") /\ OnlyList /\ UNCHANGED head
          /\ cell' = [x \in Cells |->
                        IF x = c THEN [cell[x] EXCEPT !.free = TRUE] ELSE cell[x]]
        BY <1>2 DEF Free
    <2>2. UNCHANGED <<set, userVars, deviceVars, child, alive, sock, defs, head>>
        BY <2>1 DEF OnlyList, OnlyThread, userVars
    <2>3. \A x \in Cells : cell[x] \in CellRecord
                           /\ [cell[x] EXCEPT !.free = TRUE] \in CellRecord
        BY DEF TypeInv, ListOK, CellRecord
    <2>4. cell' \in [Cells -> CellRecord]
        BY <2>1, <2>3
    <2>5. ListOK'
        BY <2>2, <2>4 DEF TypeInv, ListOK
    <2>6. ThreadsOK'
        <3>1. "unmap" \in Plain /\ th[t].pc \notin {"none", "ended"}
            BY <2>1, PlainPcs DEF At
        <3> QED
            BY <2>1, <2>2, <3>1, PlainStep
    <2> QED
        BY <2>2, <2>5, <2>6, WorldSame DEF TypeInv
<1> QED
    BY <1>1, <1>2

LEMMA TypeNext == TypeInv /\ [Next]_vars => TypeInv'
<1> SUFFICES ASSUME TypeInv, [Next]_vars PROVE TypeInv'
    OBVIOUS
<1>1. CASE ServiceHandler
    BY <1>1, StopType
<1>2. CASE ServiceMain
    BY <1>2, ServiceMainType
<1>3. CASE \E t \in Threads : WaitForConnect(t) \/ Receive(t)
    BY <1>3, WaitForConnectType, ReceiveType
<1>4. CASE \E t \in Threads : DoConnect(t)
    <2>1. PICK t \in Threads : DoConnect(t)
        BY <1>4
    <2>2. CASE EnumDiskAndRemap(t)
        BY <2>2, ScanType, ReadDiskNumberType, BeginScanType, NextVolumeType,
           EndScanType, TestHeadType, FirstType, LinkType, AdvanceType, FillType,
           ReMountType, MapType, BeginUnmapType, UnmapType, TakeHeadType, FreeType
           DEF EnumDiskAndRemap
    <2>3. CASE ~EnumDiskAndRemap(t)
        BY <2>1, <2>3, StartChildType, NoSessionType, CloseType, FindDeviceType,
           WaitType, SetSecurityType, SetPrinterACLType, RemovePrinterACLType
           DEF DoConnect
    <2> QED
        BY <2>2, <2>3
<1>5. CASE \E t \in Threads : Attach(t) \/ ChildEnds(t)
    BY <1>5, AttachType, ChildEndsType
<1>6. CASE \/ \E d \in Devs : Install(d)
           \/ \E v \in Vols : Arrive(v)
           \/ \E h \in Hosts : LogOn(h) \/ LogOff(h)
    BY <1>6, InstallType, ArriveType, LogOnType, LogOffType
<1>7. CASE UNCHANGED vars
    <2>1. UNCHANGED <<set, userVars, deviceVars, child, alive, sock, th, defs, head, cell>>
        BY <1>7 DEF vars, listVars, userVars
    <2> QED
        BY <2>1, WorldSame, ListSame, ThreadsSame DEF TypeInv
<1> QED
    BY <1>1, <1>2, <1>3, <1>4, <1>5, <1>6, <1>7 DEF Next

LEMMA TypeInvariant == Spec => []TypeInv
BY TypeInit, TypeNext, PTL DEF Spec

(* The state has its shape whatever the requests, the disks and the faults:   *)
(* a connection whose thread has ended was closed or never had a usbip.exe    *)
(* (ServerSocket.c:123), and without the process there is neither a thread    *)
(* nor a list (MainService.c, StorIsolation.c).                               *)
THEOREM TypeCorrect == Spec => []TypeOK
BY TypeInvariant, TypeInvImplies, PTL

-----------------------------------------------------------------------------
(* The list, as one thread leaves it.                                         *)

\* Two threads that use the list have met.
Met == \A t, u \in Threads : t # u /\ UsesList(t) /\ UsesList(u) => {t, u} \in crowd

\* A cell that is allocated, and a pointer that may be followed.
Live(c)  == c \in Cells /\ ~cell[c].free
Sound(c) == c = NULL \/ Live(c)

\* Cell c is new, and thread t has not filled it yet; or t is about to free it.
Raw(t, c)    == \/ At(t, "gohead") /\ c = head
                \/ At(t, "gonext") /\ c = cell[th[t].nxt].next
                \/ At(t, "fill") /\ c = th[t].nxt
Doomed(t, c) == At(t, "free") /\ c = th[t].nxt

\* Every cell points to one of its own, none points to the head.
Chain ==
    /\ Sound(head)
    /\ \A c \in Cells : Live(c) =>
         \/ Sound(cell[c].next)
         \/ cell[c].next = Garbage /\ \E t \in Threads : Raw(t, c)
    /\ \A c, d \in Cells : Live(c) /\ Live(d) /\ cell[c].next \in Cells
                           /\ cell[d].next = cell[c].next => c = d
    /\ \A c \in Cells : Live(c) /\ cell[c].next = head /\ head \in Cells =>
         \E t \in Threads : Doomed(t, c)

\* What a thread holds of the list.
Holds(t) ==
    /\ th[t].pc \in {"scan", "append"} =>
         \/ head = NULL /\ th[t].nxt = NULL
         \/ Live(head) /\ Live(th[t].nxt)
    /\ At(t, "first") => head = NULL
    /\ th[t].pc \in {"gohead", "take"} => Live(head)
    /\ th[t].pc \in {"link", "fill", "gonext"} => Live(head) /\ Live(th[t].nxt)
    /\ At(t, "gonext") => Live(cell[th[t].nxt].next)
    /\ At(t, "map") => Sound(th[t].nxt)
    /\ At(t, "pass") => Live(head) /\ th[t].nxt = head
    /\ At(t, "free") =>
         /\ Live(th[t].nxt) /\ th[t].nxt # head /\ cell[th[t].nxt].next = head
         /\ \A c \in Cells : Live(c) => cell[c].next # th[t].nxt

Alone == crowd = {} => Chain /\ \A t \in Threads : Holds(t)

FaultInv == Met /\ Alone /\ FaultsTakeTwo

-----------------------------------------------------------------------------
\* One thread with the list.
Shown == {"scan", "append", "first", "gohead", "link", "gonext", "fill",
          "map", "take", "pass", "free"}

\* The list as it is if no other thread uses it.
ChainOf(t) ==
    /\ Sound(head)
    /\ \A c \in Cells : Live(c) =>
         Sound(cell[c].next) \/ (cell[c].next = Garbage /\ Raw(t, c))
    /\ \A c, d \in Cells : Live(c) /\ Live(d) /\ cell[c].next \in Cells
                           /\ cell[d].next = cell[c].next => c = d
    /\ \A c \in Cells : Live(c) /\ cell[c].next = head /\ head \in Cells =>
         Doomed(t, c)

LEMMA ShownUses == \A u : th[u].pc \in Shown => UsesList(u)
BY DEF Shown, UsesList

LEMMA NotShown ==
    ASSUME NEW u, th[u].pc \notin Shown
    PROVE  Holds(u) /\ \A c : ~Raw(u, c) /\ ~Doomed(u, c)
BY DEF Shown, Holds, Raw, Doomed, At

LEMMA Loner ==
    ASSUME Met, Alone, crowd = {}, NEW t \in Threads, UsesList(t)
    PROVE  /\ \A u \in Threads \ {t} : ~UsesList(u) /\ th[u].pc \notin Shown
           /\ ChainOf(t) /\ Holds(t)
<1>1. \A u \in Threads \ {t} : ~UsesList(u) /\ th[u].pc \notin Shown
    BY ShownUses DEF Met
<1>2. \A u \in Threads \ {t} : \A c : ~Raw(u, c) /\ ~Doomed(u, c)
    BY <1>1, NotShown
<1>3. Chain /\ Holds(t)
    BY DEF Alone
<1>4. \A c : (\E u \in Threads : Raw(u, c)) => Raw(t, c)
    BY <1>2
<1>5. \A c : (\E u \in Threads : Doomed(u, c)) => Doomed(t, c)
    BY <1>2
<1>6. ChainOf(t)
    BY <1>3, <1>4, <1>5 DEF Chain, ChainOf
<1> QED
    BY <1>1, <1>3, <1>6

LEMMA LonerStep ==
    ASSUME NEW t \in Threads, \A u \in Threads \ {t} : th[u].pc \notin Shown,
           \A u \in Threads \ {t} : th'[u] = th[u], ChainOf(t)', Holds(t)'
    PROVE  Alone'
<1>1. \A u \in Threads \ {t} : Holds(u)'
    BY DEF Shown, Holds, At
<1>2. Chain'
    BY DEF Chain, ChainOf
<1> QED
    BY <1>1, <1>2 DEF Alone

\* A step that leaves the list, to a place from where nothing of it is held.
LEMMA Quiet ==
    ASSUME Alone, UNCHANGED <<head, cell>>, crowd = {} \/ crowd' # {},
           \A u \in Threads :
              \/ th'[u] = th[u]
              \/ /\ th[u].pc \notin {"gohead", "gonext", "fill", "free"}
                 /\ th'[u].pc \notin Shown
    PROVE  Alone'
<1> SUFFICES ASSUME crowd = {} PROVE Chain' /\ \A t \in Threads : Holds(t)'
    BY DEF Alone
<1>1. Chain /\ \A t \in Threads : Holds(t)
    BY DEF Alone
<1>2. \A t \in Threads : Holds(t)'
    <2> TAKE t \in Threads
    <2>1. CASE th'[t] = th[t]
        BY <1>1, <2>1 DEF Holds, At, Live, Sound
    <2>2. CASE th'[t].pc \notin Shown
        BY <2>2 DEF Shown, Holds, At
    <2> QED
        BY <2>1, <2>2 DEF Shown
<1>3. \A t \in Threads : \A c : (Raw(t, c) => Raw(t, c)') /\ (Doomed(t, c) => Doomed(t, c)')
    BY DEF Raw, Doomed, At
<1>4. \A c : Live(c)' <=> Live(c)
    BY DEF Live
<1>5. \A c : Sound(c)' <=> Sound(c)
    BY <1>4 DEF Sound
<1> QED
    BY <1>1, <1>2, <1>3, <1>4, <1>5 DEF Chain

-----------------------------------------------------------------------------
\* Steps of the one thread, on the list.

LEMMA Cell ==
    ASSUME TypeInv
    PROVE  /\ head \in Cells \cup {NULL, Garbage}
           /\ \A c \in Cells : cell[c] \in CellRecord
           /\ \A c \in Cells : cell[c].next \in Cells \cup {NULL, Garbage}
           /\ NULL \notin Cells /\ Garbage \notin Cells /\ NULL # Garbage
BY Constants DEF TypeInv, ListOK, CellRecord, CellsOrNone

\* The list stays, and so does what t holds of it.
LEMMA ScanList ==
    ASSUME NEW t \in Threads, ChainOf(t), Holds(t), UNCHANGED <<head, cell>>,
           \/ /\ th[t].pc = "scan" /\ th'[t].pc \in {"scan", "append"}
              /\ th'[t].nxt = th[t].nxt
           \/ /\ th[t].pc \in {"enum", "remount"} /\ th'[t].pc \in {"scan", "map"}
              /\ th'[t].nxt = head
    PROVE  ChainOf(t)' /\ Holds(t)'
<1>1. \A c : ~Raw(t, c) /\ ~Doomed(t, c)
    BY DEF Raw, Doomed, At
<1>2. \A c : (Live(c)' <=> Live(c)) /\ (Sound(c)' <=> Sound(c))
    BY DEF Live, Sound
<1>3. ChainOf(t)'
    BY <1>1, <1>2 DEF ChainOf
<1>4. Holds(t)'
    BY DEF ChainOf, Holds, At, Live, Sound
<1> QED
    BY <1>3, <1>4

LEMMA TestHeadList ==
    ASSUME NEW t \in Threads, TypeInv, ChainOf(t), Holds(t), TestHead(t)
    PROVE  ChainOf(t)' /\ Holds(t)'
<1>1. /\ th[t].pc = "append" /\ UNCHANGED <<head, cell>>
      /\ th'[t].pc = (IF head = NULL THEN "first" ELSE "link")
      /\ th'[t].nxt = th[t].nxt
    BY DEF TestHead, At, OnlyPc, listVars, TypeInv, ThreadsOK, ThreadRecord
<1>2. \A c : ~Raw(t, c) /\ ~Doomed(t, c)
    BY <1>1 DEF Raw, Doomed, At
<1>3. \A c : (Live(c)' <=> Live(c)) /\ (Sound(c)' <=> Sound(c))
    BY <1>1 DEF Live, Sound
<1>4. ChainOf(t)'
    BY <1>1, <1>2, <1>3 DEF ChainOf
<1>5. Holds(t)'
    BY <1>1, Cell DEF Holds, At, Live
<1> QED
    BY <1>4, <1>5

LEMMA FirstList ==
    ASSUME NEW t \in Threads, TypeInv, ChainOf(t), Holds(t), First(t)
    PROVE  ChainOf(t)' /\ Holds(t)'
<1>1. PICK f \in Cells : f = Fresh /\ ~Live(f)
    BY FreshIsFree DEF First, Live
<1>2. /\ th[t].pc = "first" /\ th'[t].pc = "gohead" /\ head' = f /\ head = NULL
      /\ \A c \in Cells : cell'[c] = IF c = f THEN RawCell ELSE cell[c]
    BY <1>1 DEF First, At, Become, Holds, TypeInv, ThreadsOK, ThreadRecord, ListOK
<1>3. \A c : ~Raw(t, c) /\ ~Doomed(t, c)
    BY <1>2 DEF Raw, Doomed, At
<1>4. \A c : Live(c)' <=> Live(c) \/ c = f
    BY <1>1, <1>2, RawCellIs DEF Live
<1>5. \A c \in Cells : Live(c) => Sound(cell[c].next) /\ c # f
                                  /\ cell'[c].next = cell[c].next
    BY <1>1, <1>2, <1>3 DEF ChainOf
<1>6. cell'[f].next = Garbage /\ Raw(t, f)'
    BY <1>1, <1>2, RawCellIs DEF Raw, At
<1>7. \A c \in Cells : Live(c) => cell[c].next # f
    BY <1>1, <1>5, Cell DEF Sound
<1>8. ChainOf(t)'
    <2>1. Sound(head)'
        BY <1>1, <1>2, <1>4 DEF Sound
    <2>2. \A c \in Cells : Live(c)' =>
             Sound(cell[c].next)' \/ (cell'[c].next = Garbage /\ Raw(t, c)')
        BY <1>4, <1>5, <1>6 DEF Sound
    <2>3. \A c, d \in Cells : Live(c)' /\ Live(d)' /\ cell'[c].next \in Cells
                              /\ cell'[d].next = cell'[c].next => c = d
        BY <1>4, <1>5, <1>6, Cell DEF ChainOf
    <2>4. \A c \in Cells : Live(c)' => cell'[c].next # head'
        BY <1>1, <1>2, <1>4, <1>5, <1>6, <1>7, Cell
    <2> QED
        BY <2>1, <2>2, <2>3, <2>4 DEF ChainOf
<1>9. Holds(t)'
    BY <1>1, <1>2, <1>4 DEF Holds, At
<1> QED
    BY <1>8, <1>9

Appended(t) ==
    cell' = [[cell EXCEPT ![Fresh] = RawCell] EXCEPT ![th[t].nxt].next = Fresh]

LEMMA LinkList ==
    ASSUME NEW t \in Threads, TypeInv, ChainOf(t), Holds(t), At(t, "link"), HeapLeft,
           UNCHANGED head, Become(t, "gonext"), Appended(t)
    PROVE  ChainOf(t)' /\ Holds(t)'
<1> DEFINE n == th[t].nxt
<1>1. PICK f \in Cells : f = Fresh /\ ~Live(f)
    BY FreshIsFree DEF Live
<1>2. /\ th[t].pc = "link" /\ th'[t].pc = "gonext" /\ th'[t].nxt = n
      /\ Live(head) /\ Live(n) /\ n \in Cells
    BY DEF At, Become, Holds, Live, TypeInv, ThreadsOK, ThreadRecord
<1>3. \A c : ~Raw(t, c) /\ ~Doomed(t, c)
    BY <1>2 DEF Raw, Doomed, At
<1>4. n # f
    BY <1>1, <1>2
<1>5. \A c \in Cells :
         /\ cell'[c].next = IF c = n THEN f
                            ELSE IF c = f THEN Garbage ELSE cell[c].next
         /\ cell'[c].free = IF c = f THEN FALSE ELSE cell[c].free
    <2>1. RawCell \in CellRecord /\ RawCell.next = Garbage /\ RawCell.free = FALSE
        BY DEF RawCell, CellRecord, CellsOrNone
    <2>2. cell \in [Cells -> CellRecord]
        BY DEF TypeInv, ListOK
    <2> DEFINE c1 == [cell EXCEPT ![f] = RawCell]
    <2> HIDE DEF RawCell
    <2>3. c1 \in [Cells -> CellRecord]
        BY <2>1, <2>2
    <2>4. \A c \in Cells : c1[c] = IF c = f THEN RawCell ELSE cell[c]
        BY <2>2
    <2>5. cell' = [c1 EXCEPT ![n].next = f]
        BY <1>1 DEF Appended
    <2> HIDE DEF c1, n
    <2>6. \A c \in Cells : cell'[c] = IF c = n THEN [c1[n] EXCEPT !.next = f]
                                                ELSE c1[c]
        BY <2>3, <2>5
    <2>7. c1[n] \in CellRecord
        BY <1>2, <2>3
    <2>8. cell'[n].next = f /\ cell'[n].free = c1[n].free
        BY <1>2, <2>6, <2>7 DEF CellRecord
    <2> QED
        BY <1>1, <1>2, <1>4, <2>1, <2>4, <2>6, <2>8
<1> HIDE DEF n
<1>6. \A c : Live(c)' <=> Live(c) \/ c = f
    BY <1>1, <1>5 DEF Live
<1>7. \A c \in Cells : Live(c) => /\ Sound(cell[c].next) /\ cell[c].next # f
                                  /\ cell[c].next # head
    BY <1>1, <1>2, <1>3, Cell DEF ChainOf, Sound, Live
<1>8. ChainOf(t)'
    <2>1. Sound(head)'
        BY <1>2, <1>6 DEF Sound
    <2>2. \A c \in Cells : Live(c)' =>
             Sound(cell[c].next)' \/ (cell'[c].next = Garbage /\ Raw(t, c)')
        <3>1. Raw(t, f)'
            BY <1>2, <1>5 DEF Raw, At
        <3> QED
            BY <3>1, <1>4, <1>5, <1>6, <1>7 DEF Sound
    <2>3. \A c, d \in Cells : Live(c)' /\ Live(d)' /\ cell'[c].next \in Cells
                              /\ cell'[d].next = cell'[c].next => c = d
        <3>1. \A c \in Cells : Live(c)' =>
                 \/ c = n /\ cell'[c].next = f
                 \/ c = f /\ cell'[c].next = Garbage
                 \/ Live(c) /\ cell[c].next # f /\ cell'[c].next = cell[c].next
            BY <1>5, <1>6, <1>7
        <3>2. \A c, d \in Cells : Live(c) /\ Live(d) /\ cell[c].next \in Cells
                                  /\ cell[d].next = cell[c].next => c = d
            BY DEF ChainOf
        <3> QED
            BY <1>1, <3>1, <3>2, Cell
    <2>4. \A c \in Cells : Live(c)' /\ head \in Cells => cell'[c].next # head'
        <3>1. f # head /\ head \in Cells /\ Garbage # head
            BY <1>1, <1>2, Cell DEF Live
        <3> QED
            BY <3>1, <1>4, <1>5, <1>6, <1>7
    <2> QED
        BY <2>1, <2>2, <2>3, <2>4 DEF ChainOf
<1>9. Holds(t)'
    BY <1>1, <1>2, <1>5, <1>6 DEF Holds, At
<1> QED
    BY <1>8, <1>9

LEMMA AdvanceList ==
    ASSUME NEW t \in Threads, TypeInv, ChainOf(t), Holds(t), UNCHANGED <<head, cell>>,
           \/ At(t, "gohead") /\ Point(t, "fill", head)
           \/ At(t, "gonext") /\ Point(t, "fill", cell[th[t].nxt].next)
    PROVE  ChainOf(t)' /\ Holds(t)'
<1>1. /\ th'[t].pc = "fill"
      /\ \/ th[t].pc = "gohead" /\ th'[t].nxt = head
         \/ th[t].pc = "gonext" /\ th'[t].nxt = cell[th[t].nxt].next
    BY DEF At, Point, TypeInv, ThreadsOK, ThreadRecord
<1>2. \A c : ~Doomed(t, c) /\ (Raw(t, c) => Raw(t, c)')
    BY <1>1 DEF Raw, Doomed, At
<1>3. \A c : (Live(c)' <=> Live(c)) /\ (Sound(c)' <=> Sound(c))
    BY DEF Live, Sound
<1>4. ChainOf(t)'
    BY <1>2, <1>3 DEF ChainOf
<1>5. Holds(t)'
    BY <1>1, <1>3 DEF Holds, At
<1> QED
    BY <1>4, <1>5

LEMMA FillList ==
    ASSUME NEW t \in Threads, TypeInv, ChainOf(t), Holds(t), At(t, "fill"),
           UNCHANGED head, Become(t, "scan"), cell' = Filled(th[t].nxt, th[t].at)
    PROVE  ChainOf(t)' /\ Holds(t)'
<1> DEFINE n == th[t].nxt
<1>1. /\ th[t].pc = "fill" /\ th'[t].pc = "scan" /\ th'[t].nxt = n
      /\ Live(head) /\ Live(n) /\ n \in Cells
    BY DEF At, Become, Holds, Live, TypeInv, ThreadsOK, ThreadRecord
<1>2. \A c \in Cells : /\ cell'[c].next = IF c = n THEN NULL ELSE cell[c].next
                       /\ cell'[c].free = cell[c].free
    <2>1. cell \in [Cells -> CellRecord]
        BY DEF TypeInv, ListOK
    <2>2. cell' = [cell EXCEPT ![n].vol = th[t].at, ![n].next = NULL]
        BY DEF Filled
    <2> HIDE DEF n
    <2> QED
        BY <1>1, <2>1, <2>2 DEF CellRecord
<1>3. \A c : Raw(t, c) => c = n
    BY <1>1 DEF Raw, At
<1>4. \A c : ~Doomed(t, c)
    BY <1>1 DEF Doomed, At
<1> HIDE DEF n
<1>5. \A c : (Live(c)' <=> Live(c)) /\ (Sound(c)' <=> Sound(c))
    BY <1>2 DEF Live, Sound
<1>6. ChainOf(t)'
    <2>1. Sound(head)'
        BY <1>1, <1>5 DEF Sound
    <2>2. \A c \in Cells : Live(c)' => Sound(cell[c].next)'
        BY <1>2, <1>3, <1>5 DEF ChainOf, Sound
    <2>3. \A c, d \in Cells : Live(c)' /\ Live(d)' /\ cell'[c].next \in Cells
                              /\ cell'[d].next = cell'[c].next => c = d
        BY <1>2, <1>5, Cell DEF ChainOf
    <2>4. \A c \in Cells : Live(c)' /\ head \in Cells => cell'[c].next # head'
        BY <1>2, <1>4, <1>5, Cell DEF ChainOf
    <2> QED
        BY <2>1, <2>2, <2>3, <2>4 DEF ChainOf
<1>7. Holds(t)'
    BY <1>1, <1>5 DEF Holds, At
<1> QED
    BY <1>6, <1>7

LEMMA MapList ==
    ASSUME NEW t \in Threads, TypeInv, ChainOf(t), Holds(t), At(t, "map"),
           th[t].nxt \in Cells, UNCHANGED head, NEW hit, NEW g, Given(t, hit, g),
           NEW l, cell' = [cell EXCEPT ![th[t].nxt].letter = l] \/ UNCHANGED cell
    PROVE  ChainOf(t)' /\ Holds(t)'
<1> DEFINE n == th[t].nxt
<1>1. th'[t].pc = "map" /\ th[t].pc = "map" /\ th'[t].nxt = cell[n].next
    BY DEF At, Given, TypeInv, ThreadsOK, ThreadRecord
<1>2. \A c \in Cells : cell'[c].next = cell[c].next /\ cell'[c].free = cell[c].free
    <2>1. CASE UNCHANGED cell
        BY <2>1
    <2>2. CASE cell' = [cell EXCEPT ![n].letter = l]
        <3>1. cell \in [Cells -> CellRecord]
            BY DEF TypeInv, ListOK
        <3> QED
            BY <2>2, <3>1 DEF CellRecord
    <2> QED
        BY <2>1, <2>2
<1>3. \A c : ~Raw(t, c) /\ ~Doomed(t, c)
    BY <1>1 DEF Raw, Doomed, At
<1> HIDE DEF n
<1>4. \A c : (Live(c)' <=> Live(c)) /\ (Sound(c)' <=> Sound(c))
    BY <1>2 DEF Live, Sound
<1>5. n \in Cells /\ Sound(n)
    BY <1>1 DEF Holds, At, n
<1>6. Sound(cell[n].next)
    BY <1>3, <1>5, Cell DEF ChainOf, Sound
<1>7. ChainOf(t)'
    BY <1>2, <1>3, <1>4 DEF ChainOf
<1>8. Holds(t)'
    <2> DEFINE m == cell[n].next
    <2>1. PICK k : k = m /\ Sound(k)
        BY <1>6
    <2>2. Sound(k)' /\ th'[t].nxt = k
        BY <1>1, <1>4, <2>1
    <2>3. Sound(th[t].nxt)'
        BY <2>2 DEF Sound, Live
    <2> QED
        BY <1>1, <2>3 DEF Holds, At
<1> QED
    BY <1>7, <1>8

\* Between two visits of the list, a step from place p to place q.
LEMMA TakeList ==
    ASSUME NEW t \in Threads, TypeInv, ChainOf(t), Holds(t), UNCHANGED <<head, cell>>,
           \/ th[t].pc = "unmap" /\ th'[t].pc = "take" /\ head \in Cells
           \/ th[t].pc = "take" /\ th'[t].pc = "pass" /\ th'[t].nxt = head
    PROVE  ChainOf(t)' /\ Holds(t)'
<1>1. \A c : ~Raw(t, c) /\ ~Doomed(t, c)
    BY DEF Raw, Doomed, At
<1>2. \A c : (Live(c)' <=> Live(c)) /\ (Sound(c)' <=> Sound(c))
    BY DEF Live, Sound
<1>3. ChainOf(t)'
    BY <1>1, <1>2 DEF ChainOf
<1>4. Live(head)
    BY Cell DEF ChainOf, Holds, Sound, At
<1>5. Holds(t)'
    BY <1>4 DEF Holds, At, Live
<1> QED
    BY <1>3, <1>5

LEMMA PassList ==
    ASSUME NEW t \in Threads, TypeInv, ChainOf(t), Holds(t), UNCHANGED cell,
           th[t].pc = "pass", th'[t].pc = "free", th'[t].nxt = th[t].nxt,
           head' = cell[head].next
    PROVE  ChainOf(t)' /\ Holds(t)'
<1>1. \A c : ~Raw(t, c) /\ ~Doomed(t, c)
    BY DEF Raw, Doomed, At
<1>2. \A c : (Live(c)' <=> Live(c)) /\ (Sound(c)' <=> Sound(c))
    BY DEF Live, Sound
<1>3. PICK h \in Cells : h = head /\ Live(h) /\ th[t].nxt = h
    BY DEF Holds, At, Live
<1>4. PICK n : n = cell[h].next /\ Sound(n)
    BY <1>1, <1>3 DEF ChainOf
<1>5. \A c \in Cells : Live(c) => Sound(cell[c].next) /\ cell[c].next # h
    BY <1>1, <1>3 DEF ChainOf
<1>6. head' = n /\ n # h
    BY <1>3, <1>4, <1>5
<1>7. \A c : Doomed(t, c)' <=> c = h
    BY <1>3 DEF Doomed, At
<1>8. ChainOf(t)'
    <2>1. Sound(head)'
        BY <1>2, <1>4, <1>6 DEF Sound, Live
    <2>2. \A c, d \in Cells : Live(c)' /\ Live(d)' /\ cell'[c].next \in Cells
                              /\ cell'[d].next = cell'[c].next => c = d
        BY <1>2 DEF ChainOf
    <2>3. \A c \in Cells : Live(c)' /\ cell'[c].next = n /\ n \in Cells => c = h
        BY <1>2, <1>3, <1>4 DEF ChainOf
    <2> QED
        BY <1>2, <1>5, <1>6, <1>7, <2>1, <2>2, <2>3 DEF ChainOf
<1>9. Holds(t)'
    <2>1. \A c \in Cells : Live(c)' => cell'[c].next # th'[t].nxt
        BY <1>2, <1>3, <1>5
    <2>2. Live(th[t].nxt)' /\ th'[t].nxt # head' /\ cell'[th'[t].nxt].next = head'
        BY <1>3, <1>4, <1>6 DEF Live
    <2> QED
        BY <2>1, <2>2 DEF Holds, At
<1> QED
    BY <1>8, <1>9

LEMMA FreeList ==
    ASSUME NEW t \in Threads, TypeInv, ChainOf(t), Holds(t), UNCHANGED head,
           th[t].pc = "free", th'[t].pc = "unmap",
           cell' = [x \in Cells |-> IF x = th[t].nxt THEN [cell[x] EXCEPT !.free = TRUE]
                                    ELSE cell[x]]
    PROVE  ChainOf(t)' /\ Holds(t)'
<1>1. PICK n \in Cells : /\ n = th[t].nxt /\ n # head
                         /\ \A c \in Cells : Live(c) => cell[c].next # n
    BY DEF Holds, At, Live
<1>2. \A c \in Cells : /\ cell'[c].next = cell[c].next
                       /\ cell'[c].free = IF c = n THEN TRUE ELSE cell[c].free
    <2>1. \A x \in Cells : cell[x] \in CellRecord
        BY DEF TypeInv, ListOK
    <2> QED
        BY <1>1, <2>1 DEF CellRecord
<1>3. \A c : ~Raw(t, c) /\ (Doomed(t, c) => c = n)
    BY <1>1 DEF Raw, Doomed, At
<1>4. \A c : Live(c)' <=> Live(c) /\ c # n
    BY <1>2 DEF Live
<1>5. \A c : Sound(c) /\ c # n => Sound(c)'
    BY <1>4 DEF Sound
<1>6. ChainOf(t)'
    <2>1. Sound(head)'
        BY <1>1, <1>4 DEF ChainOf, Sound
    <2>2. \A c \in Cells : Live(c)' => Sound(cell[c].next)'
        BY <1>1, <1>2, <1>3, <1>4 DEF ChainOf, Sound
    <2>3. \A c, d \in Cells : Live(c)' /\ Live(d)' /\ cell'[c].next \in Cells
                              /\ cell'[d].next = cell'[c].next => c = d
        BY <1>2, <1>4 DEF ChainOf
    <2>4. \A c \in Cells : Live(c)' /\ head \in Cells => cell'[c].next # head'
        BY <1>2, <1>3, <1>4 DEF ChainOf
    <2> QED
        BY <2>1, <2>2, <2>3, <2>4 DEF ChainOf
<1>7. Holds(t)'
    BY DEF Holds, At
<1> QED
    BY <1>6, <1>7

-----------------------------------------------------------------------------
\* What faults is not followed by one thread alone.
LEMMA NoFault ==
    ASSUME NEW t \in Threads, TypeInv, ChainOf(t), Holds(t), NEW c,
           \/ th[t].pc \in {"link", "gonext", "fill", "free"} /\ c = th[t].nxt
           \/ th[t].pc = "map" /\ c = th[t].nxt /\ c # NULL
           \/ th[t].pc = "unmap" /\ c = head /\ c # NULL
           \/ th[t].pc = "pass" /\ c = head
    PROVE  ~MayFault(c)
<1>1. Live(c)
    BY DEF Holds, ChainOf, Sound, At
<1> QED
    BY <1>1 DEF Live, MayFault

LEMMA NoFaultInWalk ==
    ASSUME NEW t \in Threads, TypeInv, ChainOf(t), th[t].pc \in {"notify", "over"}
    PROVE  ~WalkMayFault
<1> DEFINE S == {c \in Cells : Live(c)} \cup {NULL}
<1>1. \A c : ~Raw(t, c)
    BY DEF Raw, At
<1>2. head \in S
    BY DEF ChainOf, Sound, Live
<1>3. \A c \in Cells : Live(c) => cell[c].next \in S
    BY <1>1 DEF ChainOf, Sound, Live
<1>4. Closed(S)
    BY <1>3, Cell DEF Closed, Invalid
<1>5. S \in SUBSET (Cells \cup {NULL, Garbage})
    OBVIOUS
<1>6. Walk \subseteq S
    BY <1>2, <1>4, <1>5 DEF Walk
<1> QED
    BY <1>6, Cell DEF WalkMayFault, MayFault, Live

-----------------------------------------------------------------------------
\* The invariant over the steps.
Listed == {"scan", "append", "first", "gohead", "link", "gonext", "fill",
           "remount", "map", "notify", "over", "unmap", "take", "pass", "free"}

LEMMA ListedUses ==
    \A u : UsesList(u) <=> \/ th[u].pc \in Listed
                           \/ th[u].round > 0 /\ th[u].pc \notin {"close", "ended"}
BY DEF UsesList, Listed

\* A step of a thread that uses the list, or begins to.
LEMMA Within ==
    ASSUME FaultInv, NEW t \in Threads, \A u \in Threads \ {t} : th'[u] = th[u],
           UNCHANGED alive, Alone', (UsesList(t) /\ UNCHANGED crowd) \/ Enter(t)
    PROVE  FaultInv'
<1>1. crowd \subseteq crowd'
    BY DEF Enter
<1>2. \A u \in Threads \ {t} : UsesList(u)' => UsesList(u)
    BY DEF UsesList
<1>3. \A u \in Threads \ {t} : UsesList(u)' => {t, u} \in crowd'
    BY <1>2 DEF FaultInv, Met, Enter
<1>4. Met'
    <2> SUFFICES ASSUME NEW u \in Threads, NEW w \in Threads, u # w,
                        UsesList(u)', UsesList(w)'
                 PROVE  {u, w} \in crowd'
        BY DEF Met
    <2>1. CASE u = t
        BY <1>3, <2>1
    <2>2. CASE w = t
        <3>1. {t, u} \in crowd'
            BY <1>3, <2>2
        <3>2. {t, u} = {u, w}
            BY <2>2
        <3> QED
            BY <3>1, <3>2
    <2>3. CASE u # t /\ w # t
        BY <1>1, <1>2, <2>3 DEF FaultInv, Met
    <2> QED
        BY <2>1, <2>2, <2>3
<1>5. FaultsTakeTwo'
    BY <1>1 DEF FaultInv, FaultsTakeTwo
<1> QED
    BY <1>4, <1>5 DEF FaultInv

\* A step of a thread away from the list.
LEMMA Aside ==
    ASSUME FaultInv, NEW t \in Threads, \A u \in Threads \ {t} : th'[u] = th[u],
           UNCHANGED <<alive, listVars>>,
           th[t].pc \notin {"gohead", "gonext", "fill", "free"}, th'[t].pc \notin Listed,
           th'[t].round = th[t].round,
           th[t].pc \notin {"close", "ended"} \/ th'[t].pc \in {"close", "ended"}
    PROVE  FaultInv'
<1>1. UNCHANGED <<head, cell, crowd>>
    BY DEF listVars
<1>2. \A u \in Threads : UsesList(u)' => UsesList(u)
    BY DEF UsesList, Listed
<1>3. Met'
    BY <1>1, <1>2 DEF FaultInv, Met
<1>4. th'[t].pc \notin Shown
    BY DEF Shown, Listed
<1>5. Alone'
    BY <1>1, <1>4, Quiet DEF FaultInv
<1>6. FaultsTakeTwo'
    BY <1>1 DEF FaultInv, FaultsTakeTwo
<1> QED
    BY <1>3, <1>5, <1>6 DEF FaultInv

\* A step on the list.
LEMMA OnList ==
    ASSUME FaultInv, NEW t \in Threads, \A u \in Threads \ {t} : th'[u] = th[u],
           UNCHANGED <<alive, crowd>>, UsesList(t),
           ChainOf(t) /\ Holds(t) => ChainOf(t)' /\ Holds(t)'
    PROVE  FaultInv'
<1>1. CASE crowd # {}
    <2>1. Alone'
        BY <1>1 DEF Alone
    <2> QED
        BY <2>1, Within
<1>2. CASE crowd = {}
    <2>1. Met /\ Alone
        BY DEF FaultInv
    <2>2. \A u \in Threads \ {t} : th[u].pc \notin Shown
        BY <1>2, <2>1, Loner
    <2>3. ChainOf(t) /\ Holds(t)
        BY <1>2, <2>1, Loner
    <2>4. Alone'
        BY <2>2, <2>3, LonerStep
    <2> QED
        BY <2>4, Within
<1> QED
    BY <1>1, <1>2

\* The process ends.
LEMMA DieFault ==
    ASSUME FaultInv, NEW how, Die(how), how = "faulted" => crowd # {}
    PROVE  FaultInv'
<1>1. \A u \in Threads : th'[u].pc \in {"none", "ended"} /\ th'[u].round = th[u].round
    BY DEF Die, Threading
<1>2. /\ head' = NULL /\ crowd' = crowd /\ alive' = how
      /\ \A c \in Cells : cell'[c] = [RawCell EXCEPT !.free = TRUE]
    BY DEF Die
<1>3. \A c : ~Live(c)'
    BY <1>2 DEF Live, RawCell
<1>4. Alone'
    <2>1. \A u \in Threads : Holds(u)'
        BY <1>1 DEF Holds, At
    <2>2. Chain'
        BY <1>2, <1>3 DEF Chain, Sound
    <2> QED
        BY <2>1, <2>2 DEF Alone
<1>5. \A u \in Threads : UsesList(u)' => UsesList(u)
    BY DEF UsesList, Die, Threading
<1>6. Met'
    BY <1>2, <1>5 DEF FaultInv, Met
<1> QED
    BY <1>2, <1>4, <1>6 DEF FaultInv, FaultsTakeTwo

\* A fault is of a thread that had company.
LEMMA FaultFault ==
    ASSUME FaultInv, TypeInv, NEW t \in Threads, NEW p, NEW c, Fault(t, p, c),
           \/ p \in {"link", "gonext", "fill", "free"} /\ c = th[t].nxt
           \/ p = "map" /\ c = th[t].nxt /\ c # NULL
           \/ p = "unmap" /\ c = head /\ c # NULL
           \/ p = "pass" /\ c = head
    PROVE  FaultInv'
<1>1. th[t].pc = p /\ MayFault(c) /\ Die("faulted")
    BY DEF Fault, At
<1>2. UsesList(t)
    BY <1>1 DEF UsesList
<1>3. crowd # {}
    <2> SUFFICES ASSUME crowd = {} PROVE FALSE
        OBVIOUS
    <2>1. ChainOf(t) /\ Holds(t)
        BY <1>2, Loner DEF FaultInv
    <2> QED
        BY <1>1, <2>1, NoFault
<1> QED
    BY <1>1, <1>3, DieFault

LEMMA WalkFault ==
    ASSUME FaultInv, TypeInv, NEW t \in Threads, th[t].pc \in {"notify", "over"},
           WalkMayFault, Die("faulted")
    PROVE  FaultInv'
<1>1. UsesList(t)
    BY DEF UsesList
<1>2. crowd # {}
    <2> SUFFICES ASSUME crowd = {} PROVE FALSE
        OBVIOUS
    <2>1. ChainOf(t)
        BY <1>1, Loner DEF FaultInv
    <2> QED
        BY <2>1, NoFaultInWalk
<1> QED
    BY <1>2, DieFault

\* What a step makes of the record of its thread.
LEMMA RecordIs ==
    ASSUME TypeInv, NEW t \in Threads
    PROVE  /\ \A p : Become(t, p) =>
                /\ th'[t].pc = p /\ th'[t].nxt = th[t].nxt /\ th'[t].round = th[t].round
                /\ \A u \in Threads \ {t} : th'[u] = th[u]
           /\ \A p, n : Point(t, p, n) =>
                /\ th'[t].pc = p /\ th'[t].nxt = n /\ th'[t].round = th[t].round
                /\ \A u \in Threads \ {t} : th'[u] = th[u]
BY DEF Become, Point, TypeInv, ThreadsOK, ThreadRecord

-----------------------------------------------------------------------------
\* The steps of the service, outside the storage.
LEMMA ServiceFault ==
    ASSUME FaultInv, TypeInv, NEW t \in Threads,
           \/ WaitForConnect(t) \/ Receive(t) \/ StartChild(t) \/ NoSession(t)
           \/ Close(t) \/ FindDevice(t) \/ NoDeviceType(t) \/ ChildHasEnded(t)
           \/ SetSecurity(t) \/ SetPrinterACL(t) \/ RemovePrinterACL(t)
    PROVE  FaultInv'
<1>1. UNCHANGED <<alive, listVars>>
    BY DEF WaitForConnect, Receive, StartChild, NoSession, Close, FindDevice,
           NoDeviceType, ChildHasEnded, SetSecurity, SetPrinterACL, RemovePrinterACL,
           OnlyAcl, OnlyPc, OnlyThread
<1> DEFINE From == {"none", "recv", "session", "usb", "wait", "other", "restricted",
                    "printer", "printing", "close"}
           To == {"recv", "session", "usb", "wait", "other", "restricted", "printing",
                  "printer", "search", "close", "ended"}
<1>2. /\ th[t].pc \in From /\ th'[t].pc \in To /\ th'[t].round = th[t].round
      /\ th[t].pc = "close" => th'[t].pc = "ended"
      /\ \A u \in Threads \ {t} : th'[u] = th[u]
    <2>1. th \in [Threads -> ThreadRecord]
        BY DEF TypeInv, ThreadsOK
    <2>2. CASE FindDevice(t)
        <3>1. PICK d : th' = [th EXCEPT ![t].dev = d,
                    ![t].pc = CASE Kind[d] = "storage" -> "search"
                                [] Kind[d] = "printer" -> "printer"
                                [] OTHER -> "other"]
            BY <2>2 DEF FindDevice
        <3> DEFINE p == CASE Kind[d] = "storage" -> "search"
                          [] Kind[d] = "printer" -> "printer"
                          [] OTHER -> "other"
        <3>2. p \in To
            OBVIOUS
        <3>3. th' = [th EXCEPT ![t].dev = d, ![t].pc = p] /\ th[t].pc = "usb"
            BY <2>2, <3>1 DEF FindDevice, At
        <3> HIDE DEF p
        <3> QED
            BY <2>1, <3>2, <3>3 DEF ThreadRecord
    <2>3. CASE SetPrinterACL(t)
        BY <2>1, <2>3 DEF SetPrinterACL, At, Become, ThreadRecord
    <2>4. CASE RemovePrinterACL(t)
        BY <2>1, <2>4 DEF RemovePrinterACL, At, Become, ThreadRecord
    <2>5. ASSUME NEW p \in To, NEW q \in From, At(t, q), Become(t, p), q = "close" => p = "ended"
          PROVE  /\ th[t].pc \in From /\ th'[t].pc \in To /\ th'[t].round = th[t].round
                 /\ th[t].pc = "close" => th'[t].pc = "ended"
                 /\ \A u \in Threads \ {t} : th'[u] = th[u]
        BY <2>5, RecordIs DEF At
    <2>6. CASE \/ WaitForConnect(t) \/ Receive(t) \/ StartChild(t) \/ NoSession(t)
               \/ Close(t) \/ NoDeviceType(t) \/ ChildHasEnded(t) \/ SetSecurity(t)
        <3>1. \E p \in To, q \in From : /\ At(t, q) /\ Become(t, p)
                                        /\ q = "close" => p = "ended"
            BY <2>6 DEF WaitForConnect, Receive, StartChild, NoSession, Close,
                        NoDeviceType, ChildHasEnded, SetSecurity, At
        <3> QED
            BY <2>5, <3>1
    <2> QED
        BY <2>2, <2>3, <2>4, <2>6
<1>3. /\ th[t].pc \notin {"gohead", "gonext", "fill", "free"} /\ th'[t].pc \notin Listed
      /\ th[t].pc \notin {"close", "ended"} \/ th'[t].pc \in {"close", "ended"}
    BY <1>2 DEF Listed
<1> HIDE DEF From, To
<1> QED
    BY <1>1, <1>2, <1>3, Aside

\* The search for the disk and its volumes.
LEMMA SearchFault ==
    ASSUME FaultInv, TypeInv, NEW t \in Threads,
           LeaveSearch(t) \/ ReadDiskNumber(t) \/ BeginScan(t) \/ EndScan(t)
           \/ NextVolume(t)
    PROVE  FaultInv'
<1>1. th \in [Threads -> ThreadRecord] /\ th[t] \in ThreadRecord
    BY DEF TypeInv, ThreadsOK
<1>2. CASE LeaveSearch(t)
    <2>1. UNCHANGED <<alive, listVars>> /\ th[t].pc \in {"search", "enum"}
          /\ Become(t, "await")
        BY <1>2 DEF LeaveSearch, OnlyPc, OnlyThread
    <2> QED
        BY <2>1, RecordIs, Aside DEF Listed
<1>3. CASE ReadDiskNumber(t)
    <2>1. UNCHANGED <<alive, listVars>> /\ th[t].pc = "search" /\ th'[t].pc = "enum"
          /\ th'[t].round = th[t].round /\ \A u \in Threads \ {t} : th'[u] = th[u]
        <3>1. PICK n : th' = [th EXCEPT ![t].pc = "enum", ![t].disk = n]
            BY <1>3 DEF ReadDiskNumber
        <3>2. UNCHANGED <<alive, listVars>> /\ th[t].pc = "search"
            BY <1>3 DEF ReadDiskNumber, At, OnlyPc, OnlyThread
        <3> QED
            BY <1>1, <3>1, <3>2 DEF ThreadRecord
    <2> QED
        BY <2>1, Aside DEF Listed
<1>4. CASE BeginScan(t)
    <2>1. /\ UNCHANGED <<alive, head, cell>> /\ Enter(t) /\ th[t].pc = "enum"
          /\ th'[t].pc = "scan" /\ th'[t].nxt = head
          /\ \A u \in Threads \ {t} : th'[u] = th[u]
        BY <1>1, <1>4 DEF BeginScan, At, OnlyThread, ThreadRecord
    <2>2. CASE crowd' # {}
        <3>1. Alone'
            BY <2>2 DEF Alone
        <3> QED
            BY <2>1, <3>1, Within
    <2>3. CASE crowd' = {}
        <3>1. crowd = {} /\ \A u \in Threads \ {t} : ~UsesList(u)
            BY <2>1, <2>3 DEF Enter
        <3>2. \A u \in Threads : th[u].pc \notin Shown
            <4>1. \A u \in Threads \ {t} : th[u].pc \notin Shown
                BY <3>1, ShownUses
            <4>2. th[t].pc \notin Shown
                BY <2>1 DEF Shown
            <4> QED
                BY <4>1, <4>2
        <3>3. \A u \in Threads : \A c : ~Raw(u, c) /\ ~Doomed(u, c)
            BY <3>2, NotShown
        <3>4. Chain /\ Holds(t)
            BY <3>1 DEF FaultInv, Alone
        <3>5. ChainOf(t)
            BY <3>3, <3>4 DEF Chain, ChainOf
        <3>6. ChainOf(t)' /\ Holds(t)'
            BY <2>1, <3>4, <3>5, ScanList
        <3>7. Alone'
            BY <2>1, <3>2, <3>6, LonerStep
        <3> QED
            BY <2>1, <3>7, Within
    <2> QED
        BY <2>2, <2>3
<1>5. ASSUME UNCHANGED <<alive, head, cell, crowd>>, th[t].pc = "scan",
             \A u \in Threads \ {t} : th'[u] = th[u],
             \/ th'[t].pc \in {"remount", "enum"}
             \/ th'[t].pc \in {"scan", "append"} /\ th'[t].nxt = th[t].nxt
      PROVE  FaultInv'
    <2>1. UsesList(t)
        BY <1>5 DEF UsesList
    <2>2. CASE th'[t].pc \in {"remount", "enum"}
        <3>1. th[t].pc \notin {"gohead", "gonext", "fill", "free"}
              /\ th'[t].pc \notin Shown
            BY <1>5, <2>2 DEF Shown
        <3>2. Alone'
            BY <1>5, <3>1, Quiet DEF FaultInv
        <3> QED
            BY <1>5, <2>1, <3>2, Within
    <2>3. CASE th'[t].pc \in {"scan", "append"} /\ th'[t].nxt = th[t].nxt
        <3>1. ChainOf(t) /\ Holds(t) => ChainOf(t)' /\ Holds(t)'
            BY <1>5, <2>3, ScanList
        <3> QED
            BY <1>5, <2>1, <3>1, OnList
    <2> QED
        BY <1>5, <2>2, <2>3
<1>6. CASE EndScan(t)
    <2>1. /\ UNCHANGED <<alive, head, cell, crowd>> /\ th[t].pc = "scan"
          /\ \A u \in Threads \ {t} : th'[u] = th[u]
          /\ th'[t].pc \in {"remount", "enum"}
        BY <1>1, <1>6 DEF EndScan, At, OnlyPc, OnlyThread, listVars, ThreadRecord
    <2> QED
        BY <1>5, <2>1
<1>7. CASE NextVolume(t)
    <2>1. UNCHANGED <<alive, head, cell, crowd>> /\ th[t].pc = "scan"
        BY <1>7 DEF NextVolume, At, listVars
    <2>2. /\ \A u \in Threads \ {t} : th'[u] = th[u]
          /\ \/ th'[t].pc = "remount"
             \/ th'[t].pc \in {"scan", "append"} /\ th'[t].nxt = th[t].nxt
        <3>1. PICK v : Unmount(t, v) \/ PassOver(t, v) \/ NoDosDevice(t, v)
            BY <1>7 DEF NextVolume
        <3>2. CASE Unmount(t, v)
            BY <1>1, <3>2 DEF Unmount, ThreadRecord
        <3>3. CASE PassOver(t, v)
            BY <1>1, <2>1, <3>3 DEF PassOver, ThreadRecord
        <3>4. CASE NoDosDevice(t, v)
            BY <1>1, <3>4 DEF NoDosDevice, ThreadRecord
        <3> QED
            BY <3>1, <3>2, <3>3, <3>4
    <2> QED
        BY <1>5, <2>1, <2>2
<1> QED
    BY <1>2, <1>3, <1>4, <1>6, <1>7

\* The list is filled.
LEMMA NotingFault ==
    ASSUME FaultInv, TypeInv, NEW t \in Threads,
           TestHead(t) \/ First(t) \/ Link(t) \/ Advance(t) \/ Fill(t)
    PROVE  FaultInv'
<1>1. CASE TestHead(t)
    <2>1. UNCHANGED <<alive, crowd>> /\ UsesList(t)
        BY <1>1 DEF TestHead, OnlyPc, OnlyThread, listVars, UsesList, At
    <2>2. \A u \in Threads \ {t} : th'[u] = th[u]
        BY <1>1 DEF TestHead, TypeInv, ThreadsOK
    <2> QED
        BY <1>1, <2>1, <2>2, TestHeadList, OnList
<1>2. CASE First(t)
    <2>1. UNCHANGED <<alive, crowd>> /\ UsesList(t) /\ Become(t, "gohead")
        BY <1>2 DEF First, OnlyList, OnlyThread, UsesList, At
    <2>2. \A u \in Threads \ {t} : th'[u] = th[u]
        BY <2>1, RecordIs
    <2> QED
        BY <1>2, <2>1, <2>2, FirstList, OnList
<1>3. CASE Link(t)
    <2>1. CASE Fault(t, "link", th[t].nxt)
        BY <2>1, FaultFault
    <2>2. CASE ~Fault(t, "link", th[t].nxt)
        <3>1. /\ At(t, "link") /\ HeapLeft /\ Appended(t) /\ Become(t, "gonext")
              /\ UNCHANGED <<alive, crowd, head>>
            BY <1>3, <2>2 DEF Link, Appended, OnlyList, OnlyThread
        <3>2. UsesList(t)
            BY <3>1 DEF UsesList, At
        <3>3. \A u \in Threads \ {t} : th'[u] = th[u]
            BY <3>1, RecordIs
        <3> QED
            BY <3>1, <3>2, <3>3, LinkList, OnList
    <2> QED
        BY <2>1, <2>2
<1>4. CASE Advance(t)
    <2>1. CASE Fault(t, "gonext", th[t].nxt)
        BY <2>1, FaultFault
    <2>2. CASE ~Fault(t, "gonext", th[t].nxt)
        <3>1. /\ \/ At(t, "gohead") /\ Point(t, "fill", head)
                 \/ At(t, "gonext") /\ Point(t, "fill", cell[th[t].nxt].next)
              /\ UNCHANGED <<alive, crowd, head, cell>>
            BY <1>4, <2>2 DEF Advance, OnlyPc, OnlyThread, listVars
        <3>2. UsesList(t)
            BY <3>1 DEF UsesList, At
        <3>3. \A u \in Threads \ {t} : th'[u] = th[u]
            BY <3>1, RecordIs
        <3> QED
            BY <3>1, <3>2, <3>3, AdvanceList, OnList
    <2> QED
        BY <2>1, <2>2
<1>5. CASE Fill(t)
    <2>1. CASE Fault(t, "fill", th[t].nxt)
        BY <2>1, FaultFault
    <2>2. CASE ~Fault(t, "fill", th[t].nxt)
        <3>1. /\ At(t, "fill") /\ cell' = Filled(th[t].nxt, th[t].at)
              /\ Become(t, "scan") /\ UNCHANGED <<alive, crowd, head>>
            BY <1>5, <2>2 DEF Fill, OnlyList, OnlyThread
        <3>2. UsesList(t)
            BY <3>1 DEF UsesList, At
        <3>3. \A u \in Threads \ {t} : th'[u] = th[u]
            BY <3>1, RecordIs
        <3> QED
            BY <3>1, <3>2, <3>3, FillList, OnList
    <2> QED
        BY <2>1, <2>2
<1> QED
    BY <1>1, <1>2, <1>3, <1>4, <1>5

\* The letters are given.
LEMMA GivingFault ==
    ASSUME FaultInv, TypeInv, NEW t \in Threads, ReMount(t) \/ Map(t) \/ Notify(t)
    PROVE  FaultInv'
<1>1. th \in [Threads -> ThreadRecord] /\ th[t] \in ThreadRecord
    BY DEF TypeInv, ThreadsOK
<1>2. ASSUME th[t].pc \in {"remount", "map", "notify"},
             th'[t].pc \in {"notify", "await", "search"},
             \A u \in Threads \ {t} : th'[u] = th[u], OnlyPc
      PROVE  FaultInv'
    <2>1. UsesList(t) /\ UNCHANGED <<alive, crowd, head, cell>>
        BY <1>2 DEF UsesList, OnlyPc, OnlyThread, listVars
    <2>2. th[t].pc \notin {"gohead", "gonext", "fill", "free"} /\ th'[t].pc \notin Shown
        BY <1>2 DEF Shown
    <2>3. Alone'
        BY <1>2, <2>1, <2>2, Quiet DEF FaultInv
    <2> QED
        BY <1>2, <2>1, <2>3, Within
<1>3. CASE ReMount(t)
    <2>1. /\ th[t].pc = "remount" /\ OnlyPc /\ UNCHANGED <<alive, crowd, head, cell>>
          /\ \A u \in Threads \ {t} : th'[u] = th[u]
          /\ \/ th'[t].pc = "map" /\ th'[t].nxt = head
             \/ th'[t].pc = "notify"
        BY <1>1, <1>3 DEF ReMount, At, OnlyPc, OnlyThread, listVars, ThreadRecord
    <2>2. CASE th'[t].pc = "notify"
        BY <1>2, <2>1, <2>2
    <2>3. CASE th'[t].pc = "map" /\ th'[t].nxt = head
        <3>1. UsesList(t)
            BY <2>1 DEF UsesList
        <3>2. ChainOf(t) /\ Holds(t) => ChainOf(t)' /\ Holds(t)'
            BY <2>1, <2>3, ScanList
        <3> QED
            BY <2>1, <3>1, <3>2, OnList
    <2> QED
        BY <2>1, <2>2, <2>3
<1>4. CASE Map(t)
    <2>1. CASE th[t].nxt = NULL /\ Become(t, "notify") /\ OnlyPc /\ At(t, "map")
        BY <1>2, <2>1, RecordIs DEF At
    <2>2. CASE th[t].nxt # NULL /\ Fault(t, "map", th[t].nxt)
        BY <2>2, FaultFault
    <2>3. ASSUME At(t, "map"), th[t].nxt \in Cells, OnlyThread, UNCHANGED <<head, crowd>>,
                 NEW hit, NEW g, Given(t, hit, g), NEW l,
                 cell' = [cell EXCEPT ![th[t].nxt].letter = l] \/ UNCHANGED cell
          PROVE  FaultInv'
        <3>1. ChainOf(t) /\ Holds(t) => ChainOf(t)' /\ Holds(t)'
            BY <2>3, MapList
        <3>2. UsesList(t) /\ UNCHANGED <<alive, crowd>>
            BY <2>3 DEF UsesList, At, OnlyThread
        <3>3. \A u \in Threads \ {t} : th'[u] = th[u]
            BY <1>1, <2>3 DEF Given
        <3> QED
            BY <3>1, <3>2, <3>3, OnList
    <2>4. CASE /\ At(t, "map") /\ th[t].nxt \in Cells /\ OnlyThread
               /\ UNCHANGED <<head, crowd>>
               /\ \/ /\ defs' = defs
                               \cup {<<th[t].as, NextLetter(t), cell[th[t].nxt].vol>>}
                     /\ cell' = [cell EXCEPT ![th[t].nxt].letter = NextLetter(t)]
                     /\ Given(t, TRUE, th[t].gave
                           \cup {<<th[t].as, NextLetter(t), cell[th[t].nxt].vol>>})
                  \/ UNCHANGED <<defs, cell>> /\ Given(t, FALSE, th[t].gave)
        BY <2>3, <2>4
    <2> QED
        BY <1>4, <2>1, <2>2, <2>4, MapIs
<1>5. CASE Notify(t)
    <2>1. CASE At(t, "notify") /\ WalkMayFault /\ Die("faulted")
        BY <2>1, WalkFault DEF At
    <2>2. CASE \E p \in {"await", "search"} : At(t, "notify") /\ Become(t, p) /\ OnlyPc
        BY <1>2, <2>2, RecordIs DEF At
    <2> QED
        BY <1>5, <2>1, <2>2 DEF Notify
<1> QED
    BY <1>3, <1>4, <1>5

\* The letters are taken back.
LEMMA TakingFault ==
    ASSUME FaultInv, TypeInv, NEW t \in Threads,
           ChildOver(t) \/ BeginUnmap(t) \/ Unmap(t) \/ TakeHead(t) \/ Free(t)
    PROVE  FaultInv'
<1>1. th \in [Threads -> ThreadRecord] /\ th[t] \in ThreadRecord
    BY DEF TypeInv, ThreadsOK
<1>2. ASSUME th[t].pc \in {"await", "over", "unmap"},
             th'[t].pc \in {"over", "unmap", "close"},
             \A u \in Threads \ {t} : th'[u] = th[u],
             UNCHANGED <<alive, head, cell>>, (UsesList(t) /\ UNCHANGED crowd) \/ Enter(t)
      PROVE  FaultInv'
    <2>1. th[t].pc \notin {"gohead", "gonext", "fill", "free"} /\ th'[t].pc \notin Shown
        BY <1>2 DEF Shown
    <2>2. crowd = {} \/ crowd' # {}
        BY <1>2 DEF Enter
    <2>3. Alone'
        BY <1>2, <2>1, <2>2, Quiet DEF FaultInv
    <2> QED
        BY <1>2, <2>3, Within
<1>3. CASE ChildOver(t)
    <2>1. /\ th[t].pc = "await" /\ Become(t, "over") /\ Enter(t)
          /\ UNCHANGED <<alive, head, cell>>
        BY <1>3 DEF ChildOver, At, OnlyThread
    <2> QED
        BY <1>2, <2>1, RecordIs
<1>4. CASE BeginUnmap(t)
    <2>1. CASE At(t, "over") /\ WalkMayFault /\ Die("faulted")
        BY <2>1, WalkFault DEF At
    <2>2. CASE /\ At(t, "over") /\ WalkEnds
               /\ th' = [th EXCEPT ![t].pc = "unmap", ![t].nxt = head,
                                   ![t].as = NsOf(Host(t))]
               /\ OnlyPc
        <3>1. /\ th[t].pc = "over" /\ UNCHANGED <<alive, head, cell, crowd>>
              /\ th'[t].pc = "unmap" /\ \A u \in Threads \ {t} : th'[u] = th[u]
            BY <1>1, <2>2 DEF At, OnlyPc, OnlyThread, listVars, ThreadRecord
        <3>2. UsesList(t)
            BY <3>1 DEF UsesList
        <3> QED
            BY <1>2, <3>1, <3>2
    <2> QED
        BY <1>4, <2>1, <2>2 DEF BeginUnmap
<1>5. CASE Unmap(t)
    <2>1. CASE At(t, "unmap") /\ head = NULL /\ Become(t, "close") /\ OnlyPc
        <3>1. UsesList(t) /\ UNCHANGED <<alive, head, cell, crowd>> /\ th[t].pc = "unmap"
            BY <2>1 DEF UsesList, At, OnlyPc, OnlyThread, listVars
        <3> QED
            BY <1>2, <2>1, <3>1, RecordIs
    <2>2. CASE head # NULL /\ Fault(t, "unmap", head)
        BY <2>2, FaultFault
    <2>3. CASE LogFault(t)
        BY <2>3, DieFault DEF LogFault
    <2>4. ASSUME At(t, "unmap"), ~Invalid(head), OnlyThread, UNCHANGED listVars,
                 NEW g, th' = [th EXCEPT ![t].pc = "take", ![t].gave = g]
          PROVE  FaultInv'
        <3>1. /\ UsesList(t) /\ UNCHANGED <<alive, head, cell, crowd>>
              /\ th[t].pc = "unmap" /\ head \in Cells
            BY <2>4 DEF UsesList, At, OnlyThread, listVars, Invalid
        <3>2. th'[t].pc = "take" /\ \A u \in Threads \ {t} : th'[u] = th[u]
            BY <1>1, <2>4 DEF ThreadRecord
        <3>3. ChainOf(t) /\ Holds(t) => ChainOf(t)' /\ Holds(t)'
            BY <3>1, <3>2, TakeList
        <3> QED
            BY <3>1, <3>2, <3>3, OnList
    <2> QED
        BY <1>5, <2>1, <2>2, <2>3, <2>4, UnmapIs
<1>6. CASE TakeHead(t)
    <2>1. CASE Fault(t, "pass", head)
        BY <2>1, FaultFault
    <2>2. CASE At(t, "take") /\ Point(t, "pass", head) /\ OnlyPc
        <3>1. UsesList(t) /\ UNCHANGED <<alive, head, cell, crowd>> /\ th[t].pc = "take"
            BY <2>2 DEF UsesList, At, OnlyPc, OnlyThread, listVars
        <3>2. /\ th'[t].pc = "pass" /\ th'[t].nxt = head
              /\ \A u \in Threads \ {t} : th'[u] = th[u]
            BY <2>2, RecordIs
        <3>3. ChainOf(t) /\ Holds(t) => ChainOf(t)' /\ Holds(t)'
            BY <3>1, <3>2, TakeList
        <3> QED
            BY <3>1, <3>2, <3>3, OnList
    <2>3. CASE /\ At(t, "pass") /\ head' = cell[head].next
               /\ Become(t, "free") /\ OnlyList /\ UNCHANGED cell
        <3>1. UsesList(t) /\ UNCHANGED <<alive, cell, crowd>> /\ th[t].pc = "pass"
            BY <2>3 DEF UsesList, At, OnlyList, OnlyThread
        <3>2. /\ th'[t].pc = "free" /\ th'[t].nxt = th[t].nxt
              /\ \A u \in Threads \ {t} : th'[u] = th[u]
            BY <2>3, RecordIs
        <3>3. ChainOf(t) /\ Holds(t) => ChainOf(t)' /\ Holds(t)'
            BY <2>3, <3>1, <3>2, PassList
        <3> QED
            BY <3>1, <3>2, <3>3, OnList
    <2> QED
        BY <1>6, <2>1, <2>2, <2>3 DEF TakeHead
<1>7. CASE Free(t)
    <2>1. CASE th[t].nxt # NULL /\ Fault(t, "free", th[t].nxt)
        BY <2>1, FaultFault
    <2>2. CASE /\ At(t, "free") /\ Become(t, "unmap") /\ OnlyList /\ UNCHANGED head
               /\ cell' = [x \in Cells |-> IF x = th[t].nxt
                                           THEN [cell[x] EXCEPT !.free = TRUE]
                                           ELSE cell[x]]
        <3>1. UsesList(t) /\ UNCHANGED <<alive, head, crowd>> /\ th[t].pc = "free"
            BY <2>2 DEF UsesList, At, OnlyList, OnlyThread
        <3>2. th'[t].pc = "unmap" /\ \A u \in Threads \ {t} : th'[u] = th[u]
            BY <2>2, RecordIs
        <3>3. ChainOf(t) /\ Holds(t) => ChainOf(t)' /\ Holds(t)'
            BY <2>2, <3>1, <3>2, FreeList
        <3> QED
            BY <3>1, <3>2, <3>3, OnList
    <2> QED
        BY <1>7, <2>1, <2>2 DEF Free
<1> QED
    BY <1>3, <1>4, <1>5, <1>6, <1>7

LEMMA FaultInit == Init => FaultInv
<1> SUFFICES ASSUME Init PROVE FaultInv
    OBVIOUS
<1>1. head = NULL /\ crowd = {} /\ \A c \in Cells : cell[c] = [RawCell EXCEPT !.free = TRUE]
    BY DEF Init
<1>2. \A u \in Threads : th[u].pc = "none" /\ th[u].round = 0
    BY DEF Init, Idle
<1>3. \A c : ~Live(c)
    BY <1>1 DEF Live, RawCell
<1>4. Chain
    BY <1>1, <1>3 DEF Chain, Sound
<1>5. \A u \in Threads : Holds(u) /\ ~UsesList(u)
    BY <1>2 DEF Holds, UsesList, At
<1>6. Met /\ Alone
    BY <1>4, <1>5 DEF Met, Alone
<1>7. alive = "running"
    BY DEF Init
<1> QED
    BY <1>6, <1>7 DEF FaultInv, FaultsTakeTwo

LEMMA FaultSame ==
    ASSUME FaultInv, UNCHANGED <<th, listVars>>,
           alive' = "faulted" => alive = "faulted"
    PROVE  FaultInv'
<1>1. Met'
    BY DEF FaultInv, Met, UsesList, listVars
<1>2. Alone'
    BY Quiet DEF FaultInv, listVars
<1> QED
    BY <1>1, <1>2 DEF FaultInv, FaultsTakeTwo, listVars

LEMMA FaultNext == TypeInv /\ FaultInv /\ [Next]_vars => FaultInv'
<1> SUFFICES ASSUME TypeInv, FaultInv, [Next]_vars PROVE FaultInv'
    OBVIOUS
<1>1. CASE ServiceHandler
    BY <1>1, DieFault DEF ServiceHandler
<1>2. CASE ServiceMain \/ UNCHANGED vars
    BY <1>2, FaultSame DEF ServiceMain, vars
<1>3. CASE \E t \in Threads : WaitForConnect(t) \/ Receive(t)
    BY <1>3, ServiceFault
<1>4. CASE \E t \in Threads : DoConnect(t)
    <2>1. PICK t \in Threads : DoConnect(t)
        BY <1>4
    <2>2. CASE EnumDiskAndRemap(t)
        BY <2>2, SearchFault, NotingFault, GivingFault, TakingFault
           DEF EnumDiskAndRemap
    <2>3. CASE ~EnumDiskAndRemap(t)
        BY <2>1, <2>3, ServiceFault DEF DoConnect
    <2> QED
        BY <2>2, <2>3
<1>5. CASE \/ \E t \in Threads : Attach(t) \/ ChildEnds(t)
           \/ \E d \in Devs : Install(d)
           \/ \E v \in Vols : Arrive(v)
           \/ \E h \in Hosts : LogOn(h) \/ LogOff(h)
    <2>1. UNCHANGED <<th, listVars, alive>>
        BY <1>5 DEF Attach, ChildEnds, Install, Arrive, LogOn, LogOff
    <2> QED
        BY <2>1, FaultSame
<1> QED
    BY <1>1, <1>2, <1>3, <1>4, <1>5 DEF Next

(* However often one thread finds volumes, whichever of its calls fail and    *)
(* whenever its usbip.exe or the process ends: as long as no other thread has *)
(* used the list of volumes at the same time, it never follows a pointer to a *)
(* freed or unfilled cell and frees none twice (StorIsolation.c:147-189,      *)
(* 401-426).  What another thread can do to it is not excluded: the list has  *)
(* no lock.                                                                   *)
THEOREM FaultsCorrect == Spec => []FaultsTakeTwo
<1>1. Spec => []FaultInv
    BY TypeInvariant, FaultInit, FaultNext, PTL DEF Spec
<1>2. FaultInv => FaultsTakeTwo
    BY DEF FaultInv
<1> QED
    BY <1>1, <1>2, PTL
=============================================================================
