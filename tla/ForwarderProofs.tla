--------------------------- MODULE ForwarderProofs ---------------------------
(***************************************************************************)
(* Proofs about Forwarder, for any number of URBs, slots and sizes: its    *)
(* types, that it stays in step with the connection, that it ends for a    *)
(* reason only, that every URB gets what its reply has for it, and that a  *)
(* selection gives the endpoints of what was selected.                     *)
(***************************************************************************)
EXTENDS Forwarder, SequenceLemmas, WellFoundedInduction

-----------------------------------------------------------------------------
(* The invariant                                                            *)

(* The driver's queue, and what is known of an URB where it is.             *)
QueueInv ==
  /\ queue \in Seq(Urbs) /\ Distinct(queue)
  /\ \A u \in Urbs : Holds(queue, u) <=> state[u] \in {"queued", "sent"}
UrbInv ==
  \A u \in Urbs :
    /\ state[u] = "new" <=> urb[u] = None
    /\ state[u] \in {"new", "queued"} => seq[u] = 0
    /\ state[u] # "done" => result[u] = NoResult
DriverOK ==
  /\ present \in BOOLEAN /\ reading \in BOOLEAN
  /\ state \in [Urbs -> {"new", "queued", "sent", "done"}]
  /\ urb = [u \in Urbs |-> urb[u]]
  /\ \A u \in Urbs : urb[u] \in set.kinds[u] \cup {None}
  /\ seq \in [Urbs -> 0 .. MaxSeq] /\ seqNum \in 0 .. MaxSeq
  /\ result = [u \in Urbs |-> result[u]]
  /\ config \in {<<>>, DeviceConfig}
  /\ QueueInv /\ UrbInv

(* The forwarder and the connection.                                        *)
Pcs == {"first dev", "first sock", "wait", "dev", "sock", "lost", "ended",
        "interrupted"}
LoopOK ==
  /\ sockReading \in BOOLEAN /\ closed \in BOOLEAN
  /\ short \in BOOLEAN /\ deaf \in BOOLEAN
  /\ slots \in [1 .. OutQLen -> 0 .. MaxSeq]
  /\ pc \in Pcs
  /\ sockDone \in Seq(Units) \cup {None} /\ stream \in Seq(Units)

TypeInv == set \in Settings /\ DriverOK /\ LoopOK

(* An URB that can no longer draw a number, and one that drew one, which    *)
(* may be 0.  The counter is n numbers behind the first, and n is not more  *)
(* than those that are spent; numbers that were drawn are among those n,    *)
(* and no two are the same.                                                 *)
Drew(u) == \/ state[u] = "sent" \/ replies[u] # None
           \/ \E p \in server : p.urb = u
           \/ readDone \notin {None, Failed} /\ readDone.urb = u
Spent == {u \in Urbs : state[u] \notin {"new", "queued"}}
Rank(s) == ((s + (MaxSeq + 1) - set.first - 1) % (MaxSeq + 1)) + 1
StandsAt(n) == IF n = 0 THEN seqNum = set.first ELSE Rank(seqNum) = n
NumberInv ==
  \E n \in 0 .. Cardinality(Spent) :
    /\ StandsAt(n)
    /\ \A u \in Urbs : seq[u] # 0 \/ Drew(u) => Rank(seq[u]) \in 1 .. n
DistinctInv ==
  \A u, v \in Urbs : seq[u] # 0 /\ u # v => seq[u] # seq[v]
DrewInv ==
  \A u, v \in Urbs : Drew(u) /\ Drew(v) /\ u # v => seq[u] # seq[v]

(* A packet that has not been answered, and a reply.                        *)
Made(p) ==
  /\ p.urb \in Urbs /\ state[p.urb] \in {"sent", "done"}
  /\ p \in PacketsOf(p.urb, urb[p.urb], seq[p.urb])
  /\ replies[p.urb] = None
PacketInv ==
  /\ \A p \in server : Made(p)
  /\ readDone \notin {None, Failed} => Made(readDone) /\ readDone \notin server
ReplyInv ==
  /\ replies = [u \in Urbs |-> replies[u]]
  /\ \A u \in Urbs : replies[u] # None =>
       /\ replies[u] \in ReplyRecords
       /\ replies[u].seq = seq[u] /\ state[u] \in {"sent", "done"}

(* The units that were sent and not looked at: whole replies, each unit     *)
(* behind the one before, up to the end of what a server has sent that      *)
(* closed.  They begin with a reply as long as someone will look at them.   *)
Total == [u \in Urbs |->
            IF replies[u] = None THEN 0
            ELSE Header + (IF IsIn(urb[u]) THEN replies[u].actual ELSE 0)
                        + replies[u].npackets * IsoDesc]
Whole(s, T, cut) ==
  /\ \A i \in 1 .. Len(s) : s[i][2] \in 1 .. T[s[i][1]]
  /\ Distinct(s)
  /\ \A i, j \in 1 .. Len(s) :
       i <= j /\ s[i][2] + (j - i) <= T[s[i][1]]
         => s[j] = <<s[i][1], s[i][2] + (j - i)>>
  /\ \A i \in 1 .. Len(s) - 1 : s[i][2] = T[s[i][1]] => s[i + 1][2] = 1
  /\ s # <<>> /\ ~cut => s[Len(s)][2] = T[s[Len(s)][1]]
Flow == IF sockDone = None THEN stream ELSE sockDone \o stream
FlowInv ==
  /\ \A i \in 1 .. Len(Flow) : replies[Flow[i][1]] # None
  /\ Whole(Flow, Total, closed)
Stopped == {"lost", "ended", "interrupted"}
Listening == /\ pc \notin Stopped
             /\ \/ pc \in {"first dev", "first sock", "sock"}
                \/ sockReading \/ sockDone # None
StartInv ==
  Listening /\ ~AnsweredZero /\ Flow # <<>> => Flow[1][2] = 1
ReadInv ==
  /\ sockReading => sockDone = None
  /\ pc \in {"first dev", "first sock", "sock"} => ~sockReading /\ sockDone = None
  /\ sockDone = <<>> => closed

(* The slots hold the numbers of OUT requests, each once; of those that are *)
(* not answered, unless one cannot tell any more.                           *)
SlotInv ==
  /\ \A i \in 1 .. OutQLen : slots[i] # 0 =>
       \E u \in Urbs : urb[u] # None /\ ~IsIn(urb[u]) /\ seq[u] = slots[i]
  /\ \A i, j \in 1 .. OutQLen : slots[i] # 0 /\ slots[i] = slots[j] => i = j
  /\ readDone \notin {None, Failed} /\ readDone.seq # 0 =>
       \A i \in 1 .. OutQLen : slots[i] # readDone.seq
  /\ \A u \in OutPending : seq[u] # 0 => \E i \in 1 .. OutQLen : slots[i] = seq[u]
LeakInv ==
  ~closed /\ ~short /\ ~AnsweredZero =>
    \A i \in 1 .. OutQLen : slots[i] # 0 => \E u \in OutPending : seq[u] = slots[i]

(* The packets of an isochronous request with offsets o: a[i] bytes of      *)
(* packet i have come, not more than there is room for before the next.     *)
Packed(n, o, a, len) ==
  /\ n \in Nat \ {0} /\ len \in Nat
  /\ \A i \in 1 .. n : o[i] \in Nat /\ a[i] \in Nat
  /\ \A i \in 1 .. n - 1 : o[i] + a[i] <= o[i + 1]
  /\ o[n] + a[n] <= len

(* A reply that fits a request: what a server in order answers it with.     *)
Fit(k, r) ==
  /\ r.actual \in 0 .. k.len
  /\ k.fn # "iso" => r.npackets = 0
  /\ k.fn = "iso" => r.npackets = Len(k.offsets) /\ r.offsets = k.offsets
  /\ k.fn = "iso" /\ k.in =>
       /\ Packed(Len(k.offsets), k.offsets, r.actuals, k.len)
       /\ Len(r.actuals) = Len(k.offsets)
       /\ r.actual = Before(r.actuals, Len(k.offsets) + 1)

FitInv == \A u \in Urbs : replies[u] # None => Fit(urb[u], replies[u])

(* An URB that was sent and is done before its answer was given was         *)
(* cancelled or went with the device; its answer comes too late.            *)
Late(res) == res.irp \in {"cancelled", "not connected"}
LateInv ==
  \A u \in Urbs : Drew(u) /\ replies[u] = None /\ state[u] = "done" => Late(result[u])

(* Why a read was completed with an error.                                  *)
Rejected == \E u \in Urbs : /\ urb[u] # None /\ result[u].irp = "invalid parameter"
                            /\ SetReadIrpData(urb[u], BigSize) = NoPacket
FailInv == readDone = Failed => ~present \/ Rejected

Inv ==
  /\ TypeInv /\ NumberInv /\ DistinctInv /\ DrewInv /\ PacketInv /\ ReplyInv
  /\ FlowInv /\ StartInv /\ ReadInv
  /\ SlotInv /\ LeakInv /\ FailInv /\ EndsForAReason /\ InStepUnlessZero
  /\ FitInv /\ LateInv /\ RightResult /\ PipesAreTheDevices

-----------------------------------------------------------------------------
(* Operators                                                                *)

(* A set of natural numbers has a least element. *)
LEMMA MinIsIn ==
  ASSUME NEW S \in SUBSET Nat, S # {}
  PROVE  Min(S) \in S /\ \A y \in S : Min(S) <= y
<1>1. IsWellFoundedOn(OpToRel(<, Nat), Nat)
  BY NatLessThanWellFounded
<1>2. PICK x \in S : \A y \in S : ~(<<y, x>> \in OpToRel(<, Nat))
  BY <1>1, WFMin
<1>3. \A y \in S : ~(y < x)
  BY <1>2 DEF OpToRel
<1>4. \A y \in S : x <= y
  BY <1>3
<1> QED BY <1>4 DEF Min

(* What a packet's lengths are.                                             *)
LEMMA PacketFacts ==
  ASSUME NEW k, IsUrb(k), NEW q \in SetReadIrpData(k, BigSize)
  PROVE  /\ q.in \in BOOLEAN /\ q.len \in Nat /\ q.lengths \in Seq(Int)
         /\ q.size \in Nat
         /\ q.in <=> IsIn(k)
         /\ q.size = Header + (IF q.in THEN 0 ELSE q.len) + Len(q.lengths) * IsoDesc
         /\ k.fn \notin {"unknown", "vendor other"} \cup Local
         /\ \A r \in SetReadIrpData(k, BigSize) : r = q
<1>1. /\ k.fn \in Functions /\ k.in \in BOOLEAN /\ k.mapped \in BOOLEAN
      /\ k.len \in Nat /\ k.offsets \in Seq(Nat)
      /\ Header \in Nat /\ IsoDesc \in Nat
  BY SizesAssumption DEF IsUrb
<1>2. <<>> \in Seq(Int) /\ Len(<<>>) = 0 /\ 0 * IsoDesc = 0
  BY <1>1
<1> DEFINE Is(in, len, lengths, size) ==
             q = [in |-> in, len |-> len, lengths |-> lengths, size |-> size]
<1>3. CASE k.fn = "bulk"
  <2>1. /\ Is(k.in, k.len, <<>>, Header + OutBytes(k))
        /\ SetReadIrpData(k, BigSize) = {q}
    BY <1>3 DEF SetReadIrpData, PrepareBulk, Packet, NoPacket
  <2>2. IsIn(k) <=> k.in
    BY <1>3 DEF IsIn
  <2>3. /\ q.in = k.in /\ q.len = k.len /\ q.lengths = <<>> /\ q.size = Header + OutBytes(k)
        /\ \A r \in SetReadIrpData(k, BigSize) : r = q
    BY <2>1
  <2>4. k.fn \notin {"unknown", "vendor other"} \cup Local
    BY <1>3 DEF Local
  <2>5. /\ q.size \in Nat
        /\ q.size = Header + (IF q.in THEN 0 ELSE q.len) + 0
    BY <1>1, <2>3 DEF OutBytes
  <2> QED BY <1>1, <1>2, <2>2, <2>3, <2>4, <2>5
<1>4. CASE k.fn = "iso"
  <2> DEFINE n == Len(k.offsets)
             lengths == [i \in 1 .. n |-> IsoLength(k, i)]
  <2>1. /\ Is(k.in, k.len, lengths, Header + OutBytes(k) + n * IsoDesc)
        /\ SetReadIrpData(k, BigSize) = {q}
    BY <1>4 DEF SetReadIrpData, PrepareIso, Packet, NoPacket
  <2>2. IsIn(k) <=> k.in
    BY <1>4 DEF IsIn
  <2>3. n \in Nat /\ \A i \in 1 .. n : k.offsets[i] \in Nat
    BY <1>1, LenProperties, ElementOfSeq
  <2>4. \A i \in 1 .. n : IsoLength(k, i) \in Int
    BY <1>1, <2>3 DEF IsoLength
  <2>5. lengths \in Seq(Int) /\ Len(lengths) = n
    BY <2>3, <2>4, IsASeq
  <2>6. n * IsoDesc \in Nat
    BY <1>1, <2>3
  <2> HIDE DEF n, lengths
  <2>7. /\ q.in = k.in /\ q.len = k.len /\ q.lengths = lengths
        /\ q.size = Header + OutBytes(k) + n * IsoDesc
        /\ \A r \in SetReadIrpData(k, BigSize) : r = q
    BY <2>1
  <2>8. k.fn \notin {"unknown", "vendor other"} \cup Local
    BY <1>4 DEF Local
  <2>9. /\ q.size \in Nat
        /\ q.size = Header + (IF q.in THEN 0 ELSE q.len) + n * IsoDesc
    BY <1>1, <2>6, <2>7 DEF OutBytes
  <2> QED BY <1>1, <2>2, <2>5, <2>7, <2>8, <2>9
<1>5. CASE k.fn \in {"class", "vendor"}
  <2>1. /\ Is(k.in, k.len, <<>>, Header + OutBytes(k))
        /\ SetReadIrpData(k, BigSize) = {q}
    BY <1>5 DEF SetReadIrpData, PrepareClassVendor, Packet, NoPacket
  <2>2. IsIn(k) <=> k.in
    BY <1>5 DEF IsIn
  <2>3. /\ q.in = k.in /\ q.len = k.len /\ q.lengths = <<>> /\ q.size = Header + OutBytes(k)
        /\ \A r \in SetReadIrpData(k, BigSize) : r = q
    BY <2>1
  <2>4. k.fn \notin {"unknown", "vendor other"} \cup Local
    BY <1>5 DEF Local
  <2>5. /\ q.size \in Nat
        /\ q.size = Header + (IF q.in THEN 0 ELSE q.len) + 0
    BY <1>1, <2>3 DEF OutBytes
  <2> QED BY <1>1, <1>2, <2>2, <2>3, <2>4, <2>5
<1>6. CASE k.fn \in {"device descriptor", "config descriptor",
                     "interface descriptor"}
  <2>1. /\ Is(TRUE, k.len, <<>>, Header) /\ SetReadIrpData(k, BigSize) = {q}
    BY <1>6 DEF SetReadIrpData, PrepareDescriptor, Packet, NoPacket
  <2>2. IsIn(k)
    BY <1>6 DEF IsIn
  <2>3. /\ q.in = TRUE /\ q.len = k.len /\ q.lengths = <<>> /\ q.size = Header
        /\ \A r \in SetReadIrpData(k, BigSize) : r = q
    BY <2>1
  <2>4. k.fn \notin {"unknown", "vendor other"} \cup Local
    BY <1>6 DEF Local
  <2>5. /\ q.size \in Nat
        /\ q.size = Header + (IF q.in THEN 0 ELSE q.len) + 0
    BY <1>1, <2>3
  <2> QED BY <1>1, <1>2, <2>2, <2>3, <2>4, <2>5
<1>7. CASE k.fn \in {"select interface", "reset port"}
  <2>1. /\ Is(FALSE, 0, <<>>, Header) /\ SetReadIrpData(k, BigSize) = {q}
    BY <1>7 DEF SetReadIrpData, PrepareShort, Packet, NoPacket
  <2>2. ~IsIn(k)
    BY <1>7 DEF IsIn
  <2>3. /\ q.in = FALSE /\ q.len = 0 /\ q.lengths = <<>> /\ q.size = Header
        /\ \A r \in SetReadIrpData(k, BigSize) : r = q
    BY <2>1
  <2>4. k.fn \notin {"unknown", "vendor other"} \cup Local
    BY <1>7 DEF Local
  <2>5. /\ q.size \in Nat
        /\ q.size = Header + (IF q.in THEN 0 ELSE q.len) + 0
    BY <1>1, <2>3
  <2>6. Len(q.lengths) * IsoDesc = 0
    BY <1>2, <2>3
  <2>7. q.in \in BOOLEAN /\ (q.in <=> IsIn(k))
    BY <2>2, <2>3, Zenon
  <2>8. q.len \in Nat /\ q.lengths \in Seq(Int)
    BY <1>2, <2>3
  <2>9. q.size = Header + (IF q.in THEN 0 ELSE q.len) + Len(q.lengths) * IsoDesc
    BY <2>5, <2>6
  <2> QED BY <2>3, <2>4, <2>5, <2>7, <2>8, <2>9
<1> QED
  <2>1. \/ k.fn = "bulk" \/ k.fn = "iso" \/ k.fn \in {"class", "vendor"}
        \/ k.fn \in {"device descriptor", "config descriptor",
                     "interface descriptor"}
        \/ k.fn \in {"select interface", "reset port"}
    <3> SUFFICES ASSUME k.fn \in Local \cup {"other descriptor", "vendor other", "unknown"}
                 PROVE  SetReadIrpData(k, BigSize) = {}
      BY <1>1 DEF Functions, Control
    <3> QED BY DEF SetReadIrpData, NoPacket, Local
  <2> QED BY <1>3, <1>4, <1>5, <1>6, <1>7, <2>1

LEMMA PacketsAre ==
  ASSUME NEW k, IsUrb(k), NEW u \in Urbs, NEW num \in 0 .. MaxSeq,
         NEW p \in PacketsOf(u, k, num)
  PROVE  /\ p \in PacketRecords /\ p.urb = u /\ p.seq = num
         /\ p.in <=> IsIn(k)
         /\ p.size = Expected(p)
         /\ \A q \in PacketsOf(u, k, num) : q = p
<1>1. PICK q \in SetReadIrpData(k, BigSize) :
        p = [in |-> q.in, len |-> q.len, lengths |-> q.lengths, size |-> q.size,
             urb |-> u, seq |-> num]
  BY DEF PacketsOf
<1>2. /\ p.in = q.in /\ p.len = q.len /\ p.lengths = q.lengths
      /\ p.size = q.size /\ p.urb = u /\ p.seq = num
  BY <1>1
<1>3. /\ q.in \in BOOLEAN /\ q.len \in Nat /\ q.lengths \in Seq(Int)
      /\ q.size \in Nat
      /\ q.in <=> IsIn(k)
      /\ q.size = Header + (IF q.in THEN 0 ELSE q.len) + Len(q.lengths) * IsoDesc
      /\ k.fn \notin {"unknown", "vendor other"} \cup Local
      /\ \A r \in SetReadIrpData(k, BigSize) : r = q
  BY PacketFacts
<1>4. p \in PacketRecords
  BY <1>1, <1>3 DEF PacketRecords
<1>5. p.size = Expected(p)
  BY <1>2, <1>3 DEF Expected
<1>6. \A r \in PacketsOf(u, k, num) : r = p
  BY <1>1, <1>3 DEF PacketsOf
<1> QED BY <1>2, <1>3, <1>4, <1>5, <1>6

LEMMA PacketRecord ==
  ASSUME NEW p \in PacketRecords
  PROVE  /\ p # None /\ p # Failed /\ p.in \in BOOLEAN /\ p.seq \in 0 .. MaxSeq
         /\ p.len \in Nat /\ p.lengths \in Seq(Int) /\ p.urb \in Urbs
BY ForwarderAssumption DEF PacketRecords

(* No packet can be made of an URB exactly if set_read_irp_data refuses.    *)
LEMMA NoPackets ==
  ASSUME NEW u, NEW k, NEW num
  PROVE  PacketsOf(u, k, num) = {} <=> SetReadIrpData(k, BigSize) = NoPacket
BY DEF PacketsOf, NoPacket

(* What an URB asks for, once it is submitted.                              *)
LEMMA KindOf ==
  ASSUME TypeInv, NEW u \in Urbs, urb[u] # None
  PROVE  urb[u] \in set.kinds[u] /\ IsUrb(urb[u])
BY ForwarderAssumption DEF TypeInv, DriverOK

LEMMA Constants ==
  /\ Header \in Nat \ {0} /\ IsoDesc \in Nat \ {0} /\ OutQLen \in Nat \ {0}
  /\ MaxSeq \in Nat \ {0} /\ BigSize \in Nat /\ Failed # None
  /\ IsFiniteSet(Urbs) /\ Cardinality(Urbs) <= MaxSeq + 1
  /\ \A s \in Settings : s.first \in 0 .. MaxSeq
BY ForwarderAssumption, SizesAssumption

LEMMA NextNumType ==
  ASSUME seqNum \in 0 .. MaxSeq PROVE NextNum \in 0 .. MaxSeq
BY Constants DEF NextNum

-----------------------------------------------------------------------------
(* Sums                                                                     *)

(* Induction, as the prover takes it: a set of numbers.                     *)
LEMMA Induction ==
  ASSUME NEW n \in Nat, NEW S, 0 \in S, \A i \in 0 .. n - 1 : i \in S => i + 1 \in S
  PROVE  \A i \in 0 .. n : i \in S
<1> DEFINE T == {i \in 0 .. n : i \notin S}
<1> SUFFICES ASSUME T # {} PROVE FALSE
  OBVIOUS
<1>1. IsWellFoundedOn(OpToRel(<, Nat), Nat)
  BY NatLessThanWellFounded
<1>2. T \in SUBSET Nat
  OBVIOUS
<1>3. PICK x \in T : \A y \in T : ~(<<y, x>> \in OpToRel(<, Nat))
  BY <1>1, <1>2, WFMin
<1>4. \A y \in T : ~(y < x)
  BY <1>2, <1>3 DEF OpToRel
<1>5. x \in 1 .. n /\ x - 1 \in 0 .. n - 1 /\ x - 1 \in 0 .. n
  OBVIOUS
<1>6. x - 1 \in S
  BY <1>4, <1>5
<1>7. (x - 1) + 1 = x
  BY <1>5
<1> QED BY <1>5, <1>6, <1>7

(* A sum that is counted up exists, and is the same up to where another     *)
(* ends.                                                                    *)
Sums(a, n, f) ==
  f = [j \in 0 .. n |-> IF j = 0 THEN 0 ELSE f[j - 1] + a[j]]

LEMMA SumsExist ==
  ASSUME NEW a, NEW n \in Nat
  PROVE  \E f : Sums(a, n, f)
<1> DEFINE S == {m \in Nat : \E f : Sums(a, m, f)}
<1>1. 0 \in S
  <2> DEFINE f == [j \in 0 .. 0 |-> 0]
  <2>1. f = [j \in 0 .. 0 |-> IF j = 0 THEN 0 ELSE f[j - 1] + a[j]]
    OBVIOUS
  <2> QED BY <2>1 DEF Sums
<1>2. ASSUME NEW m \in 0 .. n - 1, m \in S PROVE m + 1 \in S
  <2>1. PICK f : Sums(a, m, f)
    BY <1>2
  <2> DEFINE g == [j \in 0 .. m + 1 |-> IF j = m + 1 THEN f[m] + a[m + 1] ELSE f[j]]
  <2>2. ASSUME NEW j \in 0 .. m + 1
        PROVE  g[j] = IF j = 0 THEN 0 ELSE g[j - 1] + a[j]
    <3>1. CASE j = m + 1
      <4>1. j # 0 /\ j - 1 = m /\ m \in 0 .. m + 1 /\ m # m + 1
        BY <3>1
      <4> QED BY <3>1, <4>1
    <3>2. CASE j # m + 1
      <4>1. j \in 0 .. m
        BY <3>2
      <4>2. f[j] = IF j = 0 THEN 0 ELSE f[j - 1] + a[j]
        BY <2>1, <4>1 DEF Sums
      <4>3. j # 0 => j - 1 \in 0 .. m + 1 /\ j - 1 # m + 1
        BY <4>1
      <4>4. g[j] = f[j] /\ (j # 0 => g[j - 1] = f[j - 1])
        BY <3>2, <4>3
      <4> QED BY <4>2, <4>4
    <3> QED BY <3>1, <3>2
  <2> HIDE DEF g
  <2>3. g = [j \in 0 .. m + 1 |-> g[j]]
    BY DEF g
  <2>4. Sums(a, m + 1, g)
    BY <2>2, <2>3 DEF Sums
  <2> QED BY <2>4
<1> HIDE DEF S
<1>3. n \in S
  BY <1>1, <1>2, Induction
<1> QED BY <1>3 DEF S

LEMMA SumsAgree ==
  ASSUME NEW a, NEW b, NEW m \in Nat, NEW n \in Nat, m <= n, NEW f, NEW g,
         \A i \in 1 .. m : a[i] = b[i], Sums(a, m, f), Sums(b, n, g)
  PROVE  \A i \in 0 .. m : f[i] = g[i]
<1> DEFINE S == {i \in Nat : i <= m => f[i] = g[i]}
<1>1. /\ \A j \in 0 .. m : f[j] = IF j = 0 THEN 0 ELSE f[j - 1] + a[j]
      /\ \A j \in 0 .. n : g[j] = IF j = 0 THEN 0 ELSE g[j - 1] + b[j]
  BY DEF Sums
<1>2. 0 \in S
  BY <1>1
<1>3. ASSUME NEW i \in 0 .. m - 1, i \in S PROVE i + 1 \in S
  <2>1. i + 1 \in 0 .. m /\ i + 1 \in 0 .. n /\ i + 1 # 0 /\ (i + 1) - 1 = i
        /\ i + 1 \in 1 .. m /\ i <= m
    OBVIOUS
  <2>2. f[i + 1] = f[i] + a[i + 1] /\ g[i + 1] = g[i] + b[i + 1]
    BY <1>1, <2>1
  <2> QED BY <1>3, <2>1, <2>2
<1> HIDE DEF S
<1>4. \A i \in 0 .. m : i \in S
  BY <1>2, <1>3, Induction
<1> QED BY <1>4 DEF S

(* What comes before a packet: nothing before the first, and what came      *)
(* before the one before and this one's.                                    *)
LEMMA BeforeIs ==
  ASSUME NEW a, NEW i \in Nat \ {0}
  PROVE  \E f : Sums(a, i - 1, f) /\ Before(a, i) = f[i - 1]
<1> DEFINE n == i - 1
           f == CHOOSE f : Sums(a, n, f)
<1>1. n \in Nat
  OBVIOUS
<1>2. Sums(a, n, f)
  BY <1>1, SumsExist
<1>3. Before(a, i) = f[n]
  BY DEF Before, Sums
<1> QED BY <1>2, <1>3

LEMMA BeforeSteps ==
  ASSUME NEW a, NEW i \in Nat \ {0}
  PROVE  Before(a, 1) = 0 /\ Before(a, i + 1) = Before(a, i) + a[i]
<1>1. PICK f : Sums(a, 1 - 1, f) /\ Before(a, 1) = f[1 - 1]
  BY BeforeIs
<1>2. PICK g : Sums(a, i - 1, g) /\ Before(a, i) = g[i - 1]
  BY BeforeIs
<1>3. PICK h : Sums(a, (i + 1) - 1, h) /\ Before(a, i + 1) = h[(i + 1) - 1]
  BY BeforeIs
<1>4. /\ 1 - 1 = 0 /\ i - 1 \in Nat /\ (i + 1) - 1 = i /\ i - 1 <= i /\ i \in Nat
      /\ i # 0 /\ i \in 0 .. i /\ i - 1 \in 0 .. i - 1
  OBVIOUS
<1>5. Sums(a, 0, f) /\ Before(a, 1) = f[0]
  BY <1>1, <1>4
<1>6. f[0] = 0
  BY <1>5, 0 \in 0 .. 0 DEF Sums
<1>7. Sums(a, i, h) /\ Before(a, i + 1) = h[i]
  BY <1>3, <1>4
<1>8. h[i] = h[i - 1] + a[i]
  BY <1>4, <1>7 DEF Sums
<1>9. \A j \in 0 .. i - 1 : g[j] = h[j]
  <2> DEFINE m == i - 1
  <2>1. Sums(a, m, g) /\ m \in Nat /\ m <= i
    BY <1>2, <1>4
  <2> HIDE DEF m
  <2>2. \A j \in 0 .. m : g[j] = h[j]
    BY <1>4, <1>7, <2>1, SumsAgree
  <2> QED BY <2>2 DEF m
<1>10. h[i - 1] = g[i - 1]
  BY <1>4, <1>9
<1> QED BY <1>2, <1>5, <1>6, <1>7, <1>8, <1>10

LEMMA SumIs ==
  ASSUME NEW s, Len(s) \in Nat
  PROVE  SumOf(s) = Before(s, Len(s) + 1)
<1> DEFINE n == Len(s)
           f == CHOOSE f : Sums(s, n, f)
<1>1. (n + 1) - 1 = n /\ n + 1 \in Nat
  OBVIOUS
<1>2. SumOf(s) = f[n]
  BY DEF SumOf, Sums
<1>3. Before(s, n + 1) = f[(n + 1) - 1]
  BY <1>1 DEF Before, Sums
<1> QED BY <1>1, <1>2, <1>3

LEMMA BeforeSame ==
  ASSUME NEW a, NEW b, NEW i \in Nat \ {0}, \A j \in 1 .. i - 1 : a[j] = b[j]
  PROVE  Before(a, i) = Before(b, i)
<1>1. PICK f : Sums(a, i - 1, f) /\ Before(a, i) = f[i - 1]
  BY BeforeIs
<1>2. PICK g : Sums(b, i - 1, g) /\ Before(b, i) = g[i - 1]
  BY BeforeIs
<1>3. i - 1 \in Nat /\ i - 1 <= i - 1 /\ i - 1 \in 0 .. i - 1
  OBVIOUS
<1>4. f[i - 1] = g[i - 1]
  BY <1>1, <1>2, <1>3, SumsAgree
<1> QED BY <1>1, <1>2, <1>4

(* Places that follow each other.                                           *)
LEMMA Ascending ==
  ASSUME NEW n \in Nat, NEW s, \A i \in 1 .. n : s[i] \in Int,
         \A i \in 1 .. n - 1 : s[i] <= s[i + 1]
  PROVE  \A i, j \in 1 .. n : i <= j => s[i] <= s[j]
<1> SUFFICES ASSUME NEW i \in 1 .. n PROVE \A j \in 1 .. n : i <= j => s[i] <= s[j]
  OBVIOUS
<1> DEFINE S == {k \in Nat : i + k <= n => s[i] <= s[i + k]}
<1>1. 0 \in S
  OBVIOUS
<1>2. ASSUME NEW k \in 0 .. n - i - 1, k \in S PROVE k + 1 \in S
  <2>1. /\ i + k \in 1 .. n - 1 /\ i + k \in 1 .. n /\ i + (k + 1) = (i + k) + 1
        /\ i + (k + 1) \in 1 .. n /\ k + 1 \in Nat
    OBVIOUS
  <2>2. s[i] <= s[i + k] /\ s[i + k] <= s[(i + k) + 1]
    BY <1>2, <2>1
  <2>3. s[i] \in Int /\ s[i + k] \in Int /\ s[(i + k) + 1] \in Int
    BY <2>1
  <2> QED BY <2>1, <2>2, <2>3
<1> HIDE DEF S
<1>3. n - i \in Nat /\ (n - i) - 1 = n - i - 1
  OBVIOUS
<1>4. \A k \in 0 .. n - i : k \in S
  BY <1>1, <1>2, <1>3, Induction
<1>5. ASSUME NEW j \in 1 .. n, i <= j PROVE s[i] <= s[j]
  <2>1. j - i \in 0 .. n - i /\ i + (j - i) = j /\ i + (j - i) <= n
    BY <1>5
  <2>2. j - i \in S
    BY <1>4, <2>1
  <2> QED BY <2>1, <2>2 DEF S
<1> QED BY <1>5

LEMMA BeforeNat ==
  ASSUME NEW n \in Nat, NEW a, \A i \in 1 .. n : a[i] \in Nat
  PROVE  \A i \in 1 .. n + 1 : Before(a, i) \in Nat
<1> DEFINE S == {k \in Nat : Before(a, k + 1) \in Nat}
<1>1. 0 \in S
  <2>1. Before(a, 1) = 0 /\ 0 + 1 = 1
    BY BeforeSteps, 1 \in Nat \ {0}
  <2> QED BY <2>1
<1>2. ASSUME NEW k \in 0 .. n - 1, k \in S PROVE k + 1 \in S
  <2>1. k + 1 \in Nat \ {0} /\ k + 1 \in 1 .. n
    OBVIOUS
  <2>2. Before(a, (k + 1) + 1) = Before(a, k + 1) + a[k + 1]
    BY <2>1, BeforeSteps
  <2>3. a[k + 1] \in Nat /\ Before(a, k + 1) \in Nat
    BY <1>2, <2>1
  <2> QED BY <2>1, <2>2, <2>3
<1> HIDE DEF S
<1>3. \A k \in 0 .. n : k \in S
  BY <1>1, <1>2, Induction
<1>4. ASSUME NEW i \in 1 .. n + 1 PROVE Before(a, i) \in Nat
  <2>1. i - 1 \in 0 .. n /\ (i - 1) + 1 = i
    OBVIOUS
  <2>2. i - 1 \in S
    BY <1>3, <2>1
  <2> QED BY <2>1, <2>2 DEF S
<1> QED BY <1>4

LEMMA PackedFacts ==
  ASSUME NEW n, NEW o, NEW a, NEW len, Packed(n, o, a, len)
  PROVE  /\ \A i \in 1 .. n : o[i] + a[i] <= len
         /\ \A i, j \in 1 .. n : i < j => o[i] + a[i] <= o[j]
         /\ \A i \in 1 .. n : /\ Before(a, i) \in Nat
                              /\ Before(a, i + 1) = Before(a, i) + a[i]
                              /\ Before(a, i) + a[i] <= Before(a, n + 1)
         /\ Before(a, 1) = 0 /\ Before(a, n + 1) \in Nat
         /\ Before(a, n + 1) = len => \A i \in 1 .. n : Before(a, i) = o[i]
<1> DEFINE e == [i \in 1 .. n + 1 |-> IF i = n + 1 THEN len ELSE o[i]]
           b == [i \in 1 .. n + 1 |-> Before(a, i)]
           d == [i \in 1 .. n + 1 |-> e[i] - b[i]]
<1>1. /\ n \in Nat \ {0} /\ len \in Nat /\ n + 1 \in Nat
      /\ \A i \in 1 .. n : o[i] \in Nat /\ a[i] \in Nat
      /\ \A i \in 1 .. n - 1 : o[i] + a[i] <= o[i + 1]
      /\ o[n] + a[n] <= len
  BY DEF Packed
<1>2. \A i \in 1 .. n + 1 : b[i] \in Nat /\ b[i] = Before(a, i)
  BY <1>1, BeforeNat
<1>3. /\ b[1] = 0 /\ \A i \in 1 .. n : b[i + 1] = b[i] + a[i]
  <2>1. Before(a, 1) = 0 /\ \A i \in 1 .. n : Before(a, i + 1) = Before(a, i) + a[i]
    BY <1>1, BeforeSteps, 1 \in Nat \ {0}
  <2>2. 1 \in 1 .. n + 1 /\ \A i \in 1 .. n : i \in 1 .. n + 1 /\ i + 1 \in 1 .. n + 1
    BY <1>1
  <2> QED BY <2>1, <2>2
<1>4. /\ \A i \in 1 .. n + 1 : e[i] \in Nat
      /\ \A i \in 1 .. n : e[i] = o[i] /\ e[i] + a[i] <= e[i + 1]
      /\ e[n + 1] = len
  <2>1. n + 1 \in 1 .. n + 1 /\ \A i \in 1 .. n + 1 : i # n + 1 => i \in 1 .. n
    BY <1>1
  <2>2. \A i \in 1 .. n : i \in 1 .. n + 1 /\ i # n + 1 /\ i + 1 \in 1 .. n + 1
    BY <1>1
  <2>3. ASSUME NEW i \in 1 .. n PROVE e[i] + a[i] <= e[i + 1]
    <3>1. CASE i = n
      BY <1>1, <2>1, <2>2, <3>1
    <3>2. CASE i # n
      <4>1. i \in 1 .. n - 1 /\ i + 1 # n + 1
        BY <1>1, <3>2
      <4> QED BY <1>1, <2>2, <4>1
    <3> QED BY <3>1, <3>2
  <2> QED BY <1>1, <2>1, <2>2, <2>3
<1>5. \A i \in 1 .. n + 1 : d[i] = e[i] - b[i]
  OBVIOUS
<1> HIDE DEF e, b, d
<1>6. \A i \in 1 .. n + 1 : e[i] \in Int /\ b[i] \in Int /\ d[i] \in Int
  BY <1>2, <1>4, <1>5
<1>7. \A i \in 1 .. (n + 1) - 1 : e[i] <= e[i + 1] /\ b[i] <= b[i + 1] /\ d[i] <= d[i + 1]
  <2> TAKE i \in 1 .. (n + 1) - 1
  <2>1. i \in 1 .. n /\ i \in 1 .. n + 1 /\ i + 1 \in 1 .. n + 1 /\ a[i] \in Nat
    BY <1>1
  <2>2. /\ e[i] + a[i] <= e[i + 1] /\ b[i + 1] = b[i] + a[i]
        /\ d[i] = e[i] - b[i] /\ d[i + 1] = e[i + 1] - b[i + 1]
    BY <1>3, <1>4, <1>5, <2>1
  <2>3. e[i] \in Nat /\ e[i + 1] \in Nat /\ b[i] \in Nat /\ b[i + 1] \in Nat
    BY <1>2, <1>4, <2>1
  <2> QED BY <2>1, <2>2, <2>3
<1>8. \A i, j \in 1 .. n + 1 : i <= j => e[i] <= e[j]
  BY <1>1, <1>6, <1>7, Ascending
<1>9. \A i, j \in 1 .. n + 1 : i <= j => b[i] <= b[j]
  BY <1>1, <1>6, <1>7, Ascending
<1>10. \A i, j \in 1 .. n + 1 : i <= j => d[i] <= d[j]
  BY <1>1, <1>6, <1>7, Ascending
<1>11. ASSUME NEW i \in 1 .. n
       PROVE  /\ o[i] + a[i] <= len
              /\ \A j \in 1 .. n : i < j => o[i] + a[i] <= o[j]
              /\ b[i] + a[i] <= b[n + 1]
              /\ b[n + 1] = len => b[i] = o[i]
  <2>1. /\ i \in 1 .. n + 1 /\ i + 1 \in 1 .. n + 1 /\ n + 1 \in 1 .. n + 1
        /\ i + 1 <= n + 1 /\ i <= n + 1 /\ 1 \in 1 .. n + 1 /\ 1 <= i
    BY <1>1
  <2>2. e[i] = o[i] /\ e[i] + a[i] <= e[i + 1] /\ a[i] \in Nat /\ o[i] \in Nat
    BY <1>1, <1>4
  <2>3. e[i + 1] <= e[n + 1] /\ e[n + 1] = len /\ e[i + 1] \in Nat /\ len \in Nat
    BY <1>1, <1>4, <1>8, <2>1
  <2>4. o[i] + a[i] <= len
    BY <2>2, <2>3
  <2>5. ASSUME NEW j \in 1 .. n, i < j PROVE o[i] + a[i] <= o[j]
    <3>1. j \in 1 .. n + 1 /\ i + 1 <= j
      BY <1>1, <2>5
    <3>2. e[i + 1] <= e[j] /\ e[j] = o[j] /\ o[j] \in Nat
      BY <1>1, <1>4, <1>8, <2>1, <3>1
    <3> QED BY <2>2, <2>3, <3>2
  <2>6. b[i + 1] <= b[n + 1] /\ b[i + 1] = b[i] + a[i]
    BY <1>3, <1>9, <2>1
  <2>7. d[1] <= d[i] /\ d[i] <= d[n + 1]
    BY <1>10, <2>1
  <2>8. /\ d[1] = e[1] - b[1] /\ d[i] = e[i] - b[i] /\ d[n + 1] = e[n + 1] - b[n + 1]
        /\ e[1] \in Nat /\ b[1] = 0 /\ e[i] \in Nat /\ b[i] \in Nat /\ b[n + 1] \in Nat
    BY <1>2, <1>3, <1>4, <1>5, <2>1
  <2>9. b[n + 1] = len => b[i] = o[i]
    BY <2>2, <2>3, <2>7, <2>8
  <2> QED BY <2>4, <2>5, <2>6, <2>9
<1>12. /\ \A i \in 1 .. n : i \in 1 .. n + 1 /\ i + 1 \in 1 .. n + 1
       /\ 1 \in 1 .. n + 1 /\ n + 1 \in 1 .. n + 1
  BY <1>1
<1> QED BY <1>2, <1>3, <1>11, <1>12

(* When all has come, every place of the buffer belongs to a packet.        *)
LEMMA PackedFull ==
  ASSUME NEW n, NEW o, NEW a, NEW len, Packed(n, o, a, len), Before(a, n + 1) = len
  PROVE  \A x \in 0 .. len - 1 : \E i \in 1 .. n : x \in o[i] .. o[i] + a[i] - 1
<1> SUFFICES ASSUME NEW x \in 0 .. len - 1,
                    \A i \in 1 .. n : x \notin o[i] .. o[i] + a[i] - 1
             PROVE  FALSE
  OBVIOUS
<1>1. /\ n \in Nat /\ len \in Nat
      /\ \A i \in 1 .. n : o[i] \in Nat /\ a[i] \in Nat
      /\ \A i \in 1 .. n : Before(a, i) = o[i] /\ Before(a, i + 1) = o[i] + a[i]
      /\ Before(a, 1) = 0
  <2>1. /\ \A i \in 1 .. n : Before(a, i + 1) = Before(a, i) + a[i]
        /\ \A i \in 1 .. n : Before(a, i) = o[i]
        /\ Before(a, 1) = 0
    BY PackedFacts
  <2> QED BY <2>1 DEF Packed
<1> DEFINE S == {k \in Nat : x >= Before(a, k + 1)}
<1>2. 0 \in S
  <2>1. 0 + 1 = 1 /\ x >= 0
    OBVIOUS
  <2>2. x >= Before(a, 0 + 1)
    BY <1>1, <2>1
  <2> QED BY <2>2
<1>3. ASSUME NEW k \in 0 .. n - 1, k \in S PROVE k + 1 \in S
  <2>1. k + 1 \in 1 .. n /\ k + 1 \in Nat
    BY <1>1
  <2>2. /\ o[k + 1] \in Nat /\ a[k + 1] \in Nat /\ Before(a, k + 1) = o[k + 1]
        /\ Before(a, (k + 1) + 1) = o[k + 1] + a[k + 1]
    BY <1>1, <2>1
  <2>3. x >= o[k + 1] /\ x \notin o[k + 1] .. o[k + 1] + a[k + 1] - 1
    BY <1>3, <2>1, <2>2
  <2>4. x >= o[k + 1] + a[k + 1]
    BY <1>1, <2>2, <2>3
  <2> QED BY <2>1, <2>2, <2>4
<1> HIDE DEF S
<1>4. n \in S
  <2>1. \A k \in 0 .. n : k \in S
    BY <1>1, <1>2, <1>3, Induction
  <2> QED BY <1>1, <2>1
<1>5. x >= Before(a, n + 1)
  BY <1>4 DEF S
<1> QED BY <1>1, <1>5

-----------------------------------------------------------------------------
(* The shape of the state                                                   *)

(* One URB leaves the queue and is completed.                               *)
LEMMA QueueTaken ==
  ASSUME DriverOK, NEW i \in DOMAIN queue, queue' = RemoveAt(queue, i),
         state' = [state EXCEPT ![queue[i]] = "done"]
  PROVE  /\ queue[i] \in Urbs /\ state[queue[i]] \in {"queued", "sent"}
         /\ QueueInv'
<1>1. queue \in Seq(Urbs) /\ Distinct(queue)
  BY DEF DriverOK, QueueInv
<1>2. LET r == RemoveAt(queue, i) IN
      /\ queue[i] \in Urbs
      /\ r \in Seq(Urbs) /\ Distinct(r)
      /\ \A u \in Urbs : Holds(r, u) <=> Holds(queue, u) /\ u # queue[i]
  BY <1>1, RemoveAtDistinct
<1>3. Holds(queue, queue[i])
  BY DEF Holds
<1>4. /\ queue' \in Seq(Urbs) /\ Distinct(queue)'
      /\ \A u \in Urbs : Holds(queue, u)' <=> Holds(queue, u) /\ u # queue[i]
  BY <1>2 DEF Holds, Distinct
<1>5. /\ state[queue[i]] \in {"queued", "sent"}
      /\ \A u \in Urbs : Holds(queue, u) <=> state[u] \in {"queued", "sent"}
  BY <1>2, <1>3 DEF DriverOK, QueueInv
<1>6. \A u \in Urbs : state'[u] = IF u = queue[i] THEN "done" ELSE state[u]
  BY DEF DriverOK
<1>7. \A u \in Urbs : Holds(queue, u)' <=> state'[u] \in {"queued", "sent"}
  BY <1>4, <1>5, <1>6
<1> QED BY <1>2, <1>4, <1>5, <1>7 DEF QueueInv

(* One comes to its end.                                                    *)
LEMMA QueueAdded ==
  ASSUME DriverOK, NEW u \in Urbs, state[u] = "new", queue' = Append(queue, u),
         NEW s \in {"queued", "sent"}, state' = [state EXCEPT ![u] = s]
  PROVE  QueueInv'
<1>1. queue \in Seq(Urbs) /\ Distinct(queue) /\ ~Holds(queue, u)
  BY DEF DriverOK, QueueInv
<1>2. LET r == Append(queue, u) IN
      /\ r \in Seq(Urbs) /\ Distinct(r)
      /\ \A v \in Urbs : Holds(r, v) <=> Holds(queue, v) \/ v = u
  BY <1>1, AppendDistinct
<1>3. /\ queue' \in Seq(Urbs) /\ Distinct(queue)'
      /\ \A v \in Urbs : Holds(queue, v)' <=> Holds(queue, v) \/ v = u
  BY <1>2 DEF Holds, Distinct
<1>4. \A v \in Urbs : Holds(queue, v) <=> state[v] \in {"queued", "sent"}
  BY DEF DriverOK, QueueInv
<1>5. \A v \in Urbs : state'[v] = IF v = u THEN s ELSE state[v]
  BY DEF DriverOK
<1>6. \A v \in Urbs : Holds(queue, v)' <=> state'[v] \in {"queued", "sent"}
  BY <1>3, <1>4, <1>5
<1> QED BY <1>3, <1>6 DEF QueueInv

LEMMA QueueSame ==
  ASSUME QueueInv, queue' = queue,
         \A u \in Urbs : state'[u] \in {"queued", "sent"}
                           <=> state[u] \in {"queued", "sent"}
  PROVE  QueueInv'
BY DEF QueueInv, Holds, Distinct

(* A set of places of the queue has a least one.                            *)
LEMMA LeastPlace ==
  ASSUME DriverOK, NEW S \in SUBSET (1 .. Len(queue)), S # {}
  PROVE  Min(S) \in S /\ Min(S) \in DOMAIN queue
<1>1. Len(queue) \in Nat /\ DOMAIN queue = 1 .. Len(queue)
  BY LenProperties DEF DriverOK, QueueInv
<1>2. S \in SUBSET Nat
  BY <1>1
<1> QED BY <1>1, <1>2, MinIsIn

LEMMA TypeFollows == TypeInv => TypeOK
<1> SUFFICES ASSUME TypeInv PROVE TypeOK
  OBVIOUS
<1>1. /\ DOMAIN queue = 1 .. Len(queue)
      /\ \A i \in DOMAIN queue : queue[i] \in Urbs
  BY LenProperties, ElementOfSeq DEF TypeInv, DriverOK, QueueInv
<1>2. Range(queue) = {u \in Urbs : state[u] \in {"queued", "sent"}}
  BY <1>1 DEF TypeInv, DriverOK, QueueInv, Holds, Range
<1> QED BY <1>2 DEF TypeInv, DriverOK, LoopOK, TypeOK, Pcs

LEMMA TypeInit == Init => TypeInv
<1> SUFFICES ASSUME Init PROVE TypeInv
  OBVIOUS
<1>1. set \in Settings /\ set.first \in 0 .. MaxSeq
  BY Constants DEF Init
<1>2. /\ queue = <<>> /\ state = [u \in Urbs |-> "new"]
      /\ urb = [u \in Urbs |-> None] /\ seq = [u \in Urbs |-> 0]
      /\ result = [u \in Urbs |-> NoResult]
      /\ seqNum = set.first /\ config = <<>>
  BY DEF Init
<1>3. present \in BOOLEAN /\ reading \in BOOLEAN
  BY DEF Init
<1>4. QueueInv
  <2>1. queue \in Seq(Urbs) /\ DOMAIN queue = {}
    BY <1>2
  <2>2. \A u \in Urbs : state[u] = "new"
    BY <1>2
  <2> QED BY <2>1, <2>2 DEF QueueInv, Distinct, Holds
<1>5. UrbInv
  BY <1>2 DEF UrbInv
<1>6. DriverOK
  <2>1. state \in [Urbs -> {"new", "queued", "sent", "done"}]
    BY <1>2
  <2>2. urb = [u \in Urbs |-> urb[u]] /\ \A u \in Urbs : urb[u] = None
    BY <1>2
  <2>3. result = [u \in Urbs |-> result[u]]
    BY <1>2
  <2>4. seq \in [Urbs -> 0 .. MaxSeq] /\ seqNum \in 0 .. MaxSeq
    BY <1>1, <1>2, Constants
  <2> QED BY <1>2, <1>3, <1>4, <1>5, <2>1, <2>2, <2>3, <2>4 DEF DriverOK
<1>7. LoopOK
  <2>1. /\ sockReading \in BOOLEAN /\ closed \in BOOLEAN
        /\ short \in BOOLEAN /\ deaf \in BOOLEAN /\ pc \in Pcs
    BY DEF Init, Pcs
  <2>2. slots = [i \in 1 .. OutQLen |-> 0] /\ sockDone = None /\ stream = <<>>
    BY DEF Init
  <2>3. slots \in [1 .. OutQLen -> 0 .. MaxSeq] /\ stream \in Seq(Units)
    BY <2>2, Constants
  <2> QED BY <2>1, <2>2, <2>3 DEF LoopOK
<1> QED BY <1>1, <1>6, <1>7 DEF TypeInv

(* An URB is taken out of the queue and completed.                          *)
LEMMA DriverEnds ==
  ASSUME DriverOK, NEW i \in DOMAIN queue, queue' = RemoveAt(queue, i),
         NEW r, Complete(queue[i], r), UNCHANGED <<set, urb, seq>>,
         present' \in BOOLEAN, reading' \in BOOLEAN, seqNum' \in 0 .. MaxSeq,
         config' \in {<<>>, DeviceConfig}
  PROVE  DriverOK'
<1>1. state' = [state EXCEPT ![queue[i]] = "done"]
  BY DEF Complete
<1>2. queue[i] \in Urbs /\ state[queue[i]] \in {"queued", "sent"} /\ QueueInv'
  BY <1>1, QueueTaken
<1>3. result' = [u \in Urbs |-> result'[u]]
      /\ \A u \in Urbs : u # queue[i] => result'[u] = result[u]
  BY <1>2 DEF Complete, DriverOK
<1>4. /\ state' \in [Urbs -> {"new", "queued", "sent", "done"}]
      /\ \A u \in Urbs : state'[u] = IF u = queue[i] THEN "done" ELSE state[u]
  BY <1>1 DEF DriverOK
<1>5. UrbInv'
  BY <1>2, <1>3, <1>4 DEF DriverOK, UrbInv
<1> QED BY <1>2, <1>3, <1>4, <1>5 DEF DriverOK

(* A queued or new URB gets a number and is sent.                           *)
LEMMA DriverSends ==
  ASSUME DriverOK, NEW u \in Urbs, state' = [state EXCEPT ![u] = "sent"],
         seq' = [seq EXCEPT ![u] = NextNum], seqNum' = NextNum,
         QueueInv', urb' = [v \in Urbs |-> urb'[v]],
         urb'[u] \in set.kinds[u], urb'[u] # None,
         \A v \in Urbs \ {u} : urb'[v] = urb[v],
         state[u] \in {"new", "queued"},
         UNCHANGED <<set, present, result, config>>, reading' \in BOOLEAN
  PROVE  DriverOK'
<1>1. NextNum \in 0 .. MaxSeq
  BY NextNumType DEF DriverOK
<1>2. /\ state' \in [Urbs -> {"new", "queued", "sent", "done"}]
      /\ \A v \in Urbs : state'[v] = IF v = u THEN "sent" ELSE state[v]
      /\ seq' \in [Urbs -> 0 .. MaxSeq]
      /\ \A v \in Urbs : v # u => seq'[v] = seq[v]
  BY <1>1 DEF DriverOK
<1>3. UrbInv'
  BY <1>2 DEF DriverOK, UrbInv
<1> QED BY <1>1, <1>2, <1>3 DEF DriverOK

LEMMA SubmitDriver ==
  ASSUME DriverOK, set \in Settings, UNCHANGED set, NEW u \in Urbs,
         NEW k \in set.kinds[u], Submit(u, k)
  PROVE  DriverOK'
<1>1. /\ state[u] = "new" /\ urb' = [urb EXCEPT ![u] = k]
      /\ UNCHANGED <<present, config>>
  BY DEF Submit
<1>2. IsUrb(k) /\ k # None
  BY ForwarderAssumption
<1>3. /\ urb' = [v \in Urbs |-> urb'[v]] /\ urb'[u] = k
      /\ \A v \in Urbs \ {u} : urb'[v] = urb[v]
  BY <1>1 DEF DriverOK
<1>4. ASSUME NEW r, Complete(u, r), UNCHANGED <<seq, queue>>,
             seqNum' \in 0 .. MaxSeq, reading' \in BOOLEAN
      PROVE  DriverOK'
  <2>1. /\ state' = [state EXCEPT ![u] = "done"]
        /\ state' \in [Urbs -> {"new", "queued", "sent", "done"}]
        /\ \A v \in Urbs : state'[v] = IF v = u THEN "done" ELSE state[v]
    BY <1>4 DEF Complete, DriverOK
  <2>2. result' = [v \in Urbs |-> result'[v]]
        /\ \A v \in Urbs : v # u => result'[v] = result[v]
    BY <1>4 DEF Complete, DriverOK
  <2>3. QueueInv'
    BY <1>1, <1>4, <2>1, QueueSame DEF DriverOK
  <2>4. UrbInv'
    BY <1>1, <1>2, <1>3, <1>4, <2>1, <2>2 DEF DriverOK, UrbInv
  <2> QED BY <1>1, <1>3, <1>4, <2>1, <2>2, <2>3, <2>4 DEF DriverOK
<1>5. CASE ~reading /\ UNCHANGED reading /\ UNCHANGED <<seq, seqNum, result>>
           /\ state' = [state EXCEPT ![u] = "queued"] /\ queue' = Append(queue, u)
  <2>1. QueueInv'
    BY <1>1, <1>5, QueueAdded
  <2>2. /\ state' \in [Urbs -> {"new", "queued", "sent", "done"}]
        /\ \A v \in Urbs : state'[v] = IF v = u THEN "queued" ELSE state[v]
    BY <1>5 DEF DriverOK
  <2>3. UrbInv'
    BY <1>1, <1>2, <1>3, <1>5, <2>2 DEF DriverOK, UrbInv
  <2> QED BY <1>1, <1>3, <1>5, <2>1, <2>2, <2>3 DEF DriverOK
<1>6. CASE seqNum' = NextNum /\ reading' = FALSE /\ UNCHANGED result
           /\ state' = [state EXCEPT ![u] = "sent"]
           /\ seq' = [seq EXCEPT ![u] = NextNum] /\ queue' = Append(queue, u)
  <2>1. QueueInv'
    BY <1>1, <1>6, QueueAdded
  <2> QED BY <1>1, <1>2, <1>3, <1>6, <2>1, DriverSends
<1>7. NextNum \in 0 .. MaxSeq /\ seqNum \in 0 .. MaxSeq /\ reading \in BOOLEAN
  BY NextNumType DEF DriverOK
<1>8. CASE UNCHANGED <<seq, seqNum, queue, reading>> /\ \E r : Complete(u, r)
  BY <1>4, <1>7, <1>8
<1>9. CASE /\ UNCHANGED <<seq, queue>> /\ seqNum' = NextNum /\ reading' = FALSE
           /\ \E r : Complete(u, r)
  BY <1>4, <1>7, <1>9
<1> QED BY <1>5, <1>6, <1>8, <1>9 DEF Submit

LEMMA DrainDriver ==
  ASSUME DriverOK, UNCHANGED set, Drain PROVE DriverOK'
<1>1. /\ present' = FALSE /\ reading' = FALSE /\ queue' = <<>>
      /\ UNCHANGED <<urb, seq, seqNum, config>>
  BY DEF Drain
<1>2. /\ DOMAIN queue = 1 .. Len(queue)
      /\ \A i \in DOMAIN queue : queue[i] \in Urbs
  BY LenProperties, ElementOfSeq DEF DriverOK, QueueInv
<1>3. Range(queue) = {u \in Urbs : state[u] \in {"queued", "sent"}}
  BY <1>2 DEF DriverOK, QueueInv, Holds, Range
<1>4. /\ state' \in [Urbs -> {"new", "queued", "sent", "done"}]
      /\ \A u \in Urbs : state'[u] = IF state[u] = "new" THEN "new" ELSE "done"
  BY <1>3 DEF Drain, DriverOK
<1>5. result' = [u \in Urbs |-> result'[u]]
      /\ \A u \in Urbs : state[u] = "new" => result'[u] = result[u]
  BY <1>3 DEF Drain
<1>6. QueueInv'
  <2>1. queue' \in Seq(Urbs) /\ DOMAIN queue' = {}
    BY <1>1
  <2>2. \A u \in Urbs : state'[u] \notin {"queued", "sent"}
    BY <1>4
  <2> QED BY <2>1, <2>2 DEF QueueInv, Distinct, Holds
<1>7. UrbInv'
  BY <1>1, <1>4, <1>5 DEF DriverOK, UrbInv
<1> QED BY <1>1, <1>4, <1>5, <1>6, <1>7 DEF DriverOK

-----------------------------------------------------------------------------
(* What the forwarder does with what it reads                               *)

LEMMA ReplyFacts ==
  ASSUME TypeInv, ReplyInv, NEW u \in Urbs, replies[u] # None
  PROVE  /\ replies[u] \in ReplyRecords
         /\ replies[u].actual \in Nat /\ replies[u].npackets \in Nat
         /\ replies[u].npackets * IsoDesc \in Nat
         /\ replies[u].seq = seq[u] /\ replies[u].seq \in 0 .. MaxSeq
         /\ state[u] \in {"sent", "done"} /\ urb[u] # None
         /\ Total[u] \in Nat /\ Total[u] >= Header /\ Header >= 1
<1>1. /\ replies[u] \in ReplyRecords /\ replies[u].seq = seq[u]
      /\ state[u] \in {"sent", "done"}
  BY DEF ReplyInv
<1>2. /\ replies[u].actual \in Nat /\ replies[u].npackets \in Nat
      /\ replies[u].seq \in 0 .. MaxSeq
  BY <1>1 DEF ReplyRecords
<1>3. replies[u].npackets * IsoDesc \in Nat
  BY <1>2, Constants
<1>4. Total[u] \in Nat /\ Total[u] >= Header /\ Header >= 1
  BY <1>2, <1>3, Constants DEF Total
<1>5. urb[u] # None
  BY <1>1 DEF TypeInv, DriverOK, UrbInv
<1> QED BY <1>1, <1>2, <1>3, <1>4, <1>5

LEMMA FlowSeq ==
  ASSUME TypeInv
  PROVE  /\ Flow \in Seq(Units) /\ Len(Flow) \in Nat
         /\ \A i \in 1 .. Len(Flow) : /\ Flow[i] \in Units /\ Flow[i][1] \in Urbs
                                      /\ Flow[i][2] \in Nat
                                      /\ Flow[i] = <<Flow[i][1], Flow[i][2]>>
<1>1. Flow \in Seq(Units)
  BY ConcatProperties DEF Flow, TypeInv, LoopOK
<1>2. Len(Flow) \in Nat /\ \A i \in 1 .. Len(Flow) : Flow[i] \in Units
  BY <1>1, LenProperties, ElementOfSeq
<1> QED BY <1>1, <1>2 DEF Units

(* The rest of a sequence behind its first k elements.                      *)
LEMMA TailIs ==
  ASSUME NEW S, NEW s \in Seq(S), NEW k \in 0 .. Len(s)
  PROVE  /\ SubSeq(s, k + 1, Len(s)) \in Seq(S)
         /\ Len(SubSeq(s, k + 1, Len(s))) = Len(s) - k
         /\ \A i \in 1 .. Len(s) - k : SubSeq(s, k + 1, Len(s))[i] = s[k + i]
<1>1. Len(s) \in Nat /\ k \in Nat /\ k <= Len(s)
  BY LenProperties
<1>2. \A i \in k + 1 .. Len(s) : s[i] \in S
  BY <1>1, ElementOfSeq
<1>3. k + 1 \in Int /\ Len(s) \in Int
  BY <1>1
<1> DEFINE t == SubSeq(s, k + 1, Len(s))
<1> HIDE DEF t
<1>4. /\ t \in Seq(S) /\ Len(t) = IF k + 1 <= Len(s) THEN Len(s) - (k + 1) + 1 ELSE 0
      /\ \A i \in 1 .. Len(s) - (k + 1) + 1 : t[i] = s[(k + 1) + i - 1]
  BY <1>2, <1>3, SubSeqProperties DEF t
<1>5. /\ Len(t) = Len(s) - k /\ Len(s) - (k + 1) + 1 = Len(s) - k
      /\ \A i \in 1 .. Len(s) - k : (k + 1) + i - 1 = k + i
  BY <1>1, <1>4
<1> QED BY <1>4, <1>5 DEF t

(* The first k elements.                                                    *)
LEMMA FrontIs ==
  ASSUME NEW S, NEW s \in Seq(S), NEW k \in 0 .. Len(s)
  PROVE  /\ SubSeq(s, 1, k) \in Seq(S) /\ Len(SubSeq(s, 1, k)) = k
         /\ \A i \in 1 .. k : SubSeq(s, 1, k)[i] = s[i]
<1>1. Len(s) \in Nat /\ k \in Nat /\ k <= Len(s)
  BY LenProperties
<1>2. \A i \in 1 .. k : s[i] \in S
  BY <1>1, ElementOfSeq
<1>3. k \in Int /\ 1 \in Int
  BY <1>1
<1> DEFINE t == SubSeq(s, 1, k)
<1> HIDE DEF t
<1>4. /\ t \in Seq(S) /\ Len(t) = IF 1 <= k THEN k - 1 + 1 ELSE 0
      /\ \A i \in 1 .. k - 1 + 1 : t[i] = s[1 + i - 1]
  BY <1>2, <1>3, SubSeqProperties DEF t
<1>5. Len(t) = k /\ k - 1 + 1 = k /\ \A i \in 1 .. k : 1 + i - 1 = i
  BY <1>1, <1>4
<1> QED BY <1>4, <1>5 DEF t

(* What is taken from the stream at once is its beginning.                  *)
LEMMA Taking ==
  ASSUME TypeInv, NEW n \in 0 .. Header, SockTakes(n)
  PROVE  /\ n \in 0 .. Len(stream)
         /\ n = 0 => stream = <<>> /\ closed
         /\ SubSeq(stream, 1, n) \in Seq(Units)
         /\ SubSeq(stream, 1, n) = <<>> => n = 0
         /\ SubSeq(stream, n + 1, Len(stream)) \in Seq(Units)
         /\ stream = SubSeq(stream, 1, n) \o SubSeq(stream, n + 1, Len(stream))
<1>1. stream \in Seq(Units) /\ Len(stream) \in Nat
  BY LenProperties DEF TypeInv, LoopOK
<1>2. Min({Header, Len(stream)}) <= Len(stream)
  <2>1. {Header, Len(stream)} \in SUBSET Nat
    BY <1>1, Constants
  <2> QED BY <2>1, MinIsIn
<1>3. Min({Header, Len(stream)}) \in Nat
  <2>1. {Header, Len(stream)} \in SUBSET Nat
    BY <1>1, Constants
  <2> QED BY <2>1, MinIsIn
<1>4. n \in 0 .. Len(stream) /\ (n = 0 => stream = <<>> /\ closed)
  BY <1>1, <1>2, <1>3 DEF SockTakes
<1>5. /\ SubSeq(stream, 1, n) \in Seq(Units) /\ Len(SubSeq(stream, 1, n)) = n
      /\ SubSeq(stream, n + 1, Len(stream)) \in Seq(Units)
  BY <1>1, <1>4, FrontIs, TailIs
<1>6. SubSeq(stream, 1, n) = <<>> => n = 0
  BY <1>5
<1>7. stream = SubSeq(stream, 1, n) \o SubSeq(stream, n + 1, Len(stream))
  <2>1. 1 \in 1 .. Len(stream) + 1 /\ n \in 1 - 1 .. Len(stream)
        /\ Len(stream) \in n .. Len(stream)
    BY <1>1, <1>4
  <2>2. SubSeq(stream, 1, n) \o SubSeq(stream, n + 1, Len(stream))
          = SubSeq(stream, 1, Len(stream))
    BY <1>1, <2>1, ConcatAdjacentSubSeq
  <2> QED BY <1>1, <2>2, SubSeqFull
<1> QED BY <1>4, <1>5, <1>6, <1>7

(* Either way the forwarder looks at what was sent first.                   *)
Look(got, rest) ==
  /\ WriteToDev(got, rest) /\ Flow = got \o rest
  /\ got = <<>> => closed
  /\ Listening /\ ~sockReading /\ sockDone' = None
  /\ \/ pc \in {"first sock", "sock"} /\ sockDone = None
     \/ pc = "wait"
  /\ UNCHANGED <<sockReading, server, replies, closed>>

LEMMA Looks ==
  ASSUME TypeInv, ReadInv, SockRead \/ SockReadCompleted
  PROVE  \E got, rest \in Seq(Units) : Look(got, rest)
<1>1. CASE SockRead
  <2>1. PICK n \in 0 .. Header : /\ SockTakes(n)
          /\ WriteToDev(SubSeq(stream, 1, n), SubSeq(stream, n + 1, Len(stream)))
    BY <1>1 DEF SockRead
  <2>2. /\ pc \in {"first sock", "sock"}
        /\ UNCHANGED <<sockReading, sockDone, server, replies, closed>>
    BY <1>1 DEF SockRead
  <2>3. ~sockReading /\ sockDone = None /\ Listening
    BY <2>2 DEF ReadInv, Listening, Stopped
  <2>4. Flow = stream
    BY <2>3 DEF Flow
  <2>5. Look(SubSeq(stream, 1, n), SubSeq(stream, n + 1, Len(stream)))
    BY <2>1, <2>2, <2>3, <2>4, Taking DEF Look
  <2> QED BY <2>1, <2>5, Taking
<1>2. CASE SockReadCompleted
  <2>1. /\ pc = "wait" /\ sockDone # None /\ WriteToDev(sockDone, stream)
        /\ sockDone' = None /\ UNCHANGED <<sockReading, server, replies, closed>>
    BY <1>2 DEF SockReadCompleted
  <2>2. sockDone \in Seq(Units) /\ stream \in Seq(Units)
    BY <2>1 DEF TypeInv, LoopOK
  <2>3. Flow = sockDone \o stream /\ Listening /\ ~sockReading
    BY <2>1 DEF Flow, Listening, Stopped, ReadInv
  <2>4. Look(sockDone, stream)
    BY <2>1, <2>3 DEF Look, ReadInv
  <2> QED BY <2>2, <2>4
<1> QED BY <1>1, <1>2

(* A header that was read is the header of a reply.                         *)
LEMMA HeaderIs ==
  ASSUME TypeInv, ReplyInv, FlowInv, NEW got \in Seq(Units),
         NEW rest \in Seq(Units), Flow = got \o rest, IsHeader(got)
  PROVE  /\ got[1][1] \in Urbs /\ replies[got[1][1]] # None
         /\ Len(got) = Header /\ Len(Flow) = Header + Len(rest)
         /\ Flow[1] = <<got[1][1], 1>>
         /\ \A i \in 1 .. Len(rest) : Flow[Header + i] = rest[i]
<1>1. PICK u \in Urbs : got = [i \in 1 .. Header |-> <<u, i>>]
  BY DEF IsHeader
<1>2. Len(got) = Header /\ got[1] = <<u, 1>> /\ Header \in Nat /\ Header >= 1
  BY <1>1, Constants, LenProperties
<1>3. Len(rest) \in Nat
  BY LenProperties
<1>4. /\ Len(Flow) = Len(got) + Len(rest)
      /\ \A i \in 1 .. Len(got) + Len(rest) : Flow[i] =
           IF i <= Len(got) THEN got[i] ELSE rest[i - Len(got)]
  BY ConcatProperties
<1>5. Flow[1] = <<u, 1>> /\ 1 \in 1 .. Len(Flow)
  BY <1>2, <1>3, <1>4
<1>6. got[1][1] = u /\ Flow[1][1] = u
  BY <1>2, <1>5
<1>7. replies[u] # None
  BY <1>5, <1>6 DEF FlowInv
<1>8. ASSUME NEW i \in 1 .. Len(rest) PROVE Flow[Header + i] = rest[i]
  <2>1. Header + i \in 1 .. Len(got) + Len(rest) /\ ~(Header + i <= Len(got))
        /\ (Header + i) - Len(got) = i
    BY <1>2, <1>3
  <2> QED BY <1>4, <2>1
<1> QED BY <1>2, <1>3, <1>4, <1>5, <1>6, <1>7, <1>8

(* The first k of the units are no longer there.                            *)
Dropped(k) ==
  /\ Len(Flow') = Len(Flow) - k
  /\ \A i \in 1 .. Len(Flow) - k : Flow'[i] = Flow[k + i]

(* What was answered stays so. *)
Answered == \A u \in Urbs : replies[u] # None => replies'[u] = replies[u]
                                                 /\ urb'[u] = urb[u]

LEMMA TotalSame ==
  ASSUME Answered, NEW u \in Urbs, replies[u] # None
  PROVE  replies'[u] # None /\ Total'[u] = Total[u]
BY DEF Answered, Total

(* What is left behind the first k units is as whole.                       *)
LEMMA WholeTail ==
  ASSUME NEW F \in Seq(Units), NEW G \in Seq(Units), NEW k \in 0 .. Len(F),
         Len(G) = Len(F) - k, \A i \in 1 .. Len(F) - k : G[i] = F[k + i],
         NEW T, NEW U, \A i \in 1 .. Len(F) : U[F[i][1]] = T[F[i][1]],
         NEW c, NEW d, c => d, Whole(F, T, c)
  PROVE  Whole(G, U, d)
<1> DEFINE n == Len(F) - k
<1>1. /\ Len(F) \in Nat /\ k \in Nat /\ k <= Len(F) /\ n \in Nat
      /\ Len(G) = n /\ DOMAIN G = 1 .. n /\ DOMAIN F = 1 .. Len(F)
  BY LenProperties
<1>3. \A i \in 1 .. n : k + i \in 1 .. Len(F) /\ G[i] = F[k + i]
  BY <1>1
<1>5. \A i \in 1 .. Len(F) : U[F[i][1]] = T[F[i][1]]
  OBVIOUS
<1> HIDE DEF n
<1>10. \A i \in 1 .. n : G[i][2] \in 1 .. U[G[i][1]]
  BY <1>3, <1>5 DEF Whole
<1>11. Distinct(G)
  <2> SUFFICES ASSUME NEW i \in 1 .. n, NEW j \in 1 .. n, G[i] = G[j] PROVE i = j
    BY <1>1 DEF Distinct
  <2>1. F[k + i] = F[k + j] /\ k + i \in DOMAIN F /\ k + j \in DOMAIN F
    BY <1>1, <1>3
  <2>2. k + i = k + j
    BY <2>1 DEF Whole, Distinct
  <2> QED BY <1>1, <2>2
<1>12. ASSUME NEW i \in 1 .. n, NEW j \in 1 .. n, i <= j,
              G[i][2] + (j - i) <= U[G[i][1]]
       PROVE  G[j] = <<G[i][1], G[i][2] + (j - i)>>
  <2>1. /\ k + i \in 1 .. Len(F) /\ k + j \in 1 .. Len(F) /\ k + i <= k + j
        /\ (k + j) - (k + i) = j - i /\ G[i] = F[k + i] /\ G[j] = F[k + j]
    BY <1>1, <1>3, <1>12
  <2>2. F[k + i][2] + ((k + j) - (k + i)) <= T[F[k + i][1]]
    BY <1>5, <1>12, <2>1
  <2>3. F[k + j] = <<F[k + i][1], F[k + i][2] + ((k + j) - (k + i))>>
    BY <2>1, <2>2 DEF Whole
  <2> QED BY <2>1, <2>3
<1>13. ASSUME NEW i \in 1 .. n - 1, G[i][2] = U[G[i][1]]
       PROVE  G[i + 1][2] = 1
  <2>1. /\ k + i \in 1 .. Len(F) - 1 /\ i \in 1 .. n /\ i + 1 \in 1 .. n
        /\ k + (i + 1) = (k + i) + 1
    BY <1>1, <1>13 DEF n
  <2>2. G[i] = F[k + i] /\ G[i + 1] = F[(k + i) + 1] /\ k + i \in 1 .. Len(F)
    BY <1>3, <2>1
  <2>3. F[k + i][2] = T[F[k + i][1]]
    BY <1>5, <1>13, <2>2
  <2>4. F[(k + i) + 1][2] = 1
    BY <2>1, <2>3 DEF Whole
  <2> QED BY <2>2, <2>4
<1>14. ASSUME G # <<>>, ~d PROVE G[n][2] = U[G[n][1]]
  <2>1. n # 0
    BY <1>1, <1>14, EmptySeq
  <2>2. n \in 1 .. n /\ k + n = Len(F) /\ Len(F) \in 1 .. Len(F)
    BY <1>1, <2>1 DEF n
  <2>3. F # <<>>
    BY <2>2, EmptySeq
  <2>4. F[Len(F)][2] = T[F[Len(F)][1]]
    BY <1>14, <2>3 DEF Whole
  <2>5. G[n] = F[Len(F)]
    BY <1>3, <2>2
  <2> QED BY <1>5, <2>2, <2>4, <2>5
<1>15. Len(G) = n
  BY <1>1
<1> QED BY <1>10, <1>11, <1>12, <1>13, <1>14, <1>15 DEF Whole

LEMMA FlowKept ==
  ASSUME TypeInv, TypeInv', FlowInv, NEW k \in 0 .. Len(Flow), Dropped(k), Answered,
         closed => closed'
  PROVE  FlowInv'
<1>1. Flow \in Seq(Units) /\ Len(Flow) \in Nat /\ \A i \in 1 .. Len(Flow) : Flow[i][1] \in Urbs
  BY FlowSeq
<1>2. Flow' \in Seq(Units)
  BY ConcatProperties DEF Flow, TypeInv, LoopOK
<1>3. \A i \in 1 .. Len(Flow) : /\ replies'[Flow[i][1]] # None
                               /\ Total'[Flow[i][1]] = Total[Flow[i][1]]
  BY <1>1, TotalSame DEF FlowInv
<1>4. Whole(Flow', Total', closed')
  BY <1>1, <1>2, <1>3, WholeTail DEF FlowInv, Dropped
<1>5. \A i \in 1 .. Len(Flow') : Flow'[i] = Flow[k + i] /\ k + i \in 1 .. Len(Flow)
  BY <1>1 DEF Dropped
<1>6. \A i \in 1 .. Len(Flow') : replies'[Flow'[i][1]] # None
  BY <1>3, <1>5
<1> QED BY <1>4, <1>6 DEF FlowInv, Whole, Distinct

(* A reply behind whole ones.                                               *)
LEMMA WholeAppend ==
  ASSUME NEW F \in Seq(Units), NEW T, Whole(F, T, FALSE),
         NEW u \in Urbs, NEW m \in Nat, NEW G \in Seq(Units), Len(G) = m,
         \A i \in 1 .. m : G[i] = <<u, i>>,
         \A i \in 1 .. Len(F) : F[i][1] # u,
         NEW U, \A i \in 1 .. Len(F) : /\ U[F[i][1]] = T[F[i][1]]
                                        /\ T[F[i][1]] \in Nat,
         U[u] \in Nat, m <= U[u], m > 0, NEW d, m = U[u] \/ d
  PROVE  Whole(F \o G, U, d)
<1> DEFINE n == Len(F)
           H == F \o G
<1>1. /\ n \in Nat /\ Len(H) = n + m /\ DOMAIN H = 1 .. n + m /\ DOMAIN F = 1 .. n
      /\ \A i \in 1 .. n + m : H[i] = IF i <= n THEN F[i] ELSE G[i - n]
  <2>1. n \in Nat /\ DOMAIN F = 1 .. n
    BY LenProperties
  <2>2. /\ H \in Seq(Units) /\ Len(H) = n + m
        /\ \A i \in 1 .. n + m : H[i] = IF i <= n THEN F[i] ELSE G[i - n]
    BY ConcatProperties
  <2> HIDE DEF n, H
  <2>3. DOMAIN H = 1 .. n + m
    BY <2>2, LenProperties
  <2> QED BY <2>1, <2>2, <2>3
<1> HIDE DEF H
<1>2. \A i \in 1 .. n : i \in 1 .. n + m /\ H[i] = F[i]
  BY <1>1
<1>3. \A i \in n + 1 .. n + m : /\ i \in 1 .. n + m /\ i - n \in 1 .. m
                                /\ H[i] = <<u, i - n>>
  BY <1>1
<1>4. \A i \in 1 .. n + m : i \in 1 .. n \/ i \in n + 1 .. n + m
  BY <1>1
<1>5. /\ \A i \in n + 1 .. n + m : H[i][1] = u /\ H[i][2] = i - n
      /\ \A i \in 1 .. n : F[i] \in Units /\ F[i][2] \in Nat
  <2>1. \A i \in n + 1 .. n + m : H[i][1] = u /\ H[i][2] = i - n
    BY <1>3
  <2>2. \A i \in 1 .. n : F[i] \in Units
    BY ElementOfSeq
  <2> QED BY <2>1, <2>2 DEF Units
<1> HIDE DEF n
<1>6. \A i \in 1 .. n + m : H[i][2] \in 1 .. U[H[i][1]]
  <2>1. \A i \in 1 .. n : H[i][2] \in 1 .. U[H[i][1]]
    BY <1>2 DEF Whole, n
  <2>2. \A i \in n + 1 .. n + m : H[i][2] \in 1 .. U[H[i][1]]
    BY <1>1, <1>5
  <2> QED BY <1>4, <2>1, <2>2
<1>7. Distinct(H)
  <2> SUFFICES ASSUME NEW i \in 1 .. n + m, NEW j \in 1 .. n + m, H[i] = H[j]
               PROVE  i = j
    BY <1>1 DEF Distinct
  <2>1. CASE i \in 1 .. n /\ j \in 1 .. n
    BY <1>1, <1>2, <2>1 DEF Whole, Distinct
  <2>2. CASE i \in n + 1 .. n + m /\ j \in n + 1 .. n + m
    <3>1. i - n = j - n
      BY <1>5, <2>2
    <3> QED BY <1>1, <2>2, <3>1
  <2>3. \A x \in 1 .. n, y \in n + 1 .. n + m : H[x] # H[y]
    BY <1>2, <1>5 DEF n
  <2> QED BY <1>4, <2>1, <2>2, <2>3
<1>8. ASSUME NEW i \in 1 .. n + m, NEW j \in 1 .. n + m, i <= j,
             H[i][2] + (j - i) <= U[H[i][1]]
      PROVE  H[j] = <<H[i][1], H[i][2] + (j - i)>>
  <2>1. CASE i \in n + 1 .. n + m
    <3>1. j \in n + 1 .. n + m
      BY <1>1, <1>8, <2>1
    <3>2. H[i][2] + (j - i) = j - n
      BY <1>1, <1>5, <2>1
    <3> QED BY <1>3, <1>5, <2>1, <3>1, <3>2
  <2>2. CASE i \in 1 .. n
    <3>1. F[i][2] + (j - i) <= T[F[i][1]]
      BY <1>2, <1>8, <2>2 DEF n
    <3>2. CASE j \in 1 .. n
      <4>1. F[j] = <<F[i][1], F[i][2] + (j - i)>>
        BY <1>8, <2>2, <3>1, <3>2 DEF Whole, n
      <4> QED BY <1>2, <2>2, <3>2, <4>1
    <3>3. CASE j \in n + 1 .. n + m
      <4>1. /\ n \in 1 .. n /\ i <= n /\ n - i < j - i
            /\ F # <<>>
        BY <1>1, <2>2, <3>3, EmptySeq DEF n
      <4>2. F[i][2] + (n - i) < T[F[i][1]] /\ T[F[i][1]] \in Int
        <5>1. T[F[i][1]] \in Nat
          BY <2>2 DEF n
        <5>2. F[i][2] \in Nat /\ i \in Nat /\ j \in Nat
          BY <1>1, <1>5, <2>2
        <5> DEFINE a == F[i][2]
                   b == T[F[i][1]]
        <5>3. a \in Nat /\ b \in Nat /\ a + (j - i) <= b
          BY <3>1, <5>1, <5>2
        <5> HIDE DEF a, b
        <5>4. a + (n - i) < b
          BY <1>1, <4>1, <5>2, <5>3
        <5> QED BY <5>1, <5>4 DEF a, b
      <4>3. F[n] = <<F[i][1], F[i][2] + (n - i)>>
        <5>1. F[i][2] + (n - i) <= T[F[i][1]]
          BY <1>1, <1>5, <2>2, <4>2
        <5>2. i \in 1 .. Len(F) /\ n \in 1 .. Len(F) /\ i <= n
          BY <2>2, <4>1 DEF n
        <5> QED BY <5>1, <5>2 DEF Whole
      <4>4. F[n][2] = T[F[n][1]]
        BY <4>1 DEF Whole, n
      <4> QED BY <4>2, <4>3, <4>4
    <3> QED BY <1>4, <3>2, <3>3
  <2> QED BY <1>4, <2>1, <2>2
<1>9. ASSUME NEW i \in 1 .. n + m - 1, H[i][2] = U[H[i][1]]
      PROVE  H[i + 1][2] = 1
  <2>1. CASE i + 1 \in 1 .. n
    <3>1. i \in 1 .. n /\ i \in 1 .. n - 1
      BY <1>1, <1>9, <2>1
    <3>2. F[i][2] = T[F[i][1]]
      BY <1>2, <1>9, <3>1 DEF n
    <3>3. F[i + 1][2] = 1
      BY <3>1, <3>2 DEF Whole, n
    <3> QED BY <1>2, <2>1, <3>3
  <2>2. CASE i = n
    <3>1. i + 1 \in n + 1 .. n + m /\ (i + 1) - n = 1
      BY <1>1, <2>2
    <3> QED BY <1>5, <3>1
  <2>3. CASE i \in n + 1 .. n + m
    <3>1. i - n = U[u]
      BY <1>5, <1>9, <2>3
    <3> QED BY <1>1, <1>9, <2>3, <3>1
  <2>4. i + 1 \in 1 .. n \/ i = n \/ i \in n + 1 .. n + m
    BY <1>1, <1>9
  <2> QED BY <2>1, <2>2, <2>3, <2>4
<1>10. ASSUME ~d PROVE H[n + m][2] = U[H[n + m][1]]
  <2>1. n + m \in n + 1 .. n + m /\ (n + m) - n = m
    BY <1>1
  <2> QED BY <1>5, <1>10, <2>1
<1>11. Len(H) = n + m
  BY <1>1
<1>12. Whole(H, U, d)
  <2>1. \A i \in 1 .. Len(H) : H[i][2] \in 1 .. U[H[i][1]]
    BY <1>6, <1>11
  <2>2. \A i, j \in 1 .. Len(H) :
          i <= j /\ H[i][2] + (j - i) <= U[H[i][1]]
            => H[j] = <<H[i][1], H[i][2] + (j - i)>>
    <3> TAKE i, j \in 1 .. Len(H)
    <3> HAVE i <= j /\ H[i][2] + (j - i) <= U[H[i][1]]
    <3>1. i \in 1 .. n + m /\ j \in 1 .. n + m
      BY <1>11
    <3> QED BY <1>8, <3>1
  <2>3. \A i \in 1 .. Len(H) - 1 : H[i][2] = U[H[i][1]] => H[i + 1][2] = 1
    <3> TAKE i \in 1 .. Len(H) - 1
    <3>1. i \in 1 .. n + m - 1
      BY <1>1, <1>11
    <3> QED BY <1>9, <3>1
  <2>4. H # <<>> /\ ~d => H[Len(H)][2] = U[H[Len(H)][1]]
    BY <1>10, <1>11
  <2> QED BY <1>7, <2>1, <2>2, <2>3, <2>4 DEF Whole
<1> QED BY <1>12 DEF H

-----------------------------------------------------------------------------
(* Every step keeps the types                                               *)

LEMMA DriverSame ==
  ASSUME DriverOK, UNCHANGED <<set, present, urb, state, seq, queue, result, config>>,
         reading' \in BOOLEAN, seqNum' \in 0 .. MaxSeq
  PROVE  DriverOK'
<1>1. QueueInv' /\ UrbInv'
  BY DEF DriverOK, QueueInv, UrbInv, Holds, Distinct
<1> QED BY <1>1 DEF DriverOK

(* The reply is for the URB at a place of the queue, or for none.           *)
LEMMA BusWriteIs ==
  ASSUME DriverOK, NEW r, NEW n, NEW data, BusWrite(r, n, data)
  PROVE  /\ UNCHANGED <<present, urb, seq, seqNum, reading, readDone>>
         /\ config' \in {config, DeviceConfig}
         /\ \/ UNCHANGED driverVars
            \/ \E i \in DOMAIN queue : \E x :
                 Complete(queue[i], x) /\ queue' = RemoveAt(queue, i)
<1> DEFINE hits == {i \in 1 .. Len(queue) : seq[queue[i]] = r.seq}
<1>1. CASE present /\ hits # {}
  <2>1. Min(hits) \in DOMAIN queue
    BY <1>1, LeastPlace
  <2>2. /\ \E x : Complete(queue[Min(hits)], x)
        /\ queue' = RemoveAt(queue, Min(hits))
        /\ UNCHANGED <<present, urb, seq, seqNum, reading, readDone>>
    BY <1>1 DEF BusWrite
  <2>3. config' \in {config, DeviceConfig}
    BY <1>1 DEF BusWrite
  <2> QED BY <2>1, <2>2, <2>3
<1>2. CASE ~(present /\ hits # {})
  <2>1. UNCHANGED driverVars
    BY <1>2 DEF BusWrite
  <2> QED BY <2>1 DEF driverVars
<1> QED BY <1>1, <1>2

LEMMA BusWriteDriver ==
  ASSUME DriverOK, UNCHANGED set, NEW r, NEW n, NEW data, BusWrite(r, n, data)
  PROVE  DriverOK'
<1>1. present \in BOOLEAN /\ reading \in BOOLEAN /\ seqNum \in 0 .. MaxSeq
      /\ config \in {<<>>, DeviceConfig}
  BY DEF DriverOK
<1>2. /\ UNCHANGED <<present, urb, seq, seqNum, reading, readDone>>
      /\ config' \in {<<>>, DeviceConfig}
  BY <1>1, BusWriteIs
<1>3. CASE UNCHANGED driverVars
  BY <1>1, <1>3, DriverSame DEF driverVars
<1>4. ASSUME NEW i \in DOMAIN queue, NEW x, Complete(queue[i], x),
             queue' = RemoveAt(queue, i)
      PROVE  DriverOK'
  BY <1>1, <1>2, <1>4, DriverEnds
<1> QED BY <1>3, <1>4, BusWriteIs

LEMMA UnsentIs ==
  ASSUME DriverOK, Unsent # {}
  PROVE  /\ Min(Unsent) \in DOMAIN queue
         /\ queue[Min(Unsent)] \in Urbs /\ state[queue[Min(Unsent)]] = "queued"
<1>1. Unsent \in SUBSET (1 .. Len(queue))
  BY DEF Unsent
<1>2. Min(Unsent) \in Unsent /\ Min(Unsent) \in DOMAIN queue
  BY <1>1, LeastPlace
<1>3. queue[Min(Unsent)] \in Urbs
  BY <1>2, LenProperties, ElementOfSeq DEF DriverOK, QueueInv
<1> QED BY <1>2, <1>3 DEF Unsent

(* An URB that waits in the queue is sent, with the packet made of it.      *)
LEMMA DevReadIs ==
  ASSUME DriverOK, DevRead
  PROVE  \E u \in Urbs : \E p \in PacketsOf(u, urb[u], NextNum) :
           /\ state[u] = "queued" /\ u = queue[Min(Unsent)]
           /\ state' = [state EXCEPT ![u] = "sent"]
           /\ seq' = [seq EXCEPT ![u] = NextNum]
           /\ seqNum' = NextNum /\ WriteToSock(p)
<1>1. Unsent # {} /\ seqNum' = NextNum
  BY DEF DevRead
<1>2. /\ Min(Unsent) \in DOMAIN queue
      /\ queue[Min(Unsent)] \in Urbs /\ state[queue[Min(Unsent)]] = "queued"
  BY <1>1, UnsentIs
<1>3. \E p \in PacketsOf(queue[Min(Unsent)], urb[queue[Min(Unsent)]], NextNum) :
          /\ state' = [state EXCEPT ![queue[Min(Unsent)]] = "sent"]
          /\ seq' = [seq EXCEPT ![queue[Min(Unsent)]] = NextNum]
          /\ WriteToSock(p)
  BY DEF DevRead
<1> QED BY <1>1, <1>2, <1>3

LEMMA DevReadDriver ==
  ASSUME DriverOK, UNCHANGED set, DevRead PROVE DriverOK'
<1>1. PICK u \in Urbs : /\ state[u] = "queued"
                        /\ state' = [state EXCEPT ![u] = "sent"]
                        /\ seq' = [seq EXCEPT ![u] = NextNum]
                        /\ seqNum' = NextNum
  BY DevReadIs
<1>2. UNCHANGED <<present, urb, queue, reading, result, config>>
  BY DEF DevRead
<1>3. urb[u] # None /\ urb = [v \in Urbs |-> urb[v]] /\ urb[u] \in set.kinds[u]
      /\ reading \in BOOLEAN
  BY <1>1 DEF DriverOK, UrbInv
<1>4. \A v \in Urbs : state'[v] \in {"queued", "sent"} <=> state[v] \in {"queued", "sent"}
  BY <1>1 DEF DriverOK
<1>5. QueueInv'
  BY <1>2, <1>4, QueueSame DEF DriverOK
<1> QED BY <1>1, <1>2, <1>3, <1>5, DriverSends

LEMMA RejectedIs ==
  ASSUME DriverOK, DevReadRejected
  PROVE  LET u == queue[Min(Unsent)] IN
         /\ u \in Urbs /\ state[u] = "queued" /\ Min(Unsent) \in DOMAIN queue
         /\ Complete(u, Refused("invalid parameter"))
         /\ queue' = RemoveAt(queue, Min(Unsent)) /\ seqNum' = NextNum
         /\ PacketsOf(u, urb[u], NextNum) = {}
<1>1. Unsent # {} /\ seqNum' = NextNum
  BY DEF DevReadRejected
<1>2. /\ Complete(queue[Min(Unsent)], Refused("invalid parameter"))
      /\ queue' = RemoveAt(queue, Min(Unsent))
      /\ PacketsOf(queue[Min(Unsent)], urb[queue[Min(Unsent)]], NextNum) = {}
  BY DEF DevReadRejected
<1> QED BY <1>1, <1>2, UnsentIs

LEMMA DriverNext == TypeInv /\ Next => DriverOK'
<1> SUFFICES ASSUME TypeInv, Next PROVE DriverOK'
  OBVIOUS
<1>1. /\ DriverOK /\ UNCHANGED set /\ reading \in BOOLEAN /\ present \in BOOLEAN
      /\ seqNum \in 0 .. MaxSeq /\ set \in Settings
      /\ config \in {<<>>, DeviceConfig} /\ NextNum \in 0 .. MaxSeq
  BY NextNumType DEF TypeInv, DriverOK, Next
<1>2. CASE UNCHANGED driverVars
  BY <1>1, <1>2, DriverSame DEF driverVars
<1>3. CASE DevReadLost \/ SockReadWaits \/ SockArrives \/ Interrupt \/ Close
  BY <1>2, <1>3
     DEF DevReadLost, SockReadWaits, SockArrives, Interrupt, Close
<1>4. CASE DevReadWaits
  BY <1>1, <1>4, DriverSame DEF DevReadWaits
<1>5. CASE DevReadRejected
  <2>1. UNCHANGED <<present, urb, seq, reading, config>>
    BY <1>5 DEF DevReadRejected
  <2> QED BY <1>1, <1>5, <2>1, RejectedIs, DriverEnds
<1>6. CASE DevRead
  BY <1>1, <1>6, DevReadDriver
<1>7. CASE DevReadCompleted
  BY <1>1, <1>7, DriverSame DEF DevReadCompleted
<1>8. CASE SockRead \/ SockReadCompleted
  <2>1. ASSUME NEW got, NEW rest, WriteToDev(got, rest) PROVE DriverOK'
    <3>1. CASE UNCHANGED driverVars
      BY <1>2, <3>1
    <3>2. CASE \E r, n, data : BusWrite(r, n, data)
      BY <1>1, <3>2, BusWriteDriver
    <3> QED BY <2>1, <3>1, <3>2 DEF WriteToDev
  <2> QED BY <1>8, <2>1 DEF SockRead, SockReadCompleted
<1>9. CASE Exit \/ Unplug
  BY <1>1, <1>9, DrainDriver DEF Exit, Unplug
<1>10. ASSUME NEW u \in Urbs, Cancel(u) PROVE DriverOK'
  <2>1. PICK i \in DOMAIN queue : queue[i] = u /\ queue' = RemoveAt(queue, i)
    BY <1>10 DEF Cancel
  <2>2. /\ Complete(u, Refused("cancelled"))
        /\ UNCHANGED <<present, urb, seq, seqNum, reading, config>>
    BY <1>10 DEF Cancel
  <2> QED BY <1>1, <2>1, <2>2, DriverEnds
<1>11. ASSUME NEW u \in Urbs, NEW k \in set.kinds[u], Submit(u, k) PROVE DriverOK'
  BY <1>1, <1>11, SubmitDriver
<1>12. ASSUME NEW wanted \in Selections, SelectConfig(wanted) PROVE DriverOK'
  BY <1>1, <1>12, DriverSame DEF SelectConfig
<1>13. ASSUME NEW p \in server, Reply(p) PROVE DriverOK'
  BY <1>2, <1>13 DEF Reply
<1> QED BY <1>3, <1>4, <1>5, <1>6, <1>7, <1>8, <1>9, <1>10, <1>11, <1>12, <1>13
        DEF Next, Step, Loop

(* Where the thread goes on.                                                *)
LEMMA PcMoves ==
  ASSUME pc \in Pcs \ Stopped, deaf \in BOOLEAN,
         Fail \/ Pending \/ GoesOn("dev") \/ GoesOn("sock")
  PROVE  pc' \in Pcs /\ deaf' \in BOOLEAN
BY DEF Pcs, Stopped, Fail, Pending, GoesOn

LEMMA MadeFacts ==
  ASSUME TypeInv, NEW p, Made(p)
  PROVE  /\ p \in PacketRecords /\ p.urb \in Urbs /\ p.seq = seq[p.urb]
         /\ p.seq \in 0 .. MaxSeq /\ p.len \in Nat /\ p.lengths \in Seq(Int)
         /\ p.in <=> IsIn(urb[p.urb])
         /\ p.size = Expected(p)
         /\ \A q \in PacketsOf(p.urb, urb[p.urb], seq[p.urb]) : q = p
         /\ p \notin {None, Failed}
         /\ urb[p.urb] # None /\ IsUrb(urb[p.urb])
         /\ state[p.urb] \in {"sent", "done"} /\ replies[p.urb] = None
<1>1. /\ p.urb \in Urbs /\ state[p.urb] \in {"sent", "done"}
      /\ p \in PacketsOf(p.urb, urb[p.urb], seq[p.urb]) /\ replies[p.urb] = None
  BY DEF Made
<1>2. urb[p.urb] # None /\ seq[p.urb] \in 0 .. MaxSeq
  BY <1>1 DEF TypeInv, DriverOK, UrbInv
<1>3. IsUrb(urb[p.urb])
  BY <1>1, <1>2, KindOf
<1> DEFINE u == p.urb
           k == urb[u]
           num == seq[u]
<1>4. u \in Urbs /\ IsUrb(k) /\ num \in 0 .. MaxSeq /\ p \in PacketsOf(u, k, num)
  BY <1>1, <1>2, <1>3
<1> HIDE DEF u, k, num
<1>5. p \in PacketRecords /\ p.seq = num /\ (p.in <=> IsIn(k)) /\ p.size = Expected(p)
  BY <1>4, PacketsAre
<1>6. (\A q \in PacketsOf(u, k, num) : q = p)
  BY <1>4, PacketsAre
<1>7. /\ p.seq \in 0 .. MaxSeq /\ p.len \in Nat /\ p.lengths \in Seq(Int)
      /\ p \notin {None, Failed}
  BY <1>5, PacketRecord
<1> QED BY <1>1, <1>2, <1>3, <1>5, <1>6, <1>7 DEF u, k, num

(* What the server may answer a packet with.                                *)
LEMMA AnswersAre ==
  ASSUME TypeInv, NEW p, Made(p), NEW r \in Answers(p)
  PROVE  r \in ReplyRecords /\ r.urb = p.urb /\ r.seq = p.seq
<1>1. /\ p.urb \in Urbs /\ p.seq \in 0 .. MaxSeq /\ p.len \in Nat
      /\ p.lengths \in Seq(Int) /\ p.in \in BOOLEAN
      /\ IsUrb(urb[p.urb])
  BY MadeFacts DEF PacketRecords
<1>2. urb[p.urb].offsets \in Seq(Nat)
  BY <1>1 DEF IsUrb
<1>3. Len(p.lengths) \in Nat /\ DOMAIN p.lengths = 1 .. Len(p.lengths)
  BY <1>1, LenProperties
<1> DEFINE base == [urb |-> p.urb, seq |-> p.seq, status |-> "0", actual |-> p.len,
                    offsets |-> urb[p.urb].offsets, actuals |-> p.lengths,
                    npackets |-> Len(p.lengths)]
<1>4. CASE p.lengths # <<>> /\ p.in
  <2>1. PICK x \in [DOMAIN p.lengths -> 0 .. p.len] \X (0 .. p.len) :
          r = [base EXCEPT !.actuals = x[1], !.actual = x[2]]
    BY <1>4 DEF Answers
  <2>2. x[1] \in [1 .. Len(p.lengths) -> Int] /\ x[2] \in Nat
    <3>1. x[1] \in [DOMAIN p.lengths -> 0 .. p.len] /\ x[2] \in 0 .. p.len
      BY <2>1
    <3> QED BY <1>1, <1>3, <3>1
  <2>3. x[1] \in Seq(Int)
    BY <1>3, <2>2, SeqDef
  <2>4. r = [urb |-> p.urb, seq |-> p.seq, status |-> "0", actual |-> x[2],
             offsets |-> urb[p.urb].offsets, actuals |-> x[1],
             npackets |-> Len(p.lengths)]
    BY <2>1
  <2> QED BY <1>1, <1>2, <1>3, <2>2, <2>3, <2>4 DEF ReplyRecords
<1>5. CASE ~(p.lengths # <<>> /\ p.in) /\ urb[p.urb].fn = "config descriptor"
  <2>1. r = [base EXCEPT !.actual = Min({p.len, Len(DeviceConfig)})]
    BY <1>5 DEF Answers
  <2>2. {p.len, Len(DeviceConfig)} \in SUBSET Nat
    BY <1>1, ForwarderAssumption
  <2>3. Min({p.len, Len(DeviceConfig)}) \in Nat
    BY <2>2, MinIsIn
  <2> HIDE DEF base
  <2>4. base \in ReplyRecords
    BY <1>1, <1>2, <1>3 DEF ReplyRecords, base
  <2>5. base.urb = p.urb /\ base.seq = p.seq
    BY DEF base
  <2> QED BY <2>1, <2>3, <2>4, <2>5 DEF ReplyRecords
<1>6. CASE ~(p.lengths # <<>> /\ p.in) /\ urb[p.urb].fn # "config descriptor"
  <2>1. PICK s \in Statuses :
          r = [base EXCEPT !.status = s, !.actual = IF s = "0" THEN p.len ELSE 0]
    BY <1>6 DEF Answers
  <2>2. r = [urb |-> p.urb, seq |-> p.seq, status |-> s,
             actual |-> IF s = "0" THEN p.len ELSE 0,
             offsets |-> urb[p.urb].offsets, actuals |-> p.lengths,
             npackets |-> Len(p.lengths)]
    BY <2>1
  <2>3. (IF s = "0" THEN p.len ELSE 0) \in Nat
    BY <1>1
  <2> QED BY <1>1, <1>2, <1>3, <2>2, <2>3 DEF ReplyRecords
<1> QED BY <1>4, <1>5, <1>6

(* The lengths in a packet.                                                 *)
LEMMA PacketLengths ==
  ASSUME NEW k, IsUrb(k), NEW q \in SetReadIrpData(k, BigSize)
  PROVE  /\ q.len \in {0, k.len}
         /\ k.fn # "iso" => q.lengths = <<>>
         /\ k.fn = "iso" =>
              /\ q.len = k.len /\ q.in = k.in
              /\ q.lengths = [i \in 1 .. Len(k.offsets) |-> IsoLength(k, i)]
              /\ \A i \in 1 .. Len(k.offsets) - 1 : k.offsets[i] <= k.offsets[i + 1]
<1>1. /\ k.fn \in Functions /\ k.offsets \in Seq(Nat)
  BY DEF IsUrb
<1> DEFINE Is(in, len, lengths, size) ==
             q = [in |-> in, len |-> len, lengths |-> lengths, size |-> size]
<1>2. CASE k.fn = "bulk"
  <2>1. Is(k.in, k.len, <<>>, Header + OutBytes(k))
    BY <1>2 DEF SetReadIrpData, PrepareBulk, Packet, NoPacket
  <2> QED BY <1>2, <2>1
<1>3. CASE k.fn = "iso"
  <2> DEFINE n == Len(k.offsets)
             lengths == [i \in 1 .. n |-> IsoLength(k, i)]
  <2>1. /\ Is(k.in, k.len, lengths, Header + OutBytes(k) + n * IsoDesc)
        /\ ~ \E i \in 1 .. n - 1 : k.offsets[i + 1] < k.offsets[i]
    BY <1>3 DEF SetReadIrpData, PrepareIso, Packet, NoPacket
  <2>2. n \in Nat /\ \A i \in 1 .. n : k.offsets[i] \in Nat
    BY <1>1, LenProperties, ElementOfSeq
  <2>3. ASSUME NEW i \in 1 .. n - 1 PROVE k.offsets[i] <= k.offsets[i + 1]
    <3>1. i \in 1 .. n /\ i + 1 \in 1 .. n
      BY <2>2
    <3> QED BY <2>1, <2>2, <3>1
  <2> HIDE DEF lengths
  <2>4. q.len = k.len /\ q.in = k.in /\ q.lengths = lengths
    BY <2>1
  <2> QED BY <1>3, <2>3, <2>4 DEF lengths
<1>4. CASE k.fn \in {"class", "vendor"}
  <2>1. Is(k.in, k.len, <<>>, Header + OutBytes(k))
    BY <1>4 DEF SetReadIrpData, PrepareClassVendor, Packet, NoPacket
  <2> QED BY <1>4, <2>1
<1>5. CASE k.fn \in {"device descriptor", "config descriptor",
                     "interface descriptor"}
  <2>1. Is(TRUE, k.len, <<>>, Header)
    BY <1>5 DEF SetReadIrpData, PrepareDescriptor, Packet, NoPacket
  <2> QED BY <1>5, <2>1
<1>6. CASE k.fn \in {"select interface", "reset port"}
  <2>1. Is(FALSE, 0, <<>>, Header)
    BY <1>6 DEF SetReadIrpData, PrepareShort, Packet, NoPacket
  <2> QED BY <1>6, <2>1
<1>7. \/ k.fn = "bulk" \/ k.fn = "iso" \/ k.fn \in {"class", "vendor"}
      \/ k.fn \in {"device descriptor", "config descriptor",
                   "interface descriptor"}
      \/ k.fn \in {"select interface", "reset port"}
  <2> SUFFICES ASSUME k.fn \in Local \cup {"other descriptor", "vendor other", "unknown"}
               PROVE  SetReadIrpData(k, BigSize) = {}
    BY <1>1 DEF Functions, Control
  <2> QED BY DEF SetReadIrpData, NoPacket, Local
<1> QED BY <1>2, <1>3, <1>4, <1>5, <1>6, <1>7

LEMMA AnswersFit ==
  ASSUME TypeInv, NEW p, Made(p), NEW r \in Answers(p)
  PROVE  Fit(urb[p.urb], r)
<1> DEFINE k == urb[p.urb]
           n == Len(k.offsets)
           base == [urb |-> p.urb, seq |-> p.seq, status |-> "0", actual |-> p.len,
                    offsets |-> k.offsets, actuals |-> p.lengths,
                    npackets |-> Len(p.lengths)]
<1>1. /\ p.urb \in Urbs /\ p.len \in Nat /\ p.lengths \in Seq(Int)
      /\ p.in \in BOOLEAN /\ IsUrb(k)
  BY MadeFacts DEF PacketRecords
<1>2. k.offsets \in Seq(Nat) /\ k.len \in Nat /\ (k.fn = "iso" => k.offsets # <<>>)
  BY <1>1 DEF IsUrb
<1>3. n \in Nat /\ (\A i \in 1 .. n : k.offsets[i] \in Nat)
      /\ (k.fn = "iso" => n > 0)
  <2>1. n \in Nat /\ \A i \in 1 .. n : k.offsets[i] \in Nat
    BY <1>2, LenProperties, ElementOfSeq
  <2>2. k.offsets # <<>> => n \in Nat \ {0}
    BY <1>2, EmptySeq
  <2> QED BY <1>2, <2>1, <2>2
<1>4. PICK q \in SetReadIrpData(k, BigSize) :
        p.len = q.len /\ p.in = q.in /\ p.lengths = q.lengths
  BY DEF Made, PacketsOf
<1> HIDE DEF k
<1>5. /\ p.len \in {0, k.len}
      /\ k.fn # "iso" => p.lengths = <<>>
      /\ k.fn = "iso" =>
           /\ p.len = k.len /\ p.in = k.in
           /\ p.lengths = [i \in 1 .. n |-> IsoLength(k, i)]
           /\ \A i \in 1 .. n - 1 : k.offsets[i] <= k.offsets[i + 1]
  BY <1>1, <1>4, PacketLengths
<1>6. /\ k.fn = "iso" => Len(p.lengths) = n /\ DOMAIN p.lengths = 1 .. n
                         /\ p.lengths # <<>>
      /\ k.fn # "iso" => Len(p.lengths) = 0
  BY <1>1, <1>3, <1>5, LenProperties
<1>7. /\ base.offsets = k.offsets /\ base.npackets = Len(p.lengths)
      /\ base.actual = p.len /\ p.len \in 0 .. k.len /\ 0 \in 0 .. k.len
  BY <1>2, <1>5
<1> DEFINE Rest(x) == /\ x.offsets = k.offsets /\ x.npackets = Len(p.lengths)
<1>8. CASE p.lengths # <<>> /\ p.in
  <2>1. k.fn = "iso" /\ k.in = p.in
    BY <1>5, <1>8
  <2>2. PICK x \in [DOMAIN p.lengths -> 0 .. p.len] \X (0 .. p.len) :
          /\ \A i \in DOMAIN p.lengths : x[1][i] <= p.lengths[i]
          /\ x[2] = SumOf(x[1])
          /\ r = [base EXCEPT !.actuals = x[1], !.actual = x[2]]
    BY <1>8 DEF Answers, k
  <2> HIDE DEF base
  <2>3. /\ x[1] \in [1 .. n -> 0 .. p.len] /\ x[2] \in 0 .. p.len
        /\ \A i \in 1 .. n : x[1][i] <= p.lengths[i]
    BY <1>6, <2>1, <2>2
  <2>4. r.actuals = x[1] /\ r.actual = x[2] /\ Rest(r)
    BY <1>7, <2>2 DEF base
  <2> DEFINE a == r.actuals
  <2>5. /\ a \in [1 .. n -> 0 .. p.len]
        /\ \A i \in 1 .. n : a[i] \in Nat /\ a[i] <= IsoLength(k, i)
    BY <1>1, <1>3, <1>5, <2>1, <2>3, <2>4
  <2>6. Len(a) = n
    BY <1>3, <2>5
  <2>7. r.actual = Before(a, n + 1)
    BY <1>3, <2>2, <2>4, <2>6, SumIs
  <2> HIDE DEF a
  <2>8. \A i \in 1 .. n - 1 : k.offsets[i] + a[i] <= k.offsets[i + 1]
    <3> TAKE i \in 1 .. n - 1
    <3>1. i \in 1 .. n /\ i # n /\ i + 1 \in 1 .. n
      BY <1>3
    <3>2. a[i] <= k.offsets[i + 1] - k.offsets[i]
      BY <2>5, <3>1 DEF IsoLength
    <3> QED BY <1>3, <2>5, <3>1, <3>2
  <2>9. k.offsets[n] + a[n] <= k.len
    <3>1. n \in 1 .. n
      BY <1>3, <2>1
    <3>2. a[n] <= k.len - k.offsets[n]
      BY <2>5, <3>1 DEF IsoLength
    <3>3. a[n] \in Nat /\ k.offsets[n] \in Nat /\ k.len \in Nat
      BY <1>2, <1>3, <2>5, <3>1
    <3> HIDE DEF n
    <3> QED BY <3>2, <3>3
  <2>10. Packed(n, k.offsets, a, k.len)
    BY <1>2, <1>3, <2>1, <2>5, <2>8, <2>9 DEF Packed
  <2>11. r.actual \in 0 .. k.len
    BY <1>5, <2>1, <2>3, <2>4
  <2> QED BY <1>6, <2>1, <2>4, <2>6, <2>7, <2>10, <2>11 DEF Fit, a, k
<1>9. CASE ~(p.lengths # <<>> /\ p.in)
  <2>1. ~(k.fn = "iso" /\ k.in)
    BY <1>5, <1>6, <1>9
  <2>2. Rest(r) /\ r.actual \in 0 .. k.len
    <3>1. CASE k.fn = "config descriptor"
      <4>1. r = [base EXCEPT !.actual = Min({p.len, Len(DeviceConfig)})]
        BY <1>9, <3>1 DEF Answers, k
      <4>2. {p.len, Len(DeviceConfig)} \in SUBSET Nat
        BY <1>1, ForwarderAssumption
      <4>3. Min({p.len, Len(DeviceConfig)}) \in Nat
            /\ Min({p.len, Len(DeviceConfig)}) <= p.len
        BY <4>2, MinIsIn
      <4>4. Min({p.len, Len(DeviceConfig)}) \in 0 .. k.len
        BY <1>2, <1>7, <4>3
      <4> HIDE DEF base
      <4>5. r.actual = Min({p.len, Len(DeviceConfig)}) /\ Rest(r)
        BY <1>7, <4>1 DEF base
      <4> QED BY <4>4, <4>5
    <3>2. CASE k.fn # "config descriptor"
      <4>1. PICK s \in Statuses :
              r = [base EXCEPT !.status = s, !.actual = IF s = "0" THEN p.len ELSE 0]
        BY <1>9, <3>2 DEF Answers, k
      <4>2. r.actual = (IF s = "0" THEN p.len ELSE 0) /\ Rest(r)
        BY <4>1
      <4> QED BY <1>7, <4>2
    <3> QED BY <3>1, <3>2
  <2> QED BY <1>6, <2>1, <2>2 DEF Fit, k
<1> QED BY <1>8, <1>9

(* A reply on the way: its units in order, as many as it has.               *)
LEMMA UnitsAre ==
  ASSUME TypeInv, NEW p, Made(p), NEW r \in Answers(p)
  PROVE  /\ UnitsOf(p, r) \in Seq(Units) /\ Len(UnitsOf(p, r)) \in Nat \ {0}
         /\ Len(UnitsOf(p, r)) = Header + (IF p.in THEN r.actual ELSE 0)
                                        + r.npackets * IsoDesc
         /\ \A i \in 1 .. Len(UnitsOf(p, r)) : UnitsOf(p, r)[i] = <<p.urb, i>>
         /\ r.npackets * IsoDesc \in Nat /\ r.actual \in Nat
<1>1. r \in ReplyRecords /\ p.urb \in Urbs /\ p.in \in BOOLEAN
  BY AnswersAre, MadeFacts DEF PacketRecords
<1>2. r.actual \in Nat /\ r.npackets \in Nat
  BY <1>1 DEF ReplyRecords
<1>3. r.npackets * IsoDesc \in Nat
  BY <1>2, Constants
<1> DEFINE m == Header + (IF p.in THEN r.actual ELSE 0) + r.npackets * IsoDesc
           e(i) == <<p.urb, i>>
<1>4. m \in Nat \ {0}
  BY <1>1, <1>2, <1>3, Constants
<1>5. UnitsOf(p, r) = [i \in 1 .. m |-> e(i)]
  BY DEF UnitsOf
<1>6. \A i \in 1 .. m : e(i) \in Units
  BY <1>1 DEF Units
<1> HIDE DEF m
<1>7. [i \in 1 .. m |-> e(i)] \in Seq(Units)
  BY <1>4, <1>6, SeqDef
<1>8. DOMAIN UnitsOf(p, r) = 1 .. m
  BY <1>5
<1>9. Len(UnitsOf(p, r)) = m
  BY <1>4, <1>5, <1>7, <1>8, LenProperties
<1>10. \A i \in 1 .. m : UnitsOf(p, r)[i] = <<p.urb, i>>
  BY <1>5
<1> QED BY <1>2, <1>3, <1>4, <1>5, <1>7, <1>9, <1>10 DEF m

LEMMA SlotsType ==
  ASSUME slots \in [1 .. OutQLen -> 0 .. MaxSeq], NEW num \in 0 .. MaxSeq
  PROVE  /\ RecordOut(num) \in [1 .. OutQLen -> 0 .. MaxSeq]
         /\ CheckOut(num) \in [1 .. OutQLen -> 0 .. MaxSeq]
<1>1. 0 \in 0 .. MaxSeq
  BY Constants
<1>2. \A i, x : x \in 0 .. MaxSeq =>
        [slots EXCEPT ![i] = x] \in [1 .. OutQLen -> 0 .. MaxSeq]
  OBVIOUS
<1> QED BY <1>1, <1>2 DEF RecordOut, CheckOut

(* The loop's part of what write_to_sock leaves.                            *)
LEMMA WriteToSockLoop ==
  ASSUME TypeInv, NEW p \in PacketRecords, WriteToSock(p), pc \in Pcs \ Stopped,
         UNCHANGED <<sockReading, closed, short, sockDone, stream>>
  PROVE  LoopOK'
<1>1. p.seq \in 0 .. MaxSeq
  BY DEF PacketRecords
<1>2. slots' \in [1 .. OutQLen -> 0 .. MaxSeq]
  BY <1>1, SlotsType DEF WriteToSock, TypeInv, LoopOK
<1>3. pc' \in Pcs /\ deaf' \in BOOLEAN
  BY PcMoves DEF WriteToSock, TypeInv, LoopOK
<1> QED BY <1>2, <1>3 DEF TypeInv, LoopOK

(* What is read behind a header is not more than what was sent.             *)
LEMMA MoreIs ==
  ASSUME TypeInv, ReplyInv, FlowInv, NEW got \in Seq(Units),
         NEW rest \in Seq(Units), Flow = got \o rest, IsHeader(got)
  PROVE  LET r == replies[got[1][1]]
             more == (IF Holding(r.seq) = {} THEN r.actual ELSE 0)
                       + r.npackets * IsoDesc
         IN more \in Nat /\ r.seq \in 0 .. MaxSeq
<1>1. got[1][1] \in Urbs /\ replies[got[1][1]] # None
  BY HeaderIs
<1>2. /\ replies[got[1][1]].actual \in Nat
      /\ replies[got[1][1]].npackets * IsoDesc \in Nat
      /\ replies[got[1][1]].seq \in 0 .. MaxSeq
  BY <1>1, ReplyFacts
<1> QED BY <1>2

(* The three ways of write_to_dev: what is no header, a header whose reply  *)
(* cannot be taken, and a reply that is given to the driver.  k units leave *)
(* the connection.                                                          *)
NoHeader(got) ==
  /\ ~IsHeader(got) /\ UNCHANGED <<driverVars, slots>>
  /\ \/ Len(got) < Header /\ Fail /\ short' = (short \/ got # <<>>)
     \/ Len(got) = Header /\ pc' = "lost" /\ UNCHANGED <<short, deaf>>
Refuses(got, more) ==
  /\ IsHeader(got) /\ UNCHANGED <<driverVars, short>> /\ Fail
  /\ slots' = CheckOut(replies[got[1][1]].seq)
  /\ Header + more > BigSize \/ closed
Delivers(got, rest, more) ==
  /\ IsHeader(got) /\ UNCHANGED short
  /\ slots' = CheckOut(replies[got[1][1]].seq)
  /\ \E data : BusWrite(replies[got[1][1]], Header + more, data)
  /\ IF present THEN GoesOn("sock") ELSE Fail

LEMMA NoHeaderIs ==
  ASSUME NEW got, NEW rest, WriteToDev(got, rest), ~IsHeader(got)
  PROVE  NoHeader(got) /\ stream' = rest
BY DEF WriteToDev, NoHeader

LEMMA HeaderWays ==
  ASSUME NEW got, NEW rest, WriteToDev(got, rest), IsHeader(got), ~(Len(got) < Header)
  PROVE  LET r == replies[got[1][1]]
             inLen == IF Holding(r.seq) = {} THEN r.actual ELSE 0
             more == inLen + r.npackets * IsoDesc
         IN /\ slots' = CheckOut(r.seq) /\ UNCHANGED short
            /\ \/ /\ Header + more > BigSize \/ (Len(rest) < more /\ closed)
                  /\ Fail /\ stream' = rest /\ UNCHANGED driverVars
               \/ /\ Header + more <= BigSize /\ Len(rest) >= more
                  /\ stream' = SubSeq(rest, more + 1, Len(rest))
                  /\ BusWrite(r, Header + more, SubSeq(rest, 1, inLen))
                  /\ IF present THEN GoesOn("sock") ELSE Fail
BY Zenon DEF WriteToDev

LEMMA Ways ==
  ASSUME TypeInv, ReplyInv, FlowInv, NEW got \in Seq(Units),
         NEW rest \in Seq(Units), Flow = got \o rest,
         WriteToDev(got, rest), sockDone' = None
  PROVE  LET r == replies[got[1][1]]
             more == (IF Holding(r.seq) = {} THEN r.actual ELSE 0)
                       + r.npackets * IsoDesc
         IN /\ stream' \in Seq(Units) /\ Len(got) \in Nat
            /\ \/ NoHeader(got) /\ stream' = rest /\ Dropped(Len(got))
                  /\ Len(got) \in 0 .. Len(Flow)
               \/ Refuses(got, more) /\ stream' = rest /\ Dropped(Header)
                  /\ Header \in 0 .. Len(Flow)
               \/ /\ Delivers(got, rest, more) /\ more \in 0 .. Len(rest)
                  /\ Dropped(Header + more) /\ Header + more \in 0 .. Len(Flow)
<1> DEFINE r == replies[got[1][1]]
           more == (IF Holding(r.seq) = {} THEN r.actual ELSE 0)
                     + r.npackets * IsoDesc
<1>1. Flow' = stream' /\ Len(rest) \in Nat /\ Len(got) \in Nat
  BY LenProperties DEF Flow
<1>2. /\ Len(Flow) = Len(got) + Len(rest)
      /\ \A i \in 1 .. Len(got) + Len(rest) : Flow[i] =
           IF i <= Len(got) THEN got[i] ELSE rest[i - Len(got)]
  BY ConcatProperties
<1>3. \A i \in 1 .. Len(rest) : Flow[Len(got) + i] = rest[i]
  <2> TAKE i \in 1 .. Len(rest)
  <2>1. Len(got) + i \in 1 .. Len(got) + Len(rest) /\ ~(Len(got) + i <= Len(got))
        /\ (Len(got) + i) - Len(got) = i
    BY <1>1
  <2> QED BY <1>2, <2>1
<1>4. ASSUME stream' = rest
      PROVE  Dropped(Len(got)) /\ Len(got) \in 0 .. Len(Flow) /\ stream' \in Seq(Units)
  <2>1. Len(Flow) - Len(got) = Len(rest)
    BY <1>1, <1>2
  <2> QED BY <1>1, <1>2, <1>3, <1>4, <2>1 DEF Dropped
<1> HIDE DEF r, more
<1>8. IsHeader(got) => Len(got) = Header
  BY HeaderIs
<1>5. CASE ~IsHeader(got)
  BY <1>1, <1>4, <1>5, NoHeaderIs
<1>7. CASE IsHeader(got)
  <2>1. Len(got) = Header /\ Header \in Nat
    BY <1>7, HeaderIs, Constants
  <2>2. more \in Nat
    BY <1>7, MoreIs DEF more, r
  <2>3. /\ slots' = CheckOut(r.seq) /\ UNCHANGED short
        /\ \/ /\ Header + more > BigSize \/ (Len(rest) < more /\ closed)
              /\ Fail /\ stream' = rest /\ UNCHANGED driverVars
           \/ /\ Header + more <= BigSize /\ Len(rest) >= more
              /\ stream' = SubSeq(rest, more + 1, Len(rest))
              /\ \E data : BusWrite(r, Header + more, data)
              /\ IF present THEN GoesOn("sock") ELSE Fail
    <3>1. ~(Len(got) < Header)
      BY <2>1
    <3> QED BY <1>7, <3>1, HeaderWays, Zenon DEF more, r
  <2>4. CASE /\ Header + more > BigSize \/ (Len(rest) < more /\ closed)
             /\ Fail /\ stream' = rest /\ UNCHANGED driverVars
    BY <1>1, <1>4, <1>7, <2>1, <2>3, <2>4 DEF Refuses, more, r
  <2>5. CASE /\ Len(rest) >= more
             /\ stream' = SubSeq(rest, more + 1, Len(rest))
             /\ \E data : BusWrite(r, Header + more, data)
             /\ IF present THEN GoesOn("sock") ELSE Fail
    <3>1. more \in 0 .. Len(rest)
      BY <1>1, <2>2, <2>5
    <3>2. /\ stream' \in Seq(Units) /\ Len(stream') = Len(rest) - more
          /\ \A i \in 1 .. Len(rest) - more : stream'[i] = rest[more + i]
      BY <2>5, <3>1, TailIs
    <3>3. Len(Flow) - (Header + more) = Len(rest) - more
      BY <1>1, <1>2, <2>1, <2>2
    <3>4. \A i \in 1 .. Len(rest) - more : Flow[(Header + more) + i] = rest[more + i]
      <4> TAKE i \in 1 .. Len(rest) - more
      <4>1. more + i \in 1 .. Len(rest) /\ (Header + more) + i = Len(got) + (more + i)
        BY <1>1, <2>1, <2>2
      <4> QED BY <1>3, <4>1
    <3>5. Dropped(Header + more)
      BY <1>1, <3>2, <3>3, <3>4 DEF Dropped
    <3>6. Header + more \in 0 .. Len(Flow)
      BY <1>1, <1>2, <2>1, <3>1
    <3> QED BY <1>1, <1>7, <2>3, <2>5, <3>1, <3>2, <3>5, <3>6 DEF Delivers, more, r
  <2> QED BY <2>3, <2>4, <2>5
<1> QED BY <1>5, <1>7 DEF more, r

LEMMA LookLoop ==
  ASSUME TypeInv, ReplyInv, FlowInv, NEW got \in Seq(Units),
         NEW rest \in Seq(Units), Look(got, rest)
  PROVE  LoopOK'
<1>1. /\ sockDone' = None /\ pc \in Pcs \ Stopped /\ deaf \in BOOLEAN
      /\ UNCHANGED <<sockReading, closed>> /\ short \in BOOLEAN
      /\ slots \in [1 .. OutQLen -> 0 .. MaxSeq]
  BY DEF Look, Stopped, TypeInv, LoopOK
<1>2. stream' \in Seq(Units)
  BY Ways DEF Look
<1>3. CASE ~IsHeader(got)
  <2>1. NoHeader(got)
    BY <1>3, NoHeaderIs DEF Look
  <2>2. pc' \in Pcs /\ deaf' \in BOOLEAN
    BY <1>1, <2>1, PcMoves DEF NoHeader, Pcs
  <2> QED BY <1>1, <1>2, <2>1, <2>2 DEF NoHeader, TypeInv, LoopOK
<1>4. CASE IsHeader(got)
  <2>1. Len(got) = Header
    BY <1>4, HeaderIs DEF Look
  <2>2. /\ slots' = CheckOut(replies[got[1][1]].seq) /\ UNCHANGED short
        /\ Fail \/ GoesOn("sock")
    <3>1. ~(Len(got) < Header)
      BY <2>1, Constants
    <3> QED BY <1>4, <3>1, HeaderWays DEF Look
  <2>3. slots' \in [1 .. OutQLen -> 0 .. MaxSeq]
    BY <1>1, <1>4, <2>2, MoreIs, SlotsType DEF Look
  <2>4. pc' \in Pcs /\ deaf' \in BOOLEAN
    BY <1>1, <2>2, PcMoves
  <2> QED BY <1>1, <1>2, <2>2, <2>3, <2>4 DEF TypeInv, LoopOK
<1> QED BY <1>3, <1>4

(* The server's units behind those that were sent.                          *)
LEMMA ReplyIs ==
  ASSUME TypeInv, PacketInv, NEW p \in server, Reply(p)
  PROVE  /\ Made(p)
         /\ \E r \in Answers(p) : \E n \in 1 .. Len(UnitsOf(p, r)) :
              /\ replies' = [replies EXCEPT ![p.urb] = r]
              /\ stream' = stream \o SubSeq(UnitsOf(p, r), 1, n)
              /\ (n = Len(UnitsOf(p, r)) /\ closed' = closed) \/ closed' = TRUE
         /\ server' = server \ {p} /\ ~closed
<1>1. Made(p) /\ server' = server \ {p} /\ ~closed
  BY DEF PacketInv, Reply, Connected
<1>2. PICK r \in Answers(p) :
       /\ replies' = [replies EXCEPT ![p.urb] = r]
       /\ \/ stream' = stream \o UnitsOf(p, r) /\ UNCHANGED closed
          \/ /\ \E n \in 1 .. Len(UnitsOf(p, r)) - 1 :
                  stream' = stream \o SubSeq(UnitsOf(p, r), 1, n)
             /\ closed' = TRUE
  BY DEF Reply
<1>3. UnitsOf(p, r) \in Seq(Units) /\ Len(UnitsOf(p, r)) \in Nat \ {0}
  BY <1>1, UnitsAre
<1>4. CASE stream' = stream \o UnitsOf(p, r) /\ UNCHANGED closed
  <2>1. UnitsOf(p, r) = SubSeq(UnitsOf(p, r), 1, Len(UnitsOf(p, r)))
    BY <1>3, SubSeqFull
  <2>2. Len(UnitsOf(p, r)) \in 1 .. Len(UnitsOf(p, r))
    BY <1>3
  <2> QED BY <1>1, <1>2, <1>4, <2>1, <2>2
<1>5. ASSUME NEW n \in 1 .. Len(UnitsOf(p, r)) - 1,
             stream' = stream \o SubSeq(UnitsOf(p, r), 1, n), closed' = TRUE
      PROVE  \E m \in 1 .. Len(UnitsOf(p, r)) :
                /\ stream' = stream \o SubSeq(UnitsOf(p, r), 1, m)
                /\ (m = Len(UnitsOf(p, r)) /\ closed' = closed) \/ closed' = TRUE
  <2>1. n \in 1 .. Len(UnitsOf(p, r))
    BY <1>3
  <2> QED BY <1>5, <2>1
<1> QED BY <1>1, <1>2, <1>4, <1>5

LEMMA ReplyLoop ==
  ASSUME TypeInv, PacketInv, NEW p \in server, Reply(p) PROVE LoopOK'
<1>1. PICK r \in Answers(p) : \E n \in 1 .. Len(UnitsOf(p, r)) :
         /\ stream' = stream \o SubSeq(UnitsOf(p, r), 1, n)
         /\ (n = Len(UnitsOf(p, r)) /\ closed' = closed) \/ closed' = TRUE
  BY ReplyIs
<1>2. PICK n \in 1 .. Len(UnitsOf(p, r)) :
         /\ stream' = stream \o SubSeq(UnitsOf(p, r), 1, n)
         /\ (n = Len(UnitsOf(p, r)) /\ closed' = closed) \/ closed' = TRUE
  BY <1>1
<1>3. UnitsOf(p, r) \in Seq(Units) /\ n \in 0 .. Len(UnitsOf(p, r))
  <2>1. Made(p)
    BY ReplyIs
  <2>2. UnitsOf(p, r) \in Seq(Units) /\ Len(UnitsOf(p, r)) \in Nat
    BY <2>1, UnitsAre
  <2> QED BY <2>2
<1>4. SubSeq(UnitsOf(p, r), 1, n) \in Seq(Units)
  BY <1>3, FrontIs
<1>5. stream \in Seq(Units) /\ closed \in BOOLEAN
  BY DEF TypeInv, LoopOK
<1>6. stream' \in Seq(Units) /\ closed' \in BOOLEAN
  BY <1>2, <1>4, <1>5, ConcatProperties
<1> QED BY <1>6 DEF Reply, loopVars, TypeInv, LoopOK

LEMMA LoopNext == TypeInv /\ PacketInv /\ ReplyInv /\ FlowInv /\ ReadInv /\ Next => LoopOK'
<1> SUFFICES ASSUME TypeInv, PacketInv, ReplyInv, FlowInv, ReadInv, Next PROVE LoopOK'
  OBVIOUS
<1>1. LoopOK
  BY DEF TypeInv
<1>2. CASE UNCHANGED <<loopVars, stream, closed>>
  BY <1>1, <1>2 DEF LoopOK, loopVars
<1>3. ASSUME UNCHANGED <<slots, sockReading, sockDone, short, stream, closed>>,
             pc \in Pcs \ Stopped, Fail \/ Pending PROVE LoopOK'
  BY <1>1, <1>3, PcMoves DEF LoopOK
<1>4. CASE DevReadLost \/ DevReadWaits \/ DevReadRejected
  <2>1. pc \in Pcs \ Stopped /\ (Fail \/ Pending)
    BY <1>4 DEF DevReadLost, DevReadWaits, DevReadRejected, Pcs, Stopped
  <2> QED BY <1>3, <1>4, <2>1 DEF DevReadLost, DevReadWaits, DevReadRejected, netVars
<1>5. CASE DevRead
  <2>1. \E p \in PacketRecords : WriteToSock(p)
    <3>1. PICK u \in Urbs : \E p \in PacketsOf(u, urb[u], NextNum) :
             state[u] = "queued" /\ WriteToSock(p)
      BY <1>5, DevReadIs DEF TypeInv
    <3>2. IsUrb(urb[u]) /\ NextNum \in 0 .. MaxSeq
      BY <3>1, KindOf, NextNumType DEF TypeInv, DriverOK, UrbInv
    <3> QED BY <3>1, <3>2, PacketsAre
  <2>2. pc \in Pcs \ Stopped /\ UNCHANGED <<sockReading, closed, short, sockDone, stream>>
    BY <1>5 DEF DevRead, Pcs, Stopped
  <2> QED BY <2>1, <2>2, WriteToSockLoop
<1>6. CASE DevReadCompleted
  <2>1. /\ pc \in Pcs \ Stopped
        /\ UNCHANGED <<sockReading, closed, short, sockDone, stream>>
    BY <1>6 DEF DevReadCompleted, Pcs, Stopped
  <2>2. CASE Fail /\ UNCHANGED slots
    BY <1>3, <2>1, <2>2
  <2>3. CASE readDone # Failed /\ WriteToSock(readDone)
    <3>1. Made(readDone)
      BY <1>6, <2>3 DEF PacketInv, DevReadCompleted
    <3> QED BY <2>1, <2>3, <3>1, MadeFacts, WriteToSockLoop
  <2> QED BY <1>6, <2>2, <2>3 DEF DevReadCompleted
<1>7. CASE SockReadWaits
  BY <1>1, <1>7 DEF SockReadWaits, LoopOK, Pcs, netVars
<1>8. CASE SockRead \/ SockReadCompleted
  BY <1>8, Looks, LookLoop
<1>9. CASE SockArrives
  <2>1. PICK n \in 0 .. Header : /\ SockTakes(n) /\ sockDone' = SubSeq(stream, 1, n)
                                 /\ stream' = SubSeq(stream, n + 1, Len(stream))
    BY <1>9 DEF SockArrives
  <2>2. sockDone' \in Seq(Units) /\ stream' \in Seq(Units)
    BY <2>1, Taking
  <2> QED BY <1>1, <1>9, <2>2 DEF SockArrives, LoopOK
<1>10. CASE Interrupt
  BY <1>1, <1>10 DEF Interrupt, LoopOK, Pcs, netVars
<1>11. CASE Close
  BY <1>1, <1>11 DEF Close, LoopOK, loopVars
<1>12. CASE Exit \/ Unplug
  BY <1>2, <1>12 DEF Exit, Unplug, netVars
<1>13. ASSUME NEW u \in Urbs, Cancel(u) \/ \E k \in set.kinds[u] : Submit(u, k)
       PROVE  LoopOK'
  BY <1>2, <1>13 DEF Cancel, Submit, netVars
<1>14. ASSUME NEW wanted \in Selections, SelectConfig(wanted) PROVE LoopOK'
  BY <1>2, <1>14 DEF SelectConfig, netVars
<1>15. ASSUME NEW p \in server, Reply(p) PROVE LoopOK'
  BY <1>15, ReplyLoop
<1> QED BY <1>4, <1>5, <1>6, <1>7, <1>8, <1>9, <1>10, <1>11, <1>12, <1>13, <1>14, <1>15
        DEF Next, Step, Loop

LEMMA TypeNext ==
  ASSUME TypeInv, PacketInv, ReplyInv, FlowInv, ReadInv, Next PROVE TypeInv'
<1>1. set' \in Settings
  BY DEF TypeInv, Next
<1> QED BY <1>1, DriverNext, LoopNext DEF TypeInv

-----------------------------------------------------------------------------
(* What does not change any more                                            *)

Lasts ==
  /\ \A u \in Urbs :
       /\ urb[u] # None => urb'[u] = urb[u]
       /\ state[u] \in {"sent", "done"} =>
            state'[u] \in {"sent", "done"} /\ seq'[u] = seq[u]
       /\ state[u] = "done" => state'[u] = "done" /\ result'[u] = result[u]
  /\ ~present => ~present'
  /\ closed => closed'
  /\ short => short'

LEMMA DriverLasts ==
  ASSUME UNCHANGED <<urb, state, seq, result, present>>, closed => closed', short => short'
  PROVE  Lasts
BY DEF Lasts

LEMMA EndLasts ==
  ASSUME DriverOK, NEW u \in Urbs, state[u] # "done", NEW r, Complete(u, r),
         UNCHANGED <<seq, present>>, closed => closed', short => short',
         \A v \in Urbs : urb[v] # None => urb'[v] = urb[v]
  PROVE  Lasts
<1>1. \A v \in Urbs : state'[v] = IF v = u THEN "done" ELSE state[v]
  BY DEF Complete, DriverOK
<1>2. \A v \in Urbs : v # u => result'[v] = result[v]
  BY DEF Complete, DriverOK
<1> QED BY <1>1, <1>2 DEF Lasts

LEMMA SendLasts ==
  ASSUME DriverOK, NEW u \in Urbs, state[u] \in {"new", "queued"},
         NEW x \in {"queued", "sent"}, state' = [state EXCEPT ![u] = x],
         seq' = seq \/ seq' = [seq EXCEPT ![u] = NextNum],
         UNCHANGED <<result, present>>, closed => closed', short => short',
         \A v \in Urbs : urb[v] # None => urb'[v] = urb[v]
  PROVE  Lasts
<1>1. \A v \in Urbs : v # u => state'[v] = state[v] /\ seq'[v] = seq[v]
  BY DEF DriverOK
<1> QED BY <1>1 DEF Lasts

LEMMA LastsNext ==
  ASSUME TypeInv, Next PROVE Lasts
<1>1. DriverOK /\ UNCHANGED set
  BY DEF TypeInv, Next
<1>2. CASE UNCHANGED driverVars /\ (closed => closed') /\ (short => short')
  BY <1>2, DriverLasts DEF driverVars
<1>3. CASE DevReadLost \/ SockReadWaits \/ SockArrives \/ Interrupt \/ Close
  <2>1. UNCHANGED driverVars /\ closed' \in {closed, TRUE} /\ short' = short
    BY <1>3
       DEF DevReadLost, SockReadWaits, SockArrives, Interrupt, Close, netVars, loopVars
  <2> QED BY <1>2, <2>1
<1>4. CASE DevReadWaits \/ DevReadCompleted
  <2>1. UNCHANGED <<urb, state, seq, result, present, closed, short>>
    BY <1>4 DEF DevReadWaits, DevReadCompleted, netVars
  <2> QED BY <2>1, DriverLasts
<1>5. CASE DevReadRejected
  <2>1. LET u == queue[Min(Unsent)] IN
        u \in Urbs /\ state[u] = "queued" /\ \E r : Complete(u, r)
    BY <1>1, <1>5, RejectedIs
  <2>2. UNCHANGED <<seq, present, urb, closed, short>>
    BY <1>5 DEF DevReadRejected, netVars
  <2> QED BY <1>1, <2>1, <2>2, EndLasts
<1>6. CASE DevRead
  <2>1. PICK u \in Urbs : /\ state[u] = "queued" /\ state' = [state EXCEPT ![u] = "sent"]
                          /\ seq' = [seq EXCEPT ![u] = NextNum]
    BY <1>1, <1>6, DevReadIs
  <2>2. UNCHANGED <<urb, result, present, closed, short>>
    BY <1>6 DEF DevRead
  <2> QED BY <1>1, <2>1, <2>2, SendLasts
<1>7. CASE SockRead \/ SockReadCompleted
  <2>1. /\ closed' = closed
        /\ short => short'
        /\ UNCHANGED driverVars \/ \E r, n, data : BusWrite(r, n, data)
    <3>1. \E got, rest : WriteToDev(got, rest) /\ closed' = closed
      BY <1>7 DEF SockRead, SockReadCompleted
    <3>2. ASSUME NEW got, NEW rest, WriteToDev(got, rest)
          PROVE  short' = short \/ short' = (short \/ got # <<>>)
      BY <3>2 DEF WriteToDev
    <3>3. ASSUME NEW got, NEW rest, WriteToDev(got, rest)
          PROVE  UNCHANGED driverVars \/ \E r, n, data : BusWrite(r, n, data)
      BY <3>3 DEF WriteToDev
    <3>4. short \in BOOLEAN
      BY DEF TypeInv, LoopOK
    <3> QED BY <3>1, <3>2, <3>3, <3>4
  <2>2. CASE UNCHANGED driverVars
    BY <1>2, <2>1, <2>2
  <2>3. ASSUME NEW r, NEW n, NEW data, BusWrite(r, n, data) PROVE Lasts
    <3>1. CASE UNCHANGED driverVars
      BY <2>2, <3>1
    <3>2. ASSUME NEW i \in DOMAIN queue, NEW x, Complete(queue[i], x),
                 queue' = RemoveAt(queue, i)
          PROVE  Lasts
      <4>1. queue[i] \in Urbs /\ state[queue[i]] \in {"queued", "sent"}
        BY <1>1, <3>2, QueueTaken DEF Complete
      <4>2. UNCHANGED <<seq, present, urb>>
        BY <1>1, <2>3, BusWriteIs
      <4> QED BY <1>1, <2>1, <3>2, <4>1, <4>2, EndLasts
    <3> QED BY <1>1, <2>3, <3>1, <3>2, BusWriteIs
  <2> QED BY <2>1, <2>2, <2>3
<1>8. CASE Exit \/ Unplug
  <2>1. Drain /\ UNCHANGED <<closed, short>>
    BY <1>8 DEF Exit, Unplug, loopVars, netVars
  <2>2. /\ DOMAIN queue = 1 .. Len(queue)
        /\ \A i \in DOMAIN queue : queue[i] \in Urbs
    BY <1>1, LenProperties, ElementOfSeq DEF DriverOK, QueueInv
  <2>3. Range(queue) = {u \in Urbs : state[u] \in {"queued", "sent"}}
    BY <1>1, <2>2 DEF DriverOK, QueueInv, Holds, Range
  <2>4. \A u \in Urbs : /\ state'[u] \in {"done", state[u]}
                        /\ state[u] = "done" => result'[u] = result[u]
    BY <2>1, <2>3 DEF Drain
  <2>5. UNCHANGED <<urb, seq>> /\ ~present'
    BY <2>1 DEF Drain
  <2> QED BY <2>1, <2>4, <2>5 DEF Lasts
<1>9. ASSUME NEW u \in Urbs, Cancel(u) PROVE Lasts
  <2>1. state[u] \in {"queued", "sent"} /\ \E r : Complete(u, r)
    BY <1>9 DEF Cancel
  <2>2. UNCHANGED <<seq, present, urb, closed, short>>
    BY <1>9 DEF Cancel, loopVars, netVars
  <2> QED BY <1>1, <2>1, <2>2, EndLasts
<1>10. ASSUME NEW u \in Urbs, NEW k \in set.kinds[u], Submit(u, k) PROVE Lasts
  <2>1. state[u] = "new" /\ urb' = [urb EXCEPT ![u] = k]
        /\ UNCHANGED <<present, closed, short>>
    BY <1>10 DEF Submit, loopVars, netVars
  <2>2. \A v \in Urbs : urb[v] # None => urb'[v] = urb[v]
    BY <1>1, <2>1 DEF DriverOK, UrbInv
  <2>3. \/ UNCHANGED seq /\ \E r : Complete(u, r)
        \/ /\ \E x \in {"queued", "sent"} : state' = [state EXCEPT ![u] = x]
           /\ seq' = seq \/ seq' = [seq EXCEPT ![u] = NextNum]
           /\ UNCHANGED result
    BY <1>10 DEF Submit
  <2>4. CASE UNCHANGED seq /\ \E r : Complete(u, r)
    BY <1>1, <2>1, <2>2, <2>4, EndLasts
  <2>5. CASE /\ \E x \in {"queued", "sent"} : state' = [state EXCEPT ![u] = x]
             /\ seq' = seq \/ seq' = [seq EXCEPT ![u] = NextNum]
             /\ UNCHANGED result
    BY <1>1, <2>1, <2>2, <2>5, SendLasts
  <2> QED BY <2>3, <2>4, <2>5
<1>11. ASSUME NEW wanted \in Selections, SelectConfig(wanted) PROVE Lasts
  <2>1. UNCHANGED <<urb, state, seq, result, present, closed, short>>
    BY <1>11 DEF SelectConfig, loopVars, netVars
  <2> QED BY <2>1, DriverLasts
<1>12. ASSUME NEW p \in server, Reply(p) PROVE Lasts
  <2>1. UNCHANGED driverVars /\ UNCHANGED short /\ ~closed
    BY <1>12 DEF Reply, loopVars, Connected
  <2> QED BY <1>2, <2>1
<1> QED BY <1>3, <1>4, <1>5, <1>6, <1>7, <1>8, <1>9, <1>10, <1>11, <1>12
        DEF Next, Step, Loop

(* Only an answer of the server adds to the replies.                        *)
LEMMA RepliesSame ==
  ASSUME Next PROVE UNCHANGED replies \/ \E p \in server : Reply(p)
BY DEF Next, Step, Loop, DevReadLost, DevReadWaits, DevReadRejected, DevRead,
       DevReadCompleted, SockReadWaits, SockRead, SockReadCompleted, SockArrives,
       Interrupt, Close, Exit, Unplug, Cancel, Submit, SelectConfig, netVars

LEMMA AnsweredNext ==
  ASSUME TypeInv, PacketInv, ReplyInv, Next
  PROVE  /\ Answered /\ ReplyInv'
         /\ \A u \in Urbs : replies'[u] # replies[u] =>
              \E p \in server : Reply(p) /\ p.urb = u /\ replies'[u] # None
<1>1. Lasts
  BY LastsNext
<1>2. \A u \in Urbs : replies[u] # None => urb[u] # None
  BY DEF ReplyInv, TypeInv, DriverOK, UrbInv
<1>3. CASE UNCHANGED replies
  <2>1. Answered
    BY <1>1, <1>2, <1>3 DEF Answered, Lasts
  <2>2. ReplyInv'
    BY <1>1, <1>3 DEF ReplyInv, Lasts
  <2> QED BY <1>3, <2>1, <2>2
<1>4. ASSUME NEW p \in server, Reply(p)
      PROVE  /\ Answered /\ ReplyInv'
             /\ \A u \in Urbs : replies'[u] # replies[u] =>
                  p.urb = u /\ replies'[u] # None
  <2>1. Made(p)
    BY <1>4 DEF PacketInv
  <2>2. /\ p.urb \in Urbs /\ replies[p.urb] = None /\ p.seq = seq[p.urb]
        /\ state[p.urb] \in {"sent", "done"}
    BY <2>1, MadeFacts
  <2>3. PICK r \in Answers(p) : replies' = [replies EXCEPT ![p.urb] = r]
    BY <1>4 DEF Reply
  <2>4. r \in ReplyRecords /\ r.seq = p.seq
    BY <2>1, AnswersAre
  <2>5. r # None
    BY <2>4, ForwarderAssumption
  <2>6. /\ replies' = [u \in Urbs |-> replies'[u]] /\ replies'[p.urb] = r
        /\ \A u \in Urbs : u # p.urb => replies'[u] = replies[u]
    BY <2>2, <2>3 DEF ReplyInv
  <2>7. Answered
    BY <1>1, <1>2, <2>2, <2>6 DEF Answered, Lasts
  <2>8. ReplyInv'
    <3> DEFINE Right(u, x) == x \in ReplyRecords /\ x.seq = seq'[u]
                              /\ state'[u] \in {"sent", "done"}
    <3>1. Right(p.urb, r)
      BY <1>1, <2>2, <2>4 DEF Lasts
    <3>2. \A u \in Urbs : replies[u] # None => Right(u, replies[u])
      BY <1>1 DEF Lasts, ReplyInv
    <3> HIDE DEF Right
    <3>3. \A u \in Urbs : replies'[u] # None => Right(u, replies'[u])
      BY <2>6, <3>1, <3>2
    <3> QED BY <2>6, <3>3 DEF ReplyInv, Right
  <2> QED BY <2>5, <2>6, <2>7, <2>8
<1> QED BY <1>3, <1>4, RepliesSame

(* A packet stays what it is until it is answered.                          *)
LEMMA MadeStays ==
  ASSUME TypeInv, Lasts, NEW p, Made(p), replies'[p.urb] = None PROVE Made(p)'
<1>1. /\ p.urb \in Urbs /\ state[p.urb] \in {"sent", "done"}
      /\ p \in PacketsOf(p.urb, urb[p.urb], seq[p.urb])
  BY DEF Made
<1>2. urb[p.urb] # None
  BY <1>1 DEF TypeInv, DriverOK, UrbInv
<1>3. /\ urb'[p.urb] = urb[p.urb] /\ seq'[p.urb] = seq[p.urb]
      /\ state'[p.urb] \in {"sent", "done"}
  BY <1>1, <1>2 DEF Lasts
<1>4. p \in PacketsOf(p.urb, urb'[p.urb], seq'[p.urb])
  BY <1>1, <1>3
<1> QED BY <1>1, <1>3, <1>4 DEF Made

(* Two packets of one URB are the same.                                     *)
LEMMA OnePacket ==
  ASSUME TypeInv, NEW p, NEW q, Made(p), Made(q), p.urb = q.urb PROVE p = q
<1>1. p \in PacketsOf(q.urb, urb[q.urb], seq[q.urb])
  BY DEF Made
<1> QED BY <1>1, MadeFacts

(* A packet that has just been made.                                        *)
LEMMA NewPacket ==
  ASSUME TypeInv', PacketInv, ReplyInv, NEW u \in Urbs, NEW k, IsUrb(k),
         state[u] \in {"new", "queued"}, NextNum \in 0 .. MaxSeq,
         NEW p \in PacketsOf(u, k, NextNum),
         state' = [state EXCEPT ![u] = "sent"], seq' = [seq EXCEPT ![u] = NextNum],
         state \in [Urbs -> {"new", "queued", "sent", "done"}], DOMAIN seq = Urbs,
         urb'[u] = k, replies' = replies
  PROVE  /\ Made(p)' /\ p \notin server /\ p # readDone
         /\ p \in PacketRecords /\ p.urb = u /\ p.seq = NextNum
         /\ p.in <=> IsIn(k)
<1>1. /\ p.urb = u /\ p \in PacketRecords /\ p.seq = NextNum /\ (p.in <=> IsIn(k))
      /\ p # None /\ p # Failed
  BY PacketsAre, PacketRecord
<1>2. state'[u] = "sent" /\ seq'[u] = NextNum /\ replies[u] = None
  BY DEF ReplyInv
<1>3. p \in PacketsOf(u, urb'[u], seq'[u])
  BY <1>2
<1>4. Made(p)'
  BY <1>1, <1>2, <1>3 DEF Made
<1>5. ~Made(p)
  BY <1>1 DEF Made
<1> QED BY <1>1, <1>4, <1>5 DEF PacketInv

LEMMA PacketKept ==
  ASSUME TypeInv, PacketInv, Lasts, UNCHANGED replies,
         \A p \in server' : p \in server \/ Made(p)',
         readDone' \notin {None, Failed} => readDone' \notin server',
         readDone' \in {None, Failed, readDone} \/ (\A p : p = readDone' => Made(p)')
  PROVE  PacketInv'
<1>1. \A p : Made(p) => Made(p)'
  <2> TAKE p
  <2> HAVE Made(p)
  <2>1. replies'[p.urb] = None
    BY DEF Made
  <2> QED BY <2>1, MadeStays
<1>2. \A p \in server' : Made(p)'
  BY <1>1 DEF PacketInv
<1>3. \A p : p = readDone' /\ readDone' \notin {None, Failed} => Made(p)'
  BY <1>1 DEF PacketInv
<1>4. readDone' \notin {None, Failed} => Made(readDone)'
  BY <1>3 DEF Made
<1> QED BY <1>2, <1>4 DEF PacketInv

LEMMA PacketSame ==
  ASSUME TypeInv, PacketInv, Lasts, UNCHANGED <<server, replies>>,
         readDone' \in {None, Failed, readDone}
  PROVE  PacketInv'
<1>1. readDone' \notin {None, Failed} => readDone' \notin server'
  BY DEF PacketInv
<1> QED BY <1>1, PacketKept

LEMMA PacketNext ==
  ASSUME TypeInv, TypeInv', PacketInv, ReplyInv, Next PROVE PacketInv'
<1>1. Lasts /\ DriverOK
  BY LastsNext DEF TypeInv
<1>2. /\ state \in [Urbs -> {"new", "queued", "sent", "done"}]
      /\ DOMAIN seq = Urbs /\ NextNum \in 0 .. MaxSeq
  BY <1>1, NextNumType DEF DriverOK
<1>3. CASE UNCHANGED <<server, replies>> /\ readDone' \in {None, Failed, readDone}
  BY <1>1, <1>3, PacketSame
<1>4. CASE DevReadLost \/ DevReadWaits \/ DevReadRejected \/ SockReadWaits
           \/ SockArrives \/ Interrupt \/ Close \/ Exit \/ Unplug
  BY <1>3, <1>4
     DEF DevReadLost, DevReadWaits, DevReadRejected, SockReadWaits, SockArrives,
         Interrupt, Close, Exit, Unplug, netVars, driverVars
<1>5. CASE DevRead
  <2>1. PICK u \in Urbs : \E p \in PacketsOf(u, urb[u], NextNum) :
           /\ state[u] = "queued"
           /\ state' = [state EXCEPT ![u] = "sent"]
           /\ seq' = [seq EXCEPT ![u] = NextNum] /\ WriteToSock(p)
    BY <1>1, <1>5, DevReadIs
  <2>2. PICK p \in PacketsOf(u, urb[u], NextNum) : WriteToSock(p)
    BY <2>1
  <2>3. UNCHANGED <<urb, readDone, replies>>
    BY <1>5 DEF DevRead
  <2>4. IsUrb(urb[u])
    BY <1>1, <2>1, KindOf DEF DriverOK, UrbInv
  <2>5. Made(p)' /\ p # readDone
    BY <1>2, <2>1, <2>2, <2>3, <2>4, NewPacket
  <2>6. server' \in {server, server \cup {p}}
    BY <2>2 DEF WriteToSock
  <2>7. \A q \in server' : q \in server \/ Made(q)'
    BY <2>5, <2>6
  <2>8. readDone' \notin {None, Failed} => readDone' \notin server'
    BY <2>3, <2>5, <2>6 DEF PacketInv
  <2> QED BY <1>1, <2>3, <2>7, <2>8, PacketKept
<1>6. CASE DevReadCompleted
  <2>1. readDone' = None /\ UNCHANGED replies /\ readDone # None
    BY <1>6 DEF DevReadCompleted
  <2>2. UNCHANGED server \/ (readDone # Failed /\ server' = server \cup {readDone})
    BY <1>6 DEF DevReadCompleted, WriteToSock
  <2>3. \A q \in server' : Made(q)
    BY <2>1, <2>2 DEF PacketInv
  <2>4. \A q \in server' : Made(q)'
    <3> TAKE q \in server'
    <3>1. Made(q) /\ replies'[q.urb] = None
      BY <2>1, <2>3 DEF Made
    <3> QED BY <1>1, <3>1, MadeStays
  <2> QED BY <1>1, <2>1, <2>4, PacketKept
<1>7. CASE SockRead \/ SockReadCompleted
  <2>1. UNCHANGED <<server, replies>>
    BY <1>7 DEF SockRead, SockReadCompleted
  <2>2. UNCHANGED driverVars \/ \E r, n, data : BusWrite(r, n, data)
    BY <1>7 DEF SockRead, SockReadCompleted, WriteToDev
  <2>3. UNCHANGED readDone
    BY <1>1, <2>2, BusWriteIs DEF driverVars
  <2> QED BY <1>3, <2>1, <2>3
<1>8. ASSUME NEW u \in Urbs, Cancel(u) PROVE PacketInv'
  BY <1>3, <1>8 DEF Cancel, netVars
<1>9. ASSUME NEW u \in Urbs, NEW k \in set.kinds[u], Submit(u, k) PROVE PacketInv'
  <2>1. state[u] = "new" /\ urb' = [urb EXCEPT ![u] = k] /\ UNCHANGED <<server, replies>>
    BY <1>9 DEF Submit, netVars
  <2>2. \/ readDone' \in {Failed, readDone}
        \/ \E p \in PacketsOf(u, k, NextNum) :
              /\ readDone' = p /\ state' = [state EXCEPT ![u] = "sent"]
              /\ seq' = [seq EXCEPT ![u] = NextNum]
    BY <1>9 DEF Submit
  <2>3. CASE readDone' \in {Failed, readDone}
    BY <1>3, <2>1, <2>3
  <2>4. ASSUME NEW p \in PacketsOf(u, k, NextNum), readDone' = p,
               state' = [state EXCEPT ![u] = "sent"],
               seq' = [seq EXCEPT ![u] = NextNum]
        PROVE  PacketInv'
    <3>1. IsUrb(k)
      BY ForwarderAssumption DEF TypeInv
    <3>2. urb'[u] = k
      BY <1>1, <2>1 DEF DriverOK
    <3>3. Made(p)' /\ p \notin server
      BY <1>2, <2>1, <2>4, <3>1, <3>2, NewPacket
    <3> QED BY <1>1, <2>1, <2>4, <3>3, PacketKept
  <2> QED BY <2>2, <2>3, <2>4
<1>10. ASSUME NEW wanted \in Selections, SelectConfig(wanted) PROVE PacketInv'
  BY <1>3, <1>10 DEF SelectConfig, netVars
<1>11. ASSUME NEW p \in server, Reply(p) PROVE PacketInv'
  <2>1. Made(p) /\ server' = server \ {p} /\ UNCHANGED readDone
    BY <1>11 DEF PacketInv, Reply, driverVars
  <2>2. \A q : q.urb # p.urb => replies'[q.urb] = replies[q.urb]
    BY <1>11 DEF Reply, ReplyInv
  <2>3. ASSUME NEW q, Made(q), q # p PROVE Made(q)'
    <3>1. q.urb # p.urb
      BY <2>1, <2>3, OnePacket
    <3>2. replies'[q.urb] = None
      BY <2>2, <2>3, <3>1 DEF Made
    <3> QED BY <1>1, <2>3, <3>2, MadeStays
  <2>4. \A q \in server' : Made(q)'
    BY <2>1, <2>3 DEF PacketInv
  <2>5. ASSUME readDone' \notin {None, Failed}
        PROVE  readDone' \notin server' /\ \A q : q = readDone' => Made(q)'
    BY <2>1, <2>3, <2>5 DEF PacketInv
  <2>6. readDone' \notin {None, Failed} => Made(readDone)'
    BY <2>5 DEF Made
  <2> QED BY <2>4, <2>5, <2>6 DEF PacketInv
<1> QED BY <1>4, <1>5, <1>6, <1>7, <1>8, <1>9, <1>10, <1>11
        DEF Next, Step, Loop

LEMMA ReadNext ==
  ASSUME TypeInv, ReadInv, Next PROVE ReadInv'
<1>1. pc \in Pcs /\ sockReading \in BOOLEAN
  BY DEF TypeInv, LoopOK
<1>2. CASE UNCHANGED <<pc, sockReading, sockDone>> /\ closed' \in {closed, TRUE}
  BY <1>2 DEF ReadInv
<1>3. ASSUME UNCHANGED <<sockReading, sockDone, closed>>,
             \/ pc = "first dev"
             \/ pc \in {"dev", "wait"} /\ pc' \in {"wait", "ended", "dev", "interrupted"}
      PROVE  ReadInv'
  BY <1>3 DEF ReadInv
<1>4. CASE DevReadLost \/ DevReadWaits \/ DevReadRejected
  <2>1. /\ UNCHANGED <<sockReading, sockDone, closed>>
        /\ pc \in {"first dev", "dev"} /\ (Fail \/ Pending)
    BY <1>4 DEF DevReadLost, DevReadWaits, DevReadRejected, netVars
  <2> QED BY <1>3, <2>1 DEF Fail, Pending
<1>5. CASE DevRead \/ DevReadCompleted
  <2>1. /\ UNCHANGED <<sockReading, sockDone, closed>>
        /\ pc \in {"first dev", "dev", "wait"} /\ (Fail \/ GoesOn("dev"))
    BY <1>5 DEF DevRead, DevReadCompleted, WriteToSock
  <2> QED BY <1>3, <2>1 DEF Fail, GoesOn
<1>6. CASE SockReadWaits
  BY <1>6 DEF SockReadWaits, ReadInv, netVars
<1>7. CASE SockRead \/ SockReadCompleted
  <2>1. ~sockReading' /\ sockDone' = None
    <3>1. PICK got, rest \in Seq(Units) : Look(got, rest)
      BY <1>7, Looks
    <3>2. sockReading' = sockReading /\ ~sockReading /\ sockDone' = None
      BY <3>1 DEF Look
    <3> QED BY <3>2
  <2>2. None # <<>>
    <3>1. <<>> \in Seq(Units)
      OBVIOUS
    <3> QED BY <3>1, ForwarderAssumption
  <2> QED BY <2>1, <2>2 DEF ReadInv
<1>8. CASE SockArrives
  <2>1. PICK n \in 0 .. Header : SockTakes(n) /\ sockDone' = SubSeq(stream, 1, n)
    BY <1>8 DEF SockArrives
  <2>2. sockDone' = <<>> => closed
    BY <2>1, Taking
  <2>3. sockReading /\ ~sockReading' /\ UNCHANGED <<pc, closed>>
    BY <1>8 DEF SockArrives
  <2> QED BY <2>2, <2>3 DEF ReadInv
<1>9. CASE Interrupt
  BY <1>3, <1>9 DEF Interrupt, netVars
<1>10. CASE Close \/ Exit \/ Unplug
  BY <1>2, <1>10 DEF Close, Exit, Unplug, loopVars, netVars
<1>11. ASSUME NEW u \in Urbs, Cancel(u) \/ \E k \in set.kinds[u] : Submit(u, k)
       PROVE  ReadInv'
  BY <1>2, <1>11 DEF Cancel, Submit, loopVars, netVars
<1>12. ASSUME NEW wanted \in Selections, SelectConfig(wanted) PROVE ReadInv'
  BY <1>2, <1>12 DEF SelectConfig, loopVars, netVars
<1>13. ASSUME NEW p \in server, Reply(p) PROVE ReadInv'
  BY <1>2, <1>13 DEF Reply, loopVars
<1> QED BY <1>4, <1>5, <1>6, <1>7, <1>8, <1>9, <1>10, <1>11, <1>12, <1>13
        DEF Next, Step, Loop

(* Rejected stays true; a read is completed with an error when it fails for *)
(* good.                                                                    *)
LEMMA RejectedStays ==
  ASSUME TypeInv, Lasts, Rejected PROVE Rejected'
<1>1. PICK u \in Urbs : /\ urb[u] # None /\ result[u].irp = "invalid parameter"
                        /\ SetReadIrpData(urb[u], BigSize) = NoPacket
  BY DEF Rejected
<1>2. state[u] = "done"
  <2>1. NoResult.irp = "none"
    BY DEF NoResult
  <2>2. result[u] # NoResult
    BY <1>1, <2>1
  <2> QED BY <2>2 DEF TypeInv, DriverOK, UrbInv
<1>3. urb'[u] = urb[u] /\ result'[u] = result[u]
  BY <1>1, <1>2 DEF Lasts
<1> QED BY <1>1, <1>3 DEF Rejected

LEMMA RejectedNow ==
  ASSUME NEW u \in Urbs, NEW k, k # None, urb'[u] = k, PacketsOf(u, k, NextNum) = {},
         Complete(u, Refused("invalid parameter")), DOMAIN result = Urbs
  PROVE  Rejected'
<1>1. result'[u] = Refused("invalid parameter")
  BY DEF Complete
<1>2. Refused("invalid parameter").irp = "invalid parameter"
  BY DEF Refused
<1>3. SetReadIrpData(k, BigSize) = NoPacket
  BY NoPackets
<1> QED BY <1>1, <1>2, <1>3 DEF Rejected

LEMMA FailNext ==
  ASSUME TypeInv, PacketInv, FailInv, Next PROVE FailInv'
<1>1. Lasts /\ DriverOK
  BY LastsNext DEF TypeInv
<1>2. CASE readDone' \in {None, readDone}
  <2>1. readDone' = Failed => readDone = Failed
    BY <1>2, Constants
  <2> QED BY <1>1, <2>1, RejectedStays DEF FailInv, Lasts
<1>3. CASE DevReadLost \/ DevReadWaits \/ DevReadRejected \/ SockReadWaits
           \/ SockArrives \/ Interrupt \/ Close \/ Exit \/ DevRead \/ DevReadCompleted
  BY <1>2, <1>3
     DEF DevReadLost, DevReadWaits, DevReadRejected, SockReadWaits, SockArrives,
         Interrupt, Close, Exit, DevRead, DevReadCompleted, driverVars
<1>4. CASE SockRead \/ SockReadCompleted
  <2>1. UNCHANGED driverVars \/ \E r, n, data : BusWrite(r, n, data)
    BY <1>4 DEF SockRead, SockReadCompleted, WriteToDev
  <2>2. UNCHANGED readDone
    BY <1>1, <2>1, BusWriteIs DEF driverVars
  <2> QED BY <1>2, <2>2
<1>5. CASE Unplug
  BY <1>5 DEF Unplug, Drain, FailInv
<1>6. ASSUME NEW u \in Urbs, Cancel(u) PROVE FailInv'
  BY <1>2, <1>6 DEF Cancel
<1>7. ASSUME NEW u \in Urbs, NEW k \in set.kinds[u], Submit(u, k) PROVE FailInv'
  <2>1. IsUrb(k) /\ k # None
    BY ForwarderAssumption DEF TypeInv
  <2>2. \/ readDone' = readDone
        \/ PacketsOf(u, k, NextNum) = {} /\ Complete(u, Refused("invalid parameter"))
        \/ readDone' \in PacketsOf(u, k, NextNum)
    BY <1>7 DEF Submit
  <2>3. CASE readDone' = readDone
    BY <1>2, <2>3
  <2>4. CASE PacketsOf(u, k, NextNum) = {} /\ Complete(u, Refused("invalid parameter"))
    <3>1. urb'[u] = k /\ DOMAIN result = Urbs
      BY <1>1, <1>7 DEF Submit, DriverOK
    <3> QED BY <2>1, <2>4, <3>1, RejectedNow DEF FailInv
  <2>5. CASE readDone' \in PacketsOf(u, k, NextNum)
    <3>1. NextNum \in 0 .. MaxSeq
      BY <1>1, NextNumType DEF DriverOK
    <3>2. readDone' \in PacketRecords
      BY <2>1, <2>5, <3>1, PacketsAre
    <3> QED BY <3>2, PacketRecord DEF FailInv
  <2> QED BY <2>2, <2>3, <2>4, <2>5
<1>8. ASSUME NEW wanted \in Selections, SelectConfig(wanted) PROVE FailInv'
  BY <1>2, <1>8 DEF SelectConfig
<1>9. ASSUME NEW p \in server, Reply(p) PROVE FailInv'
  BY <1>2, <1>9 DEF Reply, driverVars
<1> QED BY <1>3, <1>4, <1>5, <1>6, <1>7, <1>8, <1>9 DEF Next, Step, Loop

-----------------------------------------------------------------------------
(* Numbers                                                                  *)

(* The next number has the next rank, also when the counter wraps.          *)
LEMMA RankNext ==
  ASSUME set.first \in 0 .. MaxSeq, seqNum \in 0 .. MaxSeq,
         NEW n \in 0 .. MaxSeq, StandsAt(n)
  PROVE  NextNum \in 0 .. MaxSeq /\ Rank(NextNum) = n + 1
<1> DEFINE f == set.first
           m == MaxSeq
<1>1. m \in Nat \ {0} /\ f \in 0 .. m /\ seqNum \in 0 .. m /\ n \in 0 .. m
  BY Constants
<1>2. IF n = 0 THEN seqNum = f
      ELSE ((seqNum + (m + 1) - f - 1) % (m + 1)) + 1 = n
  BY DEF StandsAt, Rank
<1> HIDE DEF f, m
<1>3. (seqNum + 1) % (m + 1) = IF seqNum = m THEN 0 ELSE seqNum + 1
  BY <1>1
<1>4. \A x \in 0 .. m : ((x + (m + 1) - f - 1) % (m + 1))
                         = IF x > f THEN x - f - 1 ELSE x + m - f
  BY <1>1
<1>5. LET x == (seqNum + 1) % (m + 1) IN
      x \in 0 .. m /\ ((x + (m + 1) - f - 1) % (m + 1)) + 1 = n + 1
  BY <1>1, <1>2, <1>3, <1>4
<1> QED BY <1>5 DEF f, m, NextNum, Rank

(* Never more URBs are spent than there are numbers, and one that is not    *)
(* leaves one number over.                                                  *)
LEMMA SpentBounded ==
  /\ Cardinality(Spent) \in Nat
  /\ \A u \in Urbs \ Spent : Cardinality(Spent) <= MaxSeq
  /\ \A T \in SUBSET Urbs : /\ IsFiniteSet(T) /\ Cardinality(T) \in Nat
                            /\ Cardinality(T) <= MaxSeq + 1
<1>1. ASSUME NEW T \in SUBSET Urbs
      PROVE  IsFiniteSet(T) /\ Cardinality(T) \in Nat /\ Cardinality(T) <= MaxSeq + 1
  <2>1. IsFiniteSet(T) /\ Cardinality(T) <= Cardinality(Urbs)
    BY Constants, FS_Subset
  <2>2. Cardinality(T) \in Nat /\ Cardinality(Urbs) \in Nat
    BY <2>1, Constants, FS_CardinalityType
  <2> QED BY <2>1, <2>2, Constants
<1>2. Spent \subseteq Urbs
  BY DEF Spent
<1>3. ASSUME NEW u \in Urbs \ Spent PROVE Cardinality(Spent) <= MaxSeq
  <2>1. Cardinality(Spent \cup {u}) = Cardinality(Spent) + 1
    BY <1>1, <1>2, <1>3, FS_AddElement
  <2>2. Spent \cup {u} \in SUBSET Urbs
    BY <1>2
  <2>3. Cardinality(Spent \cup {u}) <= MaxSeq + 1 /\ Cardinality(Spent) \in Nat
    BY <1>1, <1>2, <2>2
  <2> QED BY <2>1, <2>3, Constants
<1> QED BY <1>1, <1>2, <1>3

(* A step in which no number is drawn.                                      *)
LEMMA KeepNumbers ==
  ASSUME NumberInv, DistinctInv, DrewInv, UNCHANGED <<set, seqNum, seq>>, Spent \subseteq Spent',
         \A u \in Urbs : Drew(u)' => Drew(u)
  PROVE  NumberInv' /\ DistinctInv' /\ DrewInv'
<1>1. PICK n \in 0 .. Cardinality(Spent) :
         StandsAt(n) /\ \A u \in Urbs : seq[u] # 0 \/ Drew(u) => Rank(seq[u]) \in 1 .. n
  BY DEF NumberInv
<1>2. Spent' \in SUBSET Urbs /\ Spent \in SUBSET Urbs
  BY DEF Spent
<1>3. /\ Cardinality(Spent) <= Cardinality(Spent')
      /\ Cardinality(Spent) \in Nat /\ Cardinality(Spent') \in Nat
  BY <1>2, SpentBounded, FS_Subset
<1>4. n \in 0 .. Cardinality(Spent')
  BY <1>1, <1>3
<1>5. /\ StandsAt(n)'
      /\ \A u \in Urbs : seq'[u] # 0 \/ Drew(u)' => Rank(seq[u])' \in 1 .. n
  BY <1>1 DEF StandsAt, Rank
<1>6. NumberInv'
  BY <1>4, <1>5 DEF NumberInv
<1>7. DistinctInv'
  BY DEF DistinctInv
<1>8. DrewInv'
  BY DEF DrewInv
<1> QED BY <1>6, <1>7, <1>8

(* A step in which one URB draws the next number, or the number is lost,    *)
(* and the URB is spent.                                                    *)
LEMMA DrawNumber ==
  ASSUME TypeInv, NumberInv, DistinctInv, DrewInv, NEW w \in Urbs \ Spent,
         UNCHANGED set, seqNum' = NextNum,
         seq' = [seq EXCEPT ![w] = NextNum] \/ (seq' = seq /\ ~Drew(w)'),
         w \in Spent', Spent \subseteq Spent',
         \A u \in Urbs \ {w} : Drew(u)' => Drew(u)
  PROVE  NumberInv' /\ DistinctInv' /\ DrewInv'
<1>1. PICK n \in 0 .. Cardinality(Spent) :
         StandsAt(n) /\ \A u \in Urbs : seq[u] # 0 \/ Drew(u) => Rank(seq[u]) \in 1 .. n
  BY DEF NumberInv
<1>2. Spent' \in SUBSET Urbs /\ Spent \in SUBSET Urbs /\ Spent \cup {w} \in SUBSET Spent'
  BY DEF Spent
<1>3. /\ Cardinality(Spent) \in Nat /\ Cardinality(Spent) <= MaxSeq
      /\ Cardinality(Spent') \in Nat
      /\ Cardinality(Spent \cup {w}) = Cardinality(Spent) + 1
      /\ Cardinality(Spent \cup {w}) <= Cardinality(Spent')
  BY <1>2, SpentBounded, FS_Subset, FS_AddElement
<1>4. n \in 0 .. MaxSeq /\ n + 1 \in 0 .. Cardinality(Spent') /\ n + 1 # 0
  BY <1>1, <1>3, Constants
<1>5. /\ set.first \in 0 .. MaxSeq /\ seqNum \in 0 .. MaxSeq
      /\ seq \in [Urbs -> 0 .. MaxSeq]
  BY Constants DEF TypeInv, DriverOK
<1>6. NextNum \in 0 .. MaxSeq /\ Rank(NextNum) = n + 1
  BY <1>1, <1>4, <1>5, RankNext
<1>7. \A u \in Urbs : seq[u] # 0 \/ Drew(u) => Rank(seq[u]) \in 1 .. n
  BY <1>1
<1>8. \A u \in Urbs \ {w} : seq'[u] = seq[u]
  BY <1>5
<1>9. seq'[w] = NextNum \/ (seq'[w] = seq[w] /\ ~Drew(w)')
  BY <1>5
<1>10. \A u \in Urbs : seq'[u] # 0 \/ Drew(u)' =>
         \/ u = w /\ seq'[u] = NextNum
         \/ seq'[u] = seq[u] /\ Rank(seq[u]) \in 1 .. n
  BY <1>7, <1>8, <1>9
<1>11. \A u \in Urbs : seq'[u] # 0 \/ Drew(u)' => Rank(seq[u])' \in 1 .. n + 1
  <2> TAKE u \in Urbs
  <2> HAVE seq'[u] # 0 \/ Drew(u)'
  <2>1. Rank(seq[u])' = Rank(seq'[u])
    BY DEF Rank
  <2>2. CASE seq'[u] = seq[u] /\ Rank(seq[u]) \in 1 .. n
    BY <1>4, <2>1, <2>2
  <2>3. CASE seq'[u] = NextNum
    BY <1>4, <1>6, <2>1, <2>3
  <2> QED BY <1>10, <2>2, <2>3
<1>12. NumberInv'
  <2>1. Rank(seqNum)' = n + 1
    BY <1>6 DEF Rank
  <2>2. StandsAt(n + 1)'
    BY <1>4, <2>1 DEF StandsAt
  <2> QED BY <1>4, <1>11, <2>2 DEF NumberInv
<1>13. \A u \in Urbs : seq[u] # 0 \/ Drew(u) => seq[u] # NextNum
  <2> TAKE u \in Urbs
  <2> HAVE seq[u] # 0 \/ Drew(u)
  <2>1. Rank(seq[u]) \in 1 .. n
    BY <1>7
  <2> QED BY <1>4, <1>6, <2>1
<1>14. DistinctInv'
  <2> SUFFICES ASSUME NEW u \in Urbs, NEW v \in Urbs, seq'[u] # 0, u # v
               PROVE  seq'[u] # seq'[v]
    BY DEF DistinctInv
  <2>1. \A x, y \in Urbs : seq[x] # 0 /\ x # y => seq[x] # seq[y]
    BY DEF DistinctInv
  <2>2. CASE u # w /\ v # w
    BY <1>8, <2>1, <2>2
  <2>3. CASE u = w
    BY <1>8, <1>9, <1>13, <2>1, <2>3
  <2>4. CASE v = w
    BY <1>8, <1>9, <1>13, <2>1, <2>4
  <2> QED BY <2>2, <2>3, <2>4
<1>15. DrewInv'
  <2> SUFFICES ASSUME NEW u \in Urbs, NEW v \in Urbs, Drew(u)', Drew(v)', u # v
               PROVE  seq'[u] # seq'[v]
    BY DEF DrewInv
  <2>1. CASE u # w /\ v # w
    <3>1. Drew(u) /\ Drew(v)
      BY <2>1
    <3> QED BY <1>8, <2>1, <3>1 DEF DrewInv
  <2>2. CASE u = w
    <3>1. Drew(v) /\ seq'[v] = seq[v]
      BY <1>8, <2>2
    <3> QED BY <1>9, <1>13, <2>2, <3>1
  <2>3. CASE v = w
    <3>1. Drew(u) /\ seq'[u] = seq[u]
      BY <1>8, <2>3
    <3> QED BY <1>9, <1>13, <2>3, <3>1
  <2> QED BY <2>1, <2>2, <2>3
<1> QED BY <1>12, <1>14, <1>15

(* Only what is sent has drawn its number.                                  *)
LEMMA NotDrew ==
  ASSUME PacketInv, ReplyInv, NEW u \in Urbs, state[u] \in {"new", "queued"}
  PROVE  ~Drew(u)
<1>1. \A p : Made(p) => p.urb # u
  BY DEF Made
<1> QED BY <1>1 DEF Drew, PacketInv, ReplyInv

LEMMA DrewNext ==
  ASSUME TypeInv, PacketInv, ReplyInv, Next, NEW u \in Urbs, Drew(u)'
  PROVE  Drew(u) \/ (state[u] \in {"new", "queued"} /\ state'[u] = "sent")
<1>1. DriverOK /\ Lasts /\ DOMAIN state = Urbs
  BY LastsNext DEF TypeInv, DriverOK
<1>2. CASE state'[u] = "sent"
  BY <1>1, <1>2 DEF Drew, Lasts, DriverOK
<1>3. CASE replies'[u] # None
  <2>1. CASE replies'[u] = replies[u]
    BY <1>3, <2>1 DEF Drew
  <2>2. CASE replies'[u] # replies[u]
    BY <2>2, AnsweredNext DEF Drew
  <2> QED BY <2>1, <2>2
<1>4. ASSUME NEW p \in server', p.urb = u, state'[u] # "sent" PROVE Drew(u)
  <2>1. CASE p \in server
    BY <1>4, <2>1 DEF Drew
  <2>2. CASE DevRead
    <3>1. PICK v \in Urbs : \E q \in PacketsOf(v, urb[v], NextNum) :
             state[v] = "queued" /\ state' = [state EXCEPT ![v] = "sent"] /\ WriteToSock(q)
      BY <1>1, <2>2, DevReadIs
    <3>2. PICK q \in PacketsOf(v, urb[v], NextNum) : WriteToSock(q)
      BY <3>1
    <3>3. p \in server \/ p = q
      BY <3>2 DEF WriteToSock
    <3>4. q.urb = v
      BY <3>2 DEF PacketsOf
    <3> QED BY <1>1, <1>4, <2>1, <3>1, <3>3, <3>4
  <2>3. CASE DevReadCompleted
    <3>1. p \in server \/ (p = readDone /\ readDone \notin {None, Failed})
      BY <2>3 DEF DevReadCompleted, WriteToSock
    <3> QED BY <1>4, <2>1, <3>1 DEF Drew
  <2>4. CASE server' \subseteq server
    BY <2>1, <2>4
  <2>5. DevRead \/ DevReadCompleted \/ server' \subseteq server
    BY DEF Next, Step, Loop, DevReadLost, DevReadWaits, DevReadRejected,
           SockReadWaits, SockRead, SockReadCompleted, SockArrives, Interrupt,
           Close, Exit, Unplug, Cancel, Submit, SelectConfig, Reply, netVars
  <2> QED BY <2>2, <2>3, <2>4, <2>5
<1>5. ASSUME readDone' \notin {None, Failed}, readDone'.urb = u, state'[u] # "sent"
      PROVE  Drew(u)
  <2>1. CASE readDone' = readDone
    BY <1>5, <2>1 DEF Drew
  <2>2. ASSUME NEW v \in Urbs, NEW k \in set.kinds[v], Submit(v, k) PROVE Drew(u)
    <3>1. \/ readDone' \in {Failed, readDone}
          \/ /\ \E p \in PacketsOf(v, k, NextNum) : readDone' = p
             /\ state' = [state EXCEPT ![v] = "sent"]
      BY <2>2 DEF Submit
    <3>2. \A p \in PacketsOf(v, k, NextNum) : p.urb = v
      BY DEF PacketsOf
    <3> QED BY <1>1, <1>5, <2>1, <3>1, <3>2
  <2>3. CASE SockRead \/ SockReadCompleted
    <3>1. UNCHANGED driverVars \/ \E r, n, data : BusWrite(r, n, data)
      BY <2>3 DEF SockRead, SockReadCompleted, WriteToDev
    <3> QED BY <1>1, <2>1, <3>1, BusWriteIs DEF driverVars
  <2>4. CASE ~SockRead /\ ~SockReadCompleted
             /\ \A v \in Urbs : \A k \in set.kinds[v] : ~Submit(v, k)
    <3>1. readDone' \in {None, Failed, readDone}
      BY <2>4
         DEF Next, Step, Loop, DevReadLost, DevReadWaits, DevReadRejected, DevRead,
             DevReadCompleted, SockReadWaits, SockArrives, Interrupt, Close, Exit,
             Unplug, Cancel, SelectConfig, Reply, driverVars
    <3> QED BY <1>5, <2>1, <3>1
  <2> QED BY <2>2, <2>3, <2>4
<1> QED BY <1>2, <1>3, <1>4, <1>5 DEF Drew

LEMMA NumberNext ==
  ASSUME TypeInv, PacketInv, ReplyInv, NumberInv, DistinctInv, DrewInv, Next
  PROVE  NumberInv' /\ DistinctInv' /\ DrewInv'
<1>1. /\ state \in [Urbs -> {"new", "queued", "sent", "done"}]
      /\ UNCHANGED set /\ DriverOK
  BY DEF TypeInv, DriverOK, Next
<1> DEFINE NoneSent == \A v \in Urbs : state'[v] = "sent" => state[v] = "sent"
<1>2. ASSUME UNCHANGED <<seqNum, seq>>, Spent \subseteq Spent', NoneSent
      PROVE  NumberInv' /\ DistinctInv' /\ DrewInv'
  <2>1. \A v \in Urbs : Drew(v)' => Drew(v)
    BY <1>2, DrewNext
  <2> QED BY <1>1, <1>2, <2>1, KeepNumbers
<1>3. CASE UNCHANGED <<seqNum, seq, state>>
  BY <1>2, <1>3 DEF Spent
<1>4. ASSUME NEW u \in Urbs, NEW x \in {"sent", "done"},
             state' = [state EXCEPT ![u] = x]
      PROVE  /\ u \in Spent' /\ Spent \subseteq Spent'
             /\ \A v \in Urbs \ {u} : Drew(v)' => Drew(v)
             /\ x = "done" => NoneSent
  <2>1. /\ u \in Spent' /\ Spent \subseteq Spent'
        /\ \A v \in Urbs \ {u} : state'[v] = state[v]
        /\ state'[u] = x
    BY <1>1, <1>4 DEF Spent
  <2>2. \A v \in Urbs \ {u} : Drew(v)' => Drew(v)
    BY <2>1, DrewNext
  <2> QED BY <2>1, <2>2
<1>5. CASE DevReadLost \/ SockReadWaits \/ SockArrives \/ Interrupt \/ Close
           \/ DevReadWaits \/ DevReadCompleted
  BY <1>3, <1>5
     DEF DevReadLost, SockReadWaits, SockArrives, Interrupt, Close, DevReadWaits,
         DevReadCompleted, driverVars
<1>6. ASSUME NEW u \in Urbs, state[u] \in {"new", "queued"}, seqNum' = NextNum,
             \/ seq' = seq /\ state' = [state EXCEPT ![u] = "done"]
             \/ /\ seq' = [seq EXCEPT ![u] = NextNum]
                /\ state' = [state EXCEPT ![u] = "sent"]
      PROVE  NumberInv' /\ DistinctInv' /\ DrewInv'
  <2>1. u \in Urbs \ Spent
    BY <1>6 DEF Spent
  <2>2. CASE seq' = [seq EXCEPT ![u] = NextNum] /\ state' = [state EXCEPT ![u] = "sent"]
    BY <1>1, <1>4, <1>6, <2>1, <2>2, DrawNumber
  <2>3. CASE seq' = seq /\ state' = [state EXCEPT ![u] = "done"]
    <3>1. state'[u] = "done"
      BY <1>1, <2>3
    <3>2. ~Drew(u)'
      BY <1>6, <3>1, NotDrew, DrewNext
    <3> QED BY <1>1, <1>4, <1>6, <2>1, <2>3, <3>2, DrawNumber
  <2> QED BY <1>6, <2>2, <2>3
<1>7. CASE DevReadRejected
  <2>1. LET u == queue[Min(Unsent)] IN
        /\ u \in Urbs /\ state[u] = "queued" /\ seqNum' = NextNum
        /\ state' = [state EXCEPT ![u] = "done"]
    BY <1>1, <1>7, RejectedIs DEF Complete
  <2>2. seq' = seq
    BY <1>7 DEF DevReadRejected
  <2> QED BY <1>6, <2>1, <2>2
<1>8. CASE DevRead
  <2>1. PICK u \in Urbs : /\ state[u] = "queued"
                          /\ state' = [state EXCEPT ![u] = "sent"]
                          /\ seq' = [seq EXCEPT ![u] = NextNum] /\ seqNum' = NextNum
    BY <1>1, <1>8, DevReadIs
  <2> QED BY <1>6, <2>1
<1>9. CASE SockRead \/ SockReadCompleted
  <2>1. UNCHANGED driverVars \/ \E r, n, data : BusWrite(r, n, data)
    BY <1>9 DEF SockRead, SockReadCompleted, WriteToDev
  <2>2. CASE UNCHANGED driverVars
    BY <1>3, <2>2 DEF driverVars
  <2>3. ASSUME NEW r, NEW n, NEW data, BusWrite(r, n, data)
        PROVE  NumberInv' /\ DistinctInv' /\ DrewInv'
    <3>1. CASE UNCHANGED driverVars
      BY <2>2, <3>1
    <3>2. ASSUME NEW i \in DOMAIN queue, NEW x, Complete(queue[i], x),
                 queue' = RemoveAt(queue, i)
          PROVE  NumberInv' /\ DistinctInv' /\ DrewInv'
      <4>1. queue[i] \in Urbs /\ state' = [state EXCEPT ![queue[i]] = "done"]
        BY <1>1, <3>2, QueueTaken DEF Complete
      <4>2. UNCHANGED <<seqNum, seq>>
        BY <1>1, <2>3, BusWriteIs
      <4> QED BY <1>2, <1>4, <4>1, <4>2
    <3> QED BY <1>1, <2>3, <3>1, <3>2, BusWriteIs
  <2> QED BY <2>1, <2>2, <2>3
<1>10. CASE Exit \/ Unplug
  <2>1. Drain
    BY <1>10 DEF Exit, Unplug
  <2>2. UNCHANGED <<seqNum, seq>>
        /\ \A u \in Urbs : state'[u] \in {"done", state[u]}
    BY <2>1 DEF Drain
  <2>3. Spent \subseteq Spent' /\ NoneSent
    BY <2>2 DEF Spent
  <2> QED BY <1>2, <2>2, <2>3
<1>11. ASSUME NEW u \in Urbs, Cancel(u) PROVE NumberInv' /\ DistinctInv' /\ DrewInv'
  BY <1>2, <1>4, <1>11 DEF Cancel, Complete
<1>12. ASSUME NEW u \in Urbs, NEW k \in set.kinds[u], Submit(u, k)
       PROVE  NumberInv' /\ DistinctInv' /\ DrewInv'
  <2>1. state[u] = "new"
    BY <1>12 DEF Submit
  <2>2. CASE UNCHANGED <<seqNum, seq>> /\ \E r : Complete(u, r)
    BY <1>2, <1>4, <2>2 DEF Complete
  <2>3. CASE UNCHANGED <<seqNum, seq>> /\ state' = [state EXCEPT ![u] = "queued"]
    <3>1. Spent \subseteq Spent' /\ NoneSent
      BY <1>1, <2>1, <2>3 DEF Spent
    <3> QED BY <1>2, <2>3, <3>1
  <2>4. CASE /\ seqNum' = NextNum
             /\ \/ seq' = seq /\ \E r : Complete(u, r)
                \/ /\ seq' = [seq EXCEPT ![u] = NextNum]
                   /\ state' = [state EXCEPT ![u] = "sent"]
    BY <1>6, <2>1, <2>4 DEF Complete
  <2> QED BY <1>12, <2>2, <2>3, <2>4 DEF Submit
<1>13. ASSUME NEW wanted \in Selections, SelectConfig(wanted)
       PROVE  NumberInv' /\ DistinctInv' /\ DrewInv'
  BY <1>3, <1>13 DEF SelectConfig
<1>14. ASSUME NEW p \in server, Reply(p) PROVE NumberInv' /\ DistinctInv' /\ DrewInv'
  BY <1>3, <1>14 DEF Reply, driverVars
<1> QED BY <1>5, <1>7, <1>8, <1>9, <1>10, <1>11, <1>12, <1>13, <1>14
        DEF Next, Step, Loop

-----------------------------------------------------------------------------
(* The connection                                                           *)

(* What a step does to the units that nobody has looked at.                 *)
LEMMA ArrivesFlow ==
  ASSUME TypeInv, ReadInv, SockArrives PROVE Flow' = Flow
<1>1. PICK n \in 0 .. Header : /\ SockTakes(n) /\ sockDone' = SubSeq(stream, 1, n)
                               /\ stream' = SubSeq(stream, n + 1, Len(stream))
  BY DEF SockArrives
<1>2. sockDone' \in Seq(Units) /\ stream = sockDone' \o stream'
  BY <1>1, Taking
<1>3. sockDone' # None
  BY <1>2, ForwarderAssumption
<1>4. sockDone = None
  BY DEF ReadInv, SockArrives
<1> QED BY <1>2, <1>3, <1>4 DEF Flow

LEMMA ReplyFlow ==
  ASSUME TypeInv, PacketInv, NEW p \in server, Reply(p)
  PROVE  /\ p.urb \in Urbs /\ replies[p.urb] = None /\ ~closed
         /\ \E r \in Answers(p) : \E n \in 1 .. Len(UnitsOf(p, r)) :
              /\ replies' = [replies EXCEPT ![p.urb] = r]
              /\ SubSeq(UnitsOf(p, r), 1, n) \in Seq(Units)
              /\ Len(SubSeq(UnitsOf(p, r), 1, n)) = n
              /\ \A i \in 1 .. n : SubSeq(UnitsOf(p, r), 1, n)[i] = <<p.urb, i>>
              /\ Flow' = Flow \o SubSeq(UnitsOf(p, r), 1, n)
              /\ (n = Len(UnitsOf(p, r)) /\ closed' = closed) \/ closed' = TRUE
<1>1. Made(p) /\ ~closed
  BY ReplyIs
<1>2. p.urb \in Urbs /\ replies[p.urb] = None
  BY <1>1, MadeFacts
<1>3. PICK r \in Answers(p) : \E n \in 1 .. Len(UnitsOf(p, r)) :
         /\ replies' = [replies EXCEPT ![p.urb] = r]
         /\ stream' = stream \o SubSeq(UnitsOf(p, r), 1, n)
         /\ (n = Len(UnitsOf(p, r)) /\ closed' = closed) \/ closed' = TRUE
  BY ReplyIs
<1>4. PICK n \in 1 .. Len(UnitsOf(p, r)) :
         /\ replies' = [replies EXCEPT ![p.urb] = r]
         /\ stream' = stream \o SubSeq(UnitsOf(p, r), 1, n)
         /\ (n = Len(UnitsOf(p, r)) /\ closed' = closed) \/ closed' = TRUE
  BY <1>3
<1>5. /\ UnitsOf(p, r) \in Seq(Units) /\ Len(UnitsOf(p, r)) \in Nat
      /\ \A i \in 1 .. Len(UnitsOf(p, r)) : UnitsOf(p, r)[i] = <<p.urb, i>>
  BY <1>1, UnitsAre
<1> DEFINE all == UnitsOf(p, r)
           g == SubSeq(all, 1, n)
<1> HIDE DEF all
<1>6. n \in 0 .. Len(all) /\ all \in Seq(Units)
  BY <1>5 DEF all
<1>7. /\ g \in Seq(Units) /\ Len(g) = n
      /\ \A i \in 1 .. n : g[i] = all[i]
  BY <1>6, FrontIs
<1>8. \A i \in 1 .. n : g[i] = <<p.urb, i>>
  BY <1>5, <1>6, <1>7 DEF all
<1> HIDE DEF g
<1>9. stream' = stream \o g
  BY <1>4 DEF all, g
<1>10. Flow' = Flow \o g
  <2>1. sockDone' = sockDone /\ stream \in Seq(Units) /\ sockDone \in Seq(Units) \cup {None}
    BY DEF Reply, loopVars, TypeInv, LoopOK
  <2>2. CASE sockDone = None
    BY <1>9, <2>1, <2>2 DEF Flow
  <2>3. CASE sockDone # None
    <3>1. sockDone \in Seq(Units)
      BY <2>1, <2>3
    <3>2. (sockDone \o stream) \o g = sockDone \o (stream \o g)
      BY <1>7, <2>1, <3>1, ConcatAssociative
    <3> QED BY <1>9, <2>1, <2>3, <3>2 DEF Flow
  <2> QED BY <2>2, <2>3
<1> QED BY <1>1, <1>2, <1>4, <1>7, <1>8, <1>10 DEF all, g

LEMMA LookDrops ==
  ASSUME TypeInv, ReplyInv, FlowInv, NEW got \in Seq(Units),
         NEW rest \in Seq(Units), Look(got, rest)
  PROVE  \E k \in 0 .. Len(Flow) : Dropped(k)
BY Ways DEF Look

(* Every other step leaves them alone.                                      *)
LEMMA FlowCases ==
  ASSUME TypeInv, ReadInv, Next
  PROVE  \/ Flow' = Flow
         \/ SockRead \/ SockReadCompleted
         \/ \E p \in server : Reply(p)
<1>1. CASE UNCHANGED <<sockDone, stream>>
  BY <1>1 DEF Flow
<1>2. CASE SockArrives
  BY <1>2, ArrivesFlow
<1>3. CASE \/ DevReadLost \/ DevReadWaits \/ DevReadRejected \/ DevRead
           \/ DevReadCompleted \/ SockReadWaits \/ Interrupt \/ Exit \/ Unplug \/ Close
           \/ \E u \in Urbs : Cancel(u) \/ \E k \in set.kinds[u] : Submit(u, k)
           \/ \E wanted \in Selections : SelectConfig(wanted)
  BY <1>1, <1>3
     DEF DevReadLost, DevReadWaits, DevReadRejected, DevRead, DevReadCompleted,
         SockReadWaits, Interrupt, Exit, Unplug, Close, Cancel, Submit,
         SelectConfig, netVars, loopVars
<1> QED BY <1>2, <1>3 DEF Next, Step, Loop

LEMMA FlowNext ==
  ASSUME TypeInv, TypeInv', PacketInv, ReplyInv, FlowInv, ReadInv, Next
  PROVE  FlowInv'
<1>1. Answered /\ (closed => closed')
  BY AnsweredNext, LastsNext DEF Lasts
<1>2. /\ Flow \in Seq(Units) /\ Len(Flow) \in Nat
      /\ \A i \in 1 .. Len(Flow) : /\ Flow[i][1] \in Urbs
                                   /\ replies[Flow[i][1]] # None
  BY FlowSeq DEF FlowInv
<1>3. CASE Flow' = Flow
  <2>1. 0 \in 0 .. Len(Flow) /\ Dropped(0)
    BY <1>2, <1>3 DEF Dropped
  <2> QED BY <1>1, <2>1, FlowKept
<1>4. CASE SockRead \/ SockReadCompleted
  <2>1. \E k \in 0 .. Len(Flow) : Dropped(k)
    BY <1>4, Looks, LookDrops
  <2> QED BY <1>1, <2>1, FlowKept
<1>5. ASSUME NEW p \in server, Reply(p) PROVE FlowInv'
  <2>1. Made(p) /\ p.urb \in Urbs /\ replies[p.urb] = None /\ ~closed
    BY <1>5, ReplyFlow DEF PacketInv
  <2>2. PICK r \in Answers(p) : \E n \in 1 .. Len(UnitsOf(p, r)) :
          /\ replies' = [replies EXCEPT ![p.urb] = r]
          /\ \E G \in Seq(Units) : /\ Len(G) = n
                                   /\ \A i \in 1 .. n : G[i] = <<p.urb, i>>
                                   /\ Flow' = Flow \o G
          /\ (n = Len(UnitsOf(p, r)) /\ closed' = closed) \/ closed' = TRUE
    BY <1>5, ReplyFlow
  <2>3. PICK n \in 1 .. Len(UnitsOf(p, r)) :
          /\ replies' = [replies EXCEPT ![p.urb] = r]
          /\ \E G \in Seq(Units) : /\ Len(G) = n
                                   /\ \A i \in 1 .. n : G[i] = <<p.urb, i>>
                                   /\ Flow' = Flow \o G
          /\ (n = Len(UnitsOf(p, r)) /\ closed' = closed) \/ closed' = TRUE
    BY <2>2
  <2>4. PICK G \in Seq(Units) : /\ Len(G) = n
                                /\ \A i \in 1 .. n : G[i] = <<p.urb, i>>
                                /\ Flow' = Flow \o G
    BY <2>3
  <2> DEFINE u == p.urb
             m == Len(UnitsOf(p, r))
  <2>5. m \in Nat /\ n \in Nat /\ n <= m /\ n > 0 /\ n \in 1 .. m
    <3>1. m \in Nat
      BY <2>1, UnitsAre
    <3> QED BY <3>1
  <2>6. replies'[u] = r /\ r # None
    <3>1. r \in ReplyRecords
      BY <2>1, AnswersAre
    <3>2. r # None
      BY <3>1, ForwarderAssumption
    <3> QED BY <2>1, <2>3, <3>2 DEF ReplyInv
  <2>7. Total'[u] = m
    <3>1. urb'[u] = urb[u] /\ (p.in <=> IsIn(urb[u]))
      <4>1. urb' = urb
        BY <1>5 DEF Reply, driverVars
      <4> QED BY <2>1, <4>1, MadeFacts
    <3>2. m = Header + (IF p.in THEN r.actual ELSE 0) + r.npackets * IsoDesc
      BY <2>1, UnitsAre
    <3>3. Total'[u] = Header + (IF IsIn(urb'[u]) THEN replies'[u].actual ELSE 0)
                        + replies'[u].npackets * IsoDesc
      BY <2>1, <2>6 DEF Total
    <3> QED BY <2>6, <3>1, <3>2, <3>3
  <2>8. \A i \in 1 .. Len(Flow) : Flow[i][1] # u
    BY <1>2, <2>1
  <2>9. \A i \in 1 .. Len(Flow) : /\ Total'[Flow[i][1]] = Total[Flow[i][1]]
                                  /\ Total[Flow[i][1]] \in Nat
                                  /\ replies'[Flow[i][1]] # None
    BY <1>1, <1>2, TotalSame, ReplyFacts
  <2>10. Whole(Flow, Total, FALSE)
    <3>1. closed = FALSE
      BY <2>1 DEF TypeInv, LoopOK
    <3> QED BY <3>1 DEF FlowInv
  <2> HIDE DEF u, m
  <2>11. n = m \/ closed'
    BY <2>3 DEF m
  <2>12. u \in Urbs /\ \A i \in 1 .. n : G[i] = <<u, i>>
    BY <2>1, <2>4 DEF u
  <2>13. Whole(Flow \o G, Total', closed')
    <3>1. Total'[u] \in Nat /\ n <= Total'[u] /\ (n = Total'[u] \/ closed')
      BY <2>5, <2>7, <2>11
    <3> QED BY <1>2, <2>4, <2>5, <2>8, <2>9, <2>10, <2>12, <3>1, WholeAppend
  <2>14. \A i \in 1 .. Len(Flow') : replies'[Flow'[i][1]] # None
    <3>1. /\ Len(Flow') = Len(Flow) + n
          /\ \A i \in 1 .. Len(Flow) + n : Flow'[i] =
               IF i <= Len(Flow) THEN Flow[i] ELSE G[i - Len(Flow)]
      BY <1>2, <2>4, ConcatProperties
    <3> TAKE i \in 1 .. Len(Flow')
    <3>2. i \in 1 .. Len(Flow) + n
      BY <3>1
    <3>3. CASE i <= Len(Flow)
      <4>1. i \in 1 .. Len(Flow) /\ Flow'[i] = Flow[i]
        BY <1>2, <3>1, <3>2, <3>3
      <4> QED BY <2>9, <4>1
    <3>4. CASE ~(i <= Len(Flow))
      <4>1. i - Len(Flow) \in 1 .. n /\ Flow'[i] = G[i - Len(Flow)]
        BY <1>2, <2>5, <3>1, <3>2, <3>4
      <4>2. Flow'[i][1] = u
        BY <2>12, <4>1
      <4> QED BY <2>6, <4>2
    <3> QED BY <3>3, <3>4
  <2> QED BY <2>4, <2>13, <2>14 DEF FlowInv, Whole, Distinct
<1> QED BY <1>3, <1>4, <1>5, FlowCases

-----------------------------------------------------------------------------
(* In step                                                                  *)

LEMMA ZeroStays ==
  ASSUME Answered, AnsweredZero PROVE AnsweredZero'
<1>1. PICK u \in Urbs : replies[u] # None /\ replies[u].seq = 0
  BY DEF AnsweredZero
<1>2. replies'[u] = replies[u]
  BY <1>1 DEF Answered
<1> QED BY <1>1, <1>2 DEF AnsweredZero

(* Once a header has been seen, the request is an OUT exactly if a slot     *)
(* holds its number; so the length that is read is that of the reply.       *)
LEMMA LengthIs ==
  ASSUME TypeInv, DistinctInv, ReplyInv, FlowInv, SlotInv, ~AnsweredZero,
         NEW got \in Seq(Units), NEW rest \in Seq(Units), Look(got, rest),
         IsHeader(got)
  PROVE  LET r == replies[got[1][1]] IN
         Header + ((IF Holding(r.seq) = {} THEN r.actual ELSE 0)
                     + r.npackets * IsoDesc) = Total[got[1][1]]
<1> DEFINE u == got[1][1]
           r == replies[u]
<1>1. u \in Urbs /\ r # None /\ Flow[1] = <<u, 1>>
  BY HeaderIs DEF Look
<1>2. /\ r.actual \in Nat /\ r.npackets * IsoDesc \in Nat
      /\ r.seq = seq[u] /\ urb[u] # None
  BY <1>1, ReplyFacts
<1>3. r.seq # 0
  BY <1>1 DEF AnsweredZero
<1>4. got[1] = <<u, 1>> /\ 1 \in DOMAIN got
  <2>1. PICK v \in Urbs : got = [i \in 1 .. Header |-> <<v, i>>]
    BY DEF IsHeader
  <2>2. 1 \in 1 .. Header
    BY Constants
  <2> QED BY <2>1, <2>2
<1> HIDE DEF r, u
<1>5. ASSUME IsIn(urb[u]) PROVE Holding(r.seq) = {}
  <2> SUFFICES ASSUME NEW i \in 1 .. OutQLen, slots[i] = r.seq PROVE FALSE
    BY DEF Holding
  <2>1. PICK v \in Urbs : urb[v] # None /\ ~IsIn(urb[v]) /\ seq[v] = slots[i]
    BY <1>3 DEF SlotInv
  <2>2. v # u
    BY <1>5, <2>1
  <2> QED BY <1>1, <1>2, <1>3, <2>1, <2>2 DEF DistinctInv
<1>6. ASSUME ~IsIn(urb[u]) PROVE Holding(r.seq) # {}
  <2>1. \/ <<u, 1>> \in Range(stream)
        \/ sockDone # None /\ <<u, 1>> \in Range(sockDone)
    <3>1. CASE sockDone = None
      <4>1. Flow = stream
        BY <3>1 DEF Flow
      <4>2. 1 \in DOMAIN stream
        <5>1. Len(Flow) = Len(got) + Len(rest) /\ Len(got) = Header
          BY HeaderIs, ConcatProperties DEF Look
        <5>2. 1 <= Len(Flow)
          BY <5>1, Constants, LenProperties
        <5> QED BY <4>1, <5>2, LenProperties DEF TypeInv, LoopOK
      <4> QED BY <1>1, <4>1, <4>2 DEF Range
    <3>2. CASE sockDone # None
      <4>1. sockDone = <<>> \/ Flow[1] = sockDone[1]
        <5>1. sockDone \in Seq(Units) /\ stream \in Seq(Units) /\ Flow = sockDone \o stream
          BY <3>2 DEF TypeInv, LoopOK, Flow
        <5> DEFINE s == sockDone
        <5>2. Len(s) \in Nat /\ Len(stream) \in Nat
          BY <5>1, LenProperties
        <5>3. CASE Len(s) = 0
          BY <5>1, <5>3, EmptySeq
        <5>4. CASE Len(s) # 0
          <6>1. 1 \in 1 .. Len(s) + Len(stream) /\ 1 <= Len(s)
            BY <5>2, <5>4
          <6>2. (s \o stream)[1] = s[1]
            BY <5>1, <6>1, ConcatProperties
          <6> QED BY <5>1, <6>2
        <5> QED BY <5>3, <5>4
      <4>2. CASE sockDone = <<>>
        <5>1. Flow = stream
          BY <3>2, <4>2, ConcatEmptySeq DEF TypeInv, LoopOK, Flow
        <5>2. Len(Flow) = Len(got) + Len(rest) /\ Len(got) = Header
          BY HeaderIs, ConcatProperties DEF Look
        <5>3. 1 <= Len(Flow)
          BY <5>2, Constants, LenProperties
        <5>4. 1 \in DOMAIN stream
          BY <5>1, <5>3, LenProperties DEF TypeInv, LoopOK
        <5> QED BY <1>1, <5>1, <5>4 DEF Range
      <4>3. CASE sockDone # <<>>
        <5>1. sockDone \in Seq(Units)
          BY <3>2 DEF TypeInv, LoopOK
        <5>2. 1 \in DOMAIN sockDone
          BY <4>3, <5>1, EmptySeq, LenProperties
        <5> QED BY <1>1, <3>2, <4>1, <4>3, <5>2 DEF Range
      <4> QED BY <4>2, <4>3
    <3> QED BY <3>1, <3>2
  <2>2. u \in OutPending
    BY <1>1, <1>2, <1>6, <2>1 DEF OutPending
  <2>3. \E i \in 1 .. OutQLen : slots[i] = seq[u]
    BY <1>2, <1>3, <2>2 DEF SlotInv
  <2> QED BY <1>2, <2>3 DEF Holding
<1>7. Header + ((IF Holding(r.seq) = {} THEN r.actual ELSE 0) + r.npackets * IsoDesc)
        = Total[u]
  <2>1. Total[u] = Header + (IF IsIn(urb[u]) THEN r.actual ELSE 0) + r.npackets * IsoDesc
    BY <1>1 DEF Total, r
  <2>2. (IF Holding(r.seq) = {} THEN r.actual ELSE 0)
          = (IF IsIn(urb[u]) THEN r.actual ELSE 0)
    BY <1>5, <1>6
  <2>3. (IF IsIn(urb[u]) THEN r.actual ELSE 0) \in Nat /\ Header \in Nat
    BY <1>2, Constants
  <2> QED BY <1>2, <2>1, <2>2, <2>3
<1> QED BY <1>7 DEF r, u

(* What the forwarder looks at next begins with a header.                   *)
LEMMA InStep ==
  ASSUME TypeInv, ReplyInv, FlowInv, StartInv, ~AnsweredZero,
         NEW got \in Seq(Units), NEW rest \in Seq(Units), Look(got, rest),
         Len(got) = Header
  PROVE  IsHeader(got)
<1>1. /\ Flow \in Seq(Units) /\ Len(Flow) \in Nat /\ Len(rest) \in Nat
      /\ Header \in Nat /\ Header >= 1
  BY FlowSeq, Constants, LenProperties
<1>2. /\ Len(Flow) = Header + Len(rest)
      /\ \A i \in 1 .. Header : Flow[i] = got[i]
  <2>1. Flow = got \o rest
    BY DEF Look
  <2>2. /\ Len(Flow) = Len(got) + Len(rest)
        /\ \A i \in 1 .. Len(got) + Len(rest) : Flow[i] =
             IF i <= Len(got) THEN got[i] ELSE rest[i - Len(got)]
    BY <2>1, ConcatProperties
  <2>3. \A i \in 1 .. Header : i \in 1 .. Len(got) + Len(rest) /\ i <= Len(got)
    BY <1>1
  <2> QED BY <2>2, <2>3
<1>3. Flow # <<>> /\ 1 \in 1 .. Len(Flow)
  BY <1>1, <1>2, EmptySeq
<1>4. Flow[1][2] = 1 /\ Listening
  BY <1>3 DEF StartInv, Look
<1> DEFINE u == Flow[1][1]
<1>5. u \in Urbs /\ Flow[1] = <<u, 1>> /\ replies[u] # None
  BY <1>3, <1>4, FlowSeq DEF FlowInv
<1>6. Total[u] \in Nat /\ Total[u] >= Header
  BY <1>5, ReplyFacts
<1>7. \A j \in 1 .. Header : got[j] = <<u, j>>
  <2> TAKE j \in 1 .. Header
  <2>1. j \in 1 .. Len(Flow) /\ 1 <= j /\ 1 + (j - 1) = j
    BY <1>1, <1>2
  <2>2. Flow[1][2] + (j - 1) <= Total[Flow[1][1]]
    BY <1>1, <1>4, <1>6
  <2>3. Flow[j] = <<Flow[1][1], Flow[1][2] + (j - 1)>>
    BY <1>3, <2>1, <2>2 DEF FlowInv, Whole
  <2>4. Flow[1][2] + (j - 1) = j
    BY <1>4, <2>1
  <2> QED BY <1>2, <2>3, <2>4
<1>8. DOMAIN got = 1 .. Header /\ got = [i \in DOMAIN got |-> got[i]]
  BY LenProperties
<1>9. got = [i \in 1 .. Header |-> <<u, i>>]
  BY <1>7, <1>8
<1> QED BY <1>5, <1>9 DEF IsHeader

LEMMA InStepNext ==
  ASSUME TypeInv, PacketInv, ReplyInv, FlowInv, StartInv, ReadInv, InStepUnlessZero,
         Next
  PROVE  InStepUnlessZero'
<1>1. Answered
  BY AnsweredNext
<1>2. CASE pc' # "lost"
  BY <1>2 DEF InStepUnlessZero
<1>3. CASE pc = "lost"
  BY <1>1, <1>3, ZeroStays DEF InStepUnlessZero
<1>4. CASE SockRead \/ SockReadCompleted
  <2>1. PICK got, rest \in Seq(Units) : Look(got, rest)
    BY <1>4, Looks
  <2>2. CASE ~IsHeader(got) /\ pc' = "lost"
    <3>1. NoHeader(got)
      BY <2>1, <2>2, NoHeaderIs DEF Look
    <3>2. Len(got) = Header
      <4>1. ~Fail
        BY <2>2 DEF Fail
      <4> QED BY <3>1, <4>1 DEF NoHeader
    <3>3. AnsweredZero
      BY <2>1, <2>2, <3>2, InStep
    <3> QED BY <1>1, <3>3, ZeroStays DEF InStepUnlessZero
  <2>3. CASE IsHeader(got)
    <3>1. ~(Len(got) < Header)
      <4>1. Len(got) = Header
        BY <2>1, <2>3, HeaderIs DEF Look
      <4> QED BY <4>1, Constants
    <3>2. Fail \/ GoesOn("sock")
      BY <2>1, <2>3, <3>1, HeaderWays DEF Look
    <3>3. pc' # "lost" \/ pc = "lost"
      BY <3>2 DEF Fail, GoesOn
    <3> QED BY <1>2, <1>3, <3>3
  <2> QED BY <1>2, <2>2, <2>3
<1>5. CASE ~SockRead /\ ~SockReadCompleted
  <2>1. pc' = "lost" => pc = "lost"
    BY <1>5 DEF Next, Step, Loop, DevReadLost, DevReadWaits, DevReadRejected, DevRead,
       DevReadCompleted, WriteToSock, SockReadWaits, SockArrives, Interrupt, Close,
       Exit, Unplug, Cancel, Submit, SelectConfig, Reply, loopVars, Fail, Pending, GoesOn
  <2> QED BY <1>2, <1>3, <2>1
<1> QED BY <1>4, <1>5

LEMMA ListeningNext ==
  ASSUME TypeInv, ReadInv, Next, Listening', ~SockRead, ~SockReadCompleted
  PROVE  Listening
<1>1. CASE UNCHANGED <<pc, sockReading, sockDone>>
  BY <1>1 DEF Listening
<1>2. CASE DevReadLost \/ DevReadWaits \/ DevReadRejected \/ DevRead \/ DevReadCompleted
  <2>1. UNCHANGED <<sockReading, sockDone>>
    BY <1>2 DEF DevReadLost, DevReadWaits, DevReadRejected, DevRead, DevReadCompleted
  <2>2. /\ pc \in {"first dev", "dev", "wait"}
        /\ Fail \/ Pending \/ GoesOn("dev")
    BY <1>2
       DEF DevReadLost, DevReadWaits, DevReadRejected, DevRead, DevReadCompleted,
           WriteToSock
  <2>3. pc = "first dev" \/ pc' \in {"dev", "wait", "ended"}
    BY <2>2 DEF Fail, Pending, GoesOn
  <2> QED BY <2>1, <2>2, <2>3 DEF Listening, Stopped
<1>3. CASE SockReadWaits
  BY <1>3 DEF SockReadWaits, Listening, Stopped
<1>4. CASE SockArrives
  BY <1>4 DEF SockArrives, Listening
<1>5. CASE Interrupt
  BY <1>5 DEF Interrupt, Listening, Stopped
<1>6. CASE \/ Exit \/ Unplug \/ Close
           \/ \E u \in Urbs : Cancel(u) \/ \E k \in set.kinds[u] : Submit(u, k)
           \/ \E wanted \in Selections : SelectConfig(wanted)
           \/ \E p \in server : Reply(p)
  BY <1>1, <1>6 DEF Exit, Unplug, Close, Cancel, Submit, SelectConfig, Reply, loopVars
<1> QED BY <1>2, <1>3, <1>4, <1>5, <1>6 DEF Next, Step, Loop

(* A failure ends the listening.                                            *)
LEMMA FailEnds ==
  ASSUME NEW got, NEW rest, Look(got, rest), Fail \/ pc' = "lost"
  PROVE  ~Listening'
<1>1. pc' \in {"wait", "ended", "lost"}
  BY DEF Look, Fail
<1>2. ~sockReading' /\ sockDone' = None
  <2>1. sockReading' = sockReading /\ ~sockReading /\ sockDone' = None
    BY DEF Look
  <2> QED BY <2>1
<1> QED BY <1>1, <1>2 DEF Listening, Stopped

LEMMA StartNext ==
  ASSUME TypeInv, TypeInv', PacketInv, ReplyInv, FlowInv, StartInv, ReadInv,
         DistinctInv, SlotInv, Next
  PROVE  StartInv'
<1> SUFFICES ASSUME Listening', ~AnsweredZero', (Flow # <<>>)'
             PROVE  (Flow[1][2] = 1)'
  BY DEF StartInv
<1>1. Answered
  BY AnsweredNext
<1>2. ~AnsweredZero
  BY <1>1, ZeroStays
<1>3. CASE SockRead \/ SockReadCompleted
  <2>1. PICK got, rest \in Seq(Units) : Look(got, rest)
    BY <1>3, Looks
  <2>2. CASE ~IsHeader(got)
    <3>1. NoHeader(got)
      BY <2>1, <2>2, NoHeaderIs DEF Look
    <3>2. Fail \/ pc' = "lost"
      BY <3>1 DEF NoHeader
    <3> QED BY <2>1, <3>2, FailEnds
  <2>3. CASE IsHeader(got)
    <3> DEFINE u == got[1][1]
               r == replies[u]
               more == (IF Holding(r.seq) = {} THEN r.actual ELSE 0)
                         + r.npackets * IsoDesc
    <3>1. /\ u \in Urbs /\ r # None /\ Flow[1] = <<u, 1>> /\ Len(got) = Header
          /\ Len(Flow) \in Nat
      BY <2>1, <2>3, HeaderIs, FlowSeq DEF Look
    <3>2. Header + more = Total[u] /\ Total[u] \in Nat /\ Total[u] >= 1
      <4>1. Header + more = Total[u]
        BY <1>2, <2>1, <2>3, LengthIs
      <4> HIDE DEF more, r, u
      <4>2. Total[u] \in Nat /\ Total[u] >= Header /\ Header >= 1 /\ Header \in Nat
        BY <3>1, ReplyFacts, Constants DEF r
      <4> QED BY <4>1, <4>2
    <3>3. ~Fail
      BY <2>1, FailEnds
    <3>4. Dropped(Total[u]) /\ Total[u] \in 0 .. Len(Flow)
      <4>1. \/ NoHeader(got)
            \/ Fail
            \/ Dropped(Header + more) /\ Header + more \in 0 .. Len(Flow)
        BY <2>1, Ways DEF Look, Refuses
      <4> HIDE DEF more, u
      <4> QED BY <2>3, <3>2, <3>3, <4>1 DEF NoHeader
    <3> HIDE DEF more, r, u
    <3> DEFINE k == Total[u]
    <3>5. k \in 1 .. Len(Flow) /\ 1 \in 1 .. Len(Flow) /\ 1 <= k /\ 1 + (k - 1) = k
      BY <3>1, <3>2, <3>4
    <3>6. Flow[1][1] = u /\ Flow[1][2] = 1
      BY <3>1
    <3>7. Flow[k] = <<u, k>>
      <4>1. Flow[1][2] + (k - 1) <= Total[Flow[1][1]]
        BY <3>5, <3>6, <3>2
      <4>2. Flow[k] = <<Flow[1][1], Flow[1][2] + (k - 1)>>
        BY <3>5, <4>1 DEF FlowInv, Whole
      <4> QED BY <3>5, <3>6, <4>2
    <3>8. Len(Flow') = Len(Flow) - k /\ Len(Flow') # 0
      <4>1. Flow' \in Seq(Units)
        BY ConcatProperties DEF Flow, TypeInv, LoopOK
      <4>2. Len(Flow') # 0
        BY <4>1, EmptySeq
      <4> QED BY <3>4, <4>2 DEF Dropped
    <3>9. k \in 1 .. Len(Flow) - 1 /\ 1 \in 1 .. Len(Flow) - k
      BY <3>1, <3>5, <3>8
    <3>10. Flow[k + 1][2] = 1
      BY <3>7, <3>9 DEF FlowInv, Whole
    <3>11. Flow'[1] = Flow[k + 1]
      BY <3>4, <3>9 DEF Dropped
    <3> QED BY <3>10, <3>11
  <2> QED BY <2>2, <2>3
<1>4. CASE ~SockRead /\ ~SockReadCompleted
  <2>1. Listening
    BY <1>4, ListeningNext
  <2>2. CASE Flow' = Flow
    BY <1>2, <2>1, <2>2 DEF StartInv
  <2>3. ASSUME NEW p \in server, Reply(p) PROVE (Flow[1][2] = 1)'
    <3>1. PICK r \in Answers(p) : \E n \in 1 .. Len(UnitsOf(p, r)) :
            \E G \in Seq(Units) : /\ Len(G) = n
                                  /\ \A i \in 1 .. n : G[i] = <<p.urb, i>>
                                  /\ Flow' = Flow \o G
      BY <2>3, ReplyFlow
    <3>2. PICK n \in 1 .. Len(UnitsOf(p, r)), G \in Seq(Units) :
            /\ Len(G) = n /\ \A i \in 1 .. n : G[i] = <<p.urb, i>>
            /\ Flow' = Flow \o G
      BY <3>1
    <3>3. Len(G) \in Nat /\ Len(Flow) \in Nat /\ Flow \in Seq(Units) /\ n >= 1
      BY <3>2, LenProperties, FlowSeq
    <3>4. 1 \in 1 .. n /\ 1 \in 1 .. Len(Flow) + Len(G)
      BY <3>2, <3>3
    <3>5. Flow'[1] = IF 1 <= Len(Flow) THEN Flow[1] ELSE G[1 - Len(Flow)]
      BY <3>2, <3>3, <3>4, ConcatProperties
    <3>6. CASE Flow = <<>>
      <4>1. Len(Flow) = 0 /\ 1 - Len(Flow) = 1
        BY <3>6
      <4>2. Flow'[1] = <<p.urb, 1>>
        BY <3>2, <3>4, <3>5, <4>1
      <4> QED BY <4>2
    <3>7. CASE Flow # <<>>
      <4>1. 1 <= Len(Flow)
        BY <3>3, <3>7, EmptySeq
      <4> QED BY <1>2, <2>1, <3>5, <3>7, <4>1 DEF StartInv
    <3> QED BY <3>6, <3>7
  <2> QED BY <1>4, <2>2, <2>3, FlowCases
<1> QED BY <1>3, <1>4
-----------------------------------------------------------------------------
(* The slots                                                                *)

(* An OUT request is pending at the server, or while its reply has not been *)
(* looked at.                                                               *)
IsOut(u) == urb[u] # None /\ ~IsIn(urb[u])
AtServer(u) == \E p \in server : p.urb = u
Unread(u) == \E i \in 1 .. Len(Flow) : Flow[i] = <<u, 1>>

LEMMA UnreadIs ==
  ASSUME TypeInv, NEW u
  PROVE  Unread(u) <=> \/ <<u, 1>> \in Range(stream)
                       \/ sockDone # None /\ <<u, 1>> \in Range(sockDone)
<1>1. stream \in Seq(Units) /\ DOMAIN stream = 1 .. Len(stream)
  BY LenProperties DEF TypeInv, LoopOK
<1>2. CASE sockDone = None
  BY <1>1, <1>2 DEF Unread, Flow, Range
<1>3. CASE sockDone # None
  <2>1. sockDone \in Seq(Units) /\ DOMAIN sockDone = 1 .. Len(sockDone)
    BY <1>3, LenProperties DEF TypeInv, LoopOK
  <2>2. Len(sockDone) \in Nat /\ Len(stream) \in Nat /\ Flow = sockDone \o stream
    BY <1>1, <1>3, <2>1, LenProperties DEF Flow
  <2> DEFINE n == Len(sockDone)
             m == Len(stream)
  <2>3. /\ Len(Flow) = n + m
        /\ \A i \in 1 .. n + m : Flow[i] = IF i <= n THEN sockDone[i] ELSE stream[i - n]
    BY <1>1, <2>1, <2>2, ConcatProperties
  <2>4. n \in Nat /\ m \in Nat
    BY <2>2
  <2> HIDE DEF n, m
  <2>5. ASSUME NEW i \in 1 .. n
        PROVE  i \in 1 .. n + m /\ Flow[i] = sockDone[i]
    BY <2>3, <2>4
  <2>6. ASSUME NEW i \in 1 .. m
        PROVE  n + i \in 1 .. n + m /\ Flow[n + i] = stream[i]
    <3>1. n + i \in 1 .. n + m /\ ~(n + i <= n) /\ (n + i) - n = i
      BY <2>4
    <3> QED BY <2>3, <3>1
  <2>7. ASSUME NEW i \in 1 .. n + m
        PROVE  \/ i \in 1 .. n /\ Flow[i] = sockDone[i]
               \/ i - n \in 1 .. m /\ Flow[i] = stream[i - n]
    BY <2>3, <2>4
  <2>8. Unread(u) <=> \E i \in 1 .. n + m : Flow[i] = <<u, 1>>
    BY <2>3 DEF Unread
  <2>9. <<u, 1>> \in Range(sockDone) <=> \E i \in 1 .. n : sockDone[i] = <<u, 1>>
    BY <2>1 DEF Range, n
  <2>10. <<u, 1>> \in Range(stream) <=> \E i \in 1 .. m : stream[i] = <<u, 1>>
    BY <1>1 DEF Range, m
  <2> QED BY <1>3, <2>5, <2>6, <2>7, <2>8, <2>9, <2>10
<1> QED BY <1>2, <1>3

LEMMA PendingIs ==
  TypeInv => OutPending = {u \in Urbs : IsOut(u) /\ (AtServer(u) \/ Unread(u))}
<1> SUFFICES ASSUME TypeInv
             PROVE  OutPending = {u \in Urbs : IsOut(u) /\ (AtServer(u) \/ Unread(u))}
  OBVIOUS
<1>1. \A u : Unread(u) <=> \/ <<u, 1>> \in Range(stream)
                           \/ sockDone # None /\ <<u, 1>> \in Range(sockDone)
  BY UnreadIs
<1>2. \A u \in Urbs : u \in OutPending <=>
        IsOut(u) /\ (AtServer(u) \/ Unread(u))
  BY <1>1 DEF OutPending, IsOut, AtServer
<1>3. \A u \in OutPending : u \in Urbs
  BY DEF OutPending
<1> QED BY <1>2, <1>3

(* It was sent.                                                             *)
LEMMA PendingSent ==
  ASSUME TypeInv, PacketInv, ReplyInv, FlowInv, NEW u \in Urbs, AtServer(u) \/ Unread(u)
  PROVE  state[u] \in {"sent", "done"}
<1>1. CASE AtServer(u)
  BY <1>1 DEF AtServer, PacketInv, Made
<1>2. CASE Unread(u)
  <2>1. PICK i \in 1 .. Len(Flow) : Flow[i] = <<u, 1>>
    BY <1>2 DEF Unread
  <2>2. replies[u] # None
    BY <2>1 DEF FlowInv
  <2> QED BY <2>2 DEF ReplyInv
<1> QED BY <1>1, <1>2

(* And stays what it is.                                                    *)
LEMMA OutStays ==
  ASSUME TypeInv, Lasts, NEW u \in Urbs, state[u] \in {"sent", "done"}
  PROVE  (IsOut(u)' <=> IsOut(u)) /\ seq'[u] = seq[u] /\ urb'[u] = urb[u]
BY DEF TypeInv, DriverOK, UrbInv, Lasts, IsOut

(* A step changes what is pending if it changes where the requests are.     *)
LEMMA PendingSame ==
  ASSUME TypeInv, TypeInv', PacketInv, ReplyInv, FlowInv, Lasts,
         \A u \in Urbs : AtServer(u)' \/ Unread(u)' <=> AtServer(u) \/ Unread(u)
  PROVE  OutPending' = OutPending
<1>1. OutPending = {u \in Urbs : IsOut(u) /\ (AtServer(u) \/ Unread(u))}
  BY PendingIs
<1>2. (OutPending = {u \in Urbs : IsOut(u) /\ (AtServer(u) \/ Unread(u))})'
  BY PendingIs, PTL
<1>3. \A u \in Urbs : AtServer(u) \/ Unread(u) => (IsOut(u)' <=> IsOut(u))
  BY PendingSent, OutStays
<1> QED BY <1>1, <1>2, <1>3
LEMMA PendingQuiet ==
  ASSUME TypeInv, TypeInv', PacketInv, ReplyInv, FlowInv, Lasts,
         UNCHANGED server, Flow' = Flow
  PROVE  OutPending' = OutPending
<1>1. \A u \in Urbs : AtServer(u)' \/ Unread(u)' <=> AtServer(u) \/ Unread(u)
  BY DEF AtServer, Unread
<1> QED BY <1>1, PendingSame

LEMMA PendingReply ==
  ASSUME TypeInv, TypeInv', PacketInv, ReplyInv, FlowInv, Lasts,
         NEW p \in server, Reply(p)
  PROVE  OutPending' = OutPending
<1>1. server' = server \ {p} /\ p.urb \in Urbs
  BY ReplyFlow DEF Reply
<1>2. PICK r \in Answers(p) : \E n \in 1 .. Len(UnitsOf(p, r)) : \E G \in Seq(Units) :
        Len(G) = n /\ (\A i \in 1 .. n : G[i] = <<p.urb, i>>) /\ Flow' = Flow \o G
  BY ReplyFlow
<1>3. PICK n \in 1 .. Len(UnitsOf(p, r)), G \in Seq(Units) :
        Len(G) = n /\ (\A i \in 1 .. n : G[i] = <<p.urb, i>>) /\ Flow' = Flow \o G
  BY <1>2
<1>4. Flow \in Seq(Units) /\ Len(Flow) \in Nat /\ n \in Nat /\ n >= 1
  BY <1>3, FlowSeq, LenProperties
<1> DEFINE m == Len(Flow)
<1>5. /\ Len(Flow') = m + n
      /\ \A i \in 1 .. m + n : Flow'[i] = IF i <= m THEN Flow[i] ELSE G[i - m]
  BY <1>3, <1>4, ConcatProperties
<1>6. m \in Nat
  BY <1>4
<1> HIDE DEF m
<1>7. Unread(p.urb)'
  <2>1. m + 1 \in 1 .. m + n /\ ~(m + 1 <= m) /\ (m + 1) - m = 1 /\ 1 \in 1 .. n
    BY <1>4, <1>6
  <2>2. Flow'[m + 1] = <<p.urb, 1>>
    BY <1>3, <1>5, <2>1
  <2> QED BY <1>5, <2>1, <2>2 DEF Unread
<1>8. ASSUME NEW u \in Urbs, u # p.urb PROVE Unread(u)' <=> Unread(u)
  <2>1. ASSUME NEW i \in 1 .. m PROVE i \in 1 .. m + n /\ Flow'[i] = Flow[i]
    BY <1>4, <1>5, <1>6
  <2>2. ASSUME NEW i \in 1 .. m + n, Flow'[i] = <<u, 1>> PROVE i \in 1 .. m
    <3> SUFFICES ASSUME ~(i <= m) PROVE FALSE
      BY <1>6
    <3>1. i - m \in 1 .. n
      BY <1>4, <1>6
    <3>2. Flow'[i] = <<p.urb, i - m>>
      BY <1>3, <1>5, <3>1
    <3> QED BY <1>8, <2>2, <3>2
  <2>3. Unread(u) => Unread(u)'
    BY <1>5, <2>1 DEF Unread, m
  <2>4. Unread(u)' => Unread(u)
    BY <1>5, <2>1, <2>2 DEF Unread, m
  <2> QED BY <2>3, <2>4
<1>9. \A u \in Urbs : u # p.urb => (AtServer(u)' <=> AtServer(u))
  BY <1>1 DEF AtServer
<1>10. AtServer(p.urb)
  BY DEF AtServer
<1>11. \A u \in Urbs : AtServer(u)' \/ Unread(u)' <=> AtServer(u) \/ Unread(u)
  BY <1>7, <1>8, <1>9, <1>10
<1> QED BY <1>11, PendingSame

(* Slots are cleared, and no longer those of what is still pending.         *)
LEMMA SlotsLess ==
  ASSUME TypeInv, TypeInv', PacketInv, ReplyInv, FlowInv, Lasts, SlotInv,
         \A i \in 1 .. OutQLen : slots'[i] \in {0, slots[i]},
         readDone' \in {readDone, None, Failed},
         OutPending' \subseteq OutPending,
         \A u \in OutPending' : \A i \in 1 .. OutQLen :
           slots[i] = seq[u] => slots'[i] = slots[i]
  PROVE  SlotInv'
<1>1. \A i \in 1 .. OutQLen : slots'[i] # 0 =>
        \E u \in Urbs : urb'[u] # None /\ ~IsIn(urb'[u]) /\ seq'[u] = slots'[i]
  <2> SUFFICES ASSUME NEW i \in 1 .. OutQLen, slots'[i] # 0
               PROVE  \E u \in Urbs : /\ urb'[u] # None /\ ~IsIn(urb'[u])
                                      /\ seq'[u] = slots'[i]
    OBVIOUS
  <2>1. slots'[i] = slots[i]
    OBVIOUS
  <2>2. PICK u \in Urbs : urb[u] # None /\ ~IsIn(urb[u]) /\ seq[u] = slots[i]
    BY <2>1 DEF SlotInv
  <2>3. state[u] \in {"sent", "done"}
    BY <2>1, <2>2 DEF TypeInv, DriverOK, UrbInv
  <2>4. urb'[u] = urb[u] /\ seq'[u] = seq[u]
    BY <2>3, OutStays
  <2> QED BY <2>1, <2>2, <2>4
<1>2. \A i, j \in 1 .. OutQLen : slots'[i] # 0 /\ slots'[i] = slots'[j] => i = j
  BY DEF SlotInv
<1>3. readDone' \notin {None, Failed} /\ readDone'.seq # 0 =>
       \A i \in 1 .. OutQLen : slots'[i] # readDone'.seq
  BY DEF SlotInv
<1>4. \A u \in OutPending' : seq'[u] # 0 => \E i \in 1 .. OutQLen : slots'[i] = seq'[u]
  <2> SUFFICES ASSUME NEW u \in OutPending', seq'[u] # 0
               PROVE  \E i \in 1 .. OutQLen : slots'[i] = seq'[u]
    OBVIOUS
  <2>1. u \in OutPending /\ u \in Urbs /\ (AtServer(u) \/ Unread(u))
    BY PendingIs
  <2>2. seq'[u] = seq[u]
    BY <2>1, PendingSent, OutStays
  <2>3. PICK i \in 1 .. OutQLen : slots[i] = seq[u]
    BY <2>1, <2>2 DEF SlotInv
  <2> QED BY <2>2, <2>3
<1> QED BY <1>1, <1>2, <1>3, <1>4 DEF SlotInv

LEMMA LeakLess ==
  ASSUME TypeInv, PacketInv, ReplyInv, FlowInv, Lasts, Answered, LeakInv,
         ~closed' /\ ~short' /\ ~AnsweredZero' =>
           \A i \in 1 .. OutQLen : slots'[i] # 0 =>
             /\ slots'[i] = slots[i]
             /\ \A u \in OutPending : seq[u] = slots[i] => u \in OutPending'
  PROVE  LeakInv'
<1> SUFFICES ASSUME ~closed', ~short', ~AnsweredZero',
                    NEW i \in 1 .. OutQLen, slots'[i] # 0
             PROVE  \E u \in OutPending' : seq'[u] = slots'[i]
  BY DEF LeakInv
<1>1. ~closed /\ ~short /\ ~AnsweredZero
  BY ZeroStays DEF Lasts
<1>2. slots'[i] = slots[i]
  OBVIOUS
<1>3. PICK u \in OutPending : seq[u] = slots[i]
  BY <1>1, <1>2 DEF LeakInv
<1>4. u \in Urbs /\ (AtServer(u) \/ Unread(u))
  BY PendingIs
<1>5. seq'[u] = seq[u]
  BY <1>4, PendingSent, OutStays
<1>6. u \in OutPending'
  BY <1>3
<1> QED BY <1>2, <1>3, <1>5, <1>6

LEMMA SlotsQuiet ==
  ASSUME TypeInv, TypeInv', PacketInv, ReplyInv, FlowInv, Lasts, Answered,
         SlotInv, LeakInv, UNCHANGED slots, readDone' \in {readDone, None, Failed},
         OutPending' = OutPending
  PROVE  SlotInv' /\ LeakInv'
<1>1. SlotInv'
  BY SlotsLess
<1>2. LeakInv'
  BY LeakLess
<1> QED BY <1>1, <1>2
(* The least slot that holds a number.                                      *)
LEMMA HoldingIs ==
  ASSUME NEW num, Holding(num) # {}
  PROVE  Min(Holding(num)) \in 1 .. OutQLen /\ slots[Min(Holding(num))] = num
<1>1. Holding(num) \in SUBSET Nat
  BY Constants DEF Holding
<1>2. Min(Holding(num)) \in Holding(num)
  BY <1>1, MinIsIn
<1> QED BY <1>2 DEF Holding

(* A number that has just been drawn is in no slot.                         *)
LEMMA NewNumber ==
  ASSUME TypeInv, SlotInv, DistinctInv', Lasts, NEW u \in Urbs,
         state[u] \in {"new", "queued"}, seq'[u] = NextNum, NextNum # 0
  PROVE  \A i \in 1 .. OutQLen : slots[i] # NextNum
<1> SUFFICES ASSUME NEW i \in 1 .. OutQLen, slots[i] = NextNum PROVE FALSE
  OBVIOUS
<1>1. PICK v \in Urbs : urb[v] # None /\ ~IsIn(urb[v]) /\ seq[v] = slots[i]
  BY DEF SlotInv
<1>2. state[v] \in {"sent", "done"}
  BY <1>1 DEF TypeInv, DriverOK, UrbInv
<1>3. v # u /\ seq'[v] = seq[v]
  BY <1>2, OutStays
<1> QED BY <1>1, <1>3 DEF DistinctInv

(* record_out for a packet that is sent.                                    *)
LEMMA SlotsRecorded ==
  ASSUME TypeInv, TypeInv', PacketInv, ReplyInv, FlowInv, Lasts, Answered,
         SlotInv, LeakInv,
         NEW p, p.urb \in Urbs, IsOut(p.urb)', seq'[p.urb] = p.seq,
         p.seq # 0 => \A i \in 1 .. OutQLen : slots[i] # p.seq,
         Holding(0) # {}, slots' = RecordOut(p.seq),
         readDone' \notin {None, Failed} /\ readDone'.seq # 0 =>
           readDone' = readDone /\ readDone.seq # p.seq,
         OutPending \subseteq OutPending', OutPending' \subseteq OutPending \cup {p.urb},
         ~closed' => p.urb \in OutPending'
  PROVE  SlotInv' /\ LeakInv'
<1> DEFINE m == Min(Holding(0))
<1>1. m \in 1 .. OutQLen /\ slots[m] = 0
  BY HoldingIs
<1>2. \A i \in 1 .. OutQLen : slots'[i] = IF i = m THEN p.seq ELSE slots[i]
  BY <1>1 DEF RecordOut, TypeInv, LoopOK
<1> HIDE DEF m
<1>3. ASSUME NEW u \in Urbs, seq[u] # 0 PROVE seq'[u] = seq[u] /\ urb'[u] = urb[u]
  <2>1. state[u] \in {"sent", "done"}
    BY <1>3 DEF TypeInv, DriverOK, UrbInv
  <2> QED BY <2>1, OutStays
<1>4. \A i \in 1 .. OutQLen : slots'[i] # 0 =>
        \E u \in Urbs : urb'[u] # None /\ ~IsIn(urb'[u]) /\ seq'[u] = slots'[i]
  <2> SUFFICES ASSUME NEW i \in 1 .. OutQLen, slots'[i] # 0
               PROVE  \E u \in Urbs : /\ urb'[u] # None /\ ~IsIn(urb'[u])
                                      /\ seq'[u] = slots'[i]
    OBVIOUS
  <2>1. CASE i = m
    BY <1>2, <2>1 DEF IsOut
  <2>2. CASE i # m
    <3>1. slots'[i] = slots[i]
      BY <1>2, <2>2
    <3>2. PICK u \in Urbs : urb[u] # None /\ ~IsIn(urb[u]) /\ seq[u] = slots[i]
      BY <3>1 DEF SlotInv
    <3> QED BY <1>3, <3>1, <3>2
  <2> QED BY <2>1, <2>2
<1>5. \A i, j \in 1 .. OutQLen : slots'[i] # 0 /\ slots'[i] = slots'[j] => i = j
  <2> SUFFICES ASSUME NEW i \in 1 .. OutQLen, NEW j \in 1 .. OutQLen,
                      slots'[i] # 0, slots'[i] = slots'[j]
               PROVE  i = j
    OBVIOUS
  <2>1. CASE i # m /\ j # m
    BY <1>2, <2>1 DEF SlotInv
  <2>2. CASE i = m \/ j = m
    BY <1>2, <2>2
  <2> QED BY <2>1, <2>2
<1>6. readDone' \notin {None, Failed} /\ readDone'.seq # 0 =>
       \A i \in 1 .. OutQLen : slots'[i] # readDone'.seq
  BY <1>2 DEF SlotInv
<1>7. ASSUME NEW u \in OutPending
      PROVE  u \in Urbs /\ seq'[u] = seq[u]
  BY PendingIs, PendingSent, OutStays
<1>8. \A u \in OutPending' : seq'[u] # 0 => \E i \in 1 .. OutQLen : slots'[i] = seq'[u]
  <2> SUFFICES ASSUME NEW u \in OutPending', seq'[u] # 0
               PROVE  \E i \in 1 .. OutQLen : slots'[i] = seq'[u]
    OBVIOUS
  <2>1. CASE u \in OutPending
    <3>1. PICK i \in 1 .. OutQLen : slots[i] = seq[u]
      BY <1>7, <2>1 DEF SlotInv
    <3> QED BY <1>1, <1>2, <1>7, <2>1, <3>1
  <2>2. CASE u = p.urb
    BY <1>1, <1>2, <2>2
  <2> QED BY <2>1, <2>2
<1>9. LeakInv'
  <2> SUFFICES ASSUME ~closed', ~short', ~AnsweredZero',
                      NEW i \in 1 .. OutQLen, slots'[i] # 0
               PROVE  \E u \in OutPending' : seq'[u] = slots'[i]
    BY DEF LeakInv
  <2>1. ~closed /\ ~short /\ ~AnsweredZero
    BY ZeroStays DEF Lasts
  <2>2. CASE i = m
    BY <1>2, <2>2
  <2>3. CASE i # m
    <3>1. slots'[i] = slots[i]
      BY <1>2, <2>3
    <3>2. PICK u \in OutPending : seq[u] = slots[i]
      BY <2>1, <3>1 DEF LeakInv
    <3>3. u \in OutPending'
      BY <3>2
    <3> QED BY <1>7, <3>1, <3>2, <3>3
  <2> QED BY <2>2, <2>3
<1> QED BY <1>4, <1>5, <1>6, <1>8, <1>9 DEF SlotInv

(* write_to_sock.                                                           *)
LEMMA SlotsSent ==
  ASSUME TypeInv, TypeInv', PacketInv, ReplyInv, FlowInv, Lasts, Answered,
         SlotInv, LeakInv, NEW p, WriteToSock(p),
         p.urb \in Urbs, p.in <=> IsIn(urb'[p.urb]), urb'[p.urb] # None,
         seq'[p.urb] = p.seq,
         p.seq # 0 => \A i \in 1 .. OutQLen : slots[i] # p.seq,
         readDone' \in {readDone, None},
         readDone' \notin {None, Failed} => readDone.seq # p.seq \/ p.seq = 0,
         Flow' = Flow, UNCHANGED <<closed, short>>
  PROVE  SlotInv' /\ LeakInv'
<1>1. OutPending = {u \in Urbs : IsOut(u) /\ (AtServer(u) \/ Unread(u))}
  BY PendingIs
<1>2. (OutPending = {u \in Urbs : IsOut(u) /\ (AtServer(u) \/ Unread(u))})'
  BY PendingIs, PTL
<1>3. \A u \in Urbs : Unread(u)' <=> Unread(u)
  BY DEF Unread
<1>4. IsOut(p.urb)' <=> ~p.in
  BY DEF IsOut
<1>5. ASSUME NEW u \in Urbs, AtServer(u) \/ Unread(u)
      PROVE  IsOut(u)' <=> IsOut(u)
  BY <1>5, PendingSent, OutStays
<1>6. CASE UNCHANGED server
  <2>1. OutPending' = OutPending
    BY <1>6, PendingQuiet
  <2>2. CASE UNCHANGED slots
    BY <2>1, <2>2, SlotsQuiet
  <2>3. CASE ~p.in /\ Holding(0) # {} /\ slots' = RecordOut(p.seq) /\ closed
    BY <1>4, <2>1, <2>3, SlotsRecorded
  <2>4. \/ UNCHANGED slots
        \/ ~p.in /\ Holding(0) # {} /\ slots' = RecordOut(p.seq)
             /\ (closed \/ server' = server \cup {p})
    BY DEF WriteToSock
  <2>5. CASE ~p.in /\ Holding(0) # {} /\ slots' = RecordOut(p.seq) /\ server' = server \cup {p}
    <3>1. AtServer(p.urb)
      BY <1>6, <2>5 DEF AtServer
    <3>2. p.urb \in OutPending'
      BY <1>2, <1>4, <1>6, <2>5, <3>1 DEF AtServer
    <3> QED BY <1>4, <2>1, <2>5, <3>2, SlotsRecorded
  <2> QED BY <2>2, <2>3, <2>4, <2>5
<1>7. CASE server' = server \cup {p}
  <2>1. \A u \in Urbs : AtServer(u)' <=> AtServer(u) \/ u = p.urb
    BY <1>7 DEF AtServer
  <2>2. OutPending \subseteq OutPending'
    BY <1>1, <1>2, <1>3, <1>5, <2>1
  <2>3. OutPending' \subseteq OutPending \cup {p.urb}
    BY <1>1, <1>2, <1>3, <1>5, <2>1
  <2>4. p.urb \in OutPending' <=> ~p.in
    BY <1>2, <1>4, <2>1
  <2>5. CASE UNCHANGED slots /\ p.in
    <3>1. OutPending' = OutPending
      BY <2>2, <2>3, <2>4, <2>5
    <3> QED BY <2>5, <3>1, SlotsQuiet
  <2>6. CASE ~p.in /\ Holding(0) # {} /\ slots' = RecordOut(p.seq)
    BY <1>4, <2>2, <2>3, <2>4, <2>6, SlotsRecorded
  <2>7. \/ UNCHANGED slots /\ p.in
        \/ ~p.in /\ Holding(0) # {} /\ slots' = RecordOut(p.seq)
        \/ UNCHANGED server
    BY DEF WriteToSock
  <2> QED BY <1>6, <2>5, <2>6, <2>7
<1>8. UNCHANGED server \/ server' = server \cup {p}
  BY DEF WriteToSock
<1> QED BY <1>6, <1>7, <1>8
(* check_out, for a number that only one slot holds.                        *)
LEMMA CheckOutIs ==
  ASSUME TypeInv, SlotInv, NEW num, slots' = CheckOut(num)
  PROVE  \A i \in 1 .. OutQLen :
           /\ slots'[i] \in {0, slots[i]}
           /\ slots'[i] # slots[i] => slots[i] = num
           /\ slots[i] = num => slots'[i] = 0 \/ num = 0
<1>1. CASE Holding(num) = {}
  BY <1>1 DEF CheckOut, Holding
<1>2. CASE Holding(num) # {}
  <2> DEFINE m == Min(Holding(num))
  <2>1. m \in 1 .. OutQLen /\ slots[m] = num
    BY <1>2, HoldingIs
  <2>2. \A i \in 1 .. OutQLen : slots'[i] = IF i = m THEN 0 ELSE slots[i]
    BY <1>2, <2>1 DEF CheckOut, TypeInv, LoopOK
  <2> HIDE DEF m
  <2>3. \A i \in 1 .. OutQLen : slots[i] = num => i = m \/ num = 0
    BY <2>1 DEF SlotInv
  <2> QED BY <2>1, <2>2, <2>3
<1> QED BY <1>1, <1>2

(* What is pending when k units have been looked at.                        *)
LEMMA PendingDropped ==
  ASSUME TypeInv, TypeInv', PacketInv, ReplyInv, FlowInv, Lasts,
         NEW k \in 0 .. Len(Flow), Dropped(k), UNCHANGED server
  PROVE  /\ OutPending' \subseteq OutPending
         /\ \A u \in OutPending :
              u \in OutPending' \/ \E i \in 1 .. k : Flow[i] = <<u, 1>>
         /\ \A u \in OutPending' :
              AtServer(u) \/ \E i \in 1 .. Len(Flow) : i > k /\ Flow[i] = <<u, 1>>
<1>1. OutPending = {u \in Urbs : IsOut(u) /\ (AtServer(u) \/ Unread(u))}
  BY PendingIs
<1>2. (OutPending = {u \in Urbs : IsOut(u) /\ (AtServer(u) \/ Unread(u))})'
  BY PendingIs, PTL
<1>3. \A u : AtServer(u)' <=> AtServer(u)
  BY DEF AtServer
<1> DEFINE n == Len(Flow)
<1>4. /\ n \in Nat /\ k \in 0 .. n /\ Len(Flow') = n - k
      /\ \A i \in 1 .. n - k : Flow'[i] = Flow[k + i]
  BY FlowSeq DEF Dropped
<1>5. \A u : Unread(u) <=> \E i \in 1 .. n : Flow[i] = <<u, 1>>
  BY DEF Unread
<1>6. \A u : Unread(u)' <=> \E i \in 1 .. n - k : Flow'[i] = <<u, 1>>
  BY <1>4 DEF Unread
<1> HIDE DEF n
<1>7. ASSUME NEW u, Unread(u)'
      PROVE  \E i \in 1 .. n : i > k /\ Flow[i] = <<u, 1>>
  <2>1. PICK i \in 1 .. n - k : Flow'[i] = <<u, 1>>
    BY <1>6, <1>7
  <2>2. k + i \in 1 .. n /\ k + i > k /\ Flow[k + i] = <<u, 1>>
    BY <1>4, <2>1
  <2> QED BY <2>2
<1>8. ASSUME NEW u, Unread(u)
      PROVE  Unread(u)' \/ \E i \in 1 .. k : Flow[i] = <<u, 1>>
  <2>1. PICK i \in 1 .. n : Flow[i] = <<u, 1>>
    BY <1>5, <1>8
  <2>2. CASE i <= k
    BY <1>4, <2>1, <2>2
  <2>3. CASE ~(i <= k)
    <3>1. i - k \in 1 .. n - k /\ k + (i - k) = i
      BY <1>4, <2>3
    <3>2. Flow'[i - k] = <<u, 1>>
      BY <1>4, <2>1, <3>1
    <3> QED BY <1>6, <3>1, <3>2
  <2> QED BY <2>2, <2>3
<1>9. ASSUME NEW u \in Urbs, AtServer(u) \/ Unread(u)
      PROVE  IsOut(u)' <=> IsOut(u)
  BY <1>9, PendingSent, OutStays
<1>10. \A u \in OutPending' : AtServer(u) \/ \E i \in 1 .. n : i > k /\ Flow[i] = <<u, 1>>
  BY <1>2, <1>3, <1>7
<1>11. \A u \in OutPending' : AtServer(u) \/ Unread(u)
  BY <1>5, <1>10
<1>12. OutPending' \subseteq OutPending
  BY <1>1, <1>2, <1>9, <1>11
<1>13. \A u \in OutPending : u \in OutPending' \/ \E i \in 1 .. k : Flow[i] = <<u, 1>>
  BY <1>1, <1>2, <1>3, <1>8, <1>9
<1> QED BY <1>10, <1>12, <1>13 DEF n
(* write_to_dev: a header that was looked at frees the slot of its request. *)
LEMMA SlotsHeader ==
  ASSUME TypeInv, TypeInv', PacketInv, ReplyInv, FlowInv, Lasts, Answered,
         DistinctInv, SlotInv, LeakInv,
         NEW u \in Urbs, replies[u] # None, Len(Flow) >= 1, Flow[1] = <<u, 1>>,
         NEW k \in 1 .. Len(Flow), Dropped(k), ~AnsweredZero => k <= Total[u],
         slots' = CheckOut(replies[u].seq),
         UNCHANGED <<server, readDone>>
  PROVE  SlotInv' /\ LeakInv'
<1>1. /\ OutPending' \subseteq OutPending
      /\ \A v \in OutPending :
           v \in OutPending' \/ \E i \in 1 .. k : Flow[i] = <<v, 1>>
      /\ \A v \in OutPending' :
           AtServer(v) \/ \E i \in 1 .. Len(Flow) : i > k /\ Flow[i] = <<v, 1>>
  <2>1. k \in 0 .. Len(Flow)
    BY FlowSeq
  <2> QED BY <2>1, PendingDropped
<1>2. replies[u].seq = seq[u] /\ Total[u] \in Nat
  BY ReplyFacts
<1>3. /\ \A i \in 1 .. OutQLen :
           /\ slots'[i] \in {0, slots[i]}
           /\ slots'[i] # slots[i] => slots[i] = seq[u]
           /\ slots[i] = seq[u] => slots'[i] = 0 \/ seq[u] = 0
  BY <1>2, CheckOutIs
<1>4. \A v \in OutPending : v \in Urbs
  BY PendingIs
<1>5. \A v \in OutPending' : v # u
  <2> SUFFICES ASSUME u \in OutPending' PROVE FALSE
    OBVIOUS
  <2>1. ~AtServer(u)
    BY DEF AtServer, PacketInv, Made
  <2>2. PICK i \in 1 .. Len(Flow) : i > k /\ Flow[i] = <<u, 1>>
    BY <1>1, <2>1
  <2>3. Distinct(Flow) /\ DOMAIN Flow = 1 .. Len(Flow) /\ Len(Flow) \in Nat
    BY FlowSeq, LenProperties DEF FlowInv, Whole
  <2>4. 1 \in DOMAIN Flow /\ i \in DOMAIN Flow /\ i # 1
    BY <2>2, <2>3
  <2> QED BY <2>2, <2>3, <2>4 DEF Distinct
<1>6. \A v \in OutPending' : \A i \in 1 .. OutQLen :
        slots[i] = seq[v] => slots'[i] = slots[i]
  <2> SUFFICES ASSUME NEW v \in OutPending', NEW i \in 1 .. OutQLen,
                      slots[i] = seq[v], slots'[i] # slots[i]
               PROVE  FALSE
    OBVIOUS
  <2>1. slots[i] = seq[u] /\ slots'[i] = 0
    BY <1>3
  <2>2. v # u /\ v \in Urbs
    BY <1>1, <1>4, <1>5
  <2> QED BY <2>1, <2>2 DEF DistinctInv
<1>7. SlotInv'
  BY <1>1, <1>3, <1>6, SlotsLess
<1>8. ASSUME ~AnsweredZero', NEW i \in 1 .. OutQLen, slots'[i] # 0,
             NEW v \in OutPending, seq[v] = slots[i]
      PROVE  v \in OutPending'
  <2> SUFFICES ASSUME NEW j \in 1 .. k, Flow[j] = <<v, 1>> PROVE FALSE
    BY <1>1
  <2>1. k <= Total[u]
    BY <1>8, ZeroStays
  <2>2. /\ Len(Flow) \in Nat /\ 1 \in 1 .. Len(Flow) /\ j \in 1 .. Len(Flow)
        /\ 1 <= j /\ j <= Total[u] /\ 1 + (j - 1) = j
    BY <1>2, <2>1, FlowSeq
  <2>3. Flow[1][1] = u /\ Flow[1][2] = 1
    OBVIOUS
  <2>4. Flow[1][2] + (j - 1) <= Total[Flow[1][1]]
    BY <2>2, <2>3
  <2>5. Flow[j] = <<Flow[1][1], Flow[1][2] + (j - 1)>>
    BY <2>2, <2>4 DEF FlowInv, Whole
  <2>6. v = u
    BY <2>3, <2>5
  <2> QED BY <1>3, <1>8, <2>6
<1>9. LeakInv'
  BY <1>3, <1>8, LeakLess
<1> QED BY <1>7, <1>9

LEMMA SlotsLooked ==
  ASSUME TypeInv, TypeInv', PacketInv, ReplyInv, FlowInv, StartInv, Lasts, Answered,
         DistinctInv, SlotInv, LeakInv,
         NEW got \in Seq(Units), NEW rest \in Seq(Units), Look(got, rest)
  PROVE  SlotInv' /\ LeakInv'
<1> DEFINE u == got[1][1]
           r == replies[u]
           more == (IF Holding(r.seq) = {} THEN r.actual ELSE 0)
                     + r.npackets * IsoDesc
<1>1. /\ Len(got) \in Nat
      /\ \/ NoHeader(got) /\ Dropped(Len(got)) /\ Len(got) \in 0 .. Len(Flow)
         \/ Refuses(got, more) /\ Dropped(Header) /\ Header \in 0 .. Len(Flow)
         \/ /\ Delivers(got, rest, more) /\ more \in 0 .. Len(rest)
            /\ Dropped(Header + more) /\ Header + more \in 0 .. Len(Flow)
  BY Ways DEF Look
<1>2. UNCHANGED server
  BY DEF Look
<1>3. CASE NoHeader(got) /\ Dropped(Len(got)) /\ Len(got) \in 0 .. Len(Flow)
  <2> DEFINE k == Len(got)
  <2>1. UNCHANGED <<slots, readDone>>
    BY <1>3 DEF NoHeader, driverVars
  <2>2. /\ OutPending' \subseteq OutPending
        /\ \A v \in OutPending :
             v \in OutPending' \/ \E i \in 1 .. k : Flow[i] = <<v, 1>>
    BY <1>2, <1>3, PendingDropped
  <2>3. SlotInv'
    BY <2>1, <2>2, SlotsLess
  <2>4. ASSUME ~closed', ~short', ~AnsweredZero' PROVE k = 0
    <3>1. ~AnsweredZero
      BY <2>4, ZeroStays
    <3>2. ~(Len(got) = Header)
      BY <1>3, <3>1, InStep DEF NoHeader
    <3>3. short' = (short \/ got # <<>>)
      BY <1>3, <3>2 DEF NoHeader
    <3>4. got = <<>>
      BY <2>4, <3>3
    <3> QED BY <3>4
  <2>5. ~closed' /\ ~short' /\ ~AnsweredZero' => OutPending \subseteq OutPending'
    <3> SUFFICES ASSUME ~closed', ~short', ~AnsweredZero' PROVE OutPending \subseteq OutPending'
      OBVIOUS
    <3>1. k = 0
      BY <2>4
    <3>2. 1 .. k = {}
      BY <3>1
    <3> QED BY <2>2, <3>2
  <2>6. LeakInv'
    BY <2>1, <2>5, LeakLess
  <2> QED BY <2>3, <2>6
<1>4. CASE \/ Refuses(got, more) /\ Dropped(Header) /\ Header \in 0 .. Len(Flow)
           \/ /\ Delivers(got, rest, more) /\ more \in 0 .. Len(rest)
              /\ Dropped(Header + more) /\ Header + more \in 0 .. Len(Flow)
  <2>1. IsHeader(got) /\ slots' = CheckOut(r.seq)
    BY <1>4 DEF Refuses, Delivers
  <2>2. /\ u \in Urbs /\ r # None /\ Flow[1] = <<u, 1>>
        /\ Len(Flow) = Header + Len(rest) /\ Header \in Nat \ {0} /\ Len(rest) \in Nat
    BY <2>1, HeaderIs, Constants, LenProperties DEF Look
  <2>3. UNCHANGED readDone
    <3>1. CASE Refuses(got, more)
      BY <3>1 DEF Refuses, driverVars
    <3>2. CASE Delivers(got, rest, more)
      <4>1. \E n, data : BusWrite(r, n, data)
        BY <3>2 DEF Delivers
      <4> QED BY <4>1, BusWriteIs DEF TypeInv
    <3> QED BY <1>4, <3>1, <3>2
  <2>4. ~AnsweredZero => Header + more = Total[u]
    BY <2>1, LengthIs
  <2>5. Total[u] \in Nat /\ Total[u] >= Header
    BY <2>2, ReplyFacts
  <2>6. more \in Nat
    BY <2>1, MoreIs DEF Look
  <2>7. CASE Dropped(Header) /\ Header \in 0 .. Len(Flow)
    <3> HIDE DEF u, more, r
    <3>1. Header \in 1 .. Len(Flow) /\ Header <= Total[u] /\ Len(Flow) >= 1
      BY <2>2, <2>5
    <3> QED BY <1>2, <2>1, <2>2, <2>3, <2>7, <3>1, SlotsHeader DEF r
  <2>8. CASE Dropped(Header + more) /\ Header + more \in 0 .. Len(Flow)
    <3> HIDE DEF u, more, r
    <3>1. Header + more \in 1 .. Len(Flow) /\ Len(Flow) >= 1
      BY <2>2, <2>6, <2>8
    <3>2. ~AnsweredZero => Header + more <= Total[u]
      BY <2>4, <2>5
    <3> QED BY <1>2, <2>1, <2>2, <2>3, <2>8, <3>1, <3>2, SlotsHeader DEF r
  <2> QED BY <1>4, <2>7, <2>8
<1> QED BY <1>1, <1>3, <1>4
LEMMA SlotNext ==
  ASSUME TypeInv, TypeInv', PacketInv, ReplyInv, FlowInv, StartInv, ReadInv,
         DistinctInv, DistinctInv', SlotInv, LeakInv, Next
  PROVE  SlotInv' /\ LeakInv'
<1>1. Lasts /\ Answered /\ DriverOK
  BY LastsNext, AnsweredNext DEF TypeInv
<1>2. /\ state \in [Urbs -> {"new", "queued", "sent", "done"}]
      /\ DOMAIN seq = Urbs /\ NextNum \in 0 .. MaxSeq
  BY <1>1, NextNumType DEF DriverOK
<1>3. ASSUME UNCHANGED <<slots, server>>, Flow' = Flow,
             readDone' \in {readDone, None, Failed}
      PROVE  SlotInv' /\ LeakInv'
  <2>1. OutPending' = OutPending
    BY <1>1, <1>3, PendingQuiet
  <2> QED BY <1>1, <1>3, <2>1, SlotsQuiet
<1>4. CASE DevReadLost \/ DevReadWaits \/ DevReadRejected \/ SockReadWaits
           \/ Interrupt \/ Close \/ Exit \/ Unplug
  <2>1. UNCHANGED <<slots, server, sockDone, stream>>
        /\ readDone' \in {readDone, None, Failed}
    BY <1>4
       DEF DevReadLost, DevReadWaits, DevReadRejected, SockReadWaits, Interrupt,
           Close, Exit, Unplug, netVars, loopVars, driverVars
  <2>2. Flow' = Flow
    BY <2>1 DEF Flow
  <2> QED BY <1>3, <2>1, <2>2
<1>5. CASE SockArrives
  <2>1. UNCHANGED <<slots, server, readDone>>
    BY <1>5 DEF SockArrives, driverVars
  <2> QED BY <1>3, <1>5, <2>1, ArrivesFlow
<1>6. CASE DevRead
  <2>1. PICK u \in Urbs : \E p \in PacketsOf(u, urb[u], NextNum) :
           /\ state[u] = "queued"
           /\ state' = [state EXCEPT ![u] = "sent"]
           /\ seq' = [seq EXCEPT ![u] = NextNum] /\ WriteToSock(p)
    BY <1>1, <1>6, DevReadIs
  <2>2. PICK p \in PacketsOf(u, urb[u], NextNum) : WriteToSock(p)
    BY <2>1
  <2>3. UNCHANGED <<urb, readDone, replies, closed, short, sockDone, stream>>
    BY <1>6 DEF DevRead
  <2>4. IsUrb(urb[u]) /\ urb[u] # None
    BY <1>1, <2>1, KindOf DEF DriverOK, UrbInv
  <2>5. p.urb = u /\ p.seq = NextNum /\ (p.in <=> IsIn(urb[u]))
    BY <1>2, <2>4, PacketsAre
  <2>6. Flow' = Flow
    BY <2>3 DEF Flow
  <2>7. seq'[u] = NextNum
    BY <1>2, <2>1
  <2>8. p.seq # 0 => \A i \in 1 .. OutQLen : slots[i] # p.seq
    BY <1>1, <2>1, <2>5, <2>7, NewNumber
  <2>9. readDone' \notin {None, Failed} => readDone.seq # p.seq \/ p.seq = 0
    <3> SUFFICES ASSUME readDone \notin {None, Failed}, p.seq # 0, readDone.seq = p.seq
                 PROVE  FALSE
      BY <2>3
    <3>1. Made(readDone)
      BY DEF PacketInv
    <3>2. /\ readDone.urb \in Urbs /\ readDone.seq = seq[readDone.urb]
          /\ state[readDone.urb] \in {"sent", "done"}
      BY <3>1, MadeFacts
    <3>3. readDone.urb # u /\ seq'[readDone.urb] = seq[readDone.urb]
      BY <1>1, <2>1, <3>2, OutStays
    <3> QED BY <2>5, <2>7, <3>2, <3>3 DEF DistinctInv
  <2> QED BY <1>1, <2>2, <2>3, <2>4, <2>5, <2>6, <2>7, <2>8, <2>9, SlotsSent
<1>7. CASE DevReadCompleted
  <2>1. /\ readDone # None /\ readDone' = None
        /\ UNCHANGED <<urb, seq, replies, closed, short, sockDone, stream>>
    BY <1>7 DEF DevReadCompleted
  <2>2. Flow' = Flow
    BY <2>1 DEF Flow
  <2>3. CASE UNCHANGED <<slots, server>>
    BY <1>3, <2>1, <2>2, <2>3
  <2>4. CASE readDone # Failed /\ WriteToSock(readDone)
    <3>1. Made(readDone)
      BY <2>1, <2>4 DEF PacketInv
    <3>2. /\ readDone.urb \in Urbs /\ readDone.seq = seq[readDone.urb]
          /\ (readDone.in <=> IsIn(urb[readDone.urb])) /\ urb[readDone.urb] # None
      BY <3>1, MadeFacts
    <3>3. readDone.seq # 0 => \A i \in 1 .. OutQLen : slots[i] # readDone.seq
      BY <2>1, <2>4 DEF SlotInv
    <3> QED BY <1>1, <2>1, <2>2, <2>4, <3>2, <3>3, SlotsSent
  <2>5. \/ UNCHANGED <<slots, server>>
        \/ readDone # Failed /\ WriteToSock(readDone)
    BY <1>7 DEF DevReadCompleted
  <2> QED BY <2>3, <2>4, <2>5
<1>8. CASE SockRead \/ SockReadCompleted
  <2>1. PICK got, rest \in Seq(Units) : Look(got, rest)
    BY <1>8, Looks
  <2> QED BY <1>1, <2>1, SlotsLooked
<1>9. ASSUME NEW u \in Urbs, Cancel(u) PROVE SlotInv' /\ LeakInv'
  <2>1. UNCHANGED <<slots, server, sockDone, stream, readDone>>
    BY <1>9 DEF Cancel, netVars, loopVars
  <2>2. Flow' = Flow
    BY <2>1 DEF Flow
  <2> QED BY <1>3, <2>1, <2>2
<1>10. ASSUME NEW u \in Urbs, NEW k \in set.kinds[u], Submit(u, k)
       PROVE  SlotInv' /\ LeakInv'
  <2>1. state[u] = "new" /\ urb' = [urb EXCEPT ![u] = k]
        /\ UNCHANGED <<slots, server, sockDone, stream, replies>>
    BY <1>10 DEF Submit, netVars, loopVars
  <2>2. Flow' = Flow
    BY <2>1 DEF Flow
  <2>3. \/ readDone' \in {Failed, readDone}
        \/ \E p \in PacketsOf(u, k, NextNum) :
              /\ readDone' = p /\ state' = [state EXCEPT ![u] = "sent"]
              /\ seq' = [seq EXCEPT ![u] = NextNum]
    BY <1>10 DEF Submit
  <2>4. CASE readDone' \in {Failed, readDone}
    BY <1>3, <2>1, <2>2, <2>4
  <2>5. ASSUME NEW p \in PacketsOf(u, k, NextNum), readDone' = p,
               seq' = [seq EXCEPT ![u] = NextNum]
        PROVE  SlotInv' /\ LeakInv'
    <3>1. IsUrb(k)
      BY ForwarderAssumption DEF TypeInv
    <3>2. p.seq = NextNum
      BY <1>2, <3>1, PacketsAre
    <3>3. seq'[u] = NextNum
      BY <1>2, <2>5
    <3>4. NextNum # 0 => \A i \in 1 .. OutQLen : slots[i] # NextNum
      BY <1>1, <2>1, <3>3, NewNumber
    <3>5. OutPending' = OutPending
      BY <1>1, <2>1, <2>2, PendingQuiet
    <3>6. LeakInv'
      BY <1>1, <2>1, <3>5, LeakLess
    <3>7. \A i \in 1 .. OutQLen : slots[i] # 0 =>
            \E v \in Urbs : urb'[v] # None /\ ~IsIn(urb'[v]) /\ seq'[v] = slots[i]
      <4> SUFFICES ASSUME NEW i \in 1 .. OutQLen, slots[i] # 0
                   PROVE  \E v \in Urbs : urb'[v] # None /\ ~IsIn(urb'[v]) /\ seq'[v] = slots[i]
        OBVIOUS
      <4>1. PICK v \in Urbs : urb[v] # None /\ ~IsIn(urb[v]) /\ seq[v] = slots[i]
        BY DEF SlotInv
      <4>2. state[v] \in {"sent", "done"}
        BY <4>1 DEF TypeInv, DriverOK, UrbInv
      <4> QED BY <1>1, <4>1, <4>2, OutStays
    <3>8. \A v \in OutPending : v \in Urbs /\ seq'[v] = seq[v]
      BY <1>1, PendingIs, PendingSent, OutStays
    <3>9. \A v \in OutPending' : seq'[v] # 0 => \E i \in 1 .. OutQLen : slots[i] = seq'[v]
      BY <3>5, <3>8 DEF SlotInv
    <3>10. \A i, j \in 1 .. OutQLen : slots[i] # 0 /\ slots[i] = slots[j] => i = j
      BY DEF SlotInv
    <3>11. readDone'.seq # 0 => \A i \in 1 .. OutQLen : slots[i] # readDone'.seq
      BY <2>5, <3>2, <3>4
    <3>12. SlotInv'
      BY <2>1, <3>7, <3>9, <3>10, <3>11 DEF SlotInv
    <3> QED BY <3>6, <3>12
  <2> QED BY <2>3, <2>4, <2>5
<1>11. ASSUME NEW wanted \in Selections, SelectConfig(wanted) PROVE SlotInv' /\ LeakInv'
  <2>1. UNCHANGED <<slots, server, sockDone, stream, readDone>>
    BY <1>11 DEF SelectConfig, netVars, loopVars
  <2>2. Flow' = Flow
    BY <2>1 DEF Flow
  <2> QED BY <1>3, <2>1, <2>2
<1>12. ASSUME NEW p \in server, Reply(p) PROVE SlotInv' /\ LeakInv'
  <2>1. UNCHANGED <<slots, readDone>>
    BY <1>12 DEF Reply, loopVars, driverVars
  <2>2. OutPending' = OutPending
    BY <1>1, <1>12, PendingReply
  <2> QED BY <1>1, <2>1, <2>2, SlotsQuiet
<1> QED BY <1>4, <1>5, <1>6, <1>7, <1>8, <1>9, <1>10, <1>11, <1>12
        DEF Next, Step, Loop
-----------------------------------------------------------------------------
(* Why the loop ends                                                        *)

(* A reply that is longer than the buffer.                                  *)
TooLong == \E u \in Urbs : /\ replies[u] # None
                           /\ Header + replies[u].actual
                                + replies[u].npackets * IsoDesc > BigSize
Reason == \/ closed \/ ~present \/ short \/ Rejected
          \/ Cardinality(OutPending) >= OutQLen \/ TooLong \/ AnsweredZero

LEMMA ReasonIs == EndsForAReason <=> (pc = "ended" => Reason)
BY DEF EndsForAReason, Reason, Rejected, TooLong

(* No slot is free only if as many requests are pending.                    *)
LEMMA SlotsFull ==
  ASSUME TypeInv, SlotInv, LeakInv, Holding(0) = {}
  PROVE  Reason
<1> SUFFICES ASSUME ~closed, ~short, ~AnsweredZero
             PROVE  Cardinality(OutPending) >= OutQLen
  BY DEF Reason
<1>1. \A i \in 1 .. OutQLen : slots[i] # 0 /\ \E u \in OutPending : seq[u] = slots[i]
  BY DEF Holding, LeakInv
<1> DEFINE f == [i \in 1 .. OutQLen |-> CHOOSE u \in OutPending : seq[u] = slots[i]]
<1>2. \A i \in 1 .. OutQLen : f[i] \in OutPending /\ seq[f[i]] = slots[i]
  BY <1>1
<1>3. f \in [1 .. OutQLen -> OutPending]
  BY <1>2
<1>4. \A i, j \in 1 .. OutQLen : f[i] = f[j] => i = j
  BY <1>1, <1>2 DEF SlotInv
<1> HIDE DEF f
<1>5. f \in Injection(1 .. OutQLen, OutPending)
  BY <1>3, <1>4 DEF Injection, IsInjective
<1>6. OutPending \in SUBSET Urbs
  BY DEF OutPending
<1>7. IsFiniteSet(OutPending)
  BY <1>6, Constants, FS_Subset
<1>8. Cardinality(1 .. OutQLen) <= Cardinality(OutPending)
  BY <1>5, <1>7, FS_Injection
<1>9. Cardinality(1 .. OutQLen) = OutQLen
  <2>1. OutQLen \in Nat /\ OutQLen >= 1 /\ 1 \in Int /\ OutQLen \in Int
    BY Constants
  <2>2. Cardinality(1 .. OutQLen) = IF 1 > OutQLen THEN 0 ELSE OutQLen - 1 + 1
    BY <2>1, FS_Interval
  <2> QED BY <2>1, <2>2
<1>10. Cardinality(OutPending) \in Nat /\ OutQLen \in Nat
  BY <1>7, Constants, FS_CardinalityType
<1> QED BY <1>8, <1>9, <1>10

LEMMA ReasonStays ==
  ASSUME TypeInv, Lasts, Answered, Reason, OutPending' = OutPending PROVE Reason'
<1>1. CASE closed \/ ~present \/ short
  BY <1>1 DEF Reason, Lasts
<1>2. CASE Rejected
  BY <1>2, RejectedStays DEF Reason
<1>3. CASE Cardinality(OutPending) >= OutQLen
  BY <1>3 DEF Reason
<1>4. CASE TooLong
  <2>1. PICK u \in Urbs : /\ replies[u] # None
                          /\ Header + replies[u].actual
                               + replies[u].npackets * IsoDesc > BigSize
    BY <1>4 DEF TooLong
  <2>2. replies'[u] = replies[u]
    BY <2>1 DEF Answered
  <2> QED BY <2>1, <2>2 DEF Reason, TooLong
<1>5. CASE AnsweredZero
  BY <1>5, ZeroStays DEF Reason
<1> QED BY <1>1, <1>2, <1>3, <1>4, <1>5 DEF Reason

(* write_to_sock fails for a reason only.                                   *)
LEMMA SendFails ==
  ASSUME TypeInv, SlotInv, LeakInv, NEW p, p.size = Expected(p), WriteToSock(p),
         ~GoesOn("dev")
  PROVE  Reason /\ UNCHANGED server
<1>1. /\ Holding(0) = {} \/ closed
      /\ UNCHANGED server
  BY DEF WriteToSock
<1> QED BY <1>1, SlotsFull DEF Reason

(* And so does write_to_dev.                                                *)
LEMMA LookFails ==
  ASSUME TypeInv, PacketInv, ReplyInv, FlowInv, Lasts, Answered,
         NEW got \in Seq(Units), NEW rest \in Seq(Units), Look(got, rest),
         pc' = "ended"
  PROVE  Reason'
<1> DEFINE u == got[1][1]
           r == replies[u]
           more == (IF Holding(r.seq) = {} THEN r.actual ELSE 0)
                     + r.npackets * IsoDesc
<1>1. \/ NoHeader(got) \/ Refuses(got, more) \/ Delivers(got, rest, more)
  BY Ways DEF Look
<1>2. closed' = closed /\ (got = <<>> => closed) /\ pc # "ended"
  BY DEF Look, Listening, Stopped
<1>3. CASE NoHeader(got)
  <2>1. short' = (short \/ got # <<>>)
    BY <1>3 DEF NoHeader
  <2>2. CASE got = <<>>
    BY <1>2, <2>2 DEF Reason
  <2>3. CASE got # <<>>
    BY <2>1, <2>3 DEF Reason
  <2> QED BY <2>2, <2>3
<1>4. CASE Refuses(got, more)
  <2>1. IsHeader(got) /\ (Header + more > BigSize \/ closed)
    BY <1>4 DEF Refuses
  <2>2. u \in Urbs /\ r # None
    BY <2>1, HeaderIs DEF Look
  <2>3. /\ r.actual \in Nat /\ r.npackets * IsoDesc \in Nat /\ Header \in Nat
        /\ BigSize \in Nat
    BY <2>2, ReplyFacts, Constants
  <2>4. replies'[u] = r
    BY <2>2 DEF Answered
  <2>5. CASE closed
    BY <1>2, <2>5 DEF Reason
  <2>6. CASE Header + more > BigSize
    <3> HIDE DEF r, u
    <3>1. Header + r.actual + r.npackets * IsoDesc > BigSize
      BY <2>3, <2>6
    <3> QED BY <2>2, <2>4, <3>1 DEF Reason, TooLong
  <2> QED BY <2>1, <2>5, <2>6
<1>5. CASE Delivers(got, rest, more)
  <2>1. ~GoesOn("sock")
    BY <1>2 DEF GoesOn
  <2>2. ~present
    BY <1>5, <2>1 DEF Delivers
  <2> QED BY <2>2 DEF Reason, Lasts
<1> QED BY <1>1, <1>3, <1>4, <1>5

(* An end.                                                                  *)
LEMMA EndsNow ==
  ASSUME TypeInv, TypeInv', PacketInv, ReplyInv, FlowInv, ReadInv, SlotInv, LeakInv,
         FailInv, Lasts, Answered, Next, pc # "ended", pc' = "ended"
  PROVE  Reason'
<1>1. DriverOK /\ NextNum \in 0 .. MaxSeq
  BY NextNumType DEF TypeInv, DriverOK
<1>2. ~GoesOn("dev") /\ ~Pending
  BY DEF GoesOn, Pending
<1>3. CASE DevReadLost
  BY <1>3 DEF DevReadLost, Reason, Lasts
<1>4. CASE DevReadWaits
  BY <1>2, <1>4 DEF DevReadWaits
<1>5. CASE DevReadRejected
  <2> DEFINE u == queue[Min(Unsent)]
  <2>1. /\ u \in Urbs /\ state[u] = "queued"
        /\ Complete(u, Refused("invalid parameter"))
        /\ PacketsOf(u, urb[u], NextNum) = {}
    BY <1>1, <1>5, RejectedIs
  <2>2. urb[u] # None /\ urb' = urb /\ DOMAIN result = Urbs
    BY <1>1, <1>5, <2>1 DEF DriverOK, UrbInv, DevReadRejected
  <2> HIDE DEF u
  <2>3. Rejected'
    BY <2>1, <2>2, RejectedNow
  <2> QED BY <2>3 DEF Reason
<1>6. CASE DevRead
  <2>1. PICK u \in Urbs : \E p \in PacketsOf(u, urb[u], NextNum) :
           state[u] = "queued" /\ WriteToSock(p)
    BY <1>1, <1>6, DevReadIs
  <2>2. PICK p \in PacketsOf(u, urb[u], NextNum) : WriteToSock(p)
    BY <2>1
  <2>3. IsUrb(urb[u])
    BY <1>1, <2>1, KindOf DEF DriverOK, UrbInv
  <2>4. p.size = Expected(p)
    BY <1>1, <2>3, PacketsAre
  <2>5. Reason /\ UNCHANGED server
    BY <1>2, <2>2, <2>4, SendFails
  <2>6. Flow' = Flow
    BY <1>6 DEF DevRead, Flow
  <2>7. OutPending' = OutPending
    BY <2>5, <2>6, PendingQuiet
  <2> QED BY <2>5, <2>7, ReasonStays
<1>7. CASE DevReadCompleted
  <2>1. Flow' = Flow
    BY <1>7 DEF DevReadCompleted, Flow
  <2>2. Reason /\ UNCHANGED server
    <3>1. CASE readDone = Failed /\ UNCHANGED server
      BY <3>1 DEF FailInv, Reason
    <3>2. CASE readDone # Failed /\ WriteToSock(readDone)
      <4>1. Made(readDone)
        BY <1>7, <3>2 DEF PacketInv, DevReadCompleted
      <4>2. readDone.size = Expected(readDone)
        BY <4>1, MadeFacts
      <4> QED BY <1>2, <3>2, <4>2, SendFails
    <3> QED BY <1>7, <3>1, <3>2 DEF DevReadCompleted
  <2>3. OutPending' = OutPending
    BY <2>1, <2>2, PendingQuiet
  <2> QED BY <2>2, <2>3, ReasonStays
<1>8. CASE SockRead \/ SockReadCompleted
  <2>1. PICK got, rest \in Seq(Units) : Look(got, rest)
    BY <1>8, Looks
  <2> QED BY <2>1, LookFails
<1>9. CASE \/ SockReadWaits \/ SockArrives \/ Interrupt \/ Exit \/ Unplug \/ Close
           \/ \E u \in Urbs : Cancel(u) \/ \E k \in set.kinds[u] : Submit(u, k)
           \/ \E wanted \in Selections : SelectConfig(wanted)
           \/ \E p \in server : Reply(p)
  BY <1>9
     DEF SockReadWaits, SockArrives, Interrupt, Exit, Unplug, Close, Cancel, Submit,
         SelectConfig, Reply, loopVars
<1> QED BY <1>3, <1>4, <1>5, <1>6, <1>7, <1>8, <1>9 DEF Next, Step, Loop

LEMMA EndsNext ==
  ASSUME TypeInv, TypeInv', PacketInv, ReplyInv, FlowInv, ReadInv, SlotInv, LeakInv,
         FailInv, EndsForAReason, Next
  PROVE  EndsForAReason'
<1>1. Lasts /\ Answered
  BY LastsNext, AnsweredNext
<1>2. (EndsForAReason <=> (pc = "ended" => Reason))'
  BY ReasonIs, PTL
<1> SUFFICES ASSUME pc' = "ended" PROVE Reason'
  BY <1>2
<1>3. CASE pc # "ended"
  BY <1>1, <1>3, EndsNow
<1>4. CASE pc = "ended"
  <2>1. Reason
    BY <1>4, ReasonIs
  <2>2. ~SockRead /\ ~SockReadCompleted /\ \A p \in server : ~Reply(p)
    BY <1>4 DEF SockRead, SockReadCompleted, Reply, Connected
  <2>3. Flow' = Flow
    BY <2>2, FlowCases
  <2>4. ~DevRead /\ ~DevReadCompleted
    BY <1>4 DEF DevRead, DevReadCompleted
  <2>5. UNCHANGED server
    BY <2>2, <2>4
       DEF Next, Step, Loop, DevReadLost, DevReadWaits, DevReadRejected,
           SockReadWaits, SockArrives, Interrupt, Exit, Unplug, Close, Cancel,
           Submit, SelectConfig, netVars
  <2>6. OutPending' = OutPending
    BY <1>1, <2>3, <2>5, PendingQuiet
  <2> QED BY <1>1, <2>1, <2>6, ReasonStays
<1> QED BY <1>3, <1>4
-----------------------------------------------------------------------------
(* Results                                                                  *)

(* WantedData, of any request and reply.                                    *)
Wanted(u, k, r) ==
  LET At(i, j) == <<u, Header + 1 + j
                       + SumOf([h \in 1 .. i - 1 |-> r.actuals[h]])>>
      places == {x \in (1 .. r.npackets) \X (0 .. r.actual) :
                   x[2] < r.actuals[x[1]]}
  IN IF k.fn = "iso"
     THEN {<<r.offsets[x[1]] + x[2], At(x[1], x[2])>> : x \in places}
     ELSE {<<x - 1, <<u, Header + x>> >> : x \in 1 .. r.actual}
Has(d) == {<<x, d[x]>> : x \in DOMAIN d}

LEMMA WantedIs ==
  ASSUME NEW u
  PROVE  WantedData(u) = Wanted(u, urb[u], replies[u])
BY DEF WantedData, Wanted

(* What came before a packet, as the sum of the packets before.             *)
LEMMA SumBefore ==
  ASSUME NEW a, NEW i \in Nat \ {0}
  PROVE  SumOf([h \in 1 .. i - 1 |-> a[h]]) = Before(a, i)
<1> DEFINE s == [h \in 1 .. i - 1 |-> a[h]]
<1>1. i - 1 \in Nat /\ (i - 1) + 1 = i
  OBVIOUS
<1>2. Len(s) = i - 1
  BY <1>1
<1>3. \A j \in 1 .. i - 1 : s[j] = a[j]
  OBVIOUS
<1> HIDE DEF s
<1>4. SumOf(s) = Before(s, i)
  BY <1>1, <1>2, SumIs
<1>5. Before(s, i) = Before(a, i)
  BY <1>3, BeforeSame
<1> QED BY <1>4, <1>5 DEF s

(* Byte x of the buffer is byte x - o of a packet at o, with b bytes before *)
(* it of the m in the reply.                                                *)
LEMMA PlaceInReply ==
  ASSUME NEW b \in Nat, NEW o \in Nat, NEW a \in Nat, NEW m \in Nat,
         NEW h \in Nat, NEW x \in Int, o <= x, x <= o + a - 1, b + a <= m
  PROVE  /\ b + x - o + 1 \in 1 .. m
         /\ x - o \in 0 .. m /\ x - o < a /\ o + (x - o) = x
         /\ h + (b + x - o + 1) = h + 1 + (x - o) + b
OBVIOUS

LEMMA NoOverlap ==
  ASSUME NEW i \in Int, NEW j \in Int, NEW x \in Int, NEW o \in Nat, NEW a \in Nat,
         NEW p \in Nat, NEW b \in Nat, o <= x, x <= o + a - 1, p <= x,
         x <= p + b - 1, i < j => o + a <= p, j < i => p + b <= o
  PROVE  i = j
OBVIOUS

(* copy_iso_data puts every byte of a packet where it belongs.              *)
LEMMA IsoCopied ==
  ASSUME NEW u, NEW k, IsUrb(k), k.fn = "iso", k.in, NEW r, Fit(k, r),
         NEW data, Len(data) = r.actual,
         \A x \in 1 .. r.actual : data[x] = <<u, Header + x>>
  PROVE  Has(CopyIsoData(k, r.actuals, data)) = Wanted(u, k, r)
<1> DEFINE n == Len(k.offsets)
           o == k.offsets
           a == r.actuals
           m == r.actual
<1>1. /\ Packed(n, o, a, k.len) /\ Len(a) = n /\ m = Before(a, n + 1)
      /\ m \in Nat /\ r.npackets = n /\ r.offsets = o
  BY DEF Fit
<1>2. /\ n \in Nat \ {0} /\ \A i \in 1 .. n : o[i] \in Nat /\ a[i] \in Nat
  BY <1>1 DEF Packed
<1>3. /\ \A i \in 1 .. n : o[i] + a[i] <= k.len
      /\ \A i, j \in 1 .. n : i < j => o[i] + a[i] <= o[j]
      /\ \A i \in 1 .. n : Before(a, i) \in Nat /\ Before(a, i) + a[i] <= m
  BY <1>1, PackedFacts
<1> DEFINE Place(i) == o[i] .. o[i] + a[i] - 1
           copied == {i \in 1 .. Len(a) : \A j \in 1 .. i : Fits(k, a, data, j)}
           Source(x) == CHOOSE i \in copied : x \in Place(i)
           c == CopyIsoData(k, a, data)
<1>4. c = [x \in UNION {Place(i) : i \in copied} |->
             data[Before(a, Source(x)) + x - o[Source(x)] + 1]]
  BY DEF CopyIsoData
<1>5. copied = 1 .. n
  <2>1. \A j \in 1 .. n : Fits(k, a, data, j)
    BY <1>1, <1>3 DEF Fits
  <2>2. \A i \in 1 .. n : \A j \in 1 .. i : j \in 1 .. n
    BY <1>2
  <2> QED BY <1>1, <2>1, <2>2
<1> HIDE DEF copied, c
<1>6. ASSUME NEW i \in 1 .. n, NEW x \in Place(i) PROVE Source(x) = i
  <2> SUFFICES ASSUME NEW j \in 1 .. n, x \in Place(j) PROVE j = i
    BY <1>5, <1>6
  <2>1. i \in Int /\ j \in Int /\ x \in Int /\ o[i] \in Nat /\ o[j] \in Nat
        /\ a[i] \in Nat /\ a[j] \in Nat
        /\ o[i] <= x /\ x <= o[i] + a[i] - 1 /\ o[j] <= x /\ x <= o[j] + a[j] - 1
    BY <1>2, <1>6
  <2>2. (i < j => o[i] + a[i] <= o[j]) /\ (j < i => o[j] + a[j] <= o[i])
    BY <1>3
  <2> QED BY <2>1, <2>2, NoOverlap
<1>7. ASSUME NEW i \in 1 .. n, NEW x \in Place(i)
      PROVE  /\ x \in DOMAIN c
             /\ c[x] = <<u, Header + (Before(a, i) + x - o[i] + 1)>>
  <2>1. x \in UNION {Place(j) : j \in copied}
    BY <1>5, <1>7
  <2>2. x \in DOMAIN c /\ c[x] = data[Before(a, i) + x - o[i] + 1]
    BY <1>4, <1>6, <1>7, <2>1
  <2>3. /\ x \in Int /\ o[i] \in Nat /\ a[i] \in Nat /\ o[i] <= x /\ x <= o[i] + a[i] - 1
        /\ Before(a, i) \in Nat /\ Before(a, i) + a[i] <= m
    BY <1>2, <1>3, <1>7
  <2>4. Before(a, i) + x - o[i] + 1 \in 1 .. m
    BY <1>1, <2>3, PlaceInReply, 0 \in Nat
  <2> QED BY <2>2, <2>4
<1>8. \A x \in DOMAIN c : \E i \in 1 .. n : x \in Place(i)
  BY <1>4, <1>5
<1> DEFINE At(i, j) == <<u, Header + 1 + j
                            + SumOf([h \in 1 .. i - 1 |-> r.actuals[h]])>>
           places == {x \in (1 .. r.npackets) \X (0 .. r.actual) :
                        x[2] < r.actuals[x[1]]}
           W == {<<r.offsets[x[1]] + x[2], At(x[1], x[2])>> : x \in places}
<1>9. Wanted(u, k, r) = W
  BY DEF Wanted
<1>10. \A i \in 1 .. n : \A j : At(i, j) = <<u, Header + 1 + j + Before(a, i)>>
  BY <1>2, SumBefore
<1> HIDE DEF At
<1>11. ASSUME NEW y \in Has(c) PROVE y \in W
  <2>1. PICK x \in DOMAIN c : y = <<x, c[x]>>
    BY <1>11 DEF Has
  <2>2. PICK i \in 1 .. n : x \in Place(i)
    BY <1>8
  <2>3. c[x] = <<u, Header + (Before(a, i) + x - o[i] + 1)>>
    BY <1>7, <2>2
  <2> DEFINE j == x - o[i]
  <2>4. /\ x \in Int /\ o[i] \in Nat /\ a[i] \in Nat /\ o[i] <= x /\ x <= o[i] + a[i] - 1
        /\ Before(a, i) \in Nat /\ Before(a, i) + a[i] <= m /\ Header \in Nat
        /\ m \in Nat
    BY <1>1, <1>2, <1>3, <2>2, SizesAssumption
  <2>5. j \in 0 .. m /\ j < a[i] /\ o[i] + j = x
        /\ Header + (Before(a, i) + x - o[i] + 1) = Header + 1 + j + Before(a, i)
    <3> DEFINE b == Before(a, i)
               oi == o[i]
               ai == a[i]
               n0 == m
               z == x
    <3>1. /\ z \in Int /\ oi \in Nat /\ ai \in Nat /\ oi <= z /\ z <= oi + ai - 1
          /\ b \in Nat /\ b + ai <= n0 /\ n0 \in Nat
      BY <2>4
    <3>2. Header \in Nat
      BY <2>4
    <3> HIDE DEF b, oi, ai, n0, z
    <3>3. z - oi \in 0 .. n0 /\ z - oi < ai
      BY <3>1
    <3>4. oi + (z - oi) = z
      BY <3>1
    <3>5. Header + (b + z - oi + 1) = Header + 1 + (z - oi) + b
      BY <3>1, <3>2
    <3> QED BY <3>3, <3>4, <3>5 DEF b, oi, ai, n0, z
  <2>6. <<i, j>> \in places
    BY <1>1, <2>5
  <2>7. y = <<o[i] + j, At(i, j)>>
    BY <1>10, <2>1, <2>3, <2>5
  <2> HIDE DEF places
  <2> QED BY <1>1, <2>6, <2>7
<1>12. ASSUME NEW y \in W PROVE y \in Has(c)
  <2>1. PICK x \in places : y = <<r.offsets[x[1]] + x[2], At(x[1], x[2])>>
    BY <1>12
  <2> DEFINE i == x[1]
             j == x[2]
  <2>2. i \in 1 .. n /\ j \in 0 .. m /\ j < a[i]
    BY <1>1, <2>1
  <2> HIDE DEF i, j, places
  <2>3. y = <<o[i] + j, <<u, Header + 1 + j + Before(a, i)>> >>
    BY <1>1, <1>10, <2>1, <2>2 DEF i, j
  <2> DEFINE z == o[i] + j
  <2>4. /\ i \in Int /\ o[i] \in Nat /\ a[i] \in Nat /\ j \in Nat /\ Header \in Nat
        /\ Before(a, i) \in Nat
    BY <1>1, <1>2, <1>3, <2>2, SizesAssumption
  <2>5. z \in Place(i)
    BY <2>2, <2>4
  <2>6. z \in DOMAIN c /\ c[z] = <<u, Header + (Before(a, i) + z - o[i] + 1)>>
    BY <1>7, <2>2, <2>5
  <2>7. Header + (Before(a, i) + z - o[i] + 1) = Header + 1 + j + Before(a, i)
    BY <2>4
  <2>8. y = <<z, c[z]>>
    BY <2>3, <2>6, <2>7
  <2> HIDE DEF z
  <2> QED BY <2>6, <2>8 DEF Has
<1>13. Has(c) = W
  BY <1>11, <1>12
<1> QED BY <1>9, <1>13 DEF c

InRow(u, m) == {<<x - 1, <<u, Header + x>> >> : x \in 1 .. m}

(* Data that are copied from the start of the buffer.                       *)
LEMMA HasPlain ==
  ASSUME NEW u, NEW m \in Nat, NEW data, Len(data) = m,
         \A x \in 1 .. m : data[x] = <<u, Header + x>>
  PROVE  Has(CopyPlain(data)) = InRow(u, m)
<1> DEFINE W == {<<x - 1, <<u, Header + x>> >> : x \in 1 .. m}
           c == CopyPlain(data)
<1>1. /\ DOMAIN c = 0 .. m - 1
      /\ \A x \in 0 .. m - 1 : c[x] = <<u, Header + (x + 1)>>
  <2>1. c = [x \in 0 .. m - 1 |-> data[x + 1]]
    BY DEF CopyPlain
  <2>2. \A x \in 0 .. m - 1 : x + 1 \in 1 .. m
    OBVIOUS
  <2> QED BY <2>1, <2>2
<1> HIDE DEF c
<1>2. ASSUME NEW y \in Has(c) PROVE y \in W
  <2>1. PICK x \in 0 .. m - 1 : y = <<x, <<u, Header + (x + 1)>> >>
    BY <1>1, <1>2 DEF Has
  <2>2. x + 1 \in 1 .. m /\ (x + 1) - 1 = x
    OBVIOUS
  <2>3. y = <<(x + 1) - 1, <<u, Header + (x + 1)>> >>
    BY <2>1, <2>2
  <2> QED BY <2>2, <2>3
<1>3. ASSUME NEW y \in W PROVE y \in Has(c)
  <2>1. PICK x \in 1 .. m : y = <<x - 1, <<u, Header + x>> >>
    BY <1>3
  <2>2. x - 1 \in 0 .. m - 1 /\ (x - 1) + 1 = x
    OBVIOUS
  <2>3. y = <<x - 1, c[x - 1]>> /\ x - 1 \in DOMAIN c
    BY <1>1, <2>1, <2>2
  <2> QED BY <2>3 DEF Has
<1>4. Has(c) = W
  BY <1>2, <1>3
<1> QED BY <1>4 DEF c, InRow

(* When the packets fill the buffer they are where they belong.             *)
LEMMA IsoPlain ==
  ASSUME NEW u, NEW k, IsUrb(k), k.fn = "iso", k.in, NEW r, Fit(k, r),
         r.actual = k.len
  PROVE  InRow(u, r.actual) = Wanted(u, k, r)
<1> DEFINE n == Len(k.offsets)
           o == k.offsets
           a == r.actuals
           m == r.actual
           P == {<<x - 1, <<u, Header + x>> >> : x \in 1 .. m}
           At(i, j) == <<u, Header + 1 + j
                            + SumOf([h \in 1 .. i - 1 |-> r.actuals[h]])>>
           places == {x \in (1 .. r.npackets) \X (0 .. r.actual) :
                        x[2] < r.actuals[x[1]]}
           W == {<<r.offsets[x[1]] + x[2], At(x[1], x[2])>> : x \in places}
<1>1. /\ Packed(n, o, a, k.len) /\ m = Before(a, n + 1) /\ m = k.len
      /\ m \in Nat /\ r.npackets = n /\ r.offsets = o
  BY DEF Fit
<1>2. /\ n \in Nat \ {0} /\ \A i \in 1 .. n : o[i] \in Nat /\ a[i] \in Nat
  BY <1>1 DEF Packed
<1>3. \A i \in 1 .. n : Before(a, i) = o[i] /\ o[i] + a[i] <= m
  BY <1>1, PackedFacts
<1>4. \A x \in 0 .. m - 1 : \E i \in 1 .. n : x \in o[i] .. o[i] + a[i] - 1
  BY <1>1, PackedFull
<1>5. Wanted(u, k, r) = W
  BY DEF Wanted
<1>6. \A i \in 1 .. n : \A j : At(i, j) = <<u, Header + 1 + j + o[i]>>
  BY <1>2, <1>3, SumBefore
<1>7. Header \in Nat
  BY SizesAssumption
<1> HIDE DEF At
<1>8. ASSUME NEW y \in P PROVE y \in W
  <2>1. PICK x \in 1 .. m : y = <<x - 1, <<u, Header + x>> >>
    BY <1>8
  <2>2. x - 1 \in 0 .. m - 1
    BY <1>1
  <2>3. PICK i \in 1 .. n : x - 1 \in o[i] .. o[i] + a[i] - 1
    BY <1>4, <2>2
  <2> DEFINE oi == o[i]
             ai == a[i]
             n0 == m
             j == (x - 1) - oi
  <2>4. oi \in Nat /\ ai \in Nat /\ oi + ai <= n0 /\ n0 \in Nat /\ x \in 1 .. n0
        /\ x - 1 \in oi .. oi + ai - 1
    BY <1>1, <1>2, <1>3, <2>3
  <2> HIDE DEF oi, ai, n0
  <2>5. j \in 0 .. n0 /\ j < ai /\ oi + j = x - 1 /\ Header + 1 + j + oi = Header + x
    BY <1>7, <2>4
  <2>6. At(i, j) = <<u, Header + x>>
    BY <1>6, <2>5 DEF oi
  <2> HIDE DEF j
  <2>7. <<i, j>> \in places
    BY <1>1, <2>5 DEF ai, n0
  <2>8. y = <<o[i] + j, At(i, j)>>
    BY <2>1, <2>5, <2>6 DEF oi
  <2> HIDE DEF places
  <2> QED BY <1>1, <2>7, <2>8
<1>9. ASSUME NEW y \in W PROVE y \in P
  <2>1. PICK x \in places : y = <<r.offsets[x[1]] + x[2], At(x[1], x[2])>>
    BY <1>9
  <2> DEFINE i == x[1]
             j == x[2]
             oi == o[i]
             ai == a[i]
             n0 == m
             z == oi + j + 1
  <2>2. i \in 1 .. n /\ j \in 0 .. n0 /\ j < ai
    BY <1>1, <2>1
  <2> HIDE DEF i, j, places
  <2>3. y = <<oi + j, <<u, Header + 1 + j + oi>> >>
    BY <1>1, <1>6, <2>1, <2>2 DEF i, j
  <2>4. oi \in Nat /\ ai \in Nat /\ oi + ai <= n0 /\ n0 \in Nat
    BY <1>1, <1>2, <1>3, <2>2
  <2> HIDE DEF oi, ai, n0
  <2>5. z \in 1 .. n0 /\ z - 1 = oi + j /\ Header + 1 + j + oi = Header + z
    BY <1>7, <2>2, <2>4
  <2> HIDE DEF z
  <2>6. y = <<z - 1, <<u, Header + z>> >>
    BY <2>3, <2>5
  <2> QED BY <2>5, <2>6 DEF n0
<1>10. P = W
  BY <1>8, <1>9
<1> QED BY <1>5, <1>10 DEF InRow

LEMMA NothingWanted ==
  ASSUME NEW u, NEW k, IsUrb(k), IsIn(k), NEW r, Fit(k, r), r.actual = 0
  PROVE  Wanted(u, k, r) = {} /\ Has(<<>>) = {}
<1>1. Has(<<>>) = {}
  BY DEF Has
<1>2. CASE k.fn = "iso"
  <2> DEFINE n == Len(k.offsets)
             places == {x \in (1 .. r.npackets) \X (0 .. r.actual) :
                          x[2] < r.actuals[x[1]]}
  <2>1. k.in
    BY <1>2 DEF IsIn
  <2>2. /\ Packed(n, k.offsets, r.actuals, k.len) /\ r.npackets = n
        /\ Before(r.actuals, n + 1) = 0
    BY <1>2, <2>1 DEF Fit
  <2>3. \A i \in 1 .. n : Before(r.actuals, i) \in Nat
                          /\ Before(r.actuals, i) + r.actuals[i] <= 0
    BY <2>2, PackedFacts
  <2>4. \A i \in 1 .. n : r.actuals[i] \in Nat
    BY <2>2 DEF Packed
  <2>5. \A i \in 1 .. n : r.actuals[i] = 0
    BY <2>3, <2>4
  <2>6. places = {}
    BY <2>2, <2>5
  <2> QED BY <1>1, <1>2, <2>6 DEF Wanted
<1>3. CASE k.fn # "iso"
  <2>1. 1 .. r.actual = {}
    OBVIOUS
  <2> QED BY <1>1, <1>3, <2>1 DEF Wanted
<1> QED BY <1>2, <1>3

(* What process_write_irp makes of a reply with so much behind the header.  *)
Processed(res, k, r, data, ok) ==
  res = ProcessWrite(k, r, Header + Len(data) + r.npackets * IsoDesc, data, ok)

Resets(k) == k.fn = "reset port"
Selects(k) == k.fn = "select interface"

(* Data that are where the reply has them; a result that is the reply's.    *)
InOrder(u, k, data) ==
  IsIn(k) => \A x \in 1 .. Len(data) : data[x] = <<u, Header + x>>
Taken(u, k, r, res) ==
  /\ res.usbd = TranUsbStatus(r.status)
  /\ IsIn(k) => Wanted(u, k, r) = Has(res.data)

(* What process_write_irp takes is right.                                   *)
LEMMA TakenRight ==
  ASSUME NEW u, NEW k, IsUrb(k), NEW r, Fit(k, r), NEW data, NEW ok,
         Len(data) \in Nat,
         InOrder(u, k, data), NEW res, Processed(res, k, r, data, ok),
         res.irp = "success", ~Resets(k)
  PROVE  Taken(u, k, r, res)
<1> DEFINE written == Header + Len(data) + r.npackets * IsoDesc
           inLen == IF IsIn(k) THEN r.actual ELSE 0
           isoLen == IF k.fn = "iso" THEN Len(k.offsets) * IsoDesc ELSE 0
           bad == \/ Selects(k) /\ ~ok
                  \/ r.actual > k.len
                  \/ k.fn = "iso" /\ r.npackets # Len(k.offsets)
                  \/ written # Header + inLen + isoLen
                  \/ k.fn = "iso" /\ \E i \in 1 .. r.npackets :
                                        r.offsets[i] > k.offsets[i]
           d == IF inLen = 0 THEN <<>>
                ELSE IF isoLen > 0 /\ inLen # k.len
                THEN CopyIsoData(k, r.actuals, data)
                ELSE CopyPlain(data)
<1>1. res = IF bad THEN Refused("invalid parameter")
            ELSE IF inLen > 0 /\ ~k.mapped THEN Refused("insufficient resources")
            ELSE [irp |-> "success", usbd |-> TranUsbStatus(r.status), data |-> d]
  BY DEF ProcessWrite, Processed, Resets, Selects
<1>2. /\ r.actual \in Nat /\ r.actual <= k.len /\ Header \in Nat /\ IsoDesc \in Nat \ {0}
      /\ k.len \in Nat /\ k.offsets \in Seq(Nat)
  BY SizesAssumption DEF Fit, IsUrb
<1>3. /\ r.npackets * IsoDesc = isoLen /\ isoLen \in Nat
      /\ k.fn = "iso" => isoLen > 0
  <2>1. CASE k.fn # "iso"
    <3>1. r.npackets = 0 /\ 0 * IsoDesc = 0
      BY <1>2, <2>1 DEF Fit
    <3> QED BY <2>1, <3>1
  <2>2. CASE k.fn = "iso"
    <3>1. k.offsets # <<>> /\ r.npackets = Len(k.offsets)
      BY <2>2 DEF IsUrb, Fit
    <3>2. Len(k.offsets) \in Nat \ {0}
      BY <1>2, <3>1, EmptySeq
    <3>3. Len(k.offsets) * IsoDesc \in Nat \ {0}
      BY <1>2, <3>2
    <3> QED BY <2>2, <3>1, <3>3
  <2> QED BY <2>1, <2>2
<1> HIDE DEF d, isoLen
<1>4. ~bad /\ res = [irp |-> "success", usbd |-> TranUsbStatus(r.status), data |-> d]
  <2>1. Refused("invalid parameter").irp # "success"
        /\ Refused("insufficient resources").irp # "success"
    BY DEF Refused
  <2> HIDE DEF bad
  <2> QED BY <1>1, <2>1
<1>5. res.usbd = TranUsbStatus(r.status) /\ res.data = d
  BY <1>4
<1>6. Len(data) = inLen
  <2>1. written = Header + inLen + isoLen
    BY <1>4
  <2> QED BY <1>2, <1>3, <2>1
<1>7. ASSUME IsIn(k) PROVE Wanted(u, k, r) = Has(d)
  <2>1. /\ inLen = r.actual /\ Len(data) = r.actual
        /\ \A x \in 1 .. Len(data) : data[x] = <<u, Header + x>>
    BY <1>6, <1>7 DEF InOrder
  <2>2. CASE r.actual = 0
    BY <1>7, <2>1, <2>2, NothingWanted DEF d
  <2>3. CASE r.actual # 0 /\ isoLen > 0 /\ r.actual # k.len
    <3>1. k.fn = "iso"
      BY <2>3 DEF isoLen
    <3>2. k.in
      BY <1>7, <3>1, Zenon DEF IsIn
    <3>3. d = CopyIsoData(k, r.actuals, data)
      BY <2>1, <2>3 DEF d
    <3>4. \A x \in 1 .. r.actual : data[x] = <<u, Header + x>>
      BY <1>7, <2>1
    <3> QED BY <2>1, <3>1, <3>2, <3>3, <3>4, IsoCopied
  <2>4. CASE r.actual # 0 /\ ~(isoLen > 0 /\ r.actual # k.len)
    <3>1. d = CopyPlain(data)
      BY <2>1, <2>4 DEF d
    <3>2. Has(d) = InRow(u, r.actual)
      <4>1. \A x \in 1 .. r.actual : data[x] = <<u, Header + x>>
        BY <1>7, <2>1
      <4> HIDE DEF inLen
      <4> QED BY <1>2, <2>1, <3>1, <4>1, HasPlain
    <3>3. CASE k.fn = "iso"
      <4>1. r.actual = k.len /\ k.in
        BY <1>3, <1>7, <2>4, <3>3 DEF IsIn
      <4> QED BY <3>2, <3>3, <4>1, IsoPlain
    <3>4. CASE k.fn # "iso"
      BY <3>2, <3>4 DEF Wanted, InRow
    <3> QED BY <3>3, <3>4
  <2> QED BY <2>2, <2>3, <2>4
<1> QED BY <1>5, <1>7 DEF Taken

(* And nothing is refused that was answered in order and read whole.        *)
LEMMA RefusedRight ==
  ASSUME NEW k, IsUrb(k), NEW r, Fit(k, r), NEW data, NEW ok,
         Len(data) = (IF IsIn(k) THEN r.actual ELSE 0),
         NEW res, Processed(res, k, r, data, ok),
         res.irp # "success"
  PROVE  Selects(k) \/ ~k.mapped
<1> SUFFICES ASSUME ~Selects(k), k.mapped PROVE FALSE
  OBVIOUS
<1> DEFINE written == Header + Len(data) + r.npackets * IsoDesc
           inLen == IF IsIn(k) THEN r.actual ELSE 0
           isoLen == IF k.fn = "iso" THEN Len(k.offsets) * IsoDesc ELSE 0
<1>1. /\ r.actual \in Nat /\ r.actual <= k.len /\ Header \in Nat /\ IsoDesc \in Nat \ {0}
      /\ k.len \in Nat /\ k.offsets \in Seq(Nat)
  BY SizesAssumption DEF Fit, IsUrb
<1>2. r.npackets * IsoDesc = isoLen
  <2>1. CASE k.fn # "iso"
    <3>1. r.npackets = 0 /\ 0 * IsoDesc = 0
      BY <1>1, <2>1 DEF Fit
    <3> QED BY <2>1, <3>1
  <2>2. CASE k.fn = "iso"
    BY <2>2 DEF Fit
  <2> QED BY <2>1, <2>2
<1>3. written = Header + inLen + isoLen
  BY <1>2
<1>4. ~(r.actual > k.len)
  BY <1>1
<1>5. k.fn = "iso" => /\ r.npackets = Len(k.offsets)
                      /\ \A i \in 1 .. r.npackets : ~(r.offsets[i] > k.offsets[i])
  <2> SUFFICES ASSUME k.fn = "iso"
               PROVE  /\ r.npackets = Len(k.offsets)
                      /\ \A i \in 1 .. r.npackets : ~(r.offsets[i] > k.offsets[i])
    OBVIOUS
  <2>1. r.npackets = Len(k.offsets) /\ r.offsets = k.offsets
    BY DEF Fit
  <2>2. \A i \in 1 .. Len(k.offsets) : k.offsets[i] \in Nat
    BY <1>1, LenProperties, ElementOfSeq
  <2> QED BY <2>1, <2>2
<1>6. ASSUME ~Resets(k) PROVE FALSE
  <2>1. ~(\/ Selects(k) /\ ~ok
          \/ r.actual > k.len
          \/ k.fn = "iso" /\ r.npackets # Len(k.offsets)
          \/ written # Header + inLen + isoLen
          \/ k.fn = "iso" /\ \E i \in 1 .. r.npackets : r.offsets[i] > k.offsets[i])
    BY <1>3, <1>4, <1>5
  <2>2. \E x, y : res = [irp |-> "success", usbd |-> x, data |-> y]
    BY <1>6, <2>1 DEF ProcessWrite, Processed, Resets, Selects
  <2> QED BY <2>2
<1>7. ASSUME Resets(k) PROVE FALSE
  <2>1. res = [Refused("success") EXCEPT !.usbd = "none"]
    BY <1>7 DEF ProcessWrite, Processed, Resets
  <2> QED BY <2>1 DEF Refused
<1> QED BY <1>6, <1>7

(* What an URB that has been answered may have got.                         *)
Right(u, k, r, res, zero) ==
  /\ res.irp = "success" /\ k.fn # "reset port" => Taken(u, k, r, res)
  /\ res.irp \in {"invalid parameter", "insufficient resources"} =>
       k.fn = "select interface" \/ ~k.mapped \/ zero

LEMMA RightIs ==
  RightResult <=> \A u \in Urbs : replies[u] # None /\ state[u] = "done" =>
                    Right(u, urb[u], replies[u], result[u], AnsweredZero)
<1>1. \A u \in Urbs : WantedData(u) = Wanted(u, urb[u], replies[u])
  BY WantedIs
<1> HIDE DEF AnsweredZero
<1> QED BY <1>1, Zenon DEF RightResult, Right, Taken, Has

LEMMA LateIsRight ==
  ASSUME NEW u, NEW k, NEW r, NEW res, NEW zero, Late(res)
  PROVE  Right(u, k, r, res, zero)
BY Zenon DEF Late, Right

LEMMA FitNext ==
  ASSUME TypeInv, PacketInv, ReplyInv, FitInv, Next PROVE FitInv'
<1> SUFFICES ASSUME NEW u \in Urbs, replies'[u] # None
             PROVE  Fit(urb'[u], replies'[u])
  BY DEF FitInv
<1>1. Answered
  BY AnsweredNext
<1>2. CASE replies[u] # None
  BY <1>1, <1>2 DEF Answered, FitInv
<1>3. CASE replies[u] = None
  <2>1. PICK p \in server : Reply(p) /\ p.urb = u
    BY <1>3, AnsweredNext
  <2>2. Made(p) /\ urb' = urb
    BY <2>1 DEF PacketInv, Reply, driverVars
  <2>3. PICK r \in Answers(p) : replies' = [replies EXCEPT ![u] = r]
    BY <2>1 DEF Reply
  <2>4. replies'[u] = r
    BY <2>3 DEF ReplyInv
  <2>5. Fit(urb[u], r)
    BY <2>1, <2>2, <2>3, AnswersFit
  <2> QED BY <2>2, <2>4, <2>5
<1> QED BY <1>2, <1>3

(* A reply is given to the driver, with the units behind its header.        *)
Gives(got, rest, r, len) ==
  /\ IsHeader(got) /\ r = replies[got[1][1]]
  /\ len = IF Holding(r.seq) = {} THEN r.actual ELSE 0
  /\ len + r.npackets * IsoDesc <= Len(rest)
  /\ BusWrite(r, Header + (len + r.npackets * IsoDesc), SubSeq(rest, 1, len))

LEMMA LookGives ==
  ASSUME TypeInv, ReplyInv, FlowInv, NEW got \in Seq(Units), NEW rest \in Seq(Units),
         Look(got, rest), ~UNCHANGED driverVars
  PROVE  \E r, len : Gives(got, rest, r, len)
<1> DEFINE r == replies[got[1][1]]
           len == IF Holding(r.seq) = {} THEN r.actual ELSE 0
           more == len + r.npackets * IsoDesc
<1>1. WriteToDev(got, rest) /\ Flow = got \o rest
  BY DEF Look
<1>2. IsHeader(got)
  BY <1>1, NoHeaderIs DEF NoHeader
<1>3. Len(got) = Header /\ ~(Len(got) < Header)
  BY <1>1, <1>2, HeaderIs, Constants
<1>4. /\ Len(rest) >= more
      /\ BusWrite(r, Header + more, SubSeq(rest, 1, len))
  BY <1>1, <1>2, <1>3, HeaderWays
<1>5. more \in Nat /\ Len(rest) \in Nat
  BY <1>1, <1>2, MoreIs, LenProperties
<1>6. more <= Len(rest)
  <2> HIDE DEF more
  <2> QED BY <1>4, <1>5
<1>7. Gives(got, rest, r, len)
  BY <1>2, <1>4, <1>6 DEF Gives
<1> QED BY <1>7

(* The URB that gets it: one with the reply's number.                       *)
LEMMA WriteTakes ==
  ASSUME DriverOK, NEW r, NEW n, NEW data, BusWrite(r, n, data),
         NEW u \in Urbs, state[u] = "sent", state'[u] = "done"
  PROVE  /\ seq[u] = r.seq
         /\ \E ok : result'[u] = ProcessWrite(urb[u], r, n, data, ok)
<1> DEFINE hits == {i \in 1 .. Len(queue) : seq[queue[i]] = r.seq}
           w == queue[Min(hits)]
           sel == urb[w].sel
           ok == PostSelectInterface(config, sel.num, sel.alt, sel.room, Speed).ok
           done == IF state[w] = "sent" THEN ProcessWrite(urb[w], r, n, data, ok)
                   ELSE Refused("invalid parameter")
<1>1. present /\ hits # {} /\ Complete(w, done)
  BY Zenon DEF BusWrite, driverVars
<1>2. Min(hits) \in DOMAIN queue /\ Min(hits) \in hits
  BY <1>1, LeastPlace
<1> HIDE DEF done
<1>3. /\ w \in Urbs /\ seq[w] = r.seq /\ DOMAIN state = Urbs /\ DOMAIN result = Urbs
  BY <1>2, LenProperties, ElementOfSeq DEF DriverOK, QueueInv
<1> HIDE DEF hits
<1>4. /\ state' = [state EXCEPT ![w] = "done"]
      /\ result' = [result EXCEPT ![w] = done]
  BY <1>1 DEF Complete
<1> HIDE DEF w
<1>5. u = w /\ result'[u] = done
  BY <1>3, <1>4
<1>6. done = ProcessWrite(urb[u], r, n, data, ok)
  BY <1>5 DEF done
<1> QED BY <1>3, <1>5, <1>6

(* How an URB that was sent comes to its end.                               *)
LEMMA SentEnds ==
  ASSUME TypeInv, ReadInv, Next, NEW u \in Urbs, state[u] = "sent", state'[u] = "done"
  PROVE  \/ Late(result'[u])
         \/ \E got, rest \in Seq(Units) : Look(got, rest)
<1>1. /\ DriverOK /\ DOMAIN state = Urbs /\ DOMAIN result = Urbs
      /\ state' # state
  BY DEF TypeInv, DriverOK
<1>2. CASE SockRead \/ SockReadCompleted
  BY <1>2, Looks
<1>3. CASE Exit \/ Unplug
  <2>1. Drain
    BY <1>3 DEF Exit, Unplug
  <2>2. u \in Range(queue)
    BY <2>1 DEF Drain
  <2>3. result'[u] = Refused("not connected")
    BY <2>1, <2>2, Zenon DEF Drain
  <2>4. Late(Refused("not connected"))
    BY Zenon DEF Late, Refused
  <2> QED BY <2>3, <2>4
<1>4. ASSUME NEW v \in Urbs, Cancel(v) PROVE Late(result'[u])
  <2>1. /\ state' = [state EXCEPT ![v] = "done"]
        /\ result' = [result EXCEPT ![v] = Refused("cancelled")]
    BY <1>4 DEF Cancel, Complete
  <2>2. u = v
    BY <1>1, <2>1
  <2>3. result'[u] = Refused("cancelled")
    BY <1>1, <2>1, <2>2
  <2>4. Late(Refused("cancelled"))
    BY Zenon DEF Late, Refused
  <2> QED BY <2>3, <2>4
<1>5. ASSUME NEW v \in Urbs, state[v] \in {"new", "queued"}, NEW x,
             state' = [state EXCEPT ![v] = x]
      PROVE  FALSE
  BY <1>1, <1>5
<1>6. ASSUME NEW v \in Urbs, NEW k \in set.kinds[v], Submit(v, k) PROVE FALSE
  <2>1. state[v] = "new" /\ \E x : state' = [state EXCEPT ![v] = x]
    BY <1>6, Zenon DEF Submit, Complete
  <2> QED BY <1>5, <2>1
<1>7. CASE DevReadRejected
  <2>1. LET v == queue[Min(Unsent)] IN
        v \in Urbs /\ state[v] = "queued" /\ \E x : state' = [state EXCEPT ![v] = x]
    BY <1>1, <1>7, RejectedIs, Zenon DEF Complete
  <2> QED BY <1>5, <2>1
<1>8. CASE DevRead
  <2>1. \E v \in Urbs : state[v] = "queued" /\ \E x : state' = [state EXCEPT ![v] = x]
    BY <1>1, <1>8, DevReadIs
  <2> QED BY <1>5, <2>1
<1>9. CASE \/ DevReadLost \/ DevReadWaits \/ DevReadCompleted \/ SockReadWaits
           \/ SockArrives \/ Interrupt \/ Close
           \/ \E wanted \in Selections : SelectConfig(wanted)
           \/ \E p \in server : Reply(p)
  BY <1>1, <1>9
     DEF DevReadLost, DevReadWaits, DevReadCompleted, SockReadWaits, SockArrives,
         Interrupt, Close, SelectConfig, Reply, driverVars
<1> QED BY <1>2, <1>3, <1>4, <1>6, <1>7, <1>8, <1>9 DEF Next, Step, Loop

(* The units behind the header of an IN reply are its data.                 *)
LEMMA DataBehind ==
  ASSUME TypeInv, ReplyInv, FlowInv, NEW got \in Seq(Units), NEW rest \in Seq(Units),
         Look(got, rest), NEW r, NEW len, Gives(got, rest, r, len),
         NEW u \in Urbs, u = got[1][1]
  PROVE  /\ replies[u] # None /\ r = replies[u]
         /\ len \in Nat /\ Len(SubSeq(rest, 1, len)) = len
         /\ IsIn(urb[u]) =>
              \A x \in 1 .. len : SubSeq(rest, 1, len)[x] = <<u, Header + x>>
<1>1. /\ IsHeader(got) /\ r = replies[u] /\ Flow = got \o rest
      /\ len = IF Holding(r.seq) = {} THEN r.actual ELSE 0
      /\ len + r.npackets * IsoDesc <= Len(rest)
  BY DEF Gives, Look
<1>2. /\ replies[u] # None /\ Flow[1] = <<u, 1>>
      /\ Len(Flow) = Header + Len(rest)
      /\ \A i \in 1 .. Len(rest) : Flow[Header + i] = rest[i]
  BY <1>1, HeaderIs
<1>3. /\ r.actual \in Nat /\ r.npackets * IsoDesc \in Nat /\ Header \in Nat \ {0}
      /\ Len(rest) \in Nat
  BY <1>1, <1>2, ReplyFacts, Constants, LenProperties
<1>4. len \in Nat /\ len <= r.actual
  BY <1>1, <1>3
<1> DEFINE m == r.npackets * IsoDesc
           l == Len(rest)
<1>5. m \in Nat /\ l \in Nat /\ len + m <= l
  BY <1>1, <1>3
<1> HIDE DEF m, l
<1>6. len <= l
  BY <1>4, <1>5
<1>7. /\ Len(SubSeq(rest, 1, len)) = len
      /\ \A x \in 1 .. len : SubSeq(rest, 1, len)[x] = rest[x]
  <2>1. len \in 0 .. Len(rest)
    BY <1>4, <1>5, <1>6 DEF l
  <2> QED BY <2>1, FrontIs
<1>8. ASSUME IsIn(urb[u]), NEW x \in 1 .. len PROVE rest[x] = <<u, Header + x>>
  <2> DEFINE T == Total[u]
             j == Header + x
  <2>1. T = Header + r.actual + m
    BY <1>1, <1>2, <1>8 DEF Total, m
  <2>2. /\ 1 \in 1 .. Len(Flow) /\ j \in 1 .. Len(Flow) /\ 1 <= j
        /\ 1 + (j - 1) <= T /\ 1 + (j - 1) = j /\ x \in 1 .. l
    BY <1>2, <1>3, <1>4, <1>5, <1>6, <2>1 DEF l
  <2>3. Flow[1][1] = u /\ Flow[1][2] = 1
    BY <1>2
  <2>4. Flow[j] = <<u, 1 + (j - 1)>>
    <3>1. \A i, k \in 1 .. Len(Flow) :
            i <= k /\ Flow[i][2] + (k - i) <= Total[Flow[i][1]]
              => Flow[k] = <<Flow[i][1], Flow[i][2] + (k - i)>>
      BY DEF FlowInv, Whole
    <3> HIDE DEF j
    <3> QED BY <2>2, <2>3, <3>1
  <2>5. Flow[j] = <<u, j>>
    <3> HIDE DEF j
    <3> QED BY <2>2, <2>4
  <2> QED BY <1>2, <2>2, <2>5 DEF l
<1> QED BY <1>1, <1>2, <1>4, <1>7, <1>8

LEMMA LengthTaken ==
  ASSUME TypeInv, DistinctInv, ReplyInv, FlowInv, SlotInv, ~AnsweredZero,
         NEW got \in Seq(Units), NEW rest \in Seq(Units), Look(got, rest),
         NEW r, NEW len, Gives(got, rest, r, len), NEW u \in Urbs, u = got[1][1]
  PROVE  len = IF IsIn(urb[u]) THEN r.actual ELSE 0
<1>1. /\ IsHeader(got) /\ r = replies[u] /\ r # None
      /\ len = IF Holding(r.seq) = {} THEN r.actual ELSE 0
  BY DataBehind DEF Gives
<1> DEFINE m == r.npackets * IsoDesc
           wanted == IF IsIn(urb[u]) THEN r.actual ELSE 0
<1>2. r.actual \in Nat /\ m \in Nat /\ Header \in Nat /\ len \in Nat /\ wanted \in Nat
  BY <1>1, ReplyFacts, Constants
<1>3. Header + (len + m) = Total[u]
  BY <1>1, LengthIs
<1>4. Total[u] = Header + wanted + m
  BY <1>1 DEF Total
<1> HIDE DEF m, wanted
<1>5. len = wanted
  BY <1>2, <1>3, <1>4
<1> QED BY <1>5 DEF wanted

(* What a reply brings to its URB.                                          *)
LEMMA GivenRight ==
  ASSUME TypeInv, DistinctInv, DrewInv, ReplyInv, FlowInv, SlotInv, FitInv,
         NEW got \in Seq(Units), NEW rest \in Seq(Units), Look(got, rest),
         NEW u \in Urbs, state[u] = "sent", state'[u] = "done"
  PROVE  /\ replies[u] # None
         /\ Right(u, urb[u], replies[u], result'[u], AnsweredZero)
<1>1. DriverOK /\ state' # state
  BY DEF TypeInv
<1>2. PICK r, len : Gives(got, rest, r, len)
  <2>1. ~UNCHANGED driverVars
    BY <1>1 DEF driverVars
  <2> QED BY <2>1, LookGives
<1> DEFINE w == got[1][1]
           data == SubSeq(rest, 1, len)
           n == Header + (len + r.npackets * IsoDesc)
<1>3. w \in Urbs
  BY <1>2, HeaderIs DEF Gives, Look
<1>4. /\ replies[w] # None /\ r = replies[w] /\ len \in Nat /\ Len(data) = len
      /\ IsIn(urb[w]) => \A x \in 1 .. len : data[x] = <<w, Header + x>>
  BY <1>2, <1>3, DataBehind
<1>5. BusWrite(r, n, data)
  BY <1>2 DEF Gives
<1> HIDE DEF w, data, n
<1>6. seq[u] = r.seq /\ \E ok : result'[u] = ProcessWrite(urb[u], r, n, data, ok)
  BY <1>1, <1>5, WriteTakes
<1>7. r.seq = seq[w] /\ urb[w] # None /\ r.npackets * IsoDesc \in Nat
  BY <1>3, <1>4, ReplyFacts
<1>8. u = w
  <2>1. Drew(u) /\ Drew(w)
    BY <1>4 DEF Drew
  <2> QED BY <1>3, <1>6, <1>7, <2>1 DEF DrewInv
<1>9. PICK ok : result'[u] = ProcessWrite(urb[u], r, n, data, ok)
  BY <1>6
<1> DEFINE k == urb[u]
           res == result'[u]
<1>10. IsUrb(k) /\ Fit(k, r)
  BY <1>4, <1>7, <1>8, KindOf DEF FitInv
<1>11. Processed(res, k, r, data, ok)
  <2>1. n = Header + Len(data) + r.npackets * IsoDesc
    BY <1>4, <1>7, Constants DEF n
  <2> QED BY <1>9, <2>1 DEF Processed
<1> HIDE DEF k, res
<1>12. ASSUME res.irp = "success", ~Resets(k) PROVE Taken(u, k, r, res)
  <2>1. InOrder(u, k, data)
    BY <1>4, <1>8 DEF k, InOrder
  <2>2. Len(data) \in Nat
    BY <1>4
  <2> QED BY <1>10, <1>11, <1>12, <2>1, <2>2, TakenRight
<1>13. ASSUME res.irp # "success", ~AnsweredZero PROVE Selects(k) \/ ~k.mapped
  <2>1. len = IF IsIn(k) THEN r.actual ELSE 0
    BY <1>2, <1>3, <1>8, <1>13, LengthTaken DEF k, w
  <2>2. Len(data) = IF IsIn(k) THEN r.actual ELSE 0
    BY <1>4, <2>1
  <2> QED BY <1>10, <1>11, <1>13, <2>2, RefusedRight
<1>14. res.irp \in {"invalid parameter", "insufficient resources"} => res.irp # "success"
  BY Zenon
<1>15. Right(u, k, r, res, AnsweredZero)
  <2> HIDE DEF AnsweredZero
  <2>1. ~Resets(k) => k.fn # "reset port"
    BY Zenon DEF Resets
  <2> QED BY <1>12, <1>13, <1>14, Zenon DEF Right, Resets, Selects
<1> QED BY <1>4, <1>8, <1>15 DEF k, res

LEMMA LateNext ==
  ASSUME TypeInv, DistinctInv, DrewInv, PacketInv, ReplyInv, FlowInv, ReadInv, SlotInv,
         FitInv, LateInv, Next
  PROVE  LateInv'
<1> SUFFICES ASSUME NEW u \in Urbs, Drew(u)', replies'[u] = None, state'[u] = "done"
             PROVE  Late(result'[u])
  BY DEF LateInv
<1>1. Lasts /\ Answered
  BY LastsNext, AnsweredNext
<1>2. Drew(u) /\ replies[u] = None
  BY <1>1, DrewNext DEF Answered
<1>3. CASE state[u] = "done"
  <2>1. Late(result[u])
    BY <1>2, <1>3 DEF LateInv
  <2> QED BY <1>1, <1>3, <2>1 DEF Lasts
<1>4. CASE state[u] # "done"
  <2>1. state[u] = "sent"
    BY <1>2, <1>4, NotDrew DEF TypeInv, DriverOK
  <2> QED BY <1>2, <2>1, SentEnds, GivenRight
<1> QED BY <1>3, <1>4

LEMMA RightNext ==
  ASSUME TypeInv, DistinctInv, DrewInv, PacketInv, ReplyInv, FlowInv, ReadInv, SlotInv,
         FitInv, LateInv, RightResult, Next
  PROVE  RightResult'
<1>1. (RightResult <=> \A u \in Urbs : replies[u] # None /\ state[u] = "done" =>
         Right(u, urb[u], replies[u], result[u], AnsweredZero))'
  BY RightIs, PTL
<1>2. Lasts /\ Answered
  BY LastsNext, AnsweredNext
<1>3. AnsweredZero => AnsweredZero'
  BY <1>2, ZeroStays
<1> SUFFICES ASSUME NEW u \in Urbs, replies'[u] # None, state'[u] = "done"
             PROVE  Right(u, urb'[u], replies'[u], result'[u], AnsweredZero')
  BY <1>1
<1>4. ASSUME replies[u] # None,
             Right(u, urb[u], replies[u], result'[u], AnsweredZero)
      PROVE  Right(u, urb'[u], replies'[u], result'[u], AnsweredZero')
  <2>1. urb'[u] = urb[u] /\ replies'[u] = replies[u]
    BY <1>2, <1>4 DEF Answered
  <2>2. Right(u, urb[u], replies[u], result'[u], AnsweredZero')
    BY <1>3, <1>4, Zenon DEF Right
  <2> QED BY <2>1, <2>2
<1>5. CASE state[u] = "done"
  <2>1. result'[u] = result[u]
    BY <1>2, <1>5 DEF Lasts
  <2>2. CASE replies[u] # None
    <3>1. Right(u, urb[u], replies[u], result[u], AnsweredZero)
      BY <1>5, <2>2, RightIs
    <3> QED BY <1>4, <2>1, <2>2, <3>1
  <2>3. CASE replies[u] = None
    <3>1. Drew(u)
      BY <2>3, AnsweredNext DEF Drew
    <3>2. Late(result'[u])
      BY <1>5, <2>1, <2>3, <3>1 DEF LateInv
    <3> QED BY <3>2, LateIsRight
  <2> QED BY <2>2, <2>3
<1>6. CASE state[u] # "done"
  <2>1. CASE state[u] = "sent"
    <3>1. CASE Late(result'[u])
      BY <3>1, LateIsRight
    <3>2. CASE ~Late(result'[u])
      BY <1>4, <2>1, <3>2, SentEnds, GivenRight
    <3> QED BY <3>1, <3>2
  <2>2. CASE state[u] # "sent"
    <3>1. state[u] \in {"new", "queued"}
      BY <1>6, <2>2 DEF TypeInv, DriverOK
    <3>2. ~Drew(u)
      BY <3>1, NotDrew
    <3>3. Drew(u)'
      BY DEF Drew
    <3> QED BY <3>2, <3>3, DrewNext
  <2> QED BY <2>1, <2>2
<1> QED BY <1>5, <1>6

-----------------------------------------------------------------------------
(* Selections                                                               *)

(* The handle of a pipe tells what it was made of.                          *)
LEMMA HandleIs ==
  ASSUME NEW d, d.addr \in Byte, d.kind \in Byte, d.interval \in Byte, NEW speed
  PROVE  HandleOf(SetPipe(d, speed).handle, d)
<1> DEFINE a == d.addr
           b == d.interval
           c == d.kind
           h == a + (b * 256) + (c * 65536)
<1>1. SetPipe(d, speed).handle = h
  BY DEF SetPipe, MakePipe
<1>2. a \in 0 .. 255 /\ b \in 0 .. 255 /\ c \in 0 .. 255
  BY DEF Byte
<1> HIDE DEF a, b, c
<1>3. h \div 256 = b + (c * 256)
  BY <1>2
<1>4. (b + (c * 256)) % 256 = b
  BY <1>2
<1>5. h \div 65536 = c /\ c % 256 = c
  BY <1>2
<1>6. h \div 128 = (a \div 128) + ((b + (c * 256)) * 2)
  BY <1>2
<1>7. h % 128 = a % 128
  BY <1>2
<1>8. a \div 128 \in {0, 1} /\ a = (a % 128) + ((a \div 128) * 128)
  BY <1>2
<1>9. (h \div 128) % 2 = a \div 128
  <2> DEFINE x == a \div 128
             y == b + (c * 256)
  <2>1. x \in {0, 1} /\ y \in Nat /\ h \div 128 = x + (y * 2)
    BY <1>2, <1>6, <1>8
  <2> HIDE DEF x, y
  <2>2. (x + (y * 2)) % 2 = x
    BY <2>1
  <2> QED BY <2>1, <2>2 DEF x
<1> HIDE DEF h
<1>10. PipeAddr(h) = a % 128 /\ PipeInterval(h) = b /\ PipeKind(h) = c
  BY <1>3, <1>4, <1>5, <1>7 DEF PipeAddr, PipeInterval, PipeKind
<1>11. a = PipeAddr(h) + (IF PipeIn(h) THEN 128 ELSE 0)
  BY <1>8, <1>9, <1>10 DEF PipeIn
<1> QED BY <1>1, <1>10, <1>11 DEF HandleOf, a, b, c

(* The next descriptor of a type: none, or the nearest.                     *)
LEMMA NextIs ==
  ASSUME NEW cfg, Len(cfg) \in Nat, NEW o \in Nat, NEW type
  PROVE  LET y == SeekToNext(cfg, o, type)
             hits == {x \in o + 1 .. Len(cfg) : cfg[x].type = type}
         IN /\ hits = {} => y = 0
            /\ hits # {} => y \in hits /\ \A x \in hits : y <= x
<1> DEFINE hits == {x \in o + 1 .. Len(cfg) : cfg[x].type = type}
<1>1. hits \in SUBSET Nat
  OBVIOUS
<1>2. SeekToNext(cfg, o, type) = IF hits = {} THEN 0 ELSE Min(hits)
  BY DEF SeekToNext
<1> HIDE DEF hits
<1>3. CASE hits = {}
  BY <1>2, <1>3 DEF hits
<1>4. CASE hits # {}
  BY <1>1, <1>2, <1>4, MinIsIn DEF hits
<1> QED BY <1>3, <1>4

LEMMA OwnFinite ==
  ASSUME NEW cfg, Len(cfg) \in Nat, NEW i \in Interfaces(cfg)
  PROVE  /\ i \in 1 .. Len(cfg) /\ OwnEndpoints(cfg, i) \in SUBSET Nat
         /\ IsFiniteSet(OwnEndpoints(cfg, i))
         /\ Cardinality(OwnEndpoints(cfg, i)) \in Nat
<1>1. i \in 1 .. Len(cfg)
  BY DEF Interfaces
<1>2. OwnEndpoints(cfg, i) \in SUBSET (0 .. Len(cfg))
  BY <1>1 DEF OwnEndpoints
<1>3. IsFiniteSet(0 .. Len(cfg))
  BY FS_Interval
<1> QED BY <1>1, <1>2, <1>3, FS_Subset, FS_CardinalityType

(* The places of the endpoints are looked for one after the other.          *)
Places(cfg, o, n, f) ==
  f = [k \in 0 .. n |->
         IF k = 0 THEN o ELSE IF k > 1 /\ f[k - 1] = 0 THEN 0
         ELSE SeekToNext(cfg, f[k - 1], "endpoint")]

LEMMA PlacesExist ==
  ASSUME NEW cfg, NEW o, NEW n \in Nat
  PROVE  \E f : Places(cfg, o, n, f)
<1> DEFINE Place(k, f) == IF k = 0 THEN o ELSE IF k > 1 /\ f[k - 1] = 0 THEN 0
                          ELSE SeekToNext(cfg, f[k - 1], "endpoint")
           S == {m \in Nat : \E f : Places(cfg, o, m, f)}
<1>1. 0 \in S
  <2> DEFINE f == [k \in 0 .. 0 |-> o]
  <2>1. f = [k \in 0 .. 0 |-> Place(k, f)]
    OBVIOUS
  <2> QED BY <2>1 DEF Places
<1>2. ASSUME NEW m \in 0 .. n - 1, m \in S PROVE m + 1 \in S
  <2>1. PICK f : Places(cfg, o, m, f)
    BY <1>2
  <2> DEFINE g == [k \in 0 .. m + 1 |-> IF k = m + 1 THEN Place(m + 1, f) ELSE f[k]]
  <2>2. ASSUME NEW k \in 0 .. m + 1 PROVE g[k] = Place(k, g)
    <3>1. k # 0 => k - 1 \in 0 .. m + 1 /\ k - 1 # m + 1
      OBVIOUS
    <3>2. k # 0 => g[k - 1] = f[k - 1]
      BY <3>1
    <3>3. Place(k, g) = Place(k, f)
      <4> HIDE DEF g
      <4> QED BY <3>2
    <3>4. g[k] = Place(k, f)
      <4>1. CASE k = m + 1
        <5> HIDE DEF Place
        <5> QED BY <4>1
      <4>2. CASE k # m + 1
        <5>1. k \in 0 .. m
          BY <4>2
        <5>2. f[k] = Place(k, f)
          BY <2>1, <5>1 DEF Places
        <5> HIDE DEF Place
        <5> QED BY <4>2, <5>2
      <4> QED BY <4>1, <4>2
    <3> HIDE DEF g, Place
    <3> QED BY <3>3, <3>4
  <2>3. g = [k \in 0 .. m + 1 |-> g[k]]
    OBVIOUS
  <2> HIDE DEF g
  <2>4. Places(cfg, o, m + 1, g)
    BY <2>2, <2>3 DEF Places
  <2> QED BY <2>4
<1> HIDE DEF S
<1>3. n \in S
  BY <1>1, <1>2, Induction
<1> QED BY <1>3 DEF S

(* As many of them as the interface has endpoints: these, in their order.   *)
UpTo(T, y) == {x \in T : x <= y}
Ordered(cfg, i, k, y) ==
  /\ y \in OwnEndpoints(cfg, i)
  /\ Cardinality(UpTo(OwnEndpoints(cfg, i), y)) = k

LEMMA PlacesRight ==
  ASSUME NEW cfg, Len(cfg) \in Nat, NEW i \in Interfaces(cfg),
         NEW n, n = Cardinality(OwnEndpoints(cfg, i)), NEW f, Places(cfg, i, n, f)
  PROVE  \A k \in 1 .. n : Ordered(cfg, i, k, f[k])
<1> DEFINE own == OwnEndpoints(cfg, i)
           S == {k \in Nat : f[k] \in Nat /\ f[k] >= i
                             /\ (k = 0 => f[k] = i) /\ (k # 0 => f[k] \in own)
                             /\ Cardinality(UpTo(own, f[k])) = k}
<1>1. /\ i \in 1 .. Len(cfg) /\ own \in SUBSET Nat /\ IsFiniteSet(own) /\ n \in Nat
      /\ \A x \in own : x > i
  <2>1. i \in 1 .. Len(cfg) /\ own \in SUBSET Nat /\ IsFiniteSet(own) /\ n \in Nat
    BY OwnFinite
  <2>2. \A x \in own : x > i
    BY <2>1 DEF OwnEndpoints
  <2> QED BY <2>1, <2>2
<1>2. 0 \in S
  <2>1. f[0] = i
    BY <1>1 DEF Places
  <2>2. UpTo(own, i) = {}
    <3>1. \A x \in own : ~(x <= i)
      BY <1>1
    <3> HIDE DEF own
    <3> QED BY <3>1 DEF UpTo
  <2>3. Cardinality(UpTo(own, f[0])) = 0
    BY <2>1, <2>2, FS_EmptySet
  <2> HIDE DEF own
  <2> QED BY <1>1, <2>1, <2>3
<1>3. ASSUME NEW k \in 0 .. n - 1, k \in S PROVE k + 1 \in S
  <2> DEFINE y == SeekToNext(cfg, f[k], "endpoint")
             hits == {x \in f[k] + 1 .. Len(cfg) : cfg[x].type = "endpoint"}
  <2>1. f[k] \in Nat /\ f[k] >= i /\ Cardinality(UpTo(own, f[k])) = k
    BY <1>3
  <2>2. f[k + 1] = y
    <3>1. k + 1 \in 0 .. n /\ k + 1 # 0 /\ (k + 1) - 1 = k /\ f[k] # 0
      BY <1>1, <2>1
    <3> QED BY <3>1 DEF Places
  <2>3. PICK e \in own : e > f[k]
    <3>1. SUFFICES ASSUME \A e \in own : ~(e > f[k]) PROVE FALSE
      OBVIOUS
    <3> HIDE DEF own
    <3>2. \A e \in own : e <= f[k]
      BY <1>1, <2>1, <3>1
    <3>3. UpTo(own, f[k]) = own
      BY <3>2 DEF UpTo
    <3> QED BY <1>1, <2>1, <3>3 DEF own
  <2>4. e \in hits /\ hits \in SUBSET Nat
    BY <2>1, <2>3 DEF OwnEndpoints
  <2>5. y \in hits /\ \A x \in hits : y <= x
    BY <2>1, <2>4, NextIs
  <2> HIDE DEF y
  <2>6. y \in Nat /\ y > f[k] /\ y <= e /\ y \in i + 1 .. Len(cfg)
        /\ cfg[y].type = "endpoint"
    BY <1>1, <2>1, <2>4, <2>5
  <2>7. y \in own
    <3>1. \A x \in i + 1 .. e : cfg[x].type # "interface"
      BY <2>3 DEF OwnEndpoints
    <3>2. \A x \in i + 1 .. y : x \in i + 1 .. e
      BY <1>1, <2>3, <2>6
    <3> QED BY <2>6, <3>1, <3>2 DEF OwnEndpoints
  <2>8. UpTo(own, y) = UpTo(own, f[k]) \cup {y}
    <3>1. ASSUME NEW x \in own, x <= y, ~(x <= f[k]) PROVE x = y
      <4>1. x \in hits
        BY <1>1, <2>1, <3>1 DEF OwnEndpoints
      <4> QED BY <1>1, <2>5, <2>6, <3>1, <4>1
    <3>2. \A x \in own : x <= f[k] => x <= y
      BY <1>1, <2>1, <2>6
    <3>3. y <= y
      BY <2>6
    <3> HIDE DEF own, hits
    <3>4. UpTo(own, y) \subseteq UpTo(own, f[k]) \cup {y}
      BY <3>1 DEF UpTo
    <3>5. UpTo(own, f[k]) \cup {y} \subseteq UpTo(own, y)
      BY <2>7, <3>2, <3>3 DEF UpTo
    <3> QED BY <3>4, <3>5
  <2>9. y \notin UpTo(own, f[k])
    BY <2>1, <2>6 DEF UpTo
  <2>10. IsFiniteSet(UpTo(own, f[k]))
    <3>1. UpTo(own, f[k]) \in SUBSET own
      BY DEF UpTo
    <3> QED BY <1>1, <3>1, FS_Subset
  <2> HIDE DEF own
  <2>11. Cardinality(UpTo(own, y)) = k + 1
    BY <2>1, <2>8, <2>9, <2>10, FS_AddElement
  <2>12. y >= i /\ k + 1 # 0 /\ k + 1 \in Nat
    BY <1>1, <2>6
  <2> QED BY <2>2, <2>6, <2>7, <2>11, <2>12
<1> HIDE DEF S
<1>4. \A k \in 0 .. n : k \in S
  BY <1>1, <1>2, <1>3, Induction
<1>5. ASSUME NEW k \in 1 .. n PROVE Ordered(cfg, i, k, f[k])
  <2>1. k \in S /\ k # 0
    BY <1>1, <1>4, <1>5
  <2> QED BY <2>1 DEF S, Ordered
<1> QED BY <1>5

(* What a selection gives of an interface.                                  *)
Given(cfg, i, p) ==
  LET own == OwnEndpoints(cfg, i)
  IN /\ Len(p) = Cardinality(own)
     /\ \A j \in 1 .. Len(p) : \E e \in own :
          /\ Cardinality({x \in own : x <= e}) = j
          /\ HandleOf(p[j].handle, cfg[e])
Named(cfg, i, num, alt) == cfg[i].num = num /\ cfg[i].alt = alt
Selected(cfg, num, alt, p) ==
  \E i \in Interfaces(cfg) : Named(cfg, i, num, alt) /\ Given(cfg, i, p)
Found(cfg, num, alt, s) ==
  s.ok => s.offset \in Nat /\ Selected(cfg, num, alt, s.pipes)

LEMMA EndpointsRight ==
  ASSUME NEW cfg, Len(cfg) \in Nat, WellFormed(cfg), NEW i \in Interfaces(cfg),
         NEW n, n = cfg[i].eps, NEW speed
  PROVE  LET s == Endpoints(cfg, i, n, speed)
         IN s.ok => s.offset \in Nat /\ Given(cfg, i, s.pipes)
<1> DEFINE own == OwnEndpoints(cfg, i)
           places == NextEndpoints(cfg, i, n)
           s == Endpoints(cfg, i, n, speed)
<1>1. n = Cardinality(own) /\ n \in Nat /\ i \in Nat /\ own \subseteq 1 .. Len(cfg)
  <2>1. n = Cardinality(own)
    BY DEF WellFormed
  <2>2. n \in Nat /\ i \in Nat
    BY <2>1, OwnFinite
  <2> QED BY <2>1, <2>2 DEF OwnEndpoints
<1>2. PICK f : Places(cfg, i, n, f) /\ places = [k \in 1 .. n |-> f[k]]
  <2> DEFINE g == CHOOSE g : Places(cfg, i, n, g)
  <2>1. Places(cfg, i, n, g)
    BY <1>1, PlacesExist
  <2>2. places = [k \in 1 .. n |-> g[k]]
    BY DEF NextEndpoints, Places
  <2> QED BY <2>1, <2>2
<1>3. \A k \in 1 .. n : Ordered(cfg, i, k, f[k])
  BY <1>1, <1>2, PlacesRight
<1>4. \A k \in 1 .. n : places[k] = f[k] /\ places[k] \in Nat \ {0}
  BY <1>1, <1>2, <1>3 DEF Ordered
<1> DEFINE p == [k \in 1 .. n |-> SetPipe(cfg[f[k]], speed)]
<1>5. s.pipes = p /\ s.offset \in Nat
  <2>1. ~\E k \in 1 .. n : places[k] = 0
    BY <1>4
  <2>2. s = [ok |-> TRUE, pipes |-> Pipes(cfg, places, speed),
             offset |-> IF n = 0 THEN i ELSE places[n]]
    <3> HIDE DEF places
    <3> QED BY <2>1 DEF Endpoints, places
  <2>3. DOMAIN places = 1 .. n
    BY <1>2
  <2>4. Pipes(cfg, places, speed) = p
    <3> HIDE DEF places
    <3> QED BY <1>4, <2>3 DEF Pipes
  <2>5. n # 0 => places[n] \in Nat
    BY <1>1, <1>4
  <2> HIDE DEF places, p
  <2> QED BY <1>1, <2>2, <2>4, <2>5
<1>6. Len(p) = n
  BY <1>1
<1>7. ASSUME NEW j \in 1 .. n
      PROVE  \E e \in own : /\ Cardinality({x \in own : x <= e}) = j
                            /\ HandleOf(p[j].handle, cfg[e])
  <2>1. f[j] \in own /\ Cardinality({x \in own : x <= f[j]}) = j
    BY <1>3, <1>7 DEF Ordered, UpTo
  <2>2. f[j] \in 1 .. Len(cfg) /\ cfg[f[j]].type = "endpoint"
    BY <1>1, <2>1 DEF OwnEndpoints
  <2>3. HandleOf(SetPipe(cfg[f[j]], speed).handle, cfg[f[j]])
    BY <2>2, HandleIs DEF WellFormed
  <2>4. p[j] = SetPipe(cfg[f[j]], speed)
    BY <1>7
  <2> HIDE DEF own, p
  <2> QED BY <2>1, <2>3, <2>4
<1> HIDE DEF p, s, own
<1>8. Given(cfg, i, p)
  BY <1>1, <1>6, <1>7 DEF Given, own
<1> QED BY <1>5, <1>8 DEF s

LEMMA SeekIs ==
  ASSUME NEW cfg, Len(cfg) \in Nat, NEW o \in Nat, NEW num, NEW alt,
         NEW i, i = SeekToIntf(cfg, o, num, alt), i # 0
  PROVE  i \in Interfaces(cfg) /\ Named(cfg, i, num, alt)
<1> DEFINE stops == {x \in o + 1 .. Len(cfg) :
                       cfg[x].type = "interface" /\ ~Below(cfg[x], num, alt)}
<1>1. stops \in SUBSET Nat
  OBVIOUS
<1>2. stops # {} /\ i = Min(stops) /\ Named(cfg, i, num, alt)
  BY DEF SeekToIntf, Named
<1>3. i \in stops
  <2> HIDE DEF stops
  <2> QED BY <1>1, <1>2, MinIsIn
<1>4. i \in Interfaces(cfg)
  BY <1>3 DEF Interfaces
<1> QED BY <1>2, <1>4

LEMMA PostRight ==
  ASSUME NEW cfg, Len(cfg) \in Nat, WellFormed(cfg), NEW num, NEW alt, NEW room,
         NEW speed
  PROVE  Found(cfg, num, alt, PostSelectInterface(cfg, num, alt, room, speed))
<1> DEFINE i == SeekToIntf(cfg, 0, num, alt)
           s == PostSelectInterface(cfg, num, alt, room, speed)
<1>1. ASSUME s.ok
      PROVE  i # 0 /\ cfg[i].eps = room /\ s = Endpoints(cfg, i, room, speed)
  <2>1. ~NotFound.ok
    BY DEF NotFound
  <2>2. s = IF cfg = <<>> \/ i = 0 THEN NotFound
            ELSE IF cfg[i].eps # room THEN NotFound
            ELSE Endpoints(cfg, i, room, speed)
    BY DEF PostSelectInterface
  <2> HIDE DEF s, i
  <2>3. s # NotFound
    BY <1>1, <2>1
  <2> QED BY <2>2, <2>3
<1> HIDE DEF s
<1>2. ASSUME s.ok PROVE s.offset \in Nat /\ Selected(cfg, num, alt, s.pipes)
  <2>1. i \in Interfaces(cfg) /\ Named(cfg, i, num, alt)
    BY <1>1, <1>2, SeekIs
  <2> HIDE DEF i
  <2>2. s.offset \in Nat /\ Given(cfg, i, s.pipes)
    BY <1>1, <1>2, <2>1, EndpointsRight
  <2> QED BY <2>1, <2>2 DEF Selected
<1> QED BY <1>2 DEF Found, s

(* The interfaces of a configuration, one after the other.                  *)
Sought(cfg, w, before, k, speed) ==
  LET i == SeekToIntf(cfg, before.offset, w.num, w.alt)
  IN IF ~before.ok \/ i = 0 THEN NotFound
     ELSE IF cfg[i].eps # w.room \/ w.num # k - 1 \/ w.alt # 0 THEN NotFound
     ELSE Endpoints(cfg, i, w.room, speed)
Searches(cfg, wanted, speed, n, f) ==
  f = [k \in 0 .. n |-> IF k = 0 THEN [ok |-> TRUE, pipes |-> <<>>, offset |-> 0]
                        ELSE Sought(cfg, wanted[k], f[k - 1], k, speed)]

LEMMA SearchesExist ==
  ASSUME NEW cfg, NEW wanted, NEW speed, NEW n \in Nat
  PROVE  \E f : Searches(cfg, wanted, speed, n, f)
<1> DEFINE Search(k, f) == IF k = 0 THEN [ok |-> TRUE, pipes |-> <<>>, offset |-> 0]
                          ELSE Sought(cfg, wanted[k], f[k - 1], k, speed)
           S == {m \in Nat : \E f : Searches(cfg, wanted, speed, m, f)}
<1>1. 0 \in S
  <2> DEFINE f == [k \in 0 .. 0 |-> [ok |-> TRUE, pipes |-> <<>>, offset |-> 0]]
  <2>1. f = [k \in 0 .. 0 |-> Search(k, f)]
    OBVIOUS
  <2> QED BY <2>1 DEF Searches
<1>2. ASSUME NEW m \in 0 .. n - 1, m \in S PROVE m + 1 \in S
  <2>1. PICK f : Searches(cfg, wanted, speed, m, f)
    BY <1>2
  <2> DEFINE g == [k \in 0 .. m + 1 |-> IF k = m + 1 THEN Search(m + 1, f) ELSE f[k]]
  <2>2. ASSUME NEW k \in 0 .. m + 1 PROVE g[k] = Search(k, g)
    <3>1. k # 0 => k - 1 \in 0 .. m + 1 /\ k - 1 # m + 1
      OBVIOUS
    <3>2. k # 0 => g[k - 1] = f[k - 1]
      BY <3>1
    <3>3. Search(k, g) = Search(k, f)
      <4> HIDE DEF g
      <4> QED BY <3>2
    <3>4. g[k] = Search(k, f)
      <4>1. CASE k = m + 1
        <5> HIDE DEF Search
        <5> QED BY <4>1
      <4>2. CASE k # m + 1
        <5>1. k \in 0 .. m
          BY <4>2
        <5>2. f[k] = Search(k, f)
          BY <2>1, <5>1 DEF Searches
        <5> HIDE DEF Search
        <5> QED BY <4>2, <5>2
      <4> QED BY <4>1, <4>2
    <3> HIDE DEF g, Search
    <3> QED BY <3>3, <3>4
  <2>3. g = [k \in 0 .. m + 1 |-> g[k]]
    OBVIOUS
  <2> HIDE DEF g
  <2>4. Searches(cfg, wanted, speed, m + 1, g)
    BY <2>2, <2>3 DEF Searches
  <2> QED BY <2>4
<1> HIDE DEF S
<1>3. n \in S
  BY <1>1, <1>2, Induction
<1> QED BY <1>3 DEF S

LEMMA SoughtRight ==
  ASSUME NEW cfg, Len(cfg) \in Nat, WellFormed(cfg), NEW w, NEW before, NEW k,
         NEW speed, before.ok => before.offset \in Nat
  PROVE  Found(cfg, w.num, w.alt, Sought(cfg, w, before, k, speed))
<1> DEFINE i == SeekToIntf(cfg, before.offset, w.num, w.alt)
           s == Sought(cfg, w, before, k, speed)
<1>1. ASSUME s.ok
      PROVE  /\ before.ok /\ i # 0 /\ cfg[i].eps = w.room
             /\ s = Endpoints(cfg, i, w.room, speed)
  <2>1. ~NotFound.ok
    BY DEF NotFound
  <2>2. s = IF ~before.ok \/ i = 0 THEN NotFound
            ELSE IF cfg[i].eps # w.room \/ w.num # k - 1 \/ w.alt # 0 THEN NotFound
            ELSE Endpoints(cfg, i, w.room, speed)
    BY DEF Sought
  <2> HIDE DEF s, i
  <2>3. s # NotFound
    BY <1>1, <2>1
  <2> QED BY <2>2, <2>3
<1> HIDE DEF s
<1>2. ASSUME s.ok PROVE s.offset \in Nat /\ Selected(cfg, w.num, w.alt, s.pipes)
  <2>1. i \in Interfaces(cfg) /\ Named(cfg, i, w.num, w.alt)
    BY <1>1, <1>2, SeekIs
  <2> HIDE DEF i
  <2>2. s.offset \in Nat /\ Given(cfg, i, s.pipes)
    BY <1>1, <1>2, <2>1, EndpointsRight
  <2> QED BY <2>1, <2>2 DEF Selected
<1> QED BY <1>2 DEF Found, s

LEMMA ProcRight ==
  ASSUME NEW cfg, Len(cfg) \in Nat, WellFormed(cfg), NEW wanted, Len(wanted) \in Nat,
         NEW speed
  PROVE  \A k \in 1 .. Len(wanted) :
           Found(cfg, wanted[k].num, wanted[k].alt, ProcSelectConfig(cfg, wanted, speed)[k])
<1> DEFINE n == Len(wanted)
<1>1. PICK f : /\ Searches(cfg, wanted, speed, n, f)
               /\ ProcSelectConfig(cfg, wanted, speed) = [k \in 1 .. n |-> f[k]]
  <2> DEFINE g == CHOOSE g : Searches(cfg, wanted, speed, n, g)
  <2>1. Searches(cfg, wanted, speed, n, g)
    BY SearchesExist
  <2>2. ProcSelectConfig(cfg, wanted, speed) = [k \in 1 .. n |-> g[k]]
    BY DEF ProcSelectConfig, Searches, Sought
  <2> QED BY <2>1, <2>2
<1> DEFINE S == {k \in Nat : f[k].ok => f[k].offset \in Nat}
<1>2. ASSUME NEW k \in 1 .. n
      PROVE  f[k] = Sought(cfg, wanted[k], f[k - 1], k, speed)
  <2>1. k \in 0 .. n /\ k # 0
    BY <1>2
  <2> QED BY <1>1, <2>1 DEF Searches
<1>3. ASSUME NEW k \in 1 .. n, k - 1 \in S
      PROVE  Found(cfg, wanted[k].num, wanted[k].alt, f[k])
  BY <1>2, <1>3, SoughtRight
<1>4. 0 \in S
  <2>1. f[0] = [ok |-> TRUE, pipes |-> <<>>, offset |-> 0]
    BY <1>1 DEF Searches
  <2> QED BY <2>1
<1>5. ASSUME NEW k \in 0 .. n - 1, k \in S PROVE k + 1 \in S
  <2>1. k + 1 \in 1 .. n /\ (k + 1) - 1 = k
    OBVIOUS
  <2>2. Found(cfg, wanted[k + 1].num, wanted[k + 1].alt, f[k + 1])
    BY <1>3, <1>5, <2>1
  <2> QED BY <2>1, <2>2 DEF Found
<1> HIDE DEF S
<1>6. \A k \in 0 .. n : k \in S
  BY <1>4, <1>5, Induction
<1>7. ASSUME NEW k \in 1 .. n
      PROVE  Found(cfg, wanted[k].num, wanted[k].alt, f[k])
  BY <1>3, <1>6, <1>7
<1> QED BY <1>1, <1>7

(* A selection comes from the descriptors the driver keeps.                 *)
AllSelected(ps) ==
  \A k \in DOMAIN ps :
    Selected(DeviceConfig, ps[k].num, ps[k].alt, ps[k].pipes)

LEMMA PipesIs == PipesAreTheDevices <=> AllSelected(pipes)
BY DEF PipesAreTheDevices, AllSelected, Selected, Named, Given

LEMMA ConfigIs ==
  ASSUME DriverOK
  PROVE  /\ config # <<>> => config = DeviceConfig
         /\ Len(DeviceConfig) \in Nat /\ WellFormed(DeviceConfig)
BY ForwarderAssumption DEF DriverOK

LEMMA SelectPipes ==
  ASSUME DriverOK, NEW wanted \in Selections, SelectConfig(wanted)
  PROVE  AllSelected(pipes')
<1> DEFINE found == ProcSelectConfig(DeviceConfig, wanted, Speed)
           all == [k \in DOMAIN wanted |->
                     [num |-> wanted[k].num, alt |-> wanted[k].alt,
                      pipes |-> found[k].pipes]]
<1>1. config = DeviceConfig
  BY ConfigIs DEF SelectConfig
<1>2. (\A k \in DOMAIN found : found[k].ok) /\ pipes' = all
  BY <1>1 DEF SelectConfig
<1>3. Len(wanted) \in Nat /\ DOMAIN wanted = 1 .. Len(wanted)
  BY ForwarderAssumption, LenProperties
<1>4. DOMAIN found = 1 .. Len(wanted)
  BY DEF ProcSelectConfig
<1> HIDE DEF found
<1>5. ASSUME NEW k \in 1 .. Len(wanted)
      PROVE  Selected(DeviceConfig, all[k].num, all[k].alt, all[k].pipes)
  <2>1. Found(DeviceConfig, wanted[k].num, wanted[k].alt, found[k])
    BY <1>3, <1>5, ConfigIs, ProcRight DEF found
  <2>2. Selected(DeviceConfig, wanted[k].num, wanted[k].alt, found[k].pipes)
    BY <1>2, <1>4, <1>5, <2>1 DEF Found
  <2> QED BY <1>3, <1>5, <2>2
<1>6. DOMAIN all = 1 .. Len(wanted)
  BY <1>3
<1> HIDE DEF all
<1> QED BY <1>2, <1>5, <1>6 DEF AllSelected

LEMMA WritePipes ==
  ASSUME DriverOK, NEW r, NEW n, NEW data, BusWrite(r, n, data)
  PROVE  pipes' = pipes \/ AllSelected(pipes')
<1> DEFINE hits == {i \in 1 .. Len(queue) : seq[queue[i]] = r.seq}
           w == queue[Min(hits)]
           sel == urb[w].sel
           s == PostSelectInterface(config, sel.num, sel.alt, sel.room, Speed)
           done == IF state[w] = "sent" THEN ProcessWrite(urb[w], r, n, data, s.ok)
                   ELSE Refused("invalid parameter")
           one == <<[num |-> sel.num, alt |-> sel.alt, pipes |-> s.pipes]>>
<1>1. CASE ~(present /\ hits # {})
  <2>1. UNCHANGED driverVars
    BY <1>1 DEF BusWrite
  <2> QED BY <2>1 DEF driverVars
<1>2. CASE present /\ hits # {}
  <2>1. pipes' = IF done.irp = "success" /\ Selects(urb[w]) THEN one ELSE pipes
    BY <1>2, Zenon DEF BusWrite, Selects
  <2>2. CASE ~(done.irp = "success" /\ Selects(urb[w]))
    BY <2>1, <2>2
  <2>3. CASE done.irp = "success" /\ Selects(urb[w])
    <3>1. Refused("invalid parameter").irp # "success"
      BY DEF Refused
    <3>2. done = ProcessWrite(urb[w], r, n, data, s.ok)
      BY <2>3, <3>1
    <3>3. s.ok
      <4>1. SUFFICES ASSUME ~s.ok PROVE FALSE
        OBVIOUS
      <4> DEFINE ok == s.ok
      <4>2. ~ok /\ done = ProcessWrite(urb[w], r, n, data, ok)
        BY <3>2, <4>1
      <4> HIDE DEF ok, done, w
      <4>3. ProcessWrite(urb[w], r, n, data, ok) = Refused("invalid parameter")
        BY <2>3, <4>2 DEF ProcessWrite, Selects
      <4> QED BY <2>3, <3>1, <4>2, <4>3
    <3>4. config # <<>>
      BY <3>3 DEF PostSelectInterface, NotFound
    <3>5. Found(DeviceConfig, sel.num, sel.alt, s)
      BY <3>4, ConfigIs, PostRight
    <3> HIDE DEF s, sel, done
    <3>6. Selected(DeviceConfig, sel.num, sel.alt, s.pipes)
      BY <3>3, <3>5 DEF Found
    <3>7. DOMAIN one = {1} /\ one[1].num = sel.num /\ one[1].alt = sel.alt
          /\ one[1].pipes = s.pipes
      OBVIOUS
    <3>8. pipes' = one
      BY <2>1, <2>3
    <3> HIDE DEF one
    <3> QED BY <3>6, <3>7, <3>8 DEF AllSelected
  <2> QED BY <2>2, <2>3
<1> QED BY <1>1, <1>2

LEMMA PipesNext ==
  ASSUME TypeInv, PipesAreTheDevices, Next PROVE PipesAreTheDevices'
<1>1. DriverOK /\ AllSelected(pipes)
  BY PipesIs DEF TypeInv
<1>2. (PipesAreTheDevices <=> AllSelected(pipes))'
  BY PipesIs, PTL
<1> SUFFICES AllSelected(pipes')
  BY <1>2
<1>3. CASE UNCHANGED pipes
  BY <1>1, <1>3
<1>4. CASE SockRead \/ SockReadCompleted
  <2>1. \E got, rest : WriteToDev(got, rest)
    BY <1>4 DEF SockRead, SockReadCompleted
  <2>2. UNCHANGED driverVars \/ \E r, n, data : BusWrite(r, n, data)
    BY <2>1 DEF WriteToDev
  <2> QED BY <1>1, <1>3, <2>2, WritePipes DEF driverVars
<1>5. ASSUME NEW wanted \in Selections, SelectConfig(wanted) PROVE AllSelected(pipes')
  BY <1>1, <1>5, SelectPipes
<1>6. ASSUME ~(SockRead \/ SockReadCompleted), ~\E x \in Selections : SelectConfig(x)
      PROVE  UNCHANGED pipes
  BY <1>6
     DEF Next, Step, Loop, DevReadLost, DevReadWaits, DevReadRejected, DevRead,
         DevReadCompleted, SockReadWaits, SockArrives, Interrupt, Close, Exit, Drain,
         Unplug, Cancel, Submit, Reply, driverVars
<1> QED BY <1>3, <1>4, <1>5, <1>6

-----------------------------------------------------------------------------
(* The theorems                                                             *)

LEMMA InitInv == Init => Inv
<1> SUFFICES ASSUME Init PROVE Inv
  OBVIOUS
<1>1. TypeInv
  BY TypeInit
<1>2. /\ server = {} /\ stream = <<>> /\ sockDone = None /\ readDone = None
      /\ pc = "first dev" /\ sockReading = FALSE /\ seqNum = set.first
      /\ \A u \in Urbs : seq[u] = 0 /\ replies[u] = None
      /\ replies = [u \in Urbs |-> replies[u]]
      /\ \A i \in 1 .. OutQLen : slots[i] = 0
  BY DEF Init
<1>3. \A u \in Urbs : ~Drew(u)
  BY <1>2 DEF Drew, Init
<1>4. NumberInv
  <2>1. 0 \in 0 .. Cardinality(Spent)
    BY SpentBounded
  <2>2. StandsAt(0)
    BY <1>2 DEF StandsAt
  <2>3. \A u \in Urbs : seq[u] = 0 /\ ~Drew(u)
    BY <1>2, <1>3
  <2> QED BY <2>1, <2>2, <2>3 DEF NumberInv
<1>5. DistinctInv /\ DrewInv /\ PacketInv /\ ReplyInv /\ ReadInv
  <2>1. DistinctInv /\ DrewInv /\ PacketInv
    BY <1>2, <1>3 DEF DistinctInv, DrewInv, PacketInv
  <2>2. ReplyInv
    BY <1>2 DEF ReplyInv
  <2>3. sockDone # <<>>
    BY <1>2, ForwarderAssumption, EmptySeq
  <2>4. ReadInv
    BY <1>2, <2>3 DEF ReadInv
  <2> QED BY <2>1, <2>2, <2>4
<1>6. Flow = <<>> /\ Len(Flow) = 0
  BY <1>2 DEF Flow
<1>7. FlowInv /\ StartInv
  <2>1. 1 .. Len(Flow) = {} /\ 1 .. Len(Flow) - 1 = {}
    BY <1>6
  <2>2. Distinct(Flow)
    BY <1>6 DEF Distinct
  <2>3. Whole(Flow, Total, closed)
    BY <1>6, <2>1, <2>2 DEF Whole
  <2> QED BY <1>6, <2>1, <2>3 DEF FlowInv, StartInv
<1>8. OutPending = {}
  <2>1. \A u : ~AtServer(u)
    BY <1>2 DEF AtServer
  <2>2. 1 .. Len(Flow) = {}
    BY <1>6
  <2>3. \A u : ~Unread(u)
    BY <2>2, Zenon DEF Unread
  <2> QED BY <1>1, <2>1, <2>3, PendingIs
<1>9. SlotInv /\ LeakInv
  BY <1>2, <1>8 DEF SlotInv, LeakInv
<1>10. FailInv /\ EndsForAReason /\ InStepUnlessZero
  <2>1. readDone # Failed /\ pc # "ended" /\ pc # "lost"
    BY <1>2, Constants
  <2> QED BY <2>1, ReasonIs DEF FailInv, InStepUnlessZero
<1>11. FitInv /\ LateInv /\ RightResult /\ PipesAreTheDevices
  <2>1. FitInv
    BY <1>2 DEF FitInv
  <2>2. LateInv
    BY <1>3 DEF LateInv
  <2>3. RightResult
    BY <1>2, RightIs
  <2>4. pipes = <<>>
    BY DEF Init
  <2>5. DOMAIN <<>> = {}
    OBVIOUS
  <2>6. AllSelected(pipes)
    BY <2>4, <2>5 DEF AllSelected
  <2> QED BY <2>1, <2>2, <2>3, <2>6, PipesIs
<1> QED BY <1>1, <1>4, <1>5, <1>7, <1>9, <1>10, <1>11 DEF Inv

LEMMA InvStep == Inv /\ Next => Inv'
<1> SUFFICES ASSUME Inv, Next PROVE Inv'
  OBVIOUS
<1>1. /\ TypeInv /\ NumberInv /\ DistinctInv /\ DrewInv /\ PacketInv /\ ReplyInv
      /\ FlowInv /\ StartInv /\ ReadInv
      /\ SlotInv /\ LeakInv /\ FailInv /\ EndsForAReason /\ InStepUnlessZero
      /\ FitInv /\ LateInv /\ RightResult /\ PipesAreTheDevices
  BY DEF Inv
<1>2. TypeInv'
  BY <1>1, TypeNext
<1>3. NumberInv' /\ DistinctInv' /\ DrewInv'
  BY <1>1, NumberNext
<1>4. PacketInv' /\ ReplyInv' /\ ReadInv' /\ FailInv'
  BY <1>1, <1>2, PacketNext, AnsweredNext, ReadNext, FailNext
<1>5. FlowInv' /\ StartInv' /\ InStepUnlessZero'
  BY <1>1, <1>2, FlowNext, StartNext, InStepNext
<1>6. SlotInv' /\ LeakInv'
  BY <1>1, <1>2, <1>3, SlotNext
<1>7. EndsForAReason'
  BY <1>1, <1>2, EndsNext
<1>8. FitInv' /\ LateInv' /\ RightResult' /\ PipesAreTheDevices'
  BY <1>1, FitNext, LateNext, RightNext, PipesNext
<1> QED BY <1>2, <1>3, <1>4, <1>5, <1>6, <1>7, <1>8 DEF Inv

LEMMA InvStays == Inv /\ UNCHANGED vars => Inv'
<1> SUFFICES ASSUME Inv, UNCHANGED vars PROVE Inv'
  OBVIOUS
<1> USE DEF vars, systemVars, driverVars, loopVars, netVars
<1>1. TypeInv'
  BY DEF Inv, TypeInv, DriverOK, LoopOK, QueueInv, UrbInv
<1>2. NumberInv' /\ DistinctInv' /\ DrewInv'
  BY DEF Inv, NumberInv, DistinctInv, DrewInv, Drew, Spent, StandsAt, Rank
<1>3. PacketInv' /\ ReplyInv' /\ ReadInv'
  BY DEF Inv, PacketInv, ReplyInv, ReadInv, Made
<1>4. FlowInv' /\ StartInv'
  BY DEF Inv, FlowInv, StartInv, Flow, Total, Listening, AnsweredZero
<1>5. SlotInv' /\ LeakInv' /\ FailInv'
  BY DEF Inv, SlotInv, LeakInv, FailInv, OutPending, AnsweredZero, Rejected
<1>6. EndsForAReason' /\ InStepUnlessZero'
  BY DEF Inv, EndsForAReason, InStepUnlessZero, OutPending, AnsweredZero
<1>7. FitInv' /\ LateInv'
  <2>1. FitInv'
    BY DEF Inv, FitInv
  <2>2. \A u : Drew(u)' <=> Drew(u)
    BY DEF Drew
  <2>3. LateInv'
    BY <2>2 DEF Inv, LateInv
  <2> QED BY <2>1, <2>3
<1>8. RightResult'
  <2>1. (RightResult <=> \A u \in Urbs : replies[u] # None /\ state[u] = "done" =>
           Right(u, urb[u], replies[u], result[u], AnsweredZero))'
    BY RightIs, PTL
  <2>2. AnsweredZero' = AnsweredZero
    BY DEF AnsweredZero
  <2> QED BY <2>1, <2>2, RightIs DEF Inv
<1>9. PipesAreTheDevices'
  <2>1. (PipesAreTheDevices <=> AllSelected(pipes))'
    BY PipesIs, PTL
  <2>2. AllSelected(pipes) /\ pipes' = pipes
    BY PipesIs DEF Inv
  <2> QED BY <2>1, <2>2
<1> QED BY <1>1, <1>2, <1>3, <1>4, <1>5, <1>6, <1>7, <1>8, <1>9 DEF Inv

(* Where every URB, packet, unit and slot is, in every state: each step of  *)
(* the function driver, the driver, the loop (usbip_vbus_forward), the      *)
(* connection and the server keeps it.                                      *)
THEOREM Invariant == Spec => []Inv
<1>1. Init => Inv
  BY InitInv
<1>2. Inv /\ [Next]_vars => Inv'
  BY InvStep, InvStays
<1> QED BY <1>1, <1>2, PTL DEF Spec

(* Every variable of the forwarder, of the driver and of the connection     *)
(* keeps its type, whatever the server answers and whoever goes first: a    *)
(* slot holds a number (record_out, check_out), and the URBs of the queue   *)
(* are those that were neither refused nor completed (try_addq).            *)
THEOREM TypeCorrect == Spec => []TypeOK
<1>1. Inv => TypeOK
  BY TypeFollows DEF Inv
<1> QED BY <1>1, Invariant, PTL

(* For any number of URBs and any replies, the forwarder takes nothing for  *)
(* a header that is none, unless a packet had the number 0: what it reads   *)
(* behind a header is as long as what was sent (check_out, write_to_dev).   *)
THEOREM InStepCorrect == Spec => []InStepUnlessZero
<1>1. Inv => InStepUnlessZero
  BY DEF Inv
<1> QED BY <1>1, Invariant, PTL

(* The loop never ends because a slot was not freed: when record_out finds  *)
(* none, OUT_Q_LEN requests are really out; and every other end has one of  *)
(* the reasons that EndsForAReason lists (usbip_vbus_forward).              *)
THEOREM EndsCorrect == Spec => []EndsForAReason
<1>1. Inv => EndsForAReason
  BY DEF Inv
<1> QED BY <1>1, Invariant, PTL

(* Whatever the lengths, the offsets and the order of the replies, an URB   *)
(* that is completed with its reply has that reply's status, and every byte *)
(* of an isochronous packet or of a buffer where it belongs; and no reply   *)
(* is refused that the request can take, unless a packet had the number 0   *)
(* (process_write_irp, copy_iso_data, write_to_dev).                        *)
THEOREM ResultCorrect == Spec => []RightResult
<1>1. Inv => RightResult
  BY DEF Inv
<1> QED BY <1>1, Invariant, PTL

(* For any configuration descriptor in order and any selection, the pipes   *)
(* that the function driver gets are the endpoints of the interface it      *)
(* selected, all of them and in their order, and each handle holds the      *)
(* address, the kind and the interval of its endpoint                       *)
(* (proc_select_config, post_select_interface, seek_to_one_intf_desc,       *)
(* set_pipe, make_pipe).                                                    *)
THEOREM PipesCorrect == Spec => []PipesAreTheDevices
<1>1. Inv => PipesAreTheDevices
  BY DEF Inv
<1> QED BY <1>1, Invariant, PTL
=============================================================================
