--------------------------- MODULE SequenceLemmas ---------------------------
(***************************************************************************)
(* Lists without repetition, as the proofs about the driver's lists need    *)
(* them: what taking an element out, or adding one, leaves in the list.     *)
(***************************************************************************)
EXTENDS SequencesExt, SequenceTheorems, FiniteSetTheorems, TLAPS

(* No element comes twice; x is an element. *)
Distinct(s) == \A i, j \in DOMAIN s : s[i] = s[j] => i = j
Holds(s, x) == \E i \in DOMAIN s : s[i] = x

(* Taking the i-th element out of a sequence moves the later ones up. *)
LEMMA RemoveAtProperties ==
  ASSUME NEW S, NEW s \in Seq(S), NEW i \in 1..Len(s)
  PROVE  /\ RemoveAt(s, i) \in Seq(S)
         /\ Len(RemoveAt(s, i)) = Len(s) - 1
         /\ \A j \in 1..(Len(s) - 1) :
              RemoveAt(s, i)[j] = IF j < i THEN s[j] ELSE s[j + 1]
<1> DEFINE a == SubSeq(s, 1, i - 1)
           b == SubSeq(s, i + 1, Len(s))
<1>0. Len(s) \in Nat /\ i \in Nat /\ 1 <= i /\ i <= Len(s)
  BY LenProperties
<1>1. /\ a \in Seq(S) /\ Len(a) = i - 1
      /\ \A j \in 1..(i - 1) : a[j] = s[j]
  <2>1. \A j \in 1..(i - 1) : s[j] \in S
    BY <1>0, ElementOfSeq
  <2>2. i - 1 \in Int /\ 1 \in Int
    BY <1>0
  <2> HIDE DEF a
  <2>3. /\ a \in Seq(S)
        /\ Len(a) = IF 1 <= i - 1 THEN (i - 1) - 1 + 1 ELSE 0
        /\ \A j \in 1..((i - 1) - 1 + 1) : a[j] = s[1 + j - 1]
    BY <2>1, <2>2, SubSeqProperties DEF a
  <2>4. Len(a) = i - 1
    BY <2>3, <1>0
  <2>5. (i - 1) - 1 + 1 = i - 1
    BY <1>0
  <2>6. ASSUME NEW j \in 1..(i - 1) PROVE a[j] = s[j]
    <3>1. 1 + j - 1 = j
      OBVIOUS
    <3> QED BY <3>1, <2>3, <2>5
  <2> QED BY <2>3, <2>4, <2>6
<1>2. /\ b \in Seq(S) /\ Len(b) = Len(s) - i
      /\ \A j \in 1..(Len(s) - i) : b[j] = s[i + j]
  <2>1. \A j \in (i + 1)..Len(s) : s[j] \in S
    BY <1>0, ElementOfSeq
  <2>2. i + 1 \in Int /\ Len(s) \in Int
    BY <1>0
  <2> HIDE DEF b
  <2>3. /\ b \in Seq(S)
        /\ Len(b) = IF i + 1 <= Len(s) THEN Len(s) - (i + 1) + 1 ELSE 0
        /\ \A j \in 1..(Len(s) - (i + 1) + 1) : b[j] = s[(i + 1) + j - 1]
    BY <2>1, <2>2, SubSeqProperties DEF b
  <2>4. Len(b) = Len(s) - i
    BY <2>3, <1>0
  <2>5. Len(s) - (i + 1) + 1 = Len(s) - i
    BY <1>0
  <2>6. ASSUME NEW j \in 1..(Len(s) - i) PROVE b[j] = s[i + j]
    <3>1. (i + 1) + j - 1 = i + j
      BY <1>0
    <3> QED BY <3>1, <2>3, <2>5
  <2> QED BY <2>3, <2>4, <2>6
<1>3. RemoveAt(s, i) = a \o b
  BY DEF RemoveAt
<1> HIDE DEF a, b
<1>4. /\ a \o b \in Seq(S)
      /\ Len(a \o b) = Len(a) + Len(b)
      /\ \A j \in 1..(Len(a) + Len(b)) :
           (a \o b)[j] = IF j <= Len(a) THEN a[j] ELSE b[j - Len(a)]
  BY <1>1, <1>2, ConcatProperties
<1>5. Len(a) + Len(b) = Len(s) - 1
  BY <1>0, <1>1, <1>2
<1>6. ASSUME NEW j \in 1..(Len(s) - 1)
      PROVE  (a \o b)[j] = IF j < i THEN s[j] ELSE s[j + 1]
  <2>1. CASE j < i
    <3>1. j \in 1..(i - 1) /\ j <= Len(a)
      BY <2>1, <1>0, <1>1
    <3> QED BY <3>1, <2>1, <1>1, <1>4, <1>5
  <2>2. CASE ~(j < i)
    <3>1. ~(j <= Len(a)) /\ j - Len(a) = j - i + 1
      BY <2>2, <1>0, <1>1
    <3>2. j - i + 1 \in 1..(Len(s) - i) /\ i + (j - i + 1) = j + 1
      BY <2>2, <1>0
    <3>3. b[j - i + 1] = s[j + 1]
      BY <3>2, <1>2
    <3> QED BY <3>1, <3>3, <2>2, <1>4, <1>5
  <2> QED BY <2>1, <2>2
<1> QED BY <1>3, <1>4, <1>5, <1>6

(* From a list without repetition it takes exactly one element out. *)
LEMMA RemoveAtDistinct ==
  ASSUME NEW S, NEW q \in Seq(S), Distinct(q), NEW k \in DOMAIN q
  PROVE  LET r == RemoveAt(q, k) IN
         /\ q[k] \in S
         /\ r \in Seq(S) /\ Len(r) = Len(q) - 1
         /\ Distinct(r)
         /\ \A u \in S : Holds(r, u) <=> Holds(q, u) /\ u # q[k]
<1> DEFINE n == Len(q)
           r == RemoveAt(q, k)
<1>1. n \in Nat /\ DOMAIN q = 1..n
  BY LenProperties
<1>2. k \in 1..n
  BY <1>1
<1>3. /\ r \in Seq(S) /\ Len(r) = n - 1
      /\ \A j \in 1..(n - 1) : r[j] = IF j < k THEN q[j] ELSE q[j + 1]
  BY <1>1, <1>2, RemoveAtProperties
<1> HIDE DEF r
<1>4. DOMAIN r = 1..(n - 1)
  BY <1>3, LenProperties
<1>5. q[k] \in S
  BY <1>1, <1>2, ElementOfSeq
<1>6. ASSUME NEW i \in DOMAIN r, NEW j \in DOMAIN r, r[i] = r[j]
      PROVE  i = j
  <2>1. \A l \in 1..(n - 1) :
          \E m \in 1..n : /\ r[l] = q[m] /\ m # k
                          /\ m = IF l < k THEN l ELSE l + 1
    BY <1>1, <1>2, <1>3
  <2>2. i \in 1..(n - 1) /\ j \in 1..(n - 1)
    BY <1>4, <1>6
  <2>3. PICK a \in 1..n : r[i] = q[a] /\ a = IF i < k THEN i ELSE i + 1
    BY <2>1, <2>2
  <2>4. PICK b \in 1..n : r[j] = q[b] /\ b = IF j < k THEN j ELSE j + 1
    BY <2>1, <2>2
  <2>5. a = b
    BY <1>1, <1>6, <2>3, <2>4 DEF Distinct
  <2> QED BY <2>2, <2>3, <2>4, <2>5, <1>2
<1>7. ASSUME NEW u \in S
      PROVE  Holds(r, u) <=> Holds(q, u) /\ u # q[k]
  <2>1. ASSUME NEW j \in 1..(n - 1), r[j] = u
        PROVE  Holds(q, u) /\ u # q[k]
    <3>1. PICK m \in 1..n : r[j] = q[m] /\ m # k
      BY <1>1, <1>2, <1>3
    <3> QED BY <3>1, <2>1, <1>1, <1>2 DEF Distinct, Holds
  <2>2. ASSUME NEW j \in 1..n, q[j] = u, u # q[k]
        PROVE  \E m \in 1..(n - 1) : r[m] = u
    <3>1. j # k
      BY <2>2
    <3>2. CASE j < k
      <4>1. j \in 1..(n - 1)
        BY <3>2, <1>1, <1>2
      <4> QED BY <4>1, <3>2, <2>2, <1>3
    <3>3. CASE j > k
      <4>1. /\ j - 1 \in 1..(n - 1) /\ ~(j - 1 < k) /\ (j - 1) + 1 = j
        BY <3>3, <1>1, <1>2
      <4> QED BY <4>1, <2>2, <1>3
    <3> QED BY <3>1, <3>2, <3>3, <1>1, <1>2
  <2> QED BY <2>1, <2>2, <1>1, <1>4 DEF Holds
<1> QED BY <1>3, <1>5, <1>6, <1>7 DEF Distinct, r

(* Adding an element at its end adds exactly that. *)
LEMMA AppendDistinct ==
  ASSUME NEW S, NEW q \in Seq(S), Distinct(q), NEW v \in S, ~Holds(q, v)
  PROVE  LET r == Append(q, v) IN
         /\ r \in Seq(S) /\ Len(r) = Len(q) + 1
         /\ Distinct(r)
         /\ \A u \in S : Holds(r, u) <=> Holds(q, u) \/ u = v
<1> DEFINE n == Len(q)
           r == Append(q, v)
<1>1. n \in Nat /\ DOMAIN q = 1..n
  BY LenProperties
<1>2. /\ r \in Seq(S) /\ Len(r) = n + 1
      /\ \A j \in 1..n : r[j] = q[j]
      /\ r[n + 1] = v
  BY <1>1, AppendProperties
<1> HIDE DEF r
<1>3. DOMAIN r = 1..(n + 1)
  BY <1>2, LenProperties
<1>4. \A j \in 1..n : q[j] # v
  BY <1>1 DEF Holds
<1>5. \A i, j \in 1..(n + 1) : r[i] = r[j] => i = j
  <2> TAKE i \in 1..(n + 1), j \in 1..(n + 1)
  <2> HAVE r[i] = r[j]
  <2>1. CASE i \in 1..n /\ j \in 1..n
    BY <2>1, <1>1, <1>2 DEF Distinct
  <2>2. CASE i = n + 1 \/ j = n + 1
    BY <2>2, <1>1, <1>2, <1>4
  <2> QED BY <2>1, <2>2, <1>1
<1>6. \A u \in S : Holds(r, u) <=> Holds(q, u) \/ u = v
  <2> TAKE u \in S
  <2>1. ASSUME NEW j \in 1..(n + 1), r[j] = u
        PROVE  Holds(q, u) \/ u = v
    BY <2>1, <1>1, <1>2 DEF Holds
  <2>2. ASSUME NEW j \in 1..n, q[j] = u
        PROVE  \E m \in 1..(n + 1) : r[m] = u
    BY <2>2, <1>1, <1>2
  <2>3. n + 1 \in 1..(n + 1)
    BY <1>1
  <2> QED BY <2>1, <2>2, <2>3, <1>1, <1>2, <1>3 DEF Holds
<1> QED BY <1>2, <1>3, <1>5, <1>6 DEF Distinct, r

(* There are no more elements than places. *)
LEMMA ElementsBounded ==
  ASSUME NEW S, NEW q \in Seq(S), NEW T \in SUBSET S,
         \A x \in T : Holds(q, x)
  PROVE  IsFiniteSet(T) /\ Cardinality(T) \in Nat /\ Cardinality(T) <= Len(q)
<1> DEFINE n == Len(q)
           D == {i \in 1..n : q[i] \in T}
           f == [i \in D |-> q[i]]
<1>1. n \in Nat /\ DOMAIN q = 1..n
  BY LenProperties
<1>2. /\ IsFiniteSet(1..n) /\ Cardinality(1..n) = n
  BY <1>1, FS_Interval
<1>3. IsFiniteSet(D) /\ Cardinality(D) <= n
  BY <1>2, FS_Subset
<1>4. f \in Surjection(D, T)
  BY <1>1 DEF Holds, Surjection
<1>5. IsFiniteSet(T) /\ Cardinality(T) <= Cardinality(D)
  BY <1>3, <1>4, FS_Surjection
<1> QED BY <1>1, <1>3, <1>5, FS_CardinalityType
=============================================================================
