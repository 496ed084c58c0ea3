---------------------------- MODULE QueueProofs ----------------------------
(***************************************************************************)
(* Theorems about queue:pending and the scan that reads it, for queues of  *)
(* any length.  First what LREM and RPUSH do to the entries of each task,  *)
(* then the invariants of the scheduler that speak of the queue.           *)
(***************************************************************************)
EXTENDS SchedulerProofs, FiniteSetTheorems, FunctionTheorems, SequenceTheorems

\* The entries of t in q, and how many.
Entries(q, t) == {i \in DOMAIN q : q[i] = t}
Count(q, t) == Cardinality(Entries(q, t))

-----------------------------------------------------------------------------
(* Ranks: Place numbers a finite set of indices in increasing order.       *)

LEMMA PlaceIsRank ==
  ASSUME NEW n \in Nat, NEW kept \in SUBSET (1..n)
  PROVE  /\ IsFiniteSet(kept) /\ Cardinality(kept) \in Nat
         /\ [i \in kept |-> Place(kept, i)] \in Bijection(kept, 1..Cardinality(kept))
         /\ \A i, j \in kept : i < j => Place(kept, i) < Place(kept, j)
  <1> DEFINE N == Cardinality(kept)
             upto(i) == {h \in kept : h <= i}
             F == [i \in kept |-> Place(kept, i)]
  <1>1. IsFiniteSet(1..n)
    BY FS_Interval
  <1>2. IsFiniteSet(kept) /\ N \in Nat
    BY <1>1, FS_Subset, FS_CardinalityType
  <1>0. kept \subseteq Int
    OBVIOUS
  <1>3. ASSUME NEW i \in kept
        PROVE  /\ IsFiniteSet(upto(i))
               /\ Place(kept, i) \in 1..N
    <2>1. IsFiniteSet(upto(i)) /\ Cardinality(upto(i)) <= N
      <3>1. upto(i) \in SUBSET kept
        OBVIOUS
      <3> QED
        BY <1>2, <3>1, FS_Subset
    <2>2. Cardinality(upto(i)) \in Nat
      BY <2>1, FS_CardinalityType
    <2>3. Cardinality(upto(i)) # 0
      <3>1. i \in upto(i)
        OBVIOUS
      <3> QED
        BY <2>1, <3>1, FS_EmptySet
    <2> QED
      BY <1>2, <2>1, <2>2, <2>3 DEF Place
  <1>4. ASSUME NEW i \in kept, NEW j \in kept, i < j
        PROVE  Place(kept, i) < Place(kept, j)
    <2>1. upto(i) \in SUBSET upto(j) /\ j \in upto(j) /\ j \notin upto(i)
      <3>1. \A h \in kept : h <= i => h <= j
        BY <1>0, <1>4
      <3>2. j <= j /\ ~(j <= i)
        BY <1>0, <1>4
      <3> QED
        BY <3>1, <3>2
    <2>2. /\ IsFiniteSet(upto(j))
          /\ Cardinality(upto(i)) \in Nat
          /\ Cardinality(upto(j)) \in Nat
      BY <1>3, FS_CardinalityType
    <2>3. /\ Cardinality(upto(i)) <= Cardinality(upto(j))
          /\ Cardinality(upto(j)) = Cardinality(upto(i)) => upto(j) = upto(i)
      BY <2>1, <2>2, FS_Subset
    <2> QED
      BY <2>1, <2>2, <2>3 DEF Place
  <1>5. F \in Injection(kept, 1..N)
    <2>1. F \in [kept -> 1..N]
      BY <1>3
    <2>2. ASSUME NEW i \in kept, NEW j \in kept, F[i] = F[j]
          PROVE  i = j
      <3>0. Place(kept, i) \in 1..N /\ Place(kept, i) = Place(kept, j)
        BY <1>3, <2>2
      <3>1. Place(kept, i) \in Int /\ Place(kept, i) = Place(kept, j)
        BY <1>2, <3>0
      <3>2. i \in Int /\ j \in Int
        BY <1>0
      <3> QED
        BY <1>4, <3>1, <3>2
    <2> HIDE DEF F
    <2> QED
      BY <2>1, <2>2, Fun_IsInj
  <1>6. F \in Surjection(kept, 1..N)
    <2>1. IsFiniteSet(1..N) /\ Cardinality(1..N) = N
      BY <1>2, FS_Interval
    <2> HIDE DEF F
    <2> QED
      BY <1>5, <2>1, FS_Injection
  <1>7. F \in Bijection(kept, 1..N)
    BY <1>5, <1>6, Fun_IsBij
  <1> QED
    BY <1>2, <1>4, <1>7
-----------------------------------------------------------------------------
(* What the list commands do to the entries.                               *)

LEMMA CountType ==
  ASSUME NEW q \in Seq(Trace), NEW t
  PROVE  /\ IsFiniteSet(Entries(q, t))
         /\ Count(q, t) \in Nat
         /\ Count(q, t) = 0 <=> Entries(q, t) = {}
  <1>1. Entries(q, t) \in SUBSET (1..Len(q)) /\ Len(q) \in Nat
    BY LenProperties DEF Entries
  <1>2. IsFiniteSet(1..Len(q))
    BY <1>1, FS_Interval
  <1>3. IsFiniteSet(Entries(q, t))
    BY <1>1, <1>2, FS_Subset
  <1> QED
    BY <1>3, FS_CardinalityType, FS_EmptySet DEF Count

\* A bijection between the entries of a task in two queues.
LEMMA SameCount ==
  ASSUME NEW q \in Seq(Trace), NEW r \in Seq(Trace), NEW u,
         NEW f \in Bijection(Entries(q, u), Entries(r, u))
  PROVE  Count(r, u) = Count(q, u)
  <1>1. ExistsBijection(Entries(q, u), Entries(r, u))
    BY Fun_ExistsBij
  <1> QED
    BY <1>1, CountType, FS_Bijection DEF Count

\* RPUSH adds one entry, at the end.
LEMMA AppendEntries ==
  ASSUME NEW q \in Seq(Trace), NEW t \in Trace
  PROVE  /\ Append(q, t) \in Seq(Trace)
         /\ Count(Append(q, t), t) = Count(q, t) + 1
         /\ \A u \in Trace \ {t} : Entries(Append(q, t), u) = Entries(q, u)
  <1> DEFINE r == Append(q, t)
  <1>1. /\ r \in Seq(Trace) /\ Len(q) \in Nat
        /\ DOMAIN q = 1..Len(q) /\ DOMAIN r = 1..(Len(q) + 1)
        /\ \A i \in 1..Len(q) : r[i] = q[i]
        /\ r[Len(q) + 1] = t
    BY AppendProperties, LenProperties
  <1> HIDE DEF r
  <1>2. Entries(r, t) = Entries(q, t) \cup {Len(q) + 1}
    BY <1>1 DEF Entries
  <1>3. Len(q) + 1 \notin Entries(q, t)
    BY <1>1 DEF Entries
  <1>4. Count(r, t) = Count(q, t) + 1
    BY <1>2, <1>3, CountType, FS_AddElement DEF Count
  <1>5. \A u \in Trace \ {t} : Entries(r, u) = Entries(q, u)
    BY <1>1 DEF Entries
  <1> QED
    BY <1>1, <1>4, <1>5 DEF r

\* LREM with count 0: every entry of t goes; the others keep their number.
LEMMA LRemEntries ==
  ASSUME NEW q \in Seq(Trace), NEW t \in Trace
  PROVE  /\ LRem(q, t) \in Seq(Trace)
         /\ Entries(LRem(q, t), t) = {}
         /\ \A u \in Trace \ {t} : Count(LRem(q, t), u) = Count(q, u)
  <1> DEFINE kept == {i \in DOMAIN q : q[i] # t}
             N == Cardinality(kept)
             F == [i \in kept |-> Place(kept, i)]
             r == LRem(q, t)
  <1>1. /\ Len(q) \in Nat /\ DOMAIN q = 1..Len(q)
        /\ kept \in SUBSET (1..Len(q))
        /\ \A i \in kept : q[i] \in Trace /\ q[i] # t
    BY LenProperties, ElementOfSeq
  <1> HIDE DEF kept
  <1>2. N \in Nat /\ F \in Bijection(kept, 1..N)
    BY <1>1, PlaceIsRank
  <1>3. /\ \A i, j \in kept : Place(kept, i) = Place(kept, j) => i = j
        /\ \A i \in kept : Place(kept, i) \in 1..N
        /\ \A p \in 1..N : \E i \in kept : Place(kept, i) = p
    <2>1. \A i \in kept : F[i] = Place(kept, i)
      OBVIOUS
    <2> HIDE DEF F, N
    <2>2. /\ F \in [kept -> 1..N]
          /\ \A a, b \in kept : F[a] = F[b] => a = b
          /\ \A p \in 1..N : \E a \in kept : F[a] = p
      BY <1>2 DEF Bijection, Injection, Surjection, IsInjective
    <2>3. \A i, j \in kept : Place(kept, i) = Place(kept, j) => i = j
      <3> SUFFICES ASSUME NEW i \in kept, NEW j \in kept, Place(kept, i) = Place(kept, j)
                   PROVE  i = j
        OBVIOUS
      <3>1. F[i] = F[j]
        BY <2>1
      <3> QED
        BY <2>2, <3>1
    <2>4. \A i \in kept : Place(kept, i) \in 1..N
      BY <2>1, <2>2
    <2>5. \A p \in 1..N : \E i \in kept : Place(kept, i) = p
      BY <2>1, <2>2
    <2> QED
      BY <2>3, <2>4, <2>5
  <1> HIDE DEF F, N
  <1>4. r = [p \in 1..N |-> q[CHOOSE i \in kept : Place(kept, i) = p]]
    BY DEF LRem, kept, N
  <1> HIDE DEF r
  <1>5. \A i \in kept : Place(kept, i) \in 1..N /\ r[Place(kept, i)] = q[i]
    <2> SUFFICES ASSUME NEW i \in kept
                 PROVE  r[Place(kept, i)] = q[i]
      BY <1>3
    <2>1. \A j \in kept : Place(kept, j) = Place(kept, i) => j = i
      BY <1>3
    <2>2. (CHOOSE j \in kept : Place(kept, j) = Place(kept, i)) = i
      BY <2>1
    <2> QED
      BY <1>3, <1>4, <2>2
  <1>6. \A p \in 1..N : r[p] \in Trace \ {t}
    BY <1>1, <1>3, <1>5
  <1>7. r \in Seq(Trace) /\ DOMAIN r = 1..N
    <2>1. r \in [1..N -> Trace]
      BY <1>4, <1>6
    <2> QED
      BY <1>2, <2>1, SeqDef
  <1>8. Entries(r, t) = {}
    BY <1>6, <1>7 DEF Entries
  <1>9. ASSUME NEW u \in Trace \ {t}
        PROVE  Count(r, u) = Count(q, u)
    <2> DEFINE A == Entries(q, u)
               B == Entries(r, u)
               G == [i \in A |-> Place(kept, i)]
    <2>1. A \subseteq kept
      BY <1>1 DEF Entries, kept
    <2>2. \A i \in A : G[i] \in B
      BY <1>5, <1>7, <2>1 DEF Entries
    <2>3. \A i, j \in A : G[i] = G[j] => i = j
      BY <1>3, <2>1
    <2>4. \A p \in B : \E i \in A : G[i] = p
      <3> SUFFICES ASSUME NEW p \in B
                   PROVE  \E i \in A : G[i] = p
        OBVIOUS
      <3>1. PICK i \in kept : Place(kept, i) = p
        BY <1>3, <1>7 DEF Entries
      <3>2. i \in A
        BY <1>1, <1>5, <3>1 DEF Entries
      <3> QED
        BY <3>1, <3>2
    <2>5. G \in [A -> B]
      BY <2>2
    <2> HIDE DEF A, B, G
    <2>6. G \in Bijection(A, B)
      BY <2>3, <2>4, <2>5, Fun_IsBij
    <2> QED
      BY <1>7, <2>6, SameCount DEF A, B
  <1> QED
    BY <1>7, <1>8, <1>9 DEF r

\* LREM with count 1 of a task: no entry of another one is lost or added, and
\* a task that had none gets none.
LEMMA RemoveFirstEntries ==
  ASSUME NEW q \in Seq(Trace), NEW t \in Trace
  PROVE  /\ RemoveFirst(q, t) \in Seq(Trace)
         /\ \A u \in Trace \ {t} : Count(RemoveFirst(q, t), u) = Count(q, u)
         /\ Entries(q, t) = {} => Entries(RemoveFirst(q, t), t) = {}
  <1>1. CASE ~ \E i \in 1..Len(q) : q[i] = t
    BY <1>1 DEF RemoveFirst
  <1>2. CASE \E i \in 1..Len(q) : q[i] = t
    <2> DEFINE I == {i \in 1..Len(q) : q[i] = t}
               r == RemoveFirst(q, t)
    <2>0. Len(q) \in Nat /\ DOMAIN q = 1..Len(q) /\ \A i \in 1..Len(q) : q[i] \in Trace
      BY LenProperties, ElementOfSeq
    <2>1. PICK m \in I : \A i \in I : m <= i
      <3>1. /\ IsFiniteSet(I) /\ Cardinality(I) \in Nat
            /\ [i \in I |-> Place(I, i)] \in Bijection(I, 1..Cardinality(I))
            /\ \A i, j \in I : i < j => Place(I, i) < Place(I, j)
        BY <2>0, PlaceIsRank
      <3>2. Cardinality(I) # 0
        BY <1>2, <3>1, FS_EmptySet
      <3> HIDE DEF I
      <3>3. 1 \in 1..Cardinality(I)
        BY <3>1, <3>2
      <3>4. PICK m \in I : Place(I, m) = 1
        BY <3>1, <3>3, Fun_BijectionProperties
      <3>5. \A i \in I : Place(I, i) \in 1..Cardinality(I)
        BY <3>1, Fun_BijectionProperties
      <3>6. \A i \in I : ~(i < m)
        BY <3>1, <3>4, <3>5
      <3> QED
        BY <3>6 DEF I
    <2>2. r = RemoveAt(q, m)
      <3>1. SelectInSeq(q, LAMBDA v : v = t) = m
        BY <1>2, <2>0, <2>1 DEF SelectInSeq, Min
      <3> QED
        BY <1>2, <3>1 DEF RemoveFirst
    <2>3. /\ r \in Seq(Trace)
          /\ DOMAIN r = 1..(Len(q) - 1)
          /\ \A p \in 1..(Len(q) - 1) : r[p] = IF p < m THEN q[p] ELSE q[p + 1]
      <3> DEFINE a == SubSeq(q, 1, m - 1)
                 b == SubSeq(q, m + 1, Len(q))
      <3>1. m \in 1..Len(q)
        OBVIOUS
      <3>2. /\ a \in Seq(Trace) /\ Len(a) = m - 1
            /\ \A i \in 1..(m - 1) : a[i] = q[i]
        BY <2>0, <3>1, SubSeqProperties
      <3>3. /\ b \in Seq(Trace) /\ Len(b) = Len(q) - m
            /\ \A i \in 1..(Len(q) - m) : b[i] = q[m + i]
        <4>1. /\ b \in Seq(Trace)
              /\ Len(b) = IF m + 1 <= Len(q) THEN Len(q) - (m + 1) + 1 ELSE 0
              /\ \A i \in 1..(Len(q) - (m + 1) + 1) : b[i] = q[(m + 1) + i - 1]
          <5>1. \A i \in (m + 1)..Len(q) : q[i] \in Trace
            BY <2>0, <3>1
          <5>2. m + 1 \in Int /\ Len(q) \in Int
            BY <2>0, <3>1
          <5> QED
            BY <5>1, <5>2, SubSeqProperties
        <4> HIDE DEF b, I
        <4>2. Len(b) = Len(q) - m
          <5>1. CASE m + 1 <= Len(q)
            BY <2>0, <3>1, <4>1, <5>1
          <5>2. CASE m = Len(q)
            BY <2>0, <4>1, <5>2
          <5>3. \A n \in Nat : \A i \in 1..n : i + 1 <= n \/ i = n
            OBVIOUS
          <5> QED
            BY <2>0, <3>1, <5>1, <5>2, <5>3
        <4>3. ASSUME NEW i \in 1..(Len(q) - m)
              PROVE  b[i] = q[m + i]
          <5>1. i \in 1..(Len(q) - (m + 1) + 1) /\ (m + 1) + i - 1 = m + i
            BY <2>0, <3>1
          <5> QED
            BY <4>1, <5>1
        <4> QED
          BY <4>1, <4>2, <4>3
      <3>4. r = a \o b
        BY <2>2 DEF RemoveAt
      <3> HIDE DEF a, b, r, I
      <3>5. /\ r \in Seq(Trace) /\ Len(r) = Len(q) - 1
            /\ \A i \in 1..(Len(q) - 1) : r[i] = IF i <= m - 1 THEN a[i] ELSE b[i - (m - 1)]
        <4>1. /\ r \in Seq(Trace) /\ Len(r) = Len(a) + Len(b)
              /\ \A i \in 1..(Len(a) + Len(b)) :
                   r[i] = IF i <= Len(a) THEN a[i] ELSE b[i - Len(a)]
          BY <3>2, <3>3, <3>4, ConcatProperties
        <4>2. Len(a) + Len(b) = Len(q) - 1
          BY <2>0, <3>1, <3>2, <3>3
        <4> QED
          BY <3>2, <4>1, <4>2
      <3>6. DOMAIN r = 1..(Len(q) - 1)
        BY <3>5, LenProperties
      <3>7. ASSUME NEW p \in 1..(Len(q) - 1)
            PROVE  r[p] = IF p < m THEN q[p] ELSE q[p + 1]
        <4>1. CASE p < m
          <5>1. p \in 1..(m - 1) /\ p <= m - 1
            BY <2>0, <3>1, <4>1
          <5> QED
            BY <3>2, <3>5, <4>1, <5>1
        <4>2. CASE ~(p < m)
          <5>1. /\ p - (m - 1) \in 1..(Len(q) - m)
                /\ ~(p <= m - 1) /\ m + (p - (m - 1)) = p + 1
            BY <2>0, <3>1, <4>2
          <5> QED
            BY <3>3, <3>5, <4>2, <5>1
        <4> QED
          BY <4>1, <4>2
      <3> QED
        BY <3>5, <3>6, <3>7
    <2> HIDE DEF r
    <2>4. ASSUME NEW u \in Trace \ {t}
          PROVE  Count(r, u) = Count(q, u)
      <3> DEFINE A == Entries(q, u)
                 B == Entries(r, u)
                 G == [i \in A |-> IF i < m THEN i ELSE i - 1]
      <3>1. \A i \in A : i # m /\ i \in 1..Len(q)
        BY <2>0, <2>1 DEF Entries
      <3>2. \A i \in A : G[i] \in B
        BY <2>0, <2>1, <2>3, <3>1 DEF Entries
      <3>3. \A i, j \in A : G[i] = G[j] => i = j
        BY <2>0, <2>1, <3>1
      <3>4. \A p \in B : \E i \in A : G[i] = p
        <4> SUFFICES ASSUME NEW p \in B
                     PROVE  \E i \in A : G[i] = p
          OBVIOUS
        <4>1. p \in 1..(Len(q) - 1) /\ r[p] = u /\ m \in 1..Len(q)
          BY <2>3 DEF Entries
        <4>2. CASE p < m
          <5>1. p \in A
            BY <2>0, <2>3, <4>1, <4>2 DEF Entries
          <5> QED
            BY <4>2, <5>1
        <4>3. CASE ~(p < m)
          <5>1. p + 1 \in A
            BY <2>0, <2>3, <4>1, <4>3 DEF Entries
          <5>2. ~(p + 1 < m) /\ (p + 1) - 1 = p
            BY <4>1, <4>3
          <5>3. G[p + 1] = p
            BY <5>1, <5>2
          <5> HIDE DEF G, A
          <5> QED
            BY <5>1, <5>3
        <4> QED
          BY <4>2, <4>3
      <3>5. G \in [A -> B]
        BY <3>2
      <3> HIDE DEF A, B, G
      <3>6. G \in Bijection(A, B)
        BY <3>3, <3>4, <3>5, Fun_IsBij
      <3> QED
        BY <2>3, <3>6, SameCount DEF A, B
    <2>5. Entries(q, t) # {}
      BY <1>2, <2>0 DEF Entries
    <2> QED
      BY <2>3, <2>4, <2>5 DEF r
  <1> QED
    BY <1>1, <1>2
-----------------------------------------------------------------------------
(* The same, of the queue of the scheduler.                                *)

LEMMA OccurrencesType ==
  ASSUME queue \in Seq(Trace), NEW t \in Trace
  PROVE  Occurrences(t) \in Nat /\ (Occurrences(t) = 0 <=> ~InQueue(t))
  BY CountType DEF Occurrences, InQueue, Count, Entries

LEMMA Appended ==
  ASSUME queue \in Seq(Trace), NEW t \in Trace, queue' = Append(queue, t)
  PROVE  /\ queue' \in Seq(Trace)
         /\ InQueue(t)' /\ Occurrences(t)' = Occurrences(t) + 1
         /\ \A u \in Trace \ {t} : /\ InQueue(u)' <=> InQueue(u)
                                   /\ Occurrences(u)' = Occurrences(u)
  <1>1. queue' \in Seq(Trace) /\ Count(queue', t) = Count(queue, t) + 1
    BY AppendEntries
  <1>2. \A u \in Trace \ {t} : Entries(queue', u) = Entries(queue, u)
    BY AppendEntries
  <1>3. Entries(queue', t) # {}
    <2>1. Count(queue, t) \in Nat
      BY CountType
    <2>2. Count(queue', t) # 0
      BY <1>1, <2>1
    <2> QED
      BY <1>1, <2>2, CountType
  <1> QED
    BY <1>1, <1>2, <1>3 DEF Occurrences, InQueue, Count, Entries

LEMMA AllRemoved ==
  ASSUME queue \in Seq(Trace), NEW t \in Trace, queue' = LRem(queue, t)
  PROVE  /\ queue' \in Seq(Trace)
         /\ ~InQueue(t)'
         /\ \A u \in Trace \ {t} : /\ InQueue(u)' <=> InQueue(u)
                                   /\ Occurrences(u)' = Occurrences(u)
  <1>1. queue' \in Seq(Trace) /\ Entries(queue', t) = {}
    BY LRemEntries
  <1>2. \A u \in Trace \ {t} : Count(queue', u) = Count(queue, u)
    BY LRemEntries
  <1>3. \A u \in Trace \ {t} : Entries(queue', u) = {} <=> Entries(queue, u) = {}
    BY <1>1, <1>2, CountType
  <1> QED
    BY <1>1, <1>2, <1>3 DEF Occurrences, InQueue, Count, Entries

LEMMA FirstRemoved ==
  ASSUME queue \in Seq(Trace), NEW t \in Trace, queue' = RemoveFirst(queue, t)
  PROVE  /\ queue' \in Seq(Trace)
         /\ InQueue(t)' => InQueue(t)
         /\ \A u \in Trace \ {t} : /\ InQueue(u)' <=> InQueue(u)
                                   /\ Occurrences(u)' = Occurrences(u)
  <1>1. queue' \in Seq(Trace) /\ (Entries(queue, t) = {} => Entries(queue', t) = {})
    BY RemoveFirstEntries
  <1>2. \A u \in Trace \ {t} : Count(queue', u) = Count(queue, u)
    BY RemoveFirstEntries
  <1>3. \A u \in Trace \ {t} : Entries(queue', u) = {} <=> Entries(queue, u) = {}
    BY <1>1, <1>2, CountType
  <1> QED
    BY <1>1, <1>2, <1>3 DEF Occurrences, InQueue, Count, Entries

-----------------------------------------------------------------------------
(* Types, and the tasks that may be in the queue and in the scan.          *)

USE NullAssumption, SchedulerAssumption DEF Live, Finished, Status

InScan(t) == \E i \in DOMAIN wdIds : wdIds[i] = t

\* A trace id nobody has drawn is not queued, and a finished task no more.
QueueInv ==
  /\ queue \in Seq(Trace)
  /\ \A t \in Trace : key[t] = NoKey => ~InQueue(t)
  /\ FinishedTaskLeavesQueue

ScanInv ==
  /\ wdPc \in {"idle", "collect", "inspect", "drop", "reclaim"}
  /\ wdLimit \in Nat
  /\ wdIds \in Seq(Trace)
  /\ \A t \in Trace : key[t] = NoKey => ~InScan(t)
  /\ misread \in BOOLEAN
  /\ crashes \in Nat

\* A step about task t and its entries.
LEMMA EntryStep ==
  ASSUME QueueInv, NEW t \in Trace,
         \A u \in Trace \ {t} : status'[u] = status[u] /\ key'[u] = key[u],
         key'[t] = NoKey => key[t] = NoKey,
         \/ queue' = queue /\ (status'[t] \in Finished => status[t] \in Finished)
         \/ queue' = RemoveFirst(queue, t) /\ (status'[t] \in Finished => status[t] \in Finished)
         \/ queue' = Append(queue, t) /\ status'[t] \notin Finished /\ key'[t] # NoKey
         \/ queue' = LRem(queue, t)
  PROVE  QueueInv'
  <1> USE DEF QueueInv, FinishedTaskLeavesQueue
  <1>1. CASE queue' = queue /\ (status'[t] \in Finished => status[t] \in Finished)
    BY <1>1 DEF InQueue
  <1>2. CASE queue' = RemoveFirst(queue, t) /\ (status'[t] \in Finished => status[t] \in Finished)
    BY <1>2, FirstRemoved
  <1>3. CASE queue' = Append(queue, t) /\ status'[t] \notin Finished /\ key'[t] # NoKey
    BY <1>3, Appended
  <1>4. CASE queue' = LRem(queue, t)
    BY <1>4, AllRemoved
  <1> QED
    BY <1>1, <1>2, <1>3, <1>4

\* A step of the scan, or one that leaves it alone.
LEMMA ScanStep ==
  ASSUME QueueInv, ScanInv,
         \A t \in Trace : key'[t] = NoKey => key[t] = NoKey,
         wdPc' \in {"idle", "collect", "inspect", "drop", "reclaim"},
         wdLimit' \in Nat, crashes' \in Nat, misread' \in BOOLEAN,
         \/ wdIds' = wdIds
         \/ wdIds' = <<>>
         \/ wdIds # <<>> /\ wdIds' = Tail(wdIds)
         \/ \E i \in DOMAIN queue : wdIds' = Append(wdIds, queue[i])
  PROVE  ScanInv'
  <1> SUFFICES /\ wdIds' \in Seq(Trace)
               /\ \A t \in Trace : InScan(t)' => InScan(t) \/ InQueue(t)
    BY DEF ScanInv, QueueInv
  <1>1. wdIds \in Seq(Trace) /\ queue \in Seq(Trace)
    BY DEF ScanInv, QueueInv
  <1>2. CASE wdIds' = wdIds
    BY <1>1, <1>2 DEF InScan
  <1>3. CASE wdIds' = <<>>
    BY <1>3, EmptySeq DEF InScan
  <1>4. CASE wdIds # <<>> /\ wdIds' = Tail(wdIds)
    <2>1. /\ wdIds' \in Seq(Trace) /\ Len(wdIds') = Len(wdIds) - 1
          /\ \A i \in 1..Len(wdIds') : wdIds'[i] = wdIds[i + 1]
          /\ DOMAIN wdIds = 1..Len(wdIds) /\ DOMAIN wdIds' = 1..Len(wdIds')
          /\ Len(wdIds) \in Nat
      BY <1>1, <1>4, HeadTailProperties, LenProperties
    <2>2. \A i \in DOMAIN wdIds' : i + 1 \in DOMAIN wdIds
      BY <2>1
    <2> QED
      BY <2>1, <2>2 DEF InScan
  <1>5. CASE \E i \in DOMAIN queue : wdIds' = Append(wdIds, queue[i])
    <2>1. PICK i \in DOMAIN queue : wdIds' = Append(wdIds, queue[i])
      BY <1>5
    <2>2. queue[i] \in Trace
      BY <1>1, LenProperties, ElementOfSeq
    <2>3. /\ wdIds' \in Seq(Trace)
          /\ \A u \in Trace \ {queue[i]} : Entries(wdIds', u) = Entries(wdIds, u)
      BY <1>1, <2>1, <2>2, AppendEntries
    <2> QED
      BY <2>3 DEF InScan, InQueue, Entries
  <1> QED
    BY <1>2, <1>3, <1>4, <1>5

LEMMA QueueInvInit == Init => QueueInv /\ ScanInv
  <1>1. Init => misread \in BOOLEAN
    BY DEF Init
  <1>2. Init => /\ QueueInv
                /\ wdPc = "idle" /\ wdLimit \in Nat /\ wdIds \in Seq(Trace) /\ crashes \in Nat
                /\ \A t \in Trace : ~InScan(t)
    BY DEF Init, QueueInv, FinishedTaskLeavesQueue, InQueue, InScan
  <1> QED
    BY <1>1, <1>2 DEF ScanInv

LEMMA NextKeepsQueueInv ==
  ASSUME RedisInv, QueueInv, ScanInv, [Next]_vars
  PROVE  QueueInv' /\ ScanInv'
  <1> USE DEF redis, hash, request, watchdog
  <1>0. RedisTypeOK /\ KeysOK
    BY DEF RedisInv
  <1>1. /\ wdIds \in Seq(Trace) /\ queue \in Seq(Trace) /\ wdLimit \in Nat /\ crashes \in Nat
        /\ misread \in BOOLEAN
    BY DEF ScanInv, QueueInv
  <1>2. ASSUME UNCHANGED <<status, key, queue>>
        PROVE  QueueInv'
    BY <1>2 DEF QueueInv, FinishedTaskLeavesQueue, InQueue
  <1>3. ASSUME UNCHANGED <<watchdog, crashes>>, \A t \in Trace : key'[t] = NoKey => key[t] = NoKey
        PROVE  ScanInv'
    BY <1>3 DEF ScanInv, InScan
  <1>4. CASE UNCHANGED vars
    BY <1>2, <1>3, <1>4 DEF vars
  <1>5. ASSUME NEW t \in Trace, NEW k \in Key, PublishTask(t, k)
        PROVE  QueueInv' /\ ScanInv'
    <2>1. /\ key' = [key EXCEPT ![t] = k] /\ status' = [status EXCEPT ![t] = "PENDING"]
          /\ queue' = Append(queue, t)
          /\ UNCHANGED <<watchdog, crashes>>
      BY <1>5 DEF PublishTask, LuaPublish, SetHash
    <2>2. /\ status'[t] = "PENDING" /\ key'[t] = k
          /\ \A u \in Trace \ {t} : status'[u] = status[u] /\ key'[u] = key[u]
      BY <1>0, <2>1 DEF RedisTypeOK
    <2>3. key'[t] # NoKey /\ status'[t] \notin Finished
      BY <2>2
    <2>4. QueueInv'
      BY <2>1, <2>2, <2>3, EntryStep
    <2>5. \A u \in Trace : key'[u] = NoKey => key[u] = NoKey
      BY <2>2, <2>3
    <2> QED
      BY <1>3, <2>1, <2>4, <2>5
  <1>6. ASSUME NEW t \in Trace,
               UpdateTaskCost(t) \/ BroadcastTaskAnnouncement(t) \/ AbandonSetup(t)
        PROVE  QueueInv' /\ ScanInv'
    BY <1>2, <1>3, <1>6 DEF UpdateTaskCost, BroadcastTaskAnnouncement, AbandonSetup
  <1>7. ASSUME NEW t \in Trace, NEW n \in Node \cup {NoNode}, NEW mode, LuaFail(t, n, mode)
        PROVE  QueueInv'
    BY <1>0, <1>7, EntryStep DEF LuaFail, SetHash, RedisTypeOK
  <1>8. ASSUME NEW t \in Trace, RejectTask(t)
        PROVE  QueueInv' /\ ScanInv'
    <2>1. UNCHANGED <<key, watchdog, crashes>>
      BY <1>8 DEF RejectTask, LuaFail
    <2> QED
      BY <1>2, <1>3, <1>7, <1>8, <2>1 DEF RejectTask
  <1>9. ASSUME NEW t \in Trace, NEW n \in Node, HandleFetchTask(t, n) \/ LoseClaim(t, n)
        PROVE  QueueInv' /\ ScanInv'
    <2>1. UNCHANGED <<key, queue, watchdog, crashes>>
      BY <1>9 DEF HandleFetchTask, LoseClaim, LuaFetch
    <2>2. CASE LuaFetch(t, n)
      <3>1. /\ status'[t] = "PROCESSING"
            /\ \A u \in Trace \ {t} : status'[u] = status[u]
        BY <1>0, <2>2 DEF LuaFetch, SetHash, RedisTypeOK
      <3>2. QueueInv'
        BY <2>1, <3>1, EntryStep
      <3> QED
        BY <1>3, <2>1, <3>2
    <2> QED
      BY <1>2, <1>3, <1>9, <2>1, <2>2 DEF HandleFetchTask, LoseClaim
  <1>10. ASSUME NEW t \in Trace, NEW n \in Node, CompleteTask(t, n)
         PROVE  QueueInv' /\ ScanInv'
    <2>1. UNCHANGED <<key, watchdog, crashes>>
      BY <1>10 DEF CompleteTask, LuaComplete
    <2>2. CASE LuaComplete(t, n)
      BY <1>0, <1>3, <2>1, <2>2, EntryStep DEF LuaComplete, SetHash, RedisTypeOK
    <2> QED
      BY <1>2, <1>3, <1>10, <2>1, <2>2 DEF CompleteTask
  <1>11. ASSUME NEW t \in Trace, NEW n \in Node, FailTask(t, n)
         PROVE  QueueInv' /\ ScanInv'
    <2>1. UNCHANGED <<key, watchdog, crashes>>
      BY <1>11 DEF FailTask, LuaFail
    <2> QED
      BY <1>2, <1>3, <1>7, <1>11, <2>1 DEF FailTask
  <1>12. CASE StartScan \/ EndScan
    <2>1. /\ UNCHANGED <<status, key, queue, wdIds, misread, crashes>>
          /\ wdPc' \in {"idle", "collect"} /\ wdLimit' \in Nat
      <3>1. Len(queue) \in Nat
        BY <1>1, LenProperties
      <3>2. CASE StartScan
        BY <3>1, <3>2 DEF StartScan
      <3>3. CASE EndScan
        BY <3>3 DEF EndScan
      <3> QED
        BY <1>12, <3>2, <3>3
    <2> QED
      BY <1>1, <1>2, <2>1, ScanStep
  <1>13. CASE CollectId
    <2>1. /\ UNCHANGED <<status, key, queue, wdLimit, misread, crashes>>
          /\ wdPc' \in {wdPc, "inspect"}
      BY <1>13 DEF CollectId
    <2>2. wdIds' = wdIds \/ \E i \in DOMAIN queue : wdIds' = Append(wdIds, queue[i])
      <3>1. /\ Len(wdIds) \in Nat /\ Len(queue) \in Nat
            /\ DOMAIN queue = 1..Len(queue)
        BY <1>1, LenProperties
      <3>2. Len(wdIds) < Len(queue) => Len(wdIds) + 1 \in DOMAIN queue
        BY <3>1
      <3> QED
        BY <1>13, <3>2 DEF CollectId
    <2>3. wdPc' \in {"idle", "collect", "inspect", "drop", "reclaim"}
      BY <2>1 DEF ScanInv
    <2> QED
      BY <1>1, <1>2, <2>1, <2>2, <2>3, ScanStep
  <1>14. ASSUME NEW t \in Trace, InspectTask(t)
         PROVE  QueueInv' /\ ScanInv'
    <2>1. /\ UNCHANGED <<status, key, queue, wdLimit, crashes>>
          /\ wdPc' \in {"drop", "reclaim", "inspect"}
          /\ wdIds' = wdIds \/ (wdIds # <<>> /\ wdIds' = Tail(wdIds))
          /\ misread' = misread \/ misread' = (misread \/ status[t] \in {"PENDING", "PROCESSING"})
      BY <1>14 DEF InspectTask, NextId, NextUp
    <2>2. misread' \in BOOLEAN
      BY <1>1, <2>1
    <2> QED
      BY <1>1, <1>2, <2>1, <2>2, ScanStep
  <1>15. ASSUME NEW t \in Trace, DropEntry(t)
         PROVE  QueueInv' /\ ScanInv'
    <2>1. /\ UNCHANGED <<status, key, wdLimit, misread, crashes>>
          /\ queue' = RemoveFirst(queue, t) \/ UNCHANGED queue
          /\ wdPc' = "inspect" /\ wdIds # <<>> /\ wdIds' = Tail(wdIds)
      BY <1>15 DEF DropEntry, NextId, NextUp
    <2> QED
      BY <1>1, <2>1, EntryStep, ScanStep
  <1>16. ASSUME NEW t \in Trace, ReclaimTask(t)
         PROVE  QueueInv' /\ ScanInv'
    <2>1. /\ UNCHANGED <<key, wdLimit, misread, crashes>>
          /\ wdPc' = "inspect" /\ wdIds # <<>> /\ wdIds' = Tail(wdIds)
      BY <1>16 DEF ReclaimTask, LuaReclaim, NextId, NextUp
    <2>2. CASE LuaReclaim(t)
      <3>1. queue' = Append(queue, t) /\ status' = [status EXCEPT ![t] = "PENDING"]
        BY <2>2 DEF LuaReclaim, SetHash
      <3>2. key'[t] # NoKey
        <4>1. status[t] = "PROCESSING"
          BY <2>2 DEF LuaReclaim
        <4> QED
          BY <1>0, <2>1, <4>1 DEF KeysOK
      <3>3. status'[t] = "PENDING" /\ \A u \in Trace \ {t} : status'[u] = status[u]
        BY <1>0, <3>1 DEF RedisTypeOK
      <3>4. QueueInv'
        BY <2>1, <3>1, <3>2, <3>3, EntryStep
      <3> QED
        BY <1>1, <2>1, <3>4, ScanStep
    <2> QED
      BY <1>1, <1>2, <1>16, <2>1, <2>2, ScanStep DEF ReclaimTask
  <1>17. CASE Tick
    <2>1. /\ UNCHANGED <<key, queue, watchdog, crashes>>
          /\ \A t \in Trace : status'[t] \in Finished => status[t] \in Finished
      BY <1>17 DEF Tick
    <2>2. QueueInv'
      BY <2>1 DEF QueueInv, FinishedTaskLeavesQueue, InQueue
    <2> QED
      BY <1>3, <2>1, <2>2
  <1>18. CASE ServerCrash
    <2>1. /\ UNCHANGED <<status, key, queue, misread>>
          /\ wdPc' = "idle" /\ wdLimit' = 0 /\ wdIds' = <<>> /\ crashes' = crashes + 1
      BY <1>18 DEF ServerCrash
    <2> QED
      BY <1>1, <1>2, <2>1, ScanStep
  <1> QED
    BY <1>4, <1>5, <1>6, <1>8, <1>9, <1>10, <1>11, <1>12, <1>13, <1>14, <1>15, <1>16,
       <1>17, <1>18 DEF Next, Watchdog

LEMMA SetupInvariant == Spec => []SetupInv
  <1>1. Init => SetupInv
    BY SetupInvInit
  <1>2. RedisInv /\ SetupInv /\ [Next]_vars => SetupInv'
    BY NextKeepsSetupInv
  <1> QED
    BY <1>1, <1>2, RedisInvariant, PTL DEF Spec

LEMMA QueueInvariant == Spec => [](QueueInv /\ ScanInv)
  <1>1. RedisInv /\ (QueueInv /\ ScanInv) /\ [Next]_vars => (QueueInv /\ ScanInv)'
    BY NextKeepsQueueInv
  <1> QED
    BY <1>1, QueueInvInit, RedisInvariant, PTL DEF Spec

\* Every variable of the scheduler keeps its type, and a key of Redis is
\* either whole or missing.
THEOREM SchedulerTypes == Spec => []TypeOK
  <1>1. RedisInv /\ SetupInv /\ (QueueInv /\ ScanInv) => TypeOK
    BY DEF RedisInv, SetupInv, SetupTypeOK, QueueInv, ScanInv, TypeOK
  <1> QED
    BY <1>1, RedisInvariant, SetupInvariant, QueueInvariant, PTL

\* However often a task was reclaimed and enqueued again, once it is finished
\* no entry of it is left (LREM with count 0), whatever faults occurred.
THEOREM FinishedTasksAreDequeued == Spec => []FinishedTaskLeavesQueue
  <1>1. QueueInv /\ ScanInv => FinishedTaskLeavesQueue
    BY DEF QueueInv
  <1> QED
    BY <1>1, QueueInvariant, PTL
-----------------------------------------------------------------------------
(* As long as no scan has taken an error for the end of a live task: every *)
(* live task has an entry, and one more entry than nodes that work on it   *)
(* while nobody has claimed it anew.                                       *)

Workers(t) == {n \in Node : claim[t][n] = "working"}

ServedTask(t) ==
  /\ IsFiniteSet(Workers(t))
  /\ status[t] \in Live => InQueue(t)
  /\ status[t] = "PENDING" => Cardinality(Workers(t)) + 1 <= Occurrences(t)
  /\ status[t] = "PROCESSING" => Cardinality(Workers(t)) <= Occurrences(t)

ServedInv == \A t \in Trace : ServedTask(t)

\* The watchdog drops an entry some time after it read that the task is gone;
\* a task that was alive once and is no more never comes back.
DropInv ==
  wdPc = "drop" => \A t \in Trace : NextUp(t) => status[t] \notin Live /\ key[t] # NoKey

\* What a scan has taken for dead stays on record.
LEMMA MisreadStays ==
  ASSUME ScanInv, [Next]_vars, misread
  PROVE  misread'
  <1> USE DEF redis, hash, request, watchdog
  <1>1. CASE UNCHANGED watchdog
    BY <1>1
  <1>2. CASE Watchdog
    <2>1. CASE StartScan \/ CollectId \/ EndScan
      BY <2>1 DEF StartScan, CollectId, EndScan
    <2>2. ASSUME NEW t \in Trace, InspectTask(t)
          PROVE  misread'
      BY <2>2 DEF InspectTask, NextId
    <2>3. ASSUME NEW t \in Trace, DropEntry(t) \/ ReclaimTask(t)
          PROVE  misread'
      BY <2>3 DEF DropEntry, ReclaimTask, NextId
    <2> QED
      BY <1>2, <2>1, <2>2, <2>3 DEF Watchdog
  <1>3. CASE ServerCrash
    BY <1>3 DEF ServerCrash
  <1> QED
    BY <1>1, <1>2, <1>3 DEF Next, vars, PublishTask, UpdateTaskCost, BroadcastTaskAnnouncement,
       RejectTask, AbandonSetup, HandleFetchTask, LoseClaim, CompleteTask, FailTask, Tick

LEMMA WorkersType ==
  ASSUME NEW t \in Trace, IsFiniteSet(Workers(t))
  PROVE  Cardinality(Workers(t)) \in Nat
  BY FS_CardinalityType

LEMMA WorkerJoins ==
  ASSUME SetupTypeOK, NEW t \in Trace, NEW n \in Node, IsFiniteSet(Workers(t)),
         SetClaim(t, n, "working"), claim[t][n] # "working"
  PROVE  /\ IsFiniteSet(Workers(t)')
         /\ Cardinality(Workers(t)') = Cardinality(Workers(t)) + 1
  <1>1. Workers(t)' = Workers(t) \cup {n} /\ n \notin Workers(t)
    BY DEF Workers, SetClaim, SetupTypeOK
  <1> QED
    BY <1>1, FS_AddElement

LEMMA WorkerLeaves ==
  ASSUME SetupTypeOK, NEW t \in Trace, NEW n \in Node, IsFiniteSet(Workers(t)),
         NEW c \in {"none", "refused"}, SetClaim(t, n, c)
  PROVE  /\ IsFiniteSet(Workers(t)')
         /\ Cardinality(Workers(t)') <= Cardinality(Workers(t))
  <1>1. Workers(t)' = Workers(t) \ {n}
    BY DEF Workers, SetClaim, SetupTypeOK
  <1>2. Workers(t)' \in SUBSET Workers(t)
    BY <1>1
  <1> QED
    BY <1>2, FS_Subset

\* A step about task t alone.
LEMMA TaskStep ==
  ASSUME ServedInv, NEW t \in Trace, ServedTask(t)',
         \A u \in Trace \ {t} : /\ status'[u] = status[u]
                                /\ claim'[u] = claim[u]
                                /\ InQueue(u)' <=> InQueue(u)
                                /\ Occurrences(u)' = Occurrences(u)
  PROVE  ServedInv'
  <1> SUFFICES ASSUME NEW u \in Trace \ {t}
               PROVE  ServedTask(u)'
    BY DEF ServedInv
  <1>1. Workers(u)' = Workers(u)
    BY DEF Workers
  <1> QED
    BY <1>1 DEF ServedInv, ServedTask

\* A step that changes neither the queue nor who works, and makes no task
\* live or pending.
LEMMA BystandingStep ==
  ASSUME ServedInv, queue' = queue,
         \A t \in Trace : Workers(t)' = Workers(t),
         \A t \in Trace : status'[t] \in Live => status'[t] = status[t]
  PROVE  ServedInv'
  <1> SUFFICES ASSUME NEW t \in Trace
               PROVE  ServedTask(t)'
    BY DEF ServedInv
  <1>1. (InQueue(t)' <=> InQueue(t)) /\ Occurrences(t)' = Occurrences(t)
    BY DEF InQueue, Occurrences
  <1> QED
    BY <1>1 DEF ServedInv, ServedTask

\* FailTask and CompleteTask, when the script runs: t is no longer live.
LEMMA EndedTask ==
  ASSUME ServedInv, QueueInv, SetupTypeOK, NEW t \in Trace,
         queue' = LRem(queue, t), status'[t] \notin Live,
         IsFiniteSet(Workers(t)'),
         \A u \in Trace \ {t} : status'[u] = status[u] /\ claim'[u] = claim[u]
  PROVE  ServedInv'
  <1>1. ServedTask(t)'
    BY DEF ServedTask
  <1>2. \A u \in Trace \ {t} : /\ InQueue(u)' <=> InQueue(u)
                               /\ Occurrences(u)' = Occurrences(u)
    BY AllRemoved DEF QueueInv
  <1> QED
    BY <1>1, <1>2, TaskStep

LEMMA NextKeepsDropInv ==
  ASSUME ~misread', RedisInv, ScanInv, DropInv, [Next]_vars
  PROVE  DropInv'
  <1> USE DEF redis, hash, watchdog
  <1>0. RedisTypeOK
    BY DEF RedisInv
  <1>1. ASSUME UNCHANGED <<watchdog, key>>,
               \A t \in Trace : status[t] \notin Live => status'[t] \notin Live
        PROVE  DropInv'
    BY <1>1 DEF DropInv, NextUp
  <1>2. CASE UNCHANGED vars
    BY <1>1, <1>2 DEF vars
  <1>3. ASSUME NEW t \in Trace, NEW k \in Key, PublishTask(t, k)
        PROVE  DropInv'
    <2>1. key[t] = NoKey /\ UNCHANGED watchdog
      BY <1>3 DEF PublishTask
    <2>2. \A u \in Trace \ {t} : status'[u] = status[u] /\ key'[u] = key[u]
      BY <1>0, <1>3 DEF PublishTask, LuaPublish, SetHash, RedisTypeOK
    <2> QED
      BY <2>1, <2>2 DEF DropInv, NextUp
  <1>4. ASSUME NEW t \in Trace,
               UpdateTaskCost(t) \/ BroadcastTaskAnnouncement(t) \/ AbandonSetup(t)
        PROVE  DropInv'
    BY <1>1, <1>4 DEF UpdateTaskCost, BroadcastTaskAnnouncement, AbandonSetup
  <1>5. ASSUME NEW t \in Trace, NEW n \in Node \cup {NoNode}, NEW mode, LuaFail(t, n, mode)
        PROVE  key' = key /\ \A u \in Trace : status[u] \notin Live => status'[u] \notin Live
    BY <1>0, <1>5 DEF LuaFail, MayFinalize, SetHash, RedisTypeOK
  <1>6. ASSUME NEW t \in Trace, RejectTask(t)
        PROVE  DropInv'
    BY <1>1, <1>5, <1>6 DEF RejectTask
  <1>7. ASSUME NEW t \in Trace, NEW n \in Node, HandleFetchTask(t, n) \/ LoseClaim(t, n)
        PROVE  DropInv'
    BY <1>0, <1>1, <1>7 DEF HandleFetchTask, LoseClaim, LuaFetch, SetHash, RedisTypeOK
  <1>8. ASSUME NEW t \in Trace, NEW n \in Node, CompleteTask(t, n)
        PROVE  DropInv'
    BY <1>0, <1>1, <1>8 DEF CompleteTask, LuaComplete, MayComplete, SetHash, RedisTypeOK
  <1>9. ASSUME NEW t \in Trace, NEW n \in Node, FailTask(t, n)
        PROVE  DropInv'
    BY <1>1, <1>5, <1>9 DEF FailTask
  <1>10. CASE StartScan \/ EndScan \/ CollectId
    BY <1>10 DEF StartScan, EndScan, CollectId, DropInv
  <1>11. ASSUME NEW t \in Trace, InspectTask(t)
         PROVE  DropInv'
    <2>1. CASE status[t] \notin Live /\ wdPc' = "drop" /\ wdIds' = wdIds
      <3>1. NextUp(t) /\ UNCHANGED <<status, key>>
        BY <1>11 DEF InspectTask
      <3>2. InScan(t)
        <4>1. Len(wdIds) \in Nat \ {0} /\ DOMAIN wdIds = 1..Len(wdIds)
          BY <3>1, EmptySeq, LenProperties DEF NextUp, ScanInv
        <4> QED
          BY <3>1, <4>1 DEF NextUp, InScan
      <3> QED
        BY <2>1, <3>1, <3>2 DEF DropInv, NextUp, ScanInv
    <2>2. CASE wdPc' # "drop"
      BY <2>2 DEF DropInv
    <2>3. \/ wdPc' # "drop"
          \/ wdPc' = "drop" /\ wdIds' = wdIds /\ misread' = (misread \/ status[t] \in Live)
      BY <1>11 DEF InspectTask, NextId
    <2> QED
      BY <2>1, <2>2, <2>3
  <1>12. ASSUME NEW t \in Trace, DropEntry(t) \/ ReclaimTask(t)
         PROVE  DropInv'
    BY <1>12 DEF DropEntry, ReclaimTask, NextId, DropInv
  <1>13. CASE Tick
    BY <1>0, <1>1, <1>13 DEF Tick, RedisTypeOK
  <1>14. CASE ServerCrash
    BY <1>14 DEF ServerCrash, DropInv
  <1> QED
    BY <1>2, <1>3, <1>4, <1>6, <1>7, <1>8, <1>9, <1>10, <1>11, <1>12, <1>13, <1>14
       DEF Next, Watchdog

LEMMA NextKeepsServedInv ==
  ASSUME RedisInv, SetupInv, QueueInv, DropInv, ServedInv, [Next]_vars
  PROVE  ServedInv'
  <1> USE DEF redis, hash, request, watchdog
  <1>0. RedisTypeOK /\ SetupTypeOK /\ NotYetOffered /\ queue \in Seq(Trace)
    BY DEF RedisInv, SetupInv, QueueInv
  <1>1. ASSUME UNCHANGED <<status, queue, claim>>
        PROVE  ServedInv'
    BY <1>1, BystandingStep DEF Workers
  <1>2. ASSUME NEW t \in Trace
        PROVE  /\ IsFiniteSet(Workers(t)) /\ Cardinality(Workers(t)) \in Nat
               /\ Occurrences(t) \in Nat
               /\ Occurrences(t) = 0 <=> ~InQueue(t)
    BY <1>0, WorkersType, OccurrencesType DEF ServedInv, ServedTask
  <1>3. CASE UNCHANGED vars
    BY <1>1, <1>3 DEF vars
  <1>4. ASSUME NEW t \in Trace, creator[t] # "done"
        PROVE  Workers(t) = {} /\ Cardinality(Workers(t)) = 0
    BY <1>0, <1>4, FS_EmptySet DEF NotYetOffered, Workers
  <1>5. ASSUME NEW t \in Trace, NEW k \in Key, PublishTask(t, k)
        PROVE  ServedInv'
    <2>1. /\ status' = [status EXCEPT ![t] = "PENDING"] /\ queue' = Append(queue, t)
          /\ claim' = claim /\ key[t] = NoKey
      BY <1>5 DEF PublishTask, LuaPublish, SetHash
    <2>2. creator[t] # "done"
      BY <1>0, <2>1 DEF SetupTypeOK
    <2>3. InQueue(t)' /\ Occurrences(t)' = Occurrences(t) + 1
      BY <1>0, <2>1, Appended
    <2>4. Workers(t)' = Workers(t) /\ status'[t] = "PENDING"
      BY <1>0, <2>1 DEF Workers, RedisTypeOK
    <2>5. ServedTask(t)'
      BY <1>2, <1>4, <2>2, <2>3, <2>4 DEF ServedTask
    <2>6. \A u \in Trace \ {t} : status'[u] = status[u] /\ claim'[u] = claim[u]
      BY <1>0, <2>1 DEF RedisTypeOK
    <2> QED
      BY <1>0, <2>1, <2>5, <2>6, Appended, TaskStep
  <1>6. ASSUME NEW t \in Trace, UpdateTaskCost(t) \/ AbandonSetup(t)
        PROVE  ServedInv'
    BY <1>1, <1>6 DEF UpdateTaskCost, AbandonSetup
  <1>7. ASSUME NEW t \in Trace, BroadcastTaskAnnouncement(t)
        PROVE  ServedInv'
    <2>1. Workers(t) = {}
      BY <1>4, <1>7 DEF BroadcastTaskAnnouncement
    <2>2. PICK told \in SUBSET Node :
            claim' = [claim EXCEPT ![t] = [n \in Node |-> IF n \in told THEN "offered" ELSE "none"]]
      BY <1>7 DEF BroadcastTaskAnnouncement
    <2>3. Workers(t)' = {} /\ \A u \in Trace \ {t} : Workers(u)' = Workers(u)
      BY <1>0, <2>2 DEF SetupTypeOK, Workers
    <2> QED
      BY <1>7, <2>1, <2>3, BystandingStep DEF BroadcastTaskAnnouncement
  <1>8. ASSUME NEW t \in Trace, NEW n \in Node \cup {NoNode}, NEW mode, LuaFail(t, n, mode)
        PROVE  /\ queue' = LRem(queue, t) /\ status'[t] \notin Live
               /\ \A u \in Trace \ {t} : status'[u] = status[u]
    BY <1>0, <1>8 DEF LuaFail, SetHash, RedisTypeOK
  <1>9. ASSUME NEW t \in Trace, RejectTask(t)
        PROVE  ServedInv'
    <2>1. claim' = claim /\ (LuaFail(t, NoNode, "REJECT") \/ UNCHANGED redis)
      BY <1>9 DEF RejectTask
    <2>2. CASE LuaFail(t, NoNode, "REJECT")
      <3>1. Workers(t)' = Workers(t)
        BY <2>1 DEF Workers
      <3> QED
        BY <1>0, <1>2, <1>8, <2>1, <2>2, <3>1, EndedTask
    <2> QED
      BY <1>1, <2>1, <2>2
  <1>10. ASSUME NEW t \in Trace, NEW n \in Node, NEW c \in {"none", "refused"}, SetClaim(t, n, c)
         PROVE  /\ IsFiniteSet(Workers(t)') /\ Cardinality(Workers(t)') \in Nat
                /\ Cardinality(Workers(t)') <= Cardinality(Workers(t))
                /\ \A u \in Trace \ {t} : claim'[u] = claim[u]
    <2>1. /\ IsFiniteSet(Workers(t)')
          /\ Cardinality(Workers(t)') <= Cardinality(Workers(t))
      BY <1>0, <1>2, <1>10, WorkerLeaves
    <2>2. \A u \in Trace \ {t} : claim'[u] = claim[u]
      BY <1>0, <1>10 DEF SetClaim, SetupTypeOK
    <2> QED
      BY <2>1, <2>2, FS_CardinalityType
  <1>11. ASSUME NEW t \in Trace, NEW n \in Node, NEW c \in {"none", "refused"}, SetClaim(t, n, c),
                UNCHANGED <<status, queue>>
         PROVE  ServedInv'
    <2>1. \A u \in Trace : (InQueue(u)' <=> InQueue(u)) /\ Occurrences(u)' = Occurrences(u)
      BY <1>11 DEF InQueue, Occurrences
    <2>2. /\ IsFiniteSet(Workers(t)') /\ Cardinality(Workers(t)') \in Nat
          /\ Cardinality(Workers(t)') <= Cardinality(Workers(t))
          /\ \A u \in Trace \ {t} : claim'[u] = claim[u]
      BY <1>10, <1>11
    <2>3. ServedTask(t)'
      <3>1. ServedTask(t)
        BY DEF ServedInv
      <3> QED
        BY <1>2, <1>11, <2>1, <2>2, <3>1 DEF ServedTask
    <2> QED
      BY <1>11, <2>1, <2>2, <2>3, TaskStep
  <1>12. ASSUME NEW t \in Trace, NEW n \in Node, HandleFetchTask(t, n)
         PROVE  ServedInv'
    <2>1. CASE LuaFetch(t, n) /\ SetClaim(t, n, "working")
      <3>1. /\ status[t] = "PENDING" /\ status'[t] = "PROCESSING" /\ queue' = queue
            /\ \A u \in Trace \ {t} : status'[u] = status[u]
        BY <1>0, <2>1 DEF LuaFetch, SetHash, RedisTypeOK
      <3>2. claim[t][n] # "working"
        BY <1>12 DEF HandleFetchTask
      <3>3. /\ IsFiniteSet(Workers(t)')
            /\ Cardinality(Workers(t)') = Cardinality(Workers(t)) + 1
        BY <1>0, <1>2, <2>1, <3>2, WorkerJoins
      <3>4. \A u \in Trace : (InQueue(u)' <=> InQueue(u)) /\ Occurrences(u)' = Occurrences(u)
        BY <3>1 DEF InQueue, Occurrences
      <3>5. ServedTask(t)'
        BY <3>1, <3>3, <3>4 DEF ServedInv, ServedTask
      <3>6. \A u \in Trace \ {t} : claim'[u] = claim[u]
        BY <1>0, <2>1 DEF SetClaim, SetupTypeOK
      <3> QED
        BY <3>1, <3>4, <3>5, <3>6, TaskStep
    <2>2. CASE SetClaim(t, n, "none") /\ UNCHANGED redis
      BY <1>11, <2>2
    <2> QED
      BY <1>12, <2>1, <2>2 DEF HandleFetchTask
  <1>13. ASSUME NEW t \in Trace, NEW n \in Node, LoseClaim(t, n)
         PROVE  ServedInv'
    BY <1>11, <1>13 DEF LoseClaim
  <1>14. ASSUME NEW t \in Trace, NEW n \in Node, CompleteTask(t, n)
         PROVE  ServedInv'
    <2>1. ASSUME NEW c \in {"none", "refused"}, LuaComplete(t, n), SetClaim(t, n, c)
          PROVE  ServedInv'
      <3>1. /\ queue' = LRem(queue, t) /\ status'[t] \notin Live
            /\ \A u \in Trace \ {t} : status'[u] = status[u]
        BY <1>0, <2>1 DEF LuaComplete, SetHash, RedisTypeOK
      <3> QED
        BY <1>0, <1>10, <2>1, <3>1, EndedTask
    <2>2. CASE SetClaim(t, n, "refused") /\ UNCHANGED redis
      BY <1>11, <2>2
    <2> QED
      BY <1>14, <2>1, <2>2 DEF CompleteTask
  <1>15. ASSUME NEW t \in Trace, NEW n \in Node, FailTask(t, n)
         PROVE  ServedInv'
    <2>1. CASE LuaFail(t, n, "FAIL")
      <3>1. SetClaim(t, n, "none")
        BY <1>15 DEF FailTask
      <3> QED
        BY <1>0, <1>8, <1>10, <2>1, <3>1, EndedTask
    <2> QED
      BY <1>11, <1>15, <2>1 DEF FailTask
  <1>16. ASSUME StartScan \/ CollectId \/ EndScan \/ \E t \in Trace : InspectTask(t)
         PROVE  ServedInv'
    BY <1>1, <1>16 DEF StartScan, CollectId, EndScan, InspectTask
  <1>17. ASSUME NEW t \in Trace, DropEntry(t)
         PROVE  ServedInv'
    <2>1. /\ status[t] \notin Live /\ UNCHANGED <<status, claim>>
          /\ queue' = RemoveFirst(queue, t) \/ UNCHANGED queue
      BY <1>17 DEF DropEntry, DropInv
    <2>2. Workers(t)' = Workers(t)
      BY <2>1 DEF Workers
    <2>3. ServedTask(t)'
      BY <1>2, <2>1, <2>2 DEF ServedTask
    <2> QED
      BY <1>0, <1>1, <2>1, <2>3, FirstRemoved, TaskStep
  <1>18. ASSUME NEW t \in Trace, ReclaimTask(t)
         PROVE  ServedInv'
    <2>1. CASE LuaReclaim(t)
      <3>1. /\ status[t] = "PROCESSING" /\ status'[t] = "PENDING" /\ claim' = claim
            /\ queue' = Append(queue, t)
            /\ \A u \in Trace \ {t} : status'[u] = status[u]
        BY <1>0, <1>18, <2>1 DEF ReclaimTask, LuaReclaim, SetHash, RedisTypeOK
      <3>2. InQueue(t)' /\ Occurrences(t)' = Occurrences(t) + 1
        BY <1>0, <3>1, Appended
      <3>3. Workers(t)' = Workers(t)
        BY <3>1 DEF Workers
      <3>4. ServedTask(t)'
        <4>1. ServedTask(t)
          BY DEF ServedInv
        <4> QED
          BY <1>2, <3>1, <3>2, <3>3, <4>1 DEF ServedTask
      <3> QED
        BY <1>0, <3>1, <3>4, Appended, TaskStep
    <2> QED
      BY <1>1, <1>18, <2>1 DEF ReclaimTask
  <1>19. CASE Tick
    <2>1. \A t \in Trace : status'[t] \in Live => status'[t] = status[t]
      BY <1>0, <1>19 DEF Tick, RedisTypeOK
    <2> QED
      BY <1>19, <2>1, BystandingStep DEF Tick, Workers
  <1>20. CASE ServerCrash
    <2>1. \A t \in Trace : Workers(t)' = Workers(t)
      BY <1>0, <1>20 DEF ServerCrash, Workers, SetupTypeOK
    <2> QED
      BY <1>20, <2>1, BystandingStep DEF ServerCrash
  <1> QED
    BY <1>3, <1>5, <1>6, <1>7, <1>9, <1>12, <1>13, <1>14, <1>15, <1>16, <1>17, <1>18,
       <1>19, <1>20 DEF Next, Watchdog

LEMMA ServedInvariant == Spec => [](~misread => ServedInv)
  <1>1. Init => ServedInv /\ DropInv
    <2> SUFFICES ASSUME Init
                 PROVE  ServedInv /\ DropInv
      OBVIOUS
    <2>1. \A t \in Trace : Workers(t) = {} /\ status[t] = "NONE"
      BY DEF Init, Workers
    <2> QED
      BY <2>1, FS_EmptySet DEF Init, ServedInv, ServedTask, DropInv
  <1>2. ASSUME RedisInv, SetupInv, QueueInv, ScanInv, [Next]_vars,
               ~misread => ServedInv /\ DropInv, ~misread'
        PROVE  (ServedInv /\ DropInv)'
    <2>1. ~misread
      <3>1. ASSUME misread PROVE misread'
        BY <1>2, <3>1, MisreadStays
      <3> QED
        BY <1>2, <3>1
    <2> QED
      BY <1>2, <2>1, NextKeepsServedInv, NextKeepsDropInv, Zenon
  <1>3. RedisInv /\ SetupInv /\ (QueueInv /\ ScanInv) /\ [Next]_vars
          /\ (~misread => ServedInv /\ DropInv)
          => (~misread' => (ServedInv /\ DropInv)')
    BY <1>2
  <1> QED
    BY <1>1, <1>3, RedisInvariant, SetupInvariant, QueueInvariant, PTL DEF Spec

\* The watchdog never loses sight of a task that is pending or processing,
\* whichever scripts report errors and whatever happens between its read of a
\* missing task and the LREM of the entry, as long as no read of a live task
\* was answered with an error: no task comes (back) to life.
THEOREM LiveTasksStayQueued == Spec => []LiveTaskQueued
  <1>1. (~misread => ServedInv) => LiveTaskQueued
    BY DEF ServedInv, ServedTask, LiveTaskQueued
  <1> QED
    BY <1>1, ServedInvariant, PTL

\* Under the same condition no more nodes work on a task at once than it was
\* enqueued times, and one fewer while it waits to be claimed.
THEOREM OneWorkerPerEntry == Spec => []OneWorkerPerEnqueue
  <1>1. (QueueInv /\ ScanInv) /\ (~misread => ServedInv) => OneWorkerPerEnqueue
    <2> SUFFICES ASSUME QueueInv, ServedInv, NEW t \in Trace, status[t] \in Live
                 PROVE  Cardinality(Workers(t)) <= Occurrences(t)
      BY DEF OneWorkerPerEnqueue, Workers
    <2>1. ServedTask(t) /\ Occurrences(t) \in Nat
      BY OccurrencesType DEF ServedInv, QueueInv
    <2>2. Cardinality(Workers(t)) \in Nat
      BY <2>1, WorkersType DEF ServedTask
    <2> QED
      BY <2>1, <2>2 DEF ServedTask
  <1> QED
    BY <1>1, QueueInvariant, ServedInvariant, PTL
=============================================================================
