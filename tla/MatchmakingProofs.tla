------------------------- MODULE MatchmakingProofs -------------------------
(***************************************************************************)
(* Matchmaking, proved for every set of players, scores, ranges and waits: *)
(* the queue is sorted and holds a player once, whoever waits or sits in a *)
(* room is registered with a connection unless a login as somebody else or *)
(* a request for nobody's connection made them a stray, and two who leave  *)
(* the queue together meet.                                                *)
(***************************************************************************)
EXTENDS Matchmaking, RoomManagerProofs, FiniteSetTheorems, FunctionTheorems, WellFoundedInduction

-----------------------------------------------------------------------------
(* Numbers *)

\* The smallest index a search finds (FindIndex, lower_bound)
LEMMA Least ==
    ASSUME NEW T \in SUBSET Nat, T # {}
    PROVE  Min(T) \in T /\ \A y \in T : Min(T) <= y
<1> DEFINE R == OpToRel(<, Nat)
<1>1. IsWellFoundedOn(R, Nat)
  BY NatLessThanWellFounded
<1>2. \A x, y \in Nat : y < x => <<y, x>> \in R
  BY DEF OpToRel
<1> HIDE DEF R
<1>3. PICK x \in T : \A y \in T : ~ (<<y, x>> \in R)
  BY <1>1, WFMin
<1>4. \A y \in T : y \in Nat /\ x \in Nat /\ ~(y < x)
  BY <1>2, <1>3
<1>5. \E z \in T : \A y \in T : z =< y
  BY <1>4
<1> QED  BY <1>5 DEF Min

\* Induction, for a set of numbers instead of a formula
LEMMA AllNumbers ==
    ASSUME NEW K \in SUBSET Nat, 0 \in K, \A m \in K : m + 1 \in K
    PROVE  K = Nat
<1> DEFINE out == Nat \ K
<1>1. ASSUME out # {}
      PROVE  FALSE
  <2> DEFINE n == Min(out)
  <2>1. n \in out /\ \A y \in out : n <= y
    <3>1. out \in SUBSET Nat
      OBVIOUS
    <3> HIDE DEF out
    <3>2. QED
      BY <1>1, <3>1, Least
  <2> HIDE DEF n
  <2>2. n \in Nat /\ n # 0
    BY <2>1
  <2>3. n - 1 \in Nat /\ n - 1 \notin out
    BY <2>1, <2>2
  <2>4. n - 1 + 1 \in K
    BY <2>3
  <2>5. QED
    BY <2>1, <2>2, <2>4
<1>2. QED
  BY <1>1

UpTo(I, i) == {j \in I : j <= i}

\* More indices are up to a later one.
LEMMA UpToGrows ==
    ASSUME NEW I \in SUBSET Nat, IsFiniteSet(I), NEW i \in I, NEW k \in I, i < k
    PROVE  Cardinality(UpTo(I, i)) < Cardinality(UpTo(I, k))
<1>0. i \in Nat /\ k \in Nat /\ \A j \in I : j \in Nat
  OBVIOUS
<1>1. UpTo(I, i) \subseteq UpTo(I, k) /\ k \in UpTo(I, k) /\ k \notin UpTo(I, i)
  <2>1. \A j \in Nat : j <= i => j <= k
    BY <1>0
  <2>2. ~(k <= i) /\ k <= k
    BY <1>0
  <2>3. QED
    BY <1>0, <2>1, <2>2, Zenon DEF UpTo
<1>2. IsFiniteSet(UpTo(I, k))
  BY FS_Subset DEF UpTo
<1>3. /\ IsFiniteSet(UpTo(I, i))
      /\ Cardinality(UpTo(I, i)) <= Cardinality(UpTo(I, k))
      /\ Cardinality(UpTo(I, i)) = Cardinality(UpTo(I, k)) => UpTo(I, k) = UpTo(I, i)
  BY <1>1, <1>2, FS_Subset
<1>4. Cardinality(UpTo(I, i)) \in Nat /\ Cardinality(UpTo(I, k)) \in Nat
  BY <1>2, <1>3, FS_CardinalityType
<1>5. QED
  BY <1>1, <1>3, <1>4

\* A finite set of indices has an n-th one for every n up to its size: counting
\* those up to an index is a way to number them all.
LEMMA NthThere ==
    ASSUME NEW I \in SUBSET Nat, IsFiniteSet(I), NEW n \in 1 .. Cardinality(I)
    PROVE  Nth(I, n) \in I /\ Cardinality(UpTo(I, Nth(I, n))) = n
<1> DEFINE N == Cardinality(I)
           f == [i \in I |-> Cardinality(UpTo(I, i))]
<1>1. N \in Nat /\ IsFiniteSet(1 .. N) /\ Cardinality(1 .. N) = N
  <2>1. N \in Nat
    BY FS_CardinalityType
  <2> HIDE DEF N
  <2>2. QED
    BY <2>1, FS_Interval
<1>2. ASSUME NEW i \in I
      PROVE  Cardinality(UpTo(I, i)) \in 1 .. N
  <2>1. UpTo(I, i) \subseteq I /\ i \in UpTo(I, i)
    BY DEF UpTo
  <2>2. IsFiniteSet(UpTo(I, i)) /\ Cardinality(UpTo(I, i)) <= N
    BY <2>1, FS_Subset
  <2>3. Cardinality(UpTo(I, i)) \in Nat /\ Cardinality(UpTo(I, i)) # 0
    BY <2>1, <2>2, FS_CardinalityType, FS_EmptySet
  <2>4. QED
    BY <1>1, <2>2, <2>3
<1>3. f \in [I -> 1 .. N]
  BY <1>2
<1>4. ASSUME NEW i \in I, NEW k \in I, f[i] = f[k]
      PROVE  i = k
  <2>1. CASE i < k
    BY <1>1, <1>2, <1>4, <2>1, UpToGrows
  <2>2. CASE k < i
    BY <1>1, <1>2, <1>4, <2>2, UpToGrows
  <2>3. QED
    BY <2>1, <2>2
<1>5. f \in Injection(I, 1 .. N)
  BY <1>3, <1>4 DEF Injection, IsInjective
<1>6. f \in Surjection(I, 1 .. N)
  BY <1>1, <1>5, FS_Injection
<1>7. \E i \in I : f[i] = n
  BY <1>6 DEF Surjection
<1>8. \E i \in I : Cardinality({j \in I : j <= i}) = n
  BY <1>7 DEF UpTo
<1>9. QED
  BY <1>8 DEF Nth, UpTo

\* The n-th index is later than the ones before it.
LEMMA NthGrows ==
    ASSUME NEW I \in SUBSET Nat, IsFiniteSet(I),
           NEW m \in 1 .. Cardinality(I), NEW n \in 1 .. Cardinality(I), m < n
    PROVE  Nth(I, m) < Nth(I, n)
<1>1. /\ Nth(I, m) \in I /\ Cardinality(UpTo(I, Nth(I, m))) = m
      /\ Nth(I, n) \in I /\ Cardinality(UpTo(I, Nth(I, n))) = n
  BY NthThere
<1>2. m \in Nat /\ n \in Nat /\ Nth(I, m) \in Nat /\ Nth(I, n) \in Nat
  <2>1. Cardinality(I) \in Nat
    BY FS_CardinalityType
  <2>2. m \in Nat /\ n \in Nat
    BY <2>1
  <2>3. \A i \in I : i \in Nat
    OBVIOUS
  <2>4. Nth(I, m) \in I /\ Nth(I, n) \in I
    BY <1>1
  <2>5. QED
    BY <2>2, <2>3, <2>4
<1>3. Nth(I, m) # Nth(I, n)
  BY <1>1, <1>2
<1>4. CASE Nth(I, n) < Nth(I, m)
  <2>1. n < m
    BY <1>1, <1>4, UpToGrows
  <2>2. QED
    BY <1>2, <2>1
<1>5. QED
  BY <1>2, <1>3, <1>4

\* Every index is the n-th one for some n.
LEMMA NthAll ==
    ASSUME NEW I \in SUBSET Nat, IsFiniteSet(I), NEW i \in I
    PROVE  \E n \in 1 .. Cardinality(I) : Nth(I, n) = i
<1> DEFINE n == Cardinality(UpTo(I, i))
<1>1. UpTo(I, i) \subseteq I /\ i \in UpTo(I, i)
  BY DEF UpTo
<1>2. IsFiniteSet(UpTo(I, i)) /\ n <= Cardinality(I) /\ Cardinality(I) \in Nat
  BY <1>1, FS_Subset, FS_CardinalityType
<1>3. n \in Nat /\ n # 0
  BY <1>1, <1>2, FS_CardinalityType, FS_EmptySet
<1>4. n \in 1 .. Cardinality(I)
  BY <1>2, <1>3
<1>5. Nth(I, n) \in I /\ Cardinality(UpTo(I, Nth(I, n))) = n
  <2> HIDE DEF n
  <2>1. QED
    BY <1>4, NthThere
<1>6. Nth(I, n) = i
  <2> DEFINE k == Nth(I, n)
  <2>1. k \in I /\ Cardinality(UpTo(I, k)) = n
    BY <1>5
  <2> HIDE DEF k
  <2>2. k \in Nat /\ i \in Nat
    BY <2>1
  <2>3. ~(k < i)
    BY <1>3, <2>1, UpToGrows
  <2>4. ~(i < k)
    BY <1>3, <2>1, UpToGrows
  <2>5. k = i
    BY <2>2, <2>3, <2>4
  <2>6. QED
    BY <2>5 DEF k
<1>7. QED
  BY <1>4, <1>6

-----------------------------------------------------------------------------
(* Sequences *)

\* Inserting at an index (InsertAt), as WithoutAt is about erasing
LEMMA WithAt ==
    ASSUME NEW S, NEW s \in Seq(S), NEW k \in 1 .. Len(s) + 1, NEW e \in S
    PROVE  /\ InsertAt(s, k, e) \in Seq(S)
           /\ Len(InsertAt(s, k, e)) = Len(s) + 1
           /\ \A i \in 1 .. Len(s) + 1 : InsertAt(s, k, e)[i] =
                 IF i < k THEN s[i] ELSE IF i = k THEN e ELSE s[i - 1]
<1> DEFINE before == SubSeq(s, 1, k - 1)
           after  == SubSeq(s, k, Len(s))
           one    == <<e>>
           front  == before \o one
           t      == front \o after
<1>0. Len(s) \in Nat
  BY LenProperties
<1>1. Len(s) \in Nat /\ k \in Nat /\ 1 <= k /\ k <= Len(s) + 1
  BY <1>0
<1>2. /\ before \in Seq(S) /\ Len(before) = k - 1
      /\ \A i \in 1 .. k - 1 : before[i] = s[i]
  <2>1. \A i \in 1 .. k - 1 : s[i] \in S
    BY <1>1
  <2>2. QED
    BY <1>1, <2>1, SubSeqProperties
<1>3. /\ after \in Seq(S) /\ Len(after) = Len(s) - k + 1
      /\ \A i \in 1 .. Len(s) - k + 1 : after[i] = s[k + i - 1]
  <2>1. \A i \in k .. Len(s) : s[i] \in S
    BY <1>1
  <2>2. /\ after \in Seq(S)
        /\ Len(after) = IF k <= Len(s) THEN Len(s) - k + 1 ELSE 0
        /\ \A i \in 1 .. Len(s) - k + 1 : after[i] = s[k + i - 1]
    BY <1>1, <2>1, SubSeqProperties
  <2>3. QED
    BY <1>1, <2>2
<1>4. one \in Seq(S) /\ Len(one) = 1 /\ one[1] = e
  OBVIOUS
<1> HIDE DEF before, after, one
<1>5. /\ front \in Seq(S) /\ Len(front) = k
      /\ \A i \in 1 .. k : front[i] = IF i < k THEN s[i] ELSE e
  <2>1. /\ front \in Seq(S)
        /\ Len(front) = Len(before) + Len(one)
        /\ \A i \in 1 .. Len(before) + Len(one) : front[i] =
              IF i <= Len(before) THEN before[i] ELSE one[i - Len(before)]
    BY <1>2, <1>4, ConcatProperties
  <2>2. ASSUME NEW i \in 1 .. k
        PROVE  front[i] = IF i < k THEN s[i] ELSE e
    <3>1. front[i] = IF i <= k - 1 THEN before[i] ELSE one[i - (k - 1)]
      <4>1. Len(before) + Len(one) = k
        BY <1>1, <1>2, <1>4
      <4>2. QED
        BY <1>2, <2>1, <4>1
    <3>2. CASE i = k
      <4>1. i - (k - 1) = 1 /\ ~(i <= k - 1)
        BY <1>1, <3>2
      <4>2. QED
        BY <1>4, <3>1, <3>2, <4>1
    <3>3. CASE i < k
      <4>1. i \in 1 .. k - 1 /\ i <= k - 1
        BY <1>1, <3>3
      <4>2. QED
        BY <1>2, <3>1, <3>3, <4>1
    <3>4. i < k \/ i = k
      BY <1>1
    <3>5. QED
      BY <3>2, <3>3, <3>4
  <2>3. QED
    BY <1>1, <1>2, <1>4, <2>1, <2>2
<1> HIDE DEF front
<1>6. /\ t \in Seq(S)
      /\ Len(t) = Len(front) + Len(after)
      /\ \A i \in 1 .. Len(front) + Len(after) : t[i] =
            IF i <= Len(front) THEN front[i] ELSE after[i - Len(front)]
  BY <1>3, <1>5, ConcatProperties
<1>7. InsertAt(s, k, e) = t
  BY DEF InsertAt, t, front, before, after, one
<1> HIDE DEF t
<1>8. Len(t) = Len(s) + 1
  BY <1>1, <1>3, <1>5, <1>6
<1>9. ASSUME NEW i \in 1 .. Len(s) + 1
      PROVE  t[i] = IF i < k THEN s[i] ELSE IF i = k THEN e ELSE s[i - 1]
  <2>1. t[i] = IF i <= k THEN front[i] ELSE after[i - k]
    BY <1>1, <1>3, <1>5, <1>6
  <2>2. CASE i <= k
    BY <1>1, <1>5, <2>1, <2>2
  <2>3. CASE i > k
    <3>1. i - k \in 1 .. Len(s) - k + 1 /\ k + (i - k) - 1 = i - 1
      BY <1>1, <2>3
    <3>2. after[i - k] = s[k + (i - k) - 1]
      BY <1>3, <3>1
    <3>3. QED
      BY <1>1, <2>1, <2>3, <3>1, <3>2
  <2>4. QED
    BY <1>1, <2>2, <2>3
<1>10. QED
  BY <1>6, <1>7, <1>8, <1>9

-----------------------------------------------------------------------------
(* The queue *)

Entry == [player : Player, score : Nat, waited : Nat]

Once(entries) ==
    \A i, j \in DOMAIN entries : entries[i].player = entries[j].player => i = j

InOrder(entries) == entries \in Seq(Entry) /\ Sorted(entries) /\ Once(entries)

Names(entries) == {entries[i].player : i \in DOMAIN entries}

\* A queue by its indices
LEMMA SeqByIndex ==
    ASSUME NEW S, NEW s, NEW n \in Nat, DOMAIN s = 1 .. n, s = [i \in 1 .. n |-> s[i]],
           \A i \in 1 .. n : s[i] \in S
    PROVE  s \in Seq(S) /\ Len(s) = n
OBVIOUS

\* What remains of a queue in order is in order (the erasing at the end of TryMatch).
LEMMA PickedInOrder ==
    ASSUME NEW q, InOrder(q), NEW I \in SUBSET DOMAIN q
    PROVE  /\ InOrder(Picked(q, I))
           /\ Names(Picked(q, I)) = {q[i].player : i \in I}
<1> DEFINE N == Cardinality(I)
           t == Picked(q, I)
<1>1. /\ Len(q) \in Nat /\ DOMAIN q = 1 .. Len(q)
      /\ \A i \in DOMAIN q : q[i] \in Entry
  BY LenProperties DEF InOrder
<1>2. IsFiniteSet(1 .. Len(q))
  BY <1>1, FS_Interval
<1>3. I \in SUBSET Nat /\ IsFiniteSet(I) /\ N \in Nat
  BY <1>1, <1>2, FS_Subset, FS_CardinalityType
<1>4. /\ DOMAIN t = 1 .. N
      /\ t = [n \in 1 .. N |-> t[n]]
      /\ \A n \in 1 .. N : t[n] = q[Nth(I, n)]
  BY DEF Picked
<1>5. \A n \in 1 .. N : Nth(I, n) \in I
  BY <1>3, NthThere
<1>6. \A m, n \in 1 .. N : m < n => Nth(I, m) < Nth(I, n)
  BY <1>3, NthGrows
<1>7. \A i \in I : \E n \in 1 .. N : Nth(I, n) = i
  BY <1>3, NthAll
<1> HIDE DEF t, N
<1>8. t \in Seq(Entry)
  BY <1>1, <1>3, <1>4, <1>5, SeqByIndex
<1>9. Sorted(t)
  <2> SUFFICES ASSUME NEW m \in 1 .. N, NEW n \in 1 .. N, m < n
               PROVE  t[m].score <= t[n].score
    BY <1>4 DEF Sorted
  <2>1. Nth(I, m) \in DOMAIN q /\ Nth(I, n) \in DOMAIN q /\ Nth(I, m) < Nth(I, n)
    BY <1>5, <1>6
  <2>2. QED
    BY <1>4, <2>1 DEF InOrder, Sorted
<1>10. Once(t)
  <2> SUFFICES ASSUME NEW m \in 1 .. N, NEW n \in 1 .. N, t[m].player = t[n].player
               PROVE  m = n
    BY <1>4 DEF Once
  <2>1. Nth(I, m) = Nth(I, n)
    BY <1>4, <1>5 DEF InOrder, Once
  <2>2. Nth(I, m) \in Nat /\ ~(m < n) /\ ~(n < m)
    BY <1>1, <1>3, <1>5, <1>6, <2>1
  <2>3. QED
    BY <1>3, <2>2
<1>11. Names(t) = {q[i].player : i \in I}
  <2>1. ASSUME NEW i \in I
        PROVE  q[i].player \in Names(t)
    BY <1>4, <1>7 DEF Names
  <2>2. ASSUME NEW n \in 1 .. N
        PROVE  t[n].player \in {q[i].player : i \in I}
    BY <1>4, <1>5
  <2>3. QED
    BY <1>4, <2>1, <2>2 DEF Names
<1>12. QED
  BY <1>8, <1>9, <1>10, <1>11 DEF InOrder, t

\* Where FindIndex finds a player who is there
LEMMA HereAt ==
    ASSUME NEW q, InOrder(q), NEW p, Here(q, p) # {}
    PROVE  /\ Min(Here(q, p)) \in DOMAIN q
           /\ q[Min(Here(q, p))].player = p
           /\ \A i \in DOMAIN q : q[i].player = p => i = Min(Here(q, p))
<1>1. Here(q, p) \in SUBSET Nat
  BY DEF Here, InOrder
<1>2. Min(Here(q, p)) \in Here(q, p)
  BY <1>1, Least
<1>3. QED
  BY <1>2 DEF Here, InOrder, Once

\* CancelMatch takes one entry out, the only one the player has.
LEMMA CancelledInOrder ==
    ASSUME NEW q, InOrder(q), NEW p
    PROVE  InOrder(Cancelled(q, p)) /\ Names(Cancelled(q, p)) = Names(q) \ {p}
<1>1. CASE Here(q, p) = {}
  BY <1>1 DEF Cancelled, Here, Names
<1>2. CASE Here(q, p) # {}
  <2> DEFINE k == Min(Here(q, p))
             t == Cancelled(q, p)
  <2>1. /\ k \in DOMAIN q /\ q[k].player = p
        /\ \A i \in DOMAIN q : q[i].player = p => i = k
    BY <1>2, HereAt
  <2>2. t = RemoveAt(q, k)
    BY <1>2 DEF Cancelled
  <2> HIDE DEF t, k
  <2>3. q \in Seq(Entry) /\ Len(q) \in Nat /\ DOMAIN q = 1 .. Len(q) /\ k \in 1 .. Len(q)
    BY <2>1, LenProperties DEF InOrder
  <2>4. /\ t \in Seq(Entry)
        /\ Len(t) = Len(q) - 1
        /\ \A i \in 1 .. Len(q) - 1 : t[i] = IF i < k THEN q[i] ELSE q[i + 1]
    BY <2>2, <2>3, WithoutAt
  <2> DEFINE was(i) == IF i < k THEN i ELSE i + 1
  <2>5. DOMAIN t = 1 .. Len(q) - 1
    BY <2>3, <2>4, LenProperties
  <2>6. \A i \in DOMAIN t : was(i) \in DOMAIN q /\ was(i) # k /\ t[i] = q[was(i)]
    BY <2>3, <2>4, <2>5
  <2>7. \A i, j \in DOMAIN t : i < j => was(i) < was(j)
    BY <2>3, <2>5
  <2>8. \A i, j \in DOMAIN t : was(i) = was(j) => i = j
    BY <2>3, <2>5
  <2>9. ASSUME NEW j \in DOMAIN q, j # k
        PROVE  \E i \in DOMAIN t : was(i) = j
    <3>1. CASE j < k
      BY <2>3, <2>5, <3>1
    <3>2. CASE j > k
      <4>1. j - 1 \in DOMAIN t /\ was(j - 1) = j
        BY <2>3, <2>5, <3>2
      <4>2. QED
        BY <4>1
    <3>3. QED
      BY <2>3, <2>9, <3>1, <3>2
  <2> HIDE DEF was
  <2>10. Sorted(t)
    BY <2>6, <2>7 DEF InOrder, Sorted
  <2>11. Once(t)
    BY <2>6, <2>8 DEF InOrder, Once
  <2>12. Names(t) = Names(q) \ {p}
    <3>1. \A i \in DOMAIN t : t[i].player \in Names(q) \ {p}
      BY <2>1, <2>6 DEF Names
    <3>2. \A j \in DOMAIN q : q[j].player # p => q[j].player \in Names(t)
      BY <2>1, <2>6, <2>9 DEF Names
    <3>3. QED
      BY <3>1, <3>2 DEF Names
  <2>13. QED
    BY <2>4, <2>10, <2>11, <2>12 DEF InOrder, t
<1>3. QED
  BY <1>1, <1>2

\* A new entry goes where the queue stays sorted (lower_bound).
LEMMA InsertedInOrder ==
    ASSUME NEW q, InOrder(q), NEW p \in Player, NEW s \in Nat, Here(q, p) = {}
    PROVE  /\ InOrder(InsertAt(q, LowerBound(q, s), NewEntry(p, s)))
           /\ Names(InsertAt(q, LowerBound(q, s), NewEntry(p, s))) = Names(q) \cup {p}
<1> DEFINE big == {i \in DOMAIN q : q[i].score >= s} \cup {Len(q) + 1}
           k   == LowerBound(q, s)
           e   == NewEntry(p, s)
           t   == InsertAt(q, k, e)
<1>1. q \in Seq(Entry) /\ Len(q) \in Nat /\ DOMAIN q = 1 .. Len(q)
  BY LenProperties DEF InOrder
<1>2. \A i \in DOMAIN q : q[i] \in Entry /\ q[i].score \in Nat /\ q[i].player # p
  <2>1. \A i \in DOMAIN q : q[i] \in Entry
    BY <1>1
  <2>2. QED
    BY <2>1 DEF Entry, Here
<1>3. k \in big /\ \A y \in big : k <= y
  <2>1. big \in SUBSET Nat /\ big # {}
    BY <1>1
  <2>2. k = Min(big)
    BY DEF LowerBound
  <2> HIDE DEF big, k
  <2>3. QED
    BY <2>1, <2>2, Least
<1>4. k \in 1 .. Len(q) + 1 /\ k \in Nat /\ k <= Len(q) + 1
  BY <1>1, <1>3
<1>5. \A i \in DOMAIN q : i < k => q[i].score <= s
  <2> HIDE DEF k
  <2>1. QED
    BY <1>1, <1>2, <1>3, <1>4
<1>6. \A i \in DOMAIN q : k <= i => s <= q[i].score
  <2> SUFFICES ASSUME NEW i \in DOMAIN q, k <= i
               PROVE  s <= q[i].score
    OBVIOUS
  <2> HIDE DEF k
  <2>1. k # Len(q) + 1
    BY <1>1, <1>4
  <2>2. k \in DOMAIN q /\ q[k].score >= s
    BY <1>3, <2>1
  <2>3. q[k].score <= q[i].score
    <3>1. CASE k = i
      BY <1>2, <3>1
    <3>2. CASE k < i
      BY <2>2, <3>2 DEF InOrder, Sorted
    <3>3. QED
      BY <1>1, <1>4, <3>1, <3>2
  <2>4. QED
    BY <1>2, <2>2, <2>3
<1>7. e \in Entry /\ e.player = p /\ e.score = s
  BY DEF Entry, NewEntry
<1> HIDE DEF k, e
<1>8. /\ t \in Seq(Entry) /\ Len(t) = Len(q) + 1
      /\ \A i \in 1 .. Len(q) + 1 :
            t[i] = IF i < k THEN q[i] ELSE IF i = k THEN e ELSE q[i - 1]
  BY <1>1, <1>4, <1>7, WithAt
<1> HIDE DEF t
<1> DEFINE was(i) == IF i < k THEN i ELSE i - 1
<1>9. DOMAIN t = 1 .. Len(q) + 1
  BY <1>1, <1>8, LenProperties
<1>10. k \in DOMAIN t /\ t[k] = e
  BY <1>4, <1>8, <1>9
<1>11. \A i \in DOMAIN t : i # k => was(i) \in DOMAIN q /\ t[i] = q[was(i)]
  BY <1>1, <1>4, <1>8, <1>9
<1>12. \A i \in DOMAIN t : i # k => (i < k => was(i) < k) /\ (k < i => k <= was(i))
  BY <1>1, <1>4, <1>9
<1>13. \A i, j \in DOMAIN t : i # k /\ j # k /\ i < j => was(i) < was(j)
  BY <1>1, <1>4, <1>9
<1>14. \A i, j \in DOMAIN t : i # k /\ j # k /\ was(i) = was(j) => i = j
  BY <1>1, <1>4, <1>9
<1>15. ASSUME NEW j \in DOMAIN q
       PROVE  \E i \in DOMAIN t : i # k /\ was(i) = j
  <2>1. CASE j < k
    <3>1. j \in DOMAIN t /\ j # k /\ was(j) = j
      BY <1>1, <1>4, <1>9, <2>1
    <3>2. QED
      BY <3>1
  <2>2. CASE k <= j
    <3>1. j + 1 \in DOMAIN t /\ j + 1 # k /\ was(j + 1) = j
      BY <1>1, <1>4, <1>9, <2>2
    <3>2. QED
      BY <3>1
  <2>3. QED
    BY <1>1, <1>4, <2>1, <2>2
<1> HIDE DEF was
<1>16. Sorted(t)
  <2> SUFFICES ASSUME NEW i \in DOMAIN t, NEW j \in DOMAIN t, i < j
               PROVE  t[i].score <= t[j].score
    BY DEF Sorted
  <2>1. i \in Nat /\ j \in Nat
    BY <1>9
  <2>2. CASE i = k
    <3>1. k < j /\ j # k
      BY <1>4, <2>1, <2>2
    <3>2. s <= q[was(j)].score
      BY <1>6, <1>11, <1>12, <3>1
    <3>3. QED
      BY <1>7, <1>10, <1>11, <2>2, <3>1, <3>2
  <2>3. CASE j = k
    <3>1. i < k /\ i # k
      BY <1>4, <2>1, <2>3
    <3>2. q[was(i)].score <= s
      BY <1>5, <1>11, <1>12, <3>1
    <3>3. QED
      BY <1>7, <1>10, <1>11, <2>3, <3>1, <3>2
  <2>4. CASE i # k /\ j # k
    BY <1>11, <1>13, <2>4 DEF InOrder, Sorted
  <2>5. QED
    BY <2>2, <2>3, <2>4
<1>17. Once(t)
  <2> SUFFICES ASSUME NEW i \in DOMAIN t, NEW j \in DOMAIN t, t[i].player = t[j].player
               PROVE  i = j
    BY DEF Once
  <2>1. i = k <=> j = k
    BY <1>2, <1>7, <1>10, <1>11
  <2>2. CASE i # k /\ j # k
    BY <1>11, <1>14, <2>2 DEF InOrder, Once
  <2>3. QED
    BY <2>1, <2>2
<1>18. Names(t) = Names(q) \cup {p}
  <2>1. \A i \in DOMAIN t : t[i].player \in Names(q) \cup {p}
    BY <1>7, <1>10, <1>11 DEF Names
  <2>2. p \in Names(t)
    BY <1>7, <1>10 DEF Names
  <2>3. \A j \in DOMAIN q : q[j].player \in Names(t)
    BY <1>11, <1>15 DEF Names
  <2>4. QED
    BY <2>1, <2>2, <2>3 DEF Names
<1>19. QED
  BY <1>8, <1>16, <1>17, <1>18 DEF InOrder, t, e, k

\* std::sort keeps every entry, with its new score.
LEMMA SortedInOrder ==
    ASSUME NEW q, InOrder(q), NEW k \in DOMAIN q, NEW s \in Nat,
           NEW t \in Sorts([q EXCEPT ![k].score = s])
    PROVE  InOrder(t) /\ Names(t) = Names(q)
<1> DEFINE u == [q EXCEPT ![k].score = s]
           N == Len(q)
<1>1. q \in Seq(Entry) /\ N \in Nat /\ DOMAIN q = 1 .. N
  BY LenProperties DEF InOrder
<1>2. \A i \in 1 .. N : q[i] \in Entry
  BY <1>1
<1>3. DOMAIN u = 1 .. N /\ \A i \in 1 .. N : u[i] \in Entry /\ u[i].player = q[i].player
  <2>1. DOMAIN u = 1 .. N /\ \A i \in 1 .. N : u[i] = IF i = k THEN [q[i] EXCEPT !.score = s] ELSE q[i]
    BY <1>1
  <2> HIDE DEF u
  <2>2. ASSUME NEW i \in 1 .. N
        PROVE  u[i] \in Entry /\ u[i].player = q[i].player
    BY <1>2, <2>1 DEF Entry
  <2>3. QED
    BY <2>1, <2>2
<1> HIDE DEF u, N
<1>4. PICK f \in Bijection(1 .. N, 1 .. N) : t = [i \in 1 .. N |-> u[f[i]]]
  BY <1>3 DEF Sorts, u
<1>5. Sorted(t)
  BY DEF Sorts
<1>6. /\ \A i \in 1 .. N : f[i] \in 1 .. N
      /\ \A i, j \in 1 .. N : f[i] = f[j] => i = j
      /\ \A j \in 1 .. N : \E i \in 1 .. N : f[i] = j
  BY DEF Bijection, Injection, IsInjective, Surjection
<1>7. /\ DOMAIN t = 1 .. N
      /\ t = [i \in 1 .. N |-> t[i]]
      /\ \A i \in 1 .. N : t[i] \in Entry /\ t[i].player = q[f[i]].player
  BY <1>3, <1>4, <1>6
<1>8. t \in Seq(Entry)
  BY <1>1, <1>7, SeqByIndex
<1>9. Once(t)
  <2> SUFFICES ASSUME NEW i \in 1 .. N, NEW j \in 1 .. N, t[i].player = t[j].player
               PROVE  i = j
    BY <1>7 DEF Once
  <2>1. q[f[i]].player = q[f[j]].player
    BY <1>7
  <2>2. f[i] = f[j]
    BY <1>1, <1>6, <2>1 DEF InOrder, Once
  <2>3. QED
    BY <1>6, <2>2
<1>10. Names(t) = Names(q)
  <2>1. \A i \in 1 .. N : t[i].player \in Names(q)
    BY <1>1, <1>6, <1>7 DEF Names
  <2>2. ASSUME NEW j \in 1 .. N
        PROVE  q[j].player \in Names(t)
    <3>1. PICK i \in 1 .. N : f[i] = j
      BY <1>6
    <3>2. t[i].player = q[j].player /\ i \in DOMAIN t
      BY <1>7, <3>1
    <3>3. QED
      BY <3>2 DEF Names
  <2>3. QED
    BY <1>1, <1>7, <2>1, <2>2 DEF Names
<1>11. QED
  BY <1>5, <1>8, <1>9, <1>10 DEF InOrder

\* A player enters, or gets another score (EnterQueue).
LEMMA EnteredInOrder ==
    ASSUME NEW q, InOrder(q), NEW p \in Player, NEW s \in Nat, NEW t \in EnterQueue(q, p, s)
    PROVE  InOrder(t) /\ Names(t) = Names(q) \cup {p}
<1>1. CASE Here(q, p) = {}
  <2>1. t = InsertAt(q, LowerBound(q, s), NewEntry(p, s))
    BY <1>1 DEF EnterQueue
  <2>2. QED
    BY <1>1, <2>1, InsertedInOrder
<1>2. CASE Here(q, p) # {}
  <2>1. /\ Min(Here(q, p)) \in DOMAIN q
        /\ q[Min(Here(q, p))].player = p
    BY <1>2, HereAt
  <2>2. t \in Sorts([q EXCEPT ![Min(Here(q, p))].score = s])
    BY <1>2 DEF EnterQueue
  <2>3. InOrder(t) /\ Names(t) = Names(q)
    BY <2>1, <2>2, SortedInOrder
  <2>4. p \in Names(q)
    BY <2>1 DEF Names
  <2>5. QED
    BY <2>3, <2>4
<1>3. QED
  BY <1>1, <1>2

-----------------------------------------------------------------------------
(* The walk through the neighbours *)

Fits(q, i) ==
    LET d == Distance(q[i], q[i + 1])
    IN  d <= CurrentEloRange(q[i]) /\ d <= CurrentEloRange(q[i + 1])

Begins(q, g, i) ==
    /\ i > 0
    /\ i < Len(q)
    /\ ~g[i - 1]
    /\ Fits(q, i)

\* The function of FirstOfPair
First(q) == CHOOSE g : g = [i \in 0 .. Len(q) |-> Begins(q, g, i)]

LEMMA FirstIs == ASSUME NEW q PROVE FirstOfPair(q) = {i \in DOMAIN q : First(q)[i]}
BY DEF FirstOfPair, First, Begins, Fits

\* A walk up to n can go one further, so there is a walk to the end (TryMatch).
LEMMA WalkEnds ==
    ASSUME NEW q, Len(q) \in Nat
    PROVE  First(q) = [i \in 0 .. Len(q) |-> Begins(q, First(q), i)]
<1> DEFINE Walk(n) == \E g : g = [i \in 0 .. n |-> Begins(q, g, i)]
           K == {n \in Nat : Walk(n)}
<1>1. Walk(0)
  <2> DEFINE g == [i \in 0 .. 0 |-> FALSE]
  <2>1. ASSUME NEW i \in 0 .. 0
        PROVE  g[i] = Begins(q, g, i)
    <3>1. g[i] = FALSE /\ ~(i > 0)
      OBVIOUS
    <3>2. Begins(q, g, i) = FALSE
      BY <3>1, Zenon DEF Begins
    <3>3. QED
      BY <3>1, <3>2
  <2>2. g = [i \in 0 .. 0 |-> Begins(q, g, i)]
    BY <2>1
  <2>3. QED
    BY <2>2
<1>2. ASSUME NEW n \in Nat, Walk(n)
      PROVE  Walk(n + 1)
  <2>1. PICK g : g = [i \in 0 .. n |-> Begins(q, g, i)]
    BY <1>2
  <2> DEFINE h == [i \in 0 .. n + 1 |-> IF i = n + 1 THEN Begins(q, g, i) ELSE g[i]]
  <2>2. \A i \in 0 .. n : h[i] = g[i]
    OBVIOUS
  <2>3. ASSUME NEW i \in 0 .. n + 1
        PROVE  h[i] = Begins(q, h, i)
    <3>1. h[i] = Begins(q, g, i)
      <4>1. CASE i = n + 1
        BY <4>1
      <4>2. CASE i \in 0 .. n
        BY <2>1, <2>2, <4>2
      <4>3. QED
        BY <4>1, <4>2
    <3>2. i > 0 => h[i - 1] = g[i - 1]
      <4>1. i > 0 => i - 1 \in 0 .. n
        OBVIOUS
      <4> HIDE DEF h
      <4>2. QED
        BY <2>2, <4>1
    <3> HIDE DEF h
    <3>3. Begins(q, g, i) = Begins(q, h, i)
      BY <3>2, Zenon DEF Begins
    <3>4. QED
      BY <3>1, <3>3
  <2>4. h = [i \in 0 .. n + 1 |-> Begins(q, h, i)]
    BY <2>3
  <2>5. QED
    BY <2>4
<1> HIDE DEF Walk
<1>3. K = Nat
  <2>1. K \in SUBSET Nat /\ 0 \in K /\ \A n \in K : n + 1 \in K
    BY <1>1, <1>2
  <2> HIDE DEF K
  <2>2. QED
    BY <2>1, AllNumbers
<1>4. Walk(Len(q))
  BY <1>3
<1>5. QED
  BY <1>4 DEF Walk, First

\* Who begins a pair has a neighbour, who does not begin one.
LEMMA PairsApart ==
    ASSUME NEW q, Len(q) \in Nat, DOMAIN q = 1 .. Len(q)
    PROVE  /\ \A i \in FirstOfPair(q) : i \in DOMAIN q /\ i + 1 \in DOMAIN q
           /\ \A i \in FirstOfPair(q) : i + 1 \notin FirstOfPair(q)
<1>1. ASSUME NEW i \in 1 .. Len(q), First(q)[i]
      PROVE  i < Len(q) /\ ~First(q)[i - 1]
  <2>1. First(q)[i] = Begins(q, First(q), i)
    BY WalkEnds
  <2>2. QED
    BY <1>1, <2>1 DEF Begins
<1>2. \A i \in FirstOfPair(q) : i \in 1 .. Len(q) /\ First(q)[i]
  BY FirstIs
<1>3. ASSUME NEW i \in FirstOfPair(q)
      PROVE  i \in DOMAIN q /\ i + 1 \in DOMAIN q
  BY <1>1, <1>2
<1>4. ASSUME NEW i \in FirstOfPair(q), i + 1 \in FirstOfPair(q)
      PROVE  FALSE
  <2> DEFINE k == i + 1
  <2>1. i \in 1 .. Len(q) /\ First(q)[i]
    BY <1>2
  <2>2. k \in 1 .. Len(q) /\ First(q)[k]
    BY <1>2, <1>4
  <2>3. k - 1 = i
    BY <2>1
  <2> HIDE DEF k
  <2>4. ~First(q)[k - 1]
    BY <1>1, <2>2
  <2>5. QED
    BY <2>1, <2>3, <2>4
<1>5. QED
  BY <1>3, <1>4

-----------------------------------------------------------------------------
(* The callbacks, one after the other *)

\* What FoldLeft computes: the state after the callbacks of the pairs in T, the
\* last one last.
After(st, pairs, g, T) ==
    IF T = {} THEN st ELSE OnMatchFound(g[T \ {Max(T)}], pairs[Max(T)])

Fold(st, pairs) == CHOOSE g : g = [T \in SUBSET DOMAIN pairs |-> After(st, pairs, g, T)]

LEMMA FoldIs ==
    ASSUME NEW st, NEW pairs
    PROVE  FoldLeft(OnMatchFound, st, pairs) = Fold(st, pairs)[DOMAIN pairs]
BY DEF FoldLeft, MapThenFoldSet, Fold, After

\* The last of the pairs up to m + 1
LEMMA LastIsMax ==
    ASSUME NEW m \in Nat, NEW T \in SUBSET (1 .. m + 1), m + 1 \in T
    PROVE  Max(T) = m + 1
<1>1. \A y \in T : y \in Nat /\ m + 1 >= y
  OBVIOUS
<1>2. \A x \in T : (\A y \in T : x >= y) => x = m + 1
  BY <1>1
<1>3. QED
  BY <1>1, <1>2 DEF Max

\* The callbacks of m pairs and of one more
LEMMA FoldExists ==
    ASSUME NEW st, NEW pairs, NEW n \in Nat
    PROVE  \E g : g = [T \in SUBSET (1 .. n) |-> After(st, pairs, g, T)]
<1> DEFINE Does(m) == \E g : g = [T \in SUBSET (1 .. m) |-> After(st, pairs, g, T)]
           K == {m \in Nat : Does(m)}
<1>1. Does(0)
  <2> DEFINE g == [T \in SUBSET (1 .. 0) |-> st]
  <2>1. \A T \in SUBSET (1 .. 0) : T = {}
    OBVIOUS
  <2>2. g = [T \in SUBSET (1 .. 0) |-> After(st, pairs, g, T)]
    BY <2>1 DEF After
  <2>3. QED
    BY <2>2
<1>2. ASSUME NEW m \in Nat, Does(m)
      PROVE  Does(m + 1)
  <2>1. PICK g : g = [T \in SUBSET (1 .. m) |-> After(st, pairs, g, T)]
    BY <1>2
  <2> DEFINE h == [T \in SUBSET (1 .. m + 1) |->
                      IF m + 1 \in T THEN OnMatchFound(g[T \ {m + 1}], pairs[m + 1]) ELSE g[T]]
  <2>2. \A T \in SUBSET (1 .. m) : T \in SUBSET (1 .. m + 1) /\ m + 1 \notin T
    OBVIOUS
  <2>3. \A T \in SUBSET (1 .. m) : h[T] = g[T]
    BY <2>2
  <2>4. ASSUME NEW T \in SUBSET (1 .. m + 1)
        PROVE  h[T] = After(st, pairs, h, T)
    <3>1. CASE m + 1 \in T
      <4>1. Max(T) = m + 1
        BY <3>1, LastIsMax
      <4>2. T \ {m + 1} \in SUBSET (1 .. m)
        OBVIOUS
      <4>3. h[T] = OnMatchFound(g[T \ {m + 1}], pairs[m + 1])
        BY <3>1
      <4>4. h[T \ {m + 1}] = g[T \ {m + 1}]
        BY <2>3, <4>2
      <4> HIDE DEF h
      <4>5. QED
        BY <3>1, <4>1, <4>3, <4>4 DEF After
    <3>2. CASE m + 1 \notin T
      <4>1. T \in SUBSET (1 .. m)
        BY <3>2
      <4>2. g[T] = After(st, pairs, g, T)
        BY <2>1, <4>1
      <4>3. h[T] = g[T] /\ h[T \ {Max(T)}] = g[T \ {Max(T)}]
        <5>1. T \ {Max(T)} \in SUBSET (1 .. m)
          BY <4>1
        <5> HIDE DEF h
        <5>2. QED
          BY <2>3, <4>1, <5>1
      <4> HIDE DEF h
      <4>4. QED
        BY <4>2, <4>3 DEF After
    <3>3. QED
      BY <3>1, <3>2
  <2>5. h = [T \in SUBSET (1 .. m + 1) |-> After(st, pairs, h, T)]
    BY <2>4
  <2>6. QED
    BY <2>5
<1> HIDE DEF Does
<1>3. K = Nat
  <2>1. K \in SUBSET Nat /\ 0 \in K /\ \A m \in K : m + 1 \in K
    BY <1>1, <1>2
  <2> HIDE DEF K
  <2>2. QED
    BY <2>1, AllNumbers
<1>4. Does(n)
  BY <1>3
<1>5. QED
  BY <1>4 DEF Does

\* The state after the first k callbacks (the loop over match_scores)
Found(st, pairs, k) == Fold(st, pairs)[1 .. k]

LEMMA FoundFirst ==
    ASSUME NEW st, NEW pairs, NEW n \in Nat, DOMAIN pairs = 1 .. n
    PROVE  /\ Found(st, pairs, 0) = st
           /\ FoldLeft(OnMatchFound, st, pairs) = Found(st, pairs, n)
<1>1. Fold(st, pairs) = [T \in SUBSET (1 .. n) |-> After(st, pairs, Fold(st, pairs), T)]
  BY FoldExists DEF Fold
<1>2. Fold(st, pairs)[{}] = st
  BY <1>1 DEF After
<1>3. 1 .. 0 = {}
  OBVIOUS
<1>4. QED
  BY <1>2, <1>3, FoldIs DEF Found

LEMMA FoundNext ==
    ASSUME NEW st, NEW pairs, NEW n \in Nat, DOMAIN pairs = 1 .. n,
           NEW k \in Nat, k < n
    PROVE  Found(st, pairs, k + 1) = OnMatchFound(Found(st, pairs, k), pairs[k + 1])
<1> DEFINE T == 1 .. k + 1
<1>1. Fold(st, pairs) = [X \in SUBSET (1 .. n) |-> After(st, pairs, Fold(st, pairs), X)]
  BY FoldExists DEF Fold
<1>2. T \in SUBSET (1 .. n) /\ k + 1 \in T
  OBVIOUS
<1>3. Max(T) = k + 1
  <2>1. T \in SUBSET (1 .. k + 1)
    OBVIOUS
  <2> HIDE DEF T
  <2>2. QED
    BY <1>2, <2>1, LastIsMax
<1>4. T \ {k + 1} = 1 .. k
  OBVIOUS
<1> HIDE DEF T
<1>5. Fold(st, pairs)[T] = After(st, pairs, Fold(st, pairs), T)
  BY <1>1, <1>2
<1>6. Fold(st, pairs)[T] = OnMatchFound(Fold(st, pairs)[1 .. k], pairs[k + 1])
  BY <1>2, <1>3, <1>4, <1>5 DEF After
<1>7. QED
  BY <1>6 DEF Found, T

-----------------------------------------------------------------------------
(* One callback *)

MatchTimer == [room : Nat, p1 : Player, s1 : Nat, p2 : Player, s2 : Nat]

\* PlacesInv of a record, without the bound on the number of rooms
Housed(st) ==
    /\ st.room_id_counter \in Nat \ {0}
    /\ st.rooms = [r \in DOMAIN st.rooms |-> st.rooms[r]]
    /\ \A r \in DOMAIN st.rooms :
          /\ r \in Nat /\ r # NoRoom /\ r < st.room_id_counter
          /\ st.rooms[r] \in Room /\ ListOK(st.rooms[r])
    /\ st.player_room \in [Player -> Nat]
    /\ \A p \in Player, r \in Nat : r # NoRoom =>
          (st.player_room[p] = r <=> r \in DOMAIN st.rooms /\ p \in Members(st.rooms[r]))
    /\ st.matches \in Seq(MatchTimer)

TwoPlayers(pair) ==
    /\ pair[1] \in Entry
    /\ pair[2] \in Entry
    /\ pair[1].player # pair[2].player

Both(pair) == {pair[1].player, pair[2].player}

\* Two who were free have a room of their own now, one that was not there.
Met(a, b, pair) ==
    LET one == pair[1].player
        two == pair[2].player
        r   == b.player_room[one]
    IN  Free(a, one) /\ Free(a, two) =>
          /\ b.player_room[two] = r
          /\ r # NoRoom
          /\ r \in DOMAIN b.rooms \ DOMAIN a.rooms
          /\ Members(b.rooms[r]) = {one, two}
          /\ b.rooms[r].state = "WAITING"

\* From a state to a later one: rooms are left alone, and so is who has one.
Kept(a, b) ==
    /\ \A r \in DOMAIN a.rooms : r \in DOMAIN b.rooms /\ b.rooms[r] = a.rooms[r]
    /\ \A p \in Player : ~Free(a, p) => b.player_room[p] = a.player_room[p]

\* A room for the first, with the second in it or without
LEMMA RoomForTwo ==
    ASSUME NEW one \in Player, NEW two \in Player, one # two
    PROVE  LET new  == NewRoom(one, 2)
               full == [new EXCEPT !.players = Append(@, two)]
           IN  /\ new \in Room /\ ListOK(new) /\ Members(new) = {one}
               /\ full \in Room /\ ListOK(full) /\ Members(full) = {one, two}
               /\ full.state = "WAITING"
<1> DEFINE new  == NewRoom(one, 2)
           full == [new EXCEPT !.players = Append(@, two)]
<1>1. <<one>> \in Seq(Player) /\ Len(<<one>>) = 1 /\ <<one>>[1] = one /\ DOMAIN <<one>> = 1 .. 1
  OBVIOUS
<1>2. 2 \in Capacities
  BY MatchConstants
<1>3. new \in Room /\ new.players = <<one>> /\ new.max = 2 /\ new.state = "WAITING"
  BY <1>1, <1>2 DEF NewRoom, Room, RoomState
<1>4. NoDuplicates(<<one>>) /\ ToSet(<<one>>) = {one}
  BY <1>1 DEF NoDuplicates, ToSet
<1>5. /\ Append(<<one>>, two) \in Seq(Player)
      /\ Len(Append(<<one>>, two)) = 2
      /\ ToSet(Append(<<one>>, two)) = {one} \cup {two}
      /\ NoDuplicates(Append(<<one>>, two))
  <2> DEFINE s == <<one>>
  <2>1. s \in Seq(Player) /\ two \notin ToSet(s) /\ NoDuplicates(s) /\ Len(s) = 1
    BY <1>1, <1>4
  <2>2. ToSet(s) = {one}
    BY <1>4
  <2> HIDE DEF s
  <2>3. /\ Append(s, two) \in Seq(Player)
        /\ Len(Append(s, two)) = Len(s) + 1
        /\ ToSet(Append(s, two)) = ToSet(s) \cup {two}
        /\ NoDuplicates(Append(s, two))
    BY <2>1, AppendNew
  <2>4. QED
    BY <2>1, <2>2, <2>3 DEF s
<1> DEFINE l == Append(<<one>>, two)
<1>6. full = [new EXCEPT !.players = l]
  BY <1>3
<1> HIDE DEF new, l
<1>7. full \in Room /\ full.players = l /\ full.max = 2 /\ full.state = "WAITING"
  BY <1>3, <1>5, <1>6 DEF Room, l
<1> HIDE DEF full
<1>8. ListOK(new) /\ Members(new) = {one}
  BY <1>1, <1>3, <1>4 DEF ListOK, Members
<1>9. ListOK(full) /\ Members(full) = {one, two}
  BY <1>5, <1>7 DEF ListOK, Members, l
<1>10. QED
  BY <1>3, <1>7, <1>8, <1>9 DEF new, full

\* What a callback does to the records of who is where (OnMatchFound)
LEMMA CallbackPlaces ==
    ASSUME NEW a, Housed(a), NEW pair, TwoPlayers(pair)
    PROVE  LET b == OnMatchFound(a, pair)
           IN  /\ Housed(b)
               /\ Kept(a, b)
               /\ b.room_id_counter <= a.room_id_counter + 1
               /\ \A p \in Player \ Both(pair) : b.player_room[p] = a.player_room[p]
               /\ Met(a, b, pair)
<1> DEFINE b    == OnMatchFound(a, pair)
           one  == pair[1].player
           two  == pair[2].player
           r    == a.room_id_counter
           new  == NewRoom(one, 2)
           both == Free(a, two)
           full == [new EXCEPT !.players = Append(@, two)]
           room == IF both THEN full ELSE new
           m    == [room |-> r, p1 |-> one, s1 |-> pair[1].score,
                                p2 |-> two, s2 |-> pair[2].score]
<1>1. one \in Player /\ two \in Player /\ one # two /\ pair[1].score \in Nat /\ pair[2].score \in Nat
  BY DEF TwoPlayers, Entry
<1>2. r \in Nat /\ r # NoRoom /\ r \notin DOMAIN a.rooms
  BY DEF Housed, NoRoom
<1>3. CASE ~Free(a, one)
  <2>1. b = a
    BY <1>3 DEF OnMatchFound
  <2>2. QED
    BY <1>2, <1>3, <2>1 DEF Housed, Kept, Met
<1>4. CASE Free(a, one)
  <2>1. /\ b.rooms = [x \in DOMAIN a.rooms \cup {r} |-> IF x = r THEN room ELSE a.rooms[x]]
        /\ b.player_room = [p \in Player |-> IF p = one \/ (p = two /\ both)
                                             THEN r ELSE a.player_room[p]]
        /\ b.room_id_counter = r + 1
        /\ b.matches = IF ticking THEN Append(a.matches, m) ELSE a.matches
    BY <1>4 DEF OnMatchFound
  <2> HIDE DEF b
  <2>2. /\ room \in Room /\ ListOK(room)
        /\ Members(room) = {one} \cup (IF both THEN {two} ELSE {})
        /\ both => room.state = "WAITING"
    <3>1. /\ new \in Room /\ ListOK(new) /\ Members(new) = {one}
          /\ full \in Room /\ ListOK(full) /\ Members(full) = {one, two}
          /\ full.state = "WAITING"
      BY <1>1, RoomForTwo
    <3> HIDE DEF new, full, both
    <3>2. QED
      BY <3>1
  <2> HIDE DEF room
  <2>3. /\ DOMAIN b.rooms = DOMAIN a.rooms \cup {r}
        /\ b.rooms[r] = room
        /\ \A x \in DOMAIN a.rooms : b.rooms[x] = a.rooms[x]
    BY <1>2, <2>1
  <2>4. \A p \in Player : b.player_room[p] = IF p = one \/ (p = two /\ both)
                                             THEN r ELSE a.player_room[p]
    BY <2>1
  <2>5. m \in MatchTimer
    BY <1>1, <1>2 DEF MatchTimer
  <2>6. b.matches \in Seq(MatchTimer)
    <3> HIDE DEF m
    <3>1. a.matches \in Seq(MatchTimer)
      BY DEF Housed
    <3>2. Append(a.matches, m) \in Seq(MatchTimer)
      BY <2>5, <3>1, AppendProperties
    <3>3. QED
      BY <2>1, <3>1, <3>2
  <2>7. b.player_room \in [Player -> Nat]
    BY <1>2, <2>1 DEF Housed
  <2>8. \A x \in DOMAIN b.rooms :
          /\ x \in Nat /\ x # NoRoom /\ x < b.room_id_counter
          /\ b.rooms[x] \in Room /\ ListOK(b.rooms[x])
    <3> SUFFICES ASSUME NEW x \in DOMAIN b.rooms
                 PROVE  /\ x \in Nat /\ x # NoRoom /\ x < b.room_id_counter
                        /\ b.rooms[x] \in Room /\ ListOK(b.rooms[x])
      OBVIOUS
    <3>1. CASE x = r
      BY <1>2, <2>1, <2>2, <2>3, <3>1
    <3>2. CASE x \in DOMAIN a.rooms
      <4>1. x \in Nat /\ x # NoRoom /\ x < r /\ a.rooms[x] \in Room /\ ListOK(a.rooms[x])
        BY <3>2 DEF Housed
      <4>2. QED
        BY <1>2, <2>1, <2>3, <3>2, <4>1
    <3>3. QED
      BY <2>3, <3>1, <3>2
  <2>9. \A p \in Player : p = one \/ (p = two /\ both) => a.player_room[p] = NoRoom
    BY <1>4 DEF Free
  <2>10. ASSUME NEW p \in Player, NEW x \in Nat, x # NoRoom
         PROVE  b.player_room[p] = x <=> x \in DOMAIN b.rooms /\ p \in Members(b.rooms[x])
    <3>1. a.player_room[p] = x <=> x \in DOMAIN a.rooms /\ p \in Members(a.rooms[x])
      BY <2>10 DEF Housed
    <3>2. a.player_room[p] # r
      <4>1. a.player_room[p] = r <=> r \in DOMAIN a.rooms /\ p \in Members(a.rooms[r])
        BY <1>2 DEF Housed
      <4>2. QED
        BY <1>2, <4>1
    <3>3. p \in Members(room) <=> p = one \/ (p = two /\ both)
      BY <2>2
    <3>4. CASE x = r
      BY <2>3, <2>4, <3>2, <3>3, <3>4
    <3>5. CASE x # r
      BY <2>3, <2>4, <2>9, <2>10, <3>1, <3>5
    <3>6. QED
      BY <3>4, <3>5
  <2>11. Housed(b)
    <3>1. b.room_id_counter \in Nat \ {0}
      BY <1>2, <2>1
    <3>2. b.rooms = [x \in DOMAIN b.rooms |-> b.rooms[x]]
      BY <2>1, <2>3
    <3>3. QED
      BY <2>6, <2>7, <2>8, <2>10, <3>1, <3>2 DEF Housed
  <2>12. Kept(a, b)
    BY <2>3, <2>4, <2>9 DEF Kept, Free
  <2>13. Met(a, b, pair)
    <3> SUFFICES ASSUME both
                 PROVE  /\ b.player_room[two] = b.player_room[one]
                        /\ b.player_room[one] # NoRoom
                        /\ b.player_room[one] \in DOMAIN b.rooms \ DOMAIN a.rooms
                        /\ Members(b.rooms[b.player_room[one]]) = {one, two}
                        /\ b.rooms[b.player_room[one]].state = "WAITING"
      BY DEF Met
    <3>1. b.player_room[one] = r /\ b.player_room[two] = r
      BY <1>1, <2>4
    <3>2. QED
      BY <1>2, <2>2, <2>3, <3>1
  <2>14. \A p \in Player \ Both(pair) : b.player_room[p] = a.player_room[p]
    BY <2>4 DEF Both
  <2>15. b.room_id_counter <= a.room_id_counter + 1
    BY <1>2, <2>1
  <2>16. QED
    BY <2>11, <2>12, <2>13, <2>14, <2>15 DEF b
<1>5. QED
  BY <1>3, <1>4

\* Pairs of which no two share a player
Disjoint(pairs) ==
    /\ \A k \in DOMAIN pairs : TwoPlayers(pairs[k])
    /\ \A j, k \in DOMAIN pairs : j # k => Both(pairs[j]) \cap Both(pairs[k]) = {}

Of(pairs) == UNION {Both(pairs[k]) : k \in DOMAIN pairs}

\* After the callbacks of the first k pairs, those have met; the others wait.
Halfway(a, b, pairs, k) ==
    /\ Housed(b)
    /\ Kept(a, b)
    /\ b.room_id_counter <= a.room_id_counter + k
    /\ \A p \in Player \ UNION {Both(pairs[j]) : j \in 1 .. k} : b.player_room[p] = a.player_room[p]
    /\ \A j \in 1 .. k : Met(a, b, pairs[j])

\* The callback for the next pair keeps what the ones before it did.
LEMMA OneMoreCallback ==
    ASSUME NEW pairs, Disjoint(pairs), NEW n \in Nat, DOMAIN pairs = 1 .. n,
           NEW a, NEW b, NEW k \in Nat, k < n, Housed(a), Halfway(a, b, pairs, k)
    PROVE  Halfway(a, OnMatchFound(b, pairs[k + 1]), pairs, k + 1)
<1> DEFINE c    == OnMatchFound(b, pairs[k + 1])
           pair == pairs[k + 1]
           Done(j) == UNION {Both(pairs[i]) : i \in 1 .. j}
<1>1. k + 1 \in DOMAIN pairs /\ 1 .. k + 1 = (1 .. k) \cup {k + 1}
  OBVIOUS
<1>2. TwoPlayers(pair) /\ Housed(b)
  BY <1>1 DEF Disjoint, Halfway
<1>3. /\ Housed(c)
      /\ Kept(b, c)
      /\ c.room_id_counter <= b.room_id_counter + 1
      /\ \A p \in Player \ Both(pair) : c.player_room[p] = b.player_room[p]
      /\ Met(b, c, pair)
  BY <1>2, CallbackPlaces
<1> HIDE DEF c
<1>4. Kept(a, b)
  BY DEF Halfway
<1>5. Kept(a, c)
  <2>1. \A r \in DOMAIN a.rooms : r \in DOMAIN c.rooms /\ c.rooms[r] = a.rooms[r]
    BY <1>3, <1>4 DEF Kept
  <2>2. ASSUME NEW p \in Player, ~Free(a, p)
        PROVE  c.player_room[p] = a.player_room[p]
    <3>1. b.player_room[p] = a.player_room[p]
      BY <1>4, <2>2 DEF Kept
    <3>2. ~Free(b, p)
      BY <2>2, <3>1 DEF Free
    <3>3. QED
      BY <1>3, <3>1, <3>2 DEF Kept
  <2>3. QED
    BY <2>1, <2>2 DEF Kept
<1>6. c.room_id_counter <= a.room_id_counter + (k + 1)
  <2>1. a.room_id_counter \in Nat /\ b.room_id_counter \in Nat /\ c.room_id_counter \in Nat
    BY <1>2, <1>3 DEF Housed
  <2>2. b.room_id_counter <= a.room_id_counter + k
    BY DEF Halfway
  <2>3. QED
    BY <1>3, <2>1, <2>2
<1>7. Done(k + 1) = Done(k) \cup Both(pair)
  <2>1. ASSUME NEW x
        PROVE  x \in Done(k + 1) <=> x \in Done(k) \/ x \in Both(pair)
    BY <1>1
  <2>2. QED
    BY <2>1
<1>8. \A p \in Player \ Done(k + 1) : c.player_room[p] = a.player_room[p]
  <2>1. \A p \in Player \ Done(k) : b.player_room[p] = a.player_room[p]
    BY DEF Halfway
  <2> HIDE DEF Done
  <2>2. QED
    BY <1>3, <1>7, <2>1
<1>9. ASSUME NEW j \in 1 .. k
      PROVE  Met(a, c, pairs[j])
  <2> DEFINE one == pairs[j][1].player
             two == pairs[j][2].player
             r   == b.player_room[one]
  <2> SUFFICES ASSUME Free(a, one), Free(a, two)
               PROVE  Met(a, c, pairs[j])
    BY DEF Met
  <2>1. one \in Player /\ two \in Player
    BY DEF Disjoint, TwoPlayers, Entry
  <2>2. /\ b.player_room[two] = r /\ r # NoRoom
        /\ r \in DOMAIN b.rooms \ DOMAIN a.rooms
        /\ Members(b.rooms[r]) = {one, two}
        /\ b.rooms[r].state = "WAITING"
    BY DEF Halfway, Met
  <2>3. ~Free(b, one) /\ ~Free(b, two)
    BY <2>2 DEF Free
  <2>4. c.player_room[one] = r /\ c.player_room[two] = r
    BY <1>3, <2>1, <2>2, <2>3 DEF Kept
  <2>5. r \in DOMAIN c.rooms /\ c.rooms[r] = b.rooms[r]
    BY <1>3, <2>2 DEF Kept
  <2>6. QED
    BY <2>2, <2>4, <2>5 DEF Met
<1>10. Met(a, c, pair)
  <2> DEFINE one == pair[1].player
             two == pair[2].player
             r   == c.player_room[one]
  <2> SUFFICES ASSUME Free(a, one), Free(a, two)
               PROVE  Met(a, c, pair)
    BY DEF Met
  <2>1. one \in Player /\ two \in Player /\ {one, two} = Both(pair)
    BY <1>2 DEF TwoPlayers, Entry, Both
  <2>2. one \notin Done(k) /\ two \notin Done(k)
    <3>1. \A i \in 1 .. k : i # k + 1 /\ i \in DOMAIN pairs
      BY <1>1
    <3>2. \A i \in 1 .. k : Both(pairs[i]) \cap Both(pair) = {}
      BY <1>1, <3>1 DEF Disjoint
    <3>3. QED
      BY <2>1, <3>2
  <2>3. Free(b, one) /\ Free(b, two)
    <3>1. \A p \in Player \ Done(k) : b.player_room[p] = a.player_room[p]
      BY DEF Halfway
    <3>2. QED
      BY <2>1, <2>2, <3>1 DEF Free
  <2>4. /\ c.player_room[two] = r /\ r # NoRoom
        /\ r \in DOMAIN c.rooms \ DOMAIN b.rooms
        /\ Members(c.rooms[r]) = {one, two}
        /\ c.rooms[r].state = "WAITING"
    BY <1>3, <2>3 DEF Met
  <2>5. r \notin DOMAIN a.rooms
    BY <1>4, <2>4 DEF Kept
  <2>6. QED
    BY <2>4, <2>5 DEF Met
<1>11. \A j \in 1 .. k + 1 : Met(a, c, pairs[j])
  BY <1>1, <1>9, <1>10
<1>12. QED
  BY <1>3, <1>5, <1>6, <1>8, <1>11 DEF Halfway, c

\* When all callbacks have run
LEMMA AllCallbacks ==
    ASSUME NEW pairs, Disjoint(pairs), NEW n \in Nat, DOMAIN pairs = 1 .. n,
           NEW a, Housed(a)
    PROVE  LET b == FoldLeft(OnMatchFound, a, pairs)
           IN  /\ Halfway(a, b, pairs, n)
               /\ \A p \in Player \ Of(pairs) : b.player_room[p] = a.player_room[p]
<1> DEFINE There(k) == k <= n => Halfway(a, Found(a, pairs, k), pairs, k)
           K == {k \in Nat : There(k)}
<1>1. There(0)
  <2>1. Found(a, pairs, 0) = a
    BY FoundFirst
  <2>2. a.room_id_counter \in Nat
    BY DEF Housed
  <2>3. Halfway(a, a, pairs, 0)
    BY <2>2 DEF Halfway, Kept
  <2>4. QED
    BY <2>1, <2>3
<1>2. ASSUME NEW k \in Nat, There(k)
      PROVE  There(k + 1)
  <2> SUFFICES ASSUME k + 1 <= n
               PROVE  Halfway(a, Found(a, pairs, k + 1), pairs, k + 1)
    OBVIOUS
  <2>1. k < n /\ k <= n
    OBVIOUS
  <2>2. Halfway(a, Found(a, pairs, k), pairs, k)
    BY <1>2, <2>1
  <2>3. Found(a, pairs, k + 1) = OnMatchFound(Found(a, pairs, k), pairs[k + 1])
    BY <2>1, FoundNext
  <2>4. QED
    BY <2>1, <2>2, <2>3, OneMoreCallback
<1> HIDE DEF There
<1>3. K = Nat
  <2>1. K \in SUBSET Nat /\ 0 \in K /\ \A k \in K : k + 1 \in K
    BY <1>1, <1>2
  <2> HIDE DEF K
  <2>2. QED
    BY <2>1, AllNumbers
<1>4. Halfway(a, Found(a, pairs, n), pairs, n)
  BY <1>3 DEF There
<1>5. FoldLeft(OnMatchFound, a, pairs) = Found(a, pairs, n)
  BY FoundFirst
<1>6. Of(pairs) = UNION {Both(pairs[j]) : j \in 1 .. n}
  BY DEF Of
<1>7. QED
  BY <1>4, <1>5, <1>6 DEF Halfway

-----------------------------------------------------------------------------
(* The pairs of a queue *)

Paired(q) == FirstOfPair(q) \cup {i + 1 : i \in FirstOfPair(q)}

\* The pairs are neighbours, no player is in two, and together they are whoever
\* TryMatch takes out.
LEMMA PairsDisjoint ==
    ASSUME NEW q, InOrder(q)
    PROVE  /\ Cardinality(FirstOfPair(q)) \in Nat
           /\ DOMAIN Pairs(q) = 1 .. Cardinality(FirstOfPair(q))
           /\ Disjoint(Pairs(q))
           /\ Of(Pairs(q)) = {q[i].player : i \in Paired(q)}
           /\ Paired(q) \subseteq DOMAIN q
<1> DEFINE F == FirstOfPair(q)
           N == Cardinality(F)
<1>1. q \in Seq(Entry) /\ Len(q) \in Nat /\ DOMAIN q = 1 .. Len(q)
  BY LenProperties DEF InOrder
<1>2. \A i \in DOMAIN q : q[i] \in Entry
  BY <1>1
<1>3. /\ \A i \in F : i \in DOMAIN q /\ i + 1 \in DOMAIN q
      /\ \A i \in F : i + 1 \notin F
  BY <1>1, PairsApart
<1> HIDE DEF F
<1>4. F \in SUBSET Nat /\ IsFiniteSet(F) /\ N \in Nat
  <2>1. F \in SUBSET (1 .. Len(q)) /\ F \in SUBSET Nat
    BY <1>1, <1>3
  <2>2. IsFiniteSet(1 .. Len(q))
    BY <1>1, FS_Interval
  <2>3. QED
    BY <2>1, <2>2, FS_Subset, FS_CardinalityType
<1>5. \A n \in 1 .. N : Nth(F, n) \in F
  BY <1>4, NthThere
<1>6. \A m, n \in 1 .. N : m # n => Nth(F, m) # Nth(F, n)
  <2> SUFFICES ASSUME NEW m \in 1 .. N, NEW n \in 1 .. N, m < n
               PROVE  Nth(F, m) # Nth(F, n)
    BY <1>4
  <2>1. Nth(F, m) < Nth(F, n)
    BY <1>4, NthGrows
  <2>2. Nth(F, m) \in F /\ Nth(F, n) \in F
    BY <1>5
  <2>3. Nth(F, m) \in Nat /\ Nth(F, n) \in Nat
    BY <1>4, <2>2
  <2>4. QED
    BY <2>1, <2>3
<1>7. \A i \in F : \E n \in 1 .. N : Nth(F, n) = i
  BY <1>4, NthAll
<1>8. /\ DOMAIN Pairs(q) = 1 .. N
      /\ \A n \in 1 .. N : Pairs(q)[n] = <<q[Nth(F, n)], q[Nth(F, n) + 1]>>
  BY DEF Pairs, Pair, F
<1> HIDE DEF N
<1>9. ASSUME NEW n \in 1 .. N
      PROVE  /\ Pairs(q)[n][1] = q[Nth(F, n)]
             /\ Pairs(q)[n][2] = q[Nth(F, n) + 1]
             /\ Both(Pairs(q)[n]) = {q[Nth(F, n)].player, q[Nth(F, n) + 1].player}
  <2>1. Pairs(q)[n] = <<q[Nth(F, n)], q[Nth(F, n) + 1]>>
    BY <1>8
  <2>2. Pairs(q)[n][1] = q[Nth(F, n)] /\ Pairs(q)[n][2] = q[Nth(F, n) + 1]
    BY <2>1
  <2>3. QED
    BY <2>2 DEF Both
<1>10. \A i, j \in DOMAIN q : q[i].player = q[j].player => i = j
  BY DEF InOrder, Once
<1>11. ASSUME NEW n \in 1 .. N
       PROVE  TwoPlayers(Pairs(q)[n])
  <2> DEFINE i == Nth(F, n)
  <2>1. i \in DOMAIN q /\ i + 1 \in DOMAIN q
    BY <1>3, <1>5
  <2>2. i # i + 1
    BY <1>1, <2>1
  <2>3. q[i].player # q[i + 1].player
    BY <1>10, <2>1, <2>2
  <2>4. QED
    BY <1>2, <1>9, <2>1, <2>3 DEF TwoPlayers
<1>12. ASSUME NEW m \in 1 .. N, NEW n \in 1 .. N, m # n
       PROVE  Both(Pairs(q)[m]) \cap Both(Pairs(q)[n]) = {}
  <2> DEFINE i == Nth(F, m)
             j == Nth(F, n)
  <2>1. i \in F /\ j \in F /\ i # j
    BY <1>5, <1>6, <1>12
  <2> HIDE DEF i, j
  <2>2. /\ i \in DOMAIN q /\ i + 1 \in DOMAIN q
        /\ j \in DOMAIN q /\ j + 1 \in DOMAIN q
        /\ i + 1 # j /\ j + 1 # i
    BY <1>3, <2>1
  <2>3. i + 1 # j + 1
    BY <1>1, <2>1, <2>2
  <2>4. {q[i].player, q[i + 1].player} \cap {q[j].player, q[j + 1].player} = {}
    BY <1>10, <2>1, <2>2, <2>3
  <2>5. QED
    BY <1>9, <2>4 DEF i, j
<1>13. Disjoint(Pairs(q))
  BY <1>8, <1>11, <1>12 DEF Disjoint
<1>14. Of(Pairs(q)) = {q[i].player : i \in Paired(q)}
  <2>1. ASSUME NEW n \in 1 .. N
        PROVE  Both(Pairs(q)[n]) \subseteq {q[i].player : i \in Paired(q)}
    BY <1>5, <1>9 DEF Paired, F
  <2>2. ASSUME NEW i \in F
        PROVE  q[i].player \in Of(Pairs(q)) /\ q[i + 1].player \in Of(Pairs(q))
    <3>1. PICK n \in 1 .. N : Nth(F, n) = i
      BY <1>7
    <3>2. q[i].player \in Both(Pairs(q)[n]) /\ q[i + 1].player \in Both(Pairs(q)[n])
      BY <1>9, <3>1
    <3>3. QED
      BY <1>8, <3>2 DEF Of
  <2>3. Of(Pairs(q)) \subseteq {q[i].player : i \in Paired(q)}
    BY <1>8, <2>1 DEF Of
  <2>4. \A i \in Paired(q) : q[i].player \in Of(Pairs(q))
    BY <2>2 DEF Paired, F
  <2>5. QED
    BY <2>3, <2>4
<1>15. Paired(q) \subseteq DOMAIN q
  BY <1>3 DEF Paired, F
<1>16. QED
  BY <1>4, <1>8, <1>13, <1>14, <1>15 DEF N, F

\* Who is in no pair stays, in order.
LEMMA UnpairedInOrder ==
    ASSUME NEW q, InOrder(q)
    PROVE  InOrder(Unpaired(q)) /\ Names(Unpaired(q)) = Names(q) \ Of(Pairs(q))
<1> DEFINE I == DOMAIN q \ Paired(q)
<1>1. Unpaired(q) = Picked(q, I)
  BY DEF Unpaired, Paired
<1>2. InOrder(Unpaired(q)) /\ Names(Unpaired(q)) = {q[i].player : i \in I}
  BY <1>1, PickedInOrder
<1>3. Of(Pairs(q)) = {q[i].player : i \in Paired(q)} /\ Paired(q) \subseteq DOMAIN q
  BY PairsDisjoint
<1>4. \A i, j \in DOMAIN q : q[i].player = q[j].player => i = j
  BY DEF InOrder, Once
<1>5. {q[i].player : i \in I} = Names(q) \ Of(Pairs(q))
  BY <1>3, <1>4 DEF Names
<1>6. QED
  BY <1>2, <1>5

-----------------------------------------------------------------------------
(* The invariant *)

RoomsNow == [rooms |-> rooms, player_room |-> player_room,
             room_id_counter |-> room_id_counter, matches |-> matches]

MatchTypeOK ==
    /\ queue \in Seq(Entry)
    /\ matches \in Seq(MatchTimer)
    /\ fd_to_player \in [Fd -> Player \cup {NoPlayer}]
    /\ player_conns \in [Player -> Fd \cup {NoFd}]
    /\ ticking \in BOOLEAN

\* NoGhosts in terms of player_room_, which says the same as the rooms' lists
Connected == Around \subseteq Registered \cup strays

MatchInv ==
    /\ PlacesInv
    /\ MatchTypeOK
    /\ QueueInOrder
    /\ ~ticking => Connected

\* The properties and the operators of the lemmas
LEMMA QueueIs ==
    /\ Queued = Names(queue)
    /\ MatchTypeOK /\ QueueInOrder => InOrder(queue)
    /\ InOrder(queue) => queue \in Seq(Entry) /\ QueueInOrder
BY DEF Queued, Names, MatchTypeOK, QueueInOrder, InOrder, Once

LEMMA PlacesHoused == ASSUME PlacesInv, matches \in Seq(MatchTimer) PROVE Housed(RoomsNow)
<1> DEFINE st == RoomsNow
<1>1. /\ st.rooms = rooms /\ st.player_room = player_room
      /\ st.room_id_counter = room_id_counter /\ st.matches = matches
  BY DEF RoomsNow
<1> HIDE DEF st
<1>2. /\ Live \subseteq RoomId /\ rooms \in [Live -> Room]
      /\ player_room \in [Player -> RoomId \cup {NoRoom}]
      /\ room_id_counter \in 1 .. MaxRooms + 1
  BY DEF PlacesInv, TypeOK
<1>3. \A r \in RoomId : r \in Nat /\ r # NoRoom
  BY DEF RoomId, NoRoom
<1>4. NoRoom \in Nat
  BY DEF NoRoom
<1>5. \A r \in DOMAIN rooms :
         /\ r \in Nat /\ r # NoRoom /\ r < room_id_counter
         /\ rooms[r] \in Room /\ ListOK(rooms[r])
  BY <1>2, <1>3, ListsOK DEF PlacesInv, FreshIds, Live
<1>6. player_room \in [Player -> Nat]
  BY <1>2, <1>3, <1>4
<1>7. ASSUME NEW p \in Player, NEW r \in Nat, r # NoRoom
      PROVE  player_room[p] = r <=> r \in DOMAIN rooms /\ p \in Members(rooms[r])
  <2>1. CASE r \in RoomId
    BY <2>1 DEF PlacesInv, MapMatchesRooms, Live
  <2>2. CASE r \notin RoomId
    BY <1>2, <1>7, <2>2 DEF Live
  <2>3. QED
    BY <2>1, <2>2
<1>8. room_id_counter \in Nat \ {0} /\ rooms = [r \in DOMAIN rooms |-> rooms[r]]
  BY <1>2, RoomConstants
<1>9. Housed(st)
  BY <1>1, <1>5, <1>6, <1>7, <1>8 DEF Housed
<1>10. QED
  BY <1>9 DEF st

LEMMA HousedPlaces ==
    ASSUME NEW b, Housed(b), b.room_id_counter <= MaxRooms + 1,
           rooms' = b.rooms, player_room' = b.player_room,
           room_id_counter' = b.room_id_counter
    PROVE  PlacesInv'
<1>1. MaxRooms \in Nat
  BY RoomConstants
<1>2. /\ room_id_counter' \in Nat \ {0} /\ room_id_counter' <= MaxRooms + 1
      /\ rooms' = [r \in DOMAIN rooms' |-> rooms'[r]]
      /\ player_room' \in [Player -> Nat]
  BY DEF Housed
<1>3. \A r \in Live' : /\ r \in Nat /\ r # NoRoom /\ r < room_id_counter'
                       /\ rooms'[r] \in Room /\ ListOK(rooms'[r])
  BY DEF Housed, Live
<1>4. \A p \in Player, r \in Nat : r # NoRoom =>
         (player_room'[p] = r <=> r \in Live' /\ p \in Members(rooms'[r]))
  BY DEF Housed, Live
<1>5. \A r \in Live' : r \in RoomId
  BY <1>1, <1>2, <1>3 DEF RoomId, NoRoom
<1>6. \A p \in Player : player_room'[p] \in RoomId \cup {NoRoom}
  <2> SUFFICES ASSUME NEW p \in Player, player_room'[p] # NoRoom
               PROVE  player_room'[p] \in RoomId
    OBVIOUS
  <2>1. player_room'[p] \in Nat
    BY <1>2
  <2>2. player_room'[p] \in Live'
    BY <1>4, <2>1
  <2>3. QED
    BY <1>5, <2>2
<1>7. TypeOK'
  BY <1>1, <1>2, <1>3, <1>5, <1>6 DEF TypeOK, Live
<1>8. FreshIds'
  BY <1>3 DEF FreshIds
<1>9. MapMatchesRooms'
  BY <1>4 DEF MapMatchesRooms, RoomId, NoRoom
<1>10. (ListedOnce /\ WithinCapacity)'
  BY <1>3 DEF ListedOnce, WithinCapacity, ListOK, NoDuplicates
<1>11. QED
  BY <1>7, <1>8, <1>9, <1>10 DEF PlacesInv

-----------------------------------------------------------------------------
(* The steps *)

\* The server starts with nobody.
LEMMA InitMatch == MatchInit => MatchInv
<1> SUFFICES ASSUME MatchInit
             PROVE  MatchInv
  OBVIOUS
<1>1. PlacesInv
  BY InitPlaces DEF MatchInit
<1>2. /\ queue = <<>> /\ matches = <<>> /\ ticking \in BOOLEAN
      /\ fd_to_player = [f \in Fd |-> NoPlayer]
      /\ player_conns = [p \in Player |-> NoFd]
  BY DEF MatchInit
<1>3. MatchTypeOK /\ QueueInOrder /\ Queued = {}
  BY <1>2 DEF MatchTypeOK, QueueInOrder, Sorted, Queued
<1>4. \A p \in Player : player_room[p] = NoRoom
  BY DEF MatchInit, Init
<1>5. QED
  BY <1>1, <1>2, <1>3, <1>4 DEF MatchInv, Connected, Around

\* What a request leaves behind: p is registered with a connection or astray, and
\* so is everybody else who was.
LEMMA AskedConnects ==
    ASSUME NEW p \in Player, ~ticking, Connected, Asked(p), player_conns' = player_conns,
           Around' \subseteq Around \cup {p}
    PROVE  Connected'
<1>1. Registered' = Registered
  BY DEF Registered
<1>2. strays' = (strays \cup {x \in {p} : player_conns[x] = NoFd}) \cap Around'
  BY DEF Asked
<1>3. p \in Around' => p \in Registered \cup strays'
  BY <1>2 DEF Registered
<1>4. ASSUME NEW x \in Around', x # p
      PROVE  x \in Registered \cup strays'
  <2>1. x \in Registered \cup strays
    BY <1>4 DEF Connected
  <2>2. QED
    BY <1>2, <1>4, <2>1
<1>5. QED
  BY <1>1, <1>3, <1>4 DEF Connected

\* What the second half of a request to enter the queue does (TryMatch and its
\* callbacks): the pairs leave, and only they change rooms.
LEMMA MatchUpDoes ==
    ASSUME MatchInv, NEW q, InOrder(q), MatchUp(Unpaired(q), Pairs(q))
    PROVE  /\ PlacesInv'
           /\ matches' \in Seq(MatchTimer)
           /\ InOrder(queue')
           /\ Names(queue') = Names(q) \ Of(Pairs(q))
           /\ Of(Pairs(q)) \subseteq Names(q)
           /\ Kept(RoomsNow, RoomsNow')
           /\ \A p \in Player \ Of(Pairs(q)) : player_room'[p] = player_room[p]
           /\ \A k \in DOMAIN Pairs(q) : Met(RoomsNow, RoomsNow', Pairs(q)[k])
<1> DEFINE pairs == Pairs(q)
           n     == Cardinality(FirstOfPair(q))
           b     == FoldLeft(OnMatchFound, RoomsNow, pairs)
<1>1. /\ n \in Nat /\ DOMAIN pairs = 1 .. n /\ Disjoint(pairs)
      /\ Of(pairs) = {q[i].player : i \in Paired(q)}
      /\ Paired(q) \subseteq DOMAIN q
  BY PairsDisjoint
<1>2. Housed(RoomsNow)
  BY PlacesHoused DEF MatchInv, MatchTypeOK
<1>3. /\ room_id_counter + Len(pairs) <= MaxRooms + 1
      /\ queue' = Unpaired(q)
      /\ rooms' = b.rooms
      /\ player_room' = b.player_room
      /\ room_id_counter' = b.room_id_counter
      /\ matches' = b.matches
  BY DEF MatchUp, RoomsNow
<1>4. Len(pairs) = n
  <2>1. pairs = [k \in 1 .. n |-> pairs[k]]
    BY DEF Pairs
  <2> HIDE DEF pairs, n
  <2>2. QED
    BY <1>1, <2>1
<1> HIDE DEF pairs, n
<1>5. /\ Halfway(RoomsNow, b, pairs, n)
      /\ \A p \in Player \ Of(pairs) : b.player_room[p] = RoomsNow.player_room[p]
  BY <1>1, <1>2, AllCallbacks
<1> HIDE DEF b
<1>6. Housed(b) /\ Kept(RoomsNow, b) /\ \A k \in 1 .. n : Met(RoomsNow, b, pairs[k])
  BY <1>5 DEF Halfway
<1>7. b.room_id_counter <= MaxRooms + 1
  <2>1. b.room_id_counter <= room_id_counter + n
    BY <1>5 DEF Halfway, RoomsNow
  <2>2. b.room_id_counter \in Nat /\ room_id_counter \in Nat /\ MaxRooms \in Nat
    BY <1>2, <1>6, RoomConstants DEF Housed, RoomsNow
  <2>3. QED
    BY <1>1, <1>3, <1>4, <2>1, <2>2
<1>8. PlacesInv'
  BY <1>3, <1>6, <1>7, HousedPlaces
<1>9. matches' \in Seq(MatchTimer)
  BY <1>3, <1>6 DEF Housed
<1>10. InOrder(queue') /\ Names(queue') = Names(q) \ Of(pairs)
  BY <1>3, UnpairedInOrder DEF pairs
<1>11. Of(pairs) \subseteq Names(q)
  BY <1>1 DEF Names
<1>12. /\ RoomsNow.rooms = rooms /\ RoomsNow.player_room = player_room
       /\ RoomsNow'.rooms = b.rooms /\ RoomsNow'.player_room = b.player_room
  BY <1>3 DEF RoomsNow
<1>13. Kept(RoomsNow, RoomsNow')
  BY <1>6, <1>12 DEF Kept
<1>14. \A p \in Player \ Of(pairs) : player_room'[p] = player_room[p]
  BY <1>3, <1>5, <1>12
<1>15. \A k \in DOMAIN pairs : Met(RoomsNow, RoomsNow', pairs[k])
  BY <1>1, <1>6, <1>12 DEF Met
<1>16. QED
  BY <1>8, <1>9, <1>10, <1>11, <1>13, <1>14, <1>15 DEF pairs

\* A request to enter the queue
LEMMA EnterMatchSafe ==
    ASSUME MatchInv, NEW p \in Player, NEW s \in Score, EnterMatch(p, s)
    PROVE  MatchInv'
<1>1. PICK q \in EnterQueue(queue, p, s) : MatchUp(Unpaired(q), Pairs(q))
  BY DEF EnterMatch
<1>2. InOrder(queue) /\ s \in Nat
  BY QueueIs, MatchConstants DEF MatchInv
<1>3. InOrder(q) /\ Names(q) = Names(queue) \cup {p}
  BY <1>2, EnteredInOrder
<1>4. /\ PlacesInv'
      /\ matches' \in Seq(MatchTimer)
      /\ InOrder(queue')
      /\ Names(queue') = Names(q) \ Of(Pairs(q))
      /\ Of(Pairs(q)) \subseteq Names(q)
      /\ \A x \in Player \ Of(Pairs(q)) : player_room'[x] = player_room[x]
  BY <1>1, <1>3, MatchUpDoes
<1>5. Asked(p) /\ UNCHANGED <<fd_to_player, player_conns, ticking>>
  BY DEF EnterMatch, sessions
<1>6. queue' \in Seq(Entry) /\ QueueInOrder' /\ Queued' = Names(queue')
  BY <1>4 DEF InOrder, QueueInOrder, Once, Queued, Names
<1>7. MatchTypeOK'
  BY <1>4, <1>5, <1>6 DEF MatchInv, MatchTypeOK
<1>8. ASSUME ~ticking
      PROVE  Connected'
  <2>1. Names(q) \subseteq Around \cup {p}
    BY <1>3, QueueIs DEF Around
  <2>2. \A x \in Player : player_room'[x] # NoRoom => x \in Around \cup {p}
    BY <1>4, <2>1 DEF Around
  <2>3. Around' \subseteq Around \cup {p}
    BY <1>4, <1>6, <2>1, <2>2 DEF Around
  <2>4. QED
    BY <1>5, <1>8, <2>3, AskedConnects DEF MatchInv
<1>9. QED
  BY <1>4, <1>5, <1>6, <1>7, <1>8 DEF MatchInv

\* A request to leave the queue
LEMMA CancelMatchSafe ==
    ASSUME MatchInv, NEW p \in Player, CancelMatch(p)
    PROVE  MatchInv'
<1>1. /\ queue' = Cancelled(queue, p) /\ Asked(p)
      /\ UNCHANGED vars /\ UNCHANGED <<matches, fd_to_player, player_conns, ticking>>
  BY DEF CancelMatch, vars, sessions
<1>2. PlacesInv'
  BY <1>1, NextPlaces DEF MatchInv
<1>3. InOrder(queue') /\ Names(queue') = Names(queue) \ {p}
  BY <1>1, QueueIs, CancelledInOrder DEF MatchInv
<1>4. queue' \in Seq(Entry) /\ QueueInOrder' /\ Queued' = Names(queue')
  BY <1>3 DEF InOrder, QueueInOrder, Once, Queued, Names
<1>5. Around' \subseteq Around \cup {p}
  BY <1>1, <1>3, <1>4, QueueIs DEF Around, vars
<1>6. ~ticking => Connected'
  BY <1>1, <1>5, AskedConnects DEF MatchInv
<1>7. QED
  BY <1>1, <1>2, <1>4, <1>6 DEF MatchInv, MatchTypeOK

\* Waiting moves nobody.
LEMMA WaitSafe ==
    ASSUME MatchInv, Wait
    PROVE  MatchInv'
<1>1. /\ queue' = [i \in DOMAIN queue |->
                     [queue[i] EXCEPT !.waited = IF @ < MaxWait THEN @ + 1 ELSE @]]
      /\ UNCHANGED vars
      /\ UNCHANGED <<matches, fd_to_player, player_conns, strays, ticking>>
  BY DEF Wait, vars, sessions
<1>2. PlacesInv'
  BY <1>1, NextPlaces DEF MatchInv
<1>3. queue \in Seq(Entry) /\ Len(queue) \in Nat /\ DOMAIN queue = 1 .. Len(queue)
  BY LenProperties DEF MatchInv, MatchTypeOK
<1>4. ASSUME NEW i \in DOMAIN queue
      PROVE  /\ queue'[i] \in Entry
             /\ queue'[i].player = queue[i].player
             /\ queue'[i].score = queue[i].score
  <2> DEFINE e == queue[i]
             w == IF e.waited < MaxWait THEN e.waited + 1 ELSE e.waited
  <2>1. e \in Entry
    BY <1>3
  <2>2. e.waited \in Nat
    BY <2>1 DEF Entry
  <2>3. w \in Nat
    BY <2>2
  <2>4. queue'[i] = [e EXCEPT !.waited = w]
    BY <1>1
  <2> HIDE DEF e, w
  <2>5. queue'[i] \in Entry /\ queue'[i].player = e.player /\ queue'[i].score = e.score
    BY <2>1, <2>3, <2>4 DEF Entry
  <2>6. QED
    BY <2>5 DEF e
<1>5. DOMAIN queue' = DOMAIN queue /\ queue' = [i \in DOMAIN queue |-> queue'[i]]
  BY <1>1
<1>6. queue' \in Seq(Entry)
  BY <1>3, <1>4, <1>5, SeqByIndex
<1>7. QueueInOrder'
  BY <1>4, <1>5 DEF MatchInv, QueueInOrder, Sorted
<1>8. Queued' = Queued
  BY <1>4, <1>5 DEF Queued
<1>9. ~ticking => Connected'
  BY <1>1, <1>8 DEF MatchInv, Connected, Around, Registered, vars
<1>10. QED
  BY <1>1, <1>2, <1>6, <1>7, <1>9 DEF MatchInv, MatchTypeOK

\* A login: whoever the connection stood for is left behind, astray.
LEMMA LoginSafe ==
    ASSUME MatchInv, NEW f \in Fd, NEW p \in Player, Login(f, p)
    PROVE  MatchInv'
<1> DEFINE old   == fd_to_player[f]
           other == old \notin {p, NoPlayer}
<1>1. /\ UNCHANGED vars /\ UNCHANGED <<queue, matches, ticking>>
      /\ strays' = (strays \cup ({old} \cap Around)) \ {p}
      /\ fd_to_player' = [(IF other THEN FdsWithout(old) ELSE fd_to_player) EXCEPT ![f] = p]
      /\ player_conns' = [(IF other THEN ConnsWithout(old) ELSE player_conns) EXCEPT ![p] = f]
  BY DEF Login, vars
<1>2. PlacesInv'
  BY <1>1, NextPlaces DEF MatchInv
<1>3. /\ fd_to_player \in [Fd -> Player \cup {NoPlayer}]
      /\ player_conns \in [Player -> Fd \cup {NoFd}]
      /\ NoFd \notin Fd
  BY MatchConstants DEF MatchInv, MatchTypeOK
<1>4. /\ FdsWithout(old) \in [Fd -> Player \cup {NoPlayer}]
      /\ ConnsWithout(old) \in [Player -> Fd \cup {NoFd}]
  BY <1>3 DEF FdsWithout, ConnsWithout
<1>5. /\ fd_to_player' \in [Fd -> Player \cup {NoPlayer}]
      /\ player_conns' \in [Player -> Fd \cup {NoFd}]
  BY <1>1, <1>3, <1>4
<1>6. p \in Registered'
  BY <1>1, <1>3, <1>4 DEF Registered
<1>7. ASSUME NEW x \in Registered, x # p, x # old
      PROVE  x \in Registered'
  BY <1>1, <1>3, <1>7 DEF Registered, ConnsWithout
<1>8. Around' = Around
  BY <1>1 DEF Around, Queued, vars
<1> HIDE DEF old, other
<1>9. ~ticking => Connected'
  BY <1>1, <1>6, <1>7, <1>8 DEF MatchInv, Connected
<1>10. QED
  BY <1>1, <1>2, <1>5, <1>9 DEF MatchInv, MatchTypeOK, QueueInOrder, Sorted

\* A lost connection: the player leaves the room and the queue.
LEMMA DisconnectSafe ==
    ASSUME MatchInv, NEW f \in Fd, Disconnect(f)
    PROVE  MatchInv'
<1> DEFINE p == fd_to_player[f]
<1>1. /\ p # NoPlayer
      /\ LeaveIfHoused(p)
      /\ queue' = Cancelled(queue, p)
      /\ fd_to_player' = FdsWithout(p)
      /\ player_conns' = ConnsWithout(p)
      /\ strays' = strays \ {p}
      /\ UNCHANGED <<matches, ticking>>
  BY DEF Disconnect
<1>2. /\ fd_to_player \in [Fd -> Player \cup {NoPlayer}]
      /\ player_conns \in [Player -> Fd \cup {NoFd}]
  BY DEF MatchInv, MatchTypeOK
<1>3. p \in Player
  BY <1>1, <1>2
<1> HIDE DEF p
<1>4. PlacesInv' /\ player_room' = [player_room EXCEPT ![p] = NoRoom]
  <2>1. player_room \in [Player -> RoomId \cup {NoRoom}]
    BY DEF MatchInv, PlacesInv, TypeOK
  <2>2. CASE player_room[p] # NoRoom
    <3>1. LeaveRoom(player_room[p], p)
      BY <1>1, <2>2 DEF LeaveIfHoused
    <3>2. Next
      BY <1>3, <3>1 DEF Next, LeaveRoom
    <3>3. QED
      BY <3>1, <3>2, NextPlaces DEF MatchInv, LeaveRoom
  <2>3. CASE player_room[p] = NoRoom
    <3>1. UNCHANGED vars
      BY <1>1, <2>3 DEF LeaveIfHoused, vars
    <3>2. QED
      BY <1>3, <2>1, <2>3, <3>1, NextPlaces DEF MatchInv, vars
  <2>4. QED
    BY <2>2, <2>3
<1>5. InOrder(queue') /\ Names(queue') = Names(queue) \ {p}
  BY <1>1, <1>3, QueueIs, CancelledInOrder DEF MatchInv
<1>6. queue' \in Seq(Entry) /\ QueueInOrder' /\ Queued' = Names(queue')
  BY <1>5 DEF InOrder, QueueInOrder, Once, Queued, Names
<1>7. /\ fd_to_player' \in [Fd -> Player \cup {NoPlayer}]
      /\ player_conns' \in [Player -> Fd \cup {NoFd}]
  BY <1>1, <1>2 DEF FdsWithout, ConnsWithout
<1>8. Around' \subseteq Around \ {p}
  <2>1. \A x \in Player : player_room'[x] # NoRoom => x # p /\ player_room[x] # NoRoom
    BY <1>3, <1>4 DEF MatchInv, PlacesInv, TypeOK
  <2>2. QED
    BY <1>5, <1>6, <2>1, QueueIs DEF Around
<1>9. Registered \ {p} \subseteq Registered'
  BY <1>1, <1>2 DEF Registered, ConnsWithout
<1>10. ~ticking => Connected'
  BY <1>1, <1>8, <1>9 DEF MatchInv, Connected
<1>11. QED
  BY <1>1, <1>4, <1>6, <1>7, <1>10 DEF MatchInv, MatchTypeOK

\* The timer of a match, which only an owner that ticks its timers has
LEMMA MatchTimeoutSafe ==
    ASSUME MatchInv, MatchTimeout
    PROVE  MatchInv'
<1> DEFINE m == Head(matches)
<1>1. ticking /\ matches # <<>> /\ matches \in Seq(MatchTimer)
  BY DEF MatchTimeout, MatchInv, MatchTypeOK
<1>2. /\ m \in MatchTimer
      /\ matches' \in Seq(MatchTimer)
      /\ UNCHANGED <<fd_to_player, player_conns, ticking>>
  BY <1>1, HeadTailProperties DEF MatchTimeout, sessions
<1>3. m.p1 \in Player /\ m.p2 \in Player /\ m.s1 \in Nat /\ m.s2 \in Nat
  BY <1>2 DEF MatchTimer
<1>4. InOrder(queue)
  BY QueueIs DEF MatchInv
<1>5. PlacesInv' /\ InOrder(queue')
  <2>1. CASE m.room \in Live /\ rooms[m.room].state # "PLAYING"
    <3>1. RemoveRoom(m.room)
      BY <2>1 DEF MatchTimeout
    <3>2. Next
      BY <3>1 DEF Next, RemoveRoom
    <3>3. PICK q \in EnterQueue(queue, m.p1, m.s1) : queue' \in EnterQueue(q, m.p2, m.s2)
      BY <2>1 DEF MatchTimeout
    <3> HIDE DEF m
    <3>4. InOrder(q)
      BY <1>3, <1>4, <3>3, EnteredInOrder
    <3>5. InOrder(queue')
      BY <1>3, <3>3, <3>4, EnteredInOrder
    <3>6. QED
      BY <3>2, <3>5, NextPlaces DEF MatchInv
  <2>2. CASE ~(m.room \in Live /\ rooms[m.room].state # "PLAYING")
    <3>1. UNCHANGED vars /\ queue' = queue
      BY <2>2 DEF MatchTimeout, vars
    <3>2. QED
      BY <1>4, <3>1, NextPlaces DEF MatchInv
  <2>3. QED
    BY <2>1, <2>2
<1>6. queue' \in Seq(Entry) /\ QueueInOrder'
  BY <1>5 DEF InOrder, QueueInOrder, Once
<1>7. QED
  BY <1>1, <1>2, <1>5, <1>6 DEF MatchInv, MatchTypeOK

\* A request about rooms puts nobody into a room but the player it names.
LEMMA RoomRequestSafe ==
    ASSUME MatchInv, RoomRequest
    PROVE  MatchInv'
<1>1. UNCHANGED <<queue, matches, fd_to_player, player_conns, ticking>>
  BY DEF RoomRequest, sessions
<1>2. Next
  BY DEF RoomRequest, Next
<1>3. PlacesInv'
  BY <1>2, NextPlaces DEF MatchInv
<1>4. player_room \in [Player -> RoomId \cup {NoRoom}]
  BY DEF MatchInv, PlacesInv, TypeOK
<1>5. ASSUME NEW p \in Player, Asked(p), ~ticking,
             \/ UNCHANGED player_room
             \/ \E to : player_room' = [player_room EXCEPT ![p] = to]
      PROVE  Connected'
  <2>1. \A x \in Player : player_room'[x] # NoRoom => player_room[x] # NoRoom \/ x = p
    BY <1>4, <1>5
  <2>2. Around' \subseteq Around \cup {p}
    BY <1>1, <2>1 DEF Around, Queued
  <2>3. QED
    BY <1>1, <1>5, <2>2, AskedConnects DEF MatchInv
<1>6. ASSUME ~ticking
      PROVE  Connected'
  <2>1. CASE \E r \in Live : StopGame(r) /\ UNCHANGED <<queue, strays>>
    <3>1. UNCHANGED <<player_room, strays>>
      BY <2>1 DEF StopGame
    <3>2. QED
      BY <1>1, <1>6, <3>1 DEF MatchInv, Connected, Around, Queued, Registered
  <2>2. ASSUME NEW p \in Player, Asked(p),
               \/ \E max \in Capacities : CreateRoom(p, max)
               \/ \E r \in Live : JoinRoom(r, p)
               \/ \E r \in Live : LeaveRoom(r, p)
               \/ \E r \in Live : StartGame(r, p)
        PROVE  Connected'
    <3>1. \/ UNCHANGED player_room
          \/ \E to : player_room' = [player_room EXCEPT ![p] = to]
      BY <2>2 DEF CreateRoom, JoinRoom, LeaveRoom, StartGame
    <3>2. QED
      BY <1>5, <1>6, <2>2, <3>1
  <2>3. QED
    BY <2>1, <2>2 DEF RoomRequest
<1>7. QED
  BY <1>1, <1>3, <1>6 DEF MatchInv, MatchTypeOK, QueueInOrder, Sorted

\* The timers of the rooms, which only an owner that ticks its timers has
LEMMA PollSafe ==
    ASSUME MatchInv, Poll
    PROVE  MatchInv'
<1>1. ticking /\ UNCHANGED <<queue, matches, fd_to_player, player_conns, ticking>>
  BY DEF Poll, sessions
<1>2. Next
  BY DEF Poll, Next
<1>3. PlacesInv'
  BY <1>2, NextPlaces DEF MatchInv
<1>4. QED
  BY <1>1, <1>3 DEF MatchInv, MatchTypeOK, QueueInOrder, Sorted

LEMMA NextMatch == MatchInv /\ [MatchNext]_matchVars => MatchInv'
<1> SUFFICES ASSUME MatchInv, [MatchNext]_matchVars
             PROVE  MatchInv'
  OBVIOUS
<1>1. CASE UNCHANGED matchVars
  <2>1. /\ UNCHANGED vars
        /\ UNCHANGED <<queue, matches, fd_to_player, player_conns, strays, ticking>>
    BY <1>1 DEF matchVars, vars, sessions
  <2>2. PlacesInv'
    BY <2>1, NextPlaces DEF MatchInv
  <2>3. QED
    BY <2>1, <2>2 DEF MatchInv, MatchTypeOK, QueueInOrder, Sorted, Connected, Around,
                      Registered, Queued, vars
<1>2. CASE MatchNext
  BY <1>2, EnterMatchSafe, CancelMatchSafe, WaitSafe, LoginSafe, DisconnectSafe,
     MatchTimeoutSafe, RoomRequestSafe, PollSafe DEF MatchNext
<1>3. QED
  BY <1>1, <1>2

\* Those whom a request takes out of the queue, and whom they meet
LEMMA EnterMatchMeets ==
    ASSUME MatchInv, NEW p \in Player, NEW s \in Score, EnterMatch(p, s),
           NEW x \in (Queued \cup {p}) \ Queued'
    PROVE  IF player_room[x] # NoRoom THEN player_room'[x] = player_room[x]
           ELSE \E y \in ((Queued \cup {p}) \ Queued') \ {x} :
                   \/ player_room[y] # NoRoom
                   \/ /\ player_room'[x] = player_room'[y]
                      /\ player_room'[x] \in Live' \ Live
                      /\ Members(rooms'[player_room'[x]]) = {x, y}
                      /\ rooms'[player_room'[x]].state = "WAITING"
<1> DEFINE gone == (Queued \cup {p}) \ Queued'
<1>1. PICK q \in EnterQueue(queue, p, s) : MatchUp(Unpaired(q), Pairs(q))
  BY DEF EnterMatch
<1>2. InOrder(queue) /\ s \in Nat
  BY QueueIs, MatchConstants DEF MatchInv
<1>3. InOrder(q) /\ Names(q) = Names(queue) \cup {p}
  BY <1>2, EnteredInOrder
<1>4. /\ Names(queue') = Names(q) \ Of(Pairs(q))
      /\ Of(Pairs(q)) \subseteq Names(q)
      /\ Kept(RoomsNow, RoomsNow')
      /\ \A k \in DOMAIN Pairs(q) : Met(RoomsNow, RoomsNow', Pairs(q)[k])
  BY <1>1, <1>3, MatchUpDoes
<1>5. gone = Of(Pairs(q))
  BY <1>3, <1>4, QueueIs DEF Queued, Names
<1>6. PICK k \in DOMAIN Pairs(q) : x \in Both(Pairs(q)[k])
  BY <1>5 DEF Of
<1> DEFINE one == Pairs(q)[k][1].player
           two == Pairs(q)[k][2].player
<1>7. /\ {one, two} = Both(Pairs(q)[k]) /\ one # two
      /\ one \in Player /\ two \in Player
  BY PairsDisjoint, <1>3 DEF Disjoint, TwoPlayers, Both, Entry
<1>8. one \in gone /\ two \in gone
  BY <1>5, <1>7 DEF Of
<1>9. player_room[one] = NoRoom /\ player_room[two] = NoRoom =>
        LET r == player_room'[one]
        IN  /\ player_room'[two] = r
            /\ r \in Live' \ Live
            /\ Members(rooms'[r]) = {one, two}
            /\ rooms'[r].state = "WAITING"
  BY <1>4 DEF Met, Free, RoomsNow, Live
<1>10. x \in Player /\ (x = one \/ x = two)
  BY <1>6, <1>7
<1> HIDE DEF gone, one, two
<1>11. CASE player_room[x] # NoRoom
  <2>1. player_room'[x] = player_room[x]
    BY <1>4, <1>10, <1>11 DEF Kept, Free, RoomsNow
  <2>2. QED
    BY <1>11, <2>1
<1>12. CASE player_room[x] = NoRoom
  <2>1. ASSUME NEW y \in {one, two}, y # x
        PROVE  \/ player_room[y] # NoRoom
               \/ /\ player_room'[x] = player_room'[y]
                  /\ player_room'[x] \in Live' \ Live
                  /\ Members(rooms'[player_room'[x]]) = {x, y}
                  /\ rooms'[player_room'[x]].state = "WAITING"
    <3> SUFFICES ASSUME player_room[y] = NoRoom
                 PROVE  /\ player_room'[x] = player_room'[y]
                        /\ player_room'[x] \in Live' \ Live
                        /\ Members(rooms'[player_room'[x]]) = {x, y}
                        /\ rooms'[player_room'[x]].state = "WAITING"
      OBVIOUS
    <3>1. {x, y} = {one, two} /\ player_room[one] = NoRoom /\ player_room[two] = NoRoom
      BY <1>10, <1>12, <2>1
    <3>2. player_room'[x] = player_room'[one] /\ player_room'[y] = player_room'[one]
      BY <1>9, <3>1
    <3>3. QED
      BY <1>9, <3>1, <3>2
  <2>2. \E y \in gone \ {x} : y \in {one, two}
    BY <1>7, <1>8, <1>10
  <2>3. QED
    BY <1>12, <2>1, <2>2 DEF gone
<1>13. QED
  BY <1>11, <1>12

-----------------------------------------------------------------------------
(* The results *)

\* Rooms, queue and match timers fit together in every reachable state, and with
\* a server that ticks no timer so do the sessions, but for the strays
\* (OnMatchFound, OnPlayerDisconnected, the callback of HandleLogin).
THEOREM MatchInvariance == MatchSpec => []MatchInv
BY InitMatch, NextMatch, PTL DEF MatchSpec

\* The queue is always sorted and holds a player once (EnterQueue, CancelMatch,
\* TryMatch), whatever order std::sort gives equal scores.
THEOREM QueueAlwaysInOrder == MatchSpec => []QueueInOrder
<1>1. MatchInv => QueueInOrder
  BY DEF MatchInv
<1>2. QED
  BY <1>1, MatchInvariance, PTL

\* With the timers of the server as built, whoever waits for a match or sits in a
\* room is registered with a connection whose end takes them out of both, except
\* those left behind by a login as somebody else, or put there by a request while
\* no connection was registered for them (OnPlayerDisconnected).
THEOREM NoGhostsEver == MatchSpec => []NoGhosts
<1>1. MatchInv => NoGhosts
  <2> SUFFICES ASSUME MatchInv, ~ticking, NEW r \in Live, NEW p \in Members(rooms[r])
               PROVE  p \in Registered \cup strays
    BY DEF NoGhosts, MatchInv, Connected, Around
  <2>1. r \in RoomId /\ r # NoRoom /\ rooms[r].players \in Seq(Player)
    BY DEF MatchInv, PlacesInv, TypeOK, Room, RoomId, NoRoom
  <2>2. p \in Player
    BY <2>1 DEF Members, ToSet
  <2>3. player_room[p] = r
    BY <2>1, <2>2 DEF MatchInv, PlacesInv, MapMatchesRooms
  <2>4. QED
    BY <2>1, <2>2, <2>3 DEF MatchInv, Connected, Around
<1>2. QED
  BY <1>1, MatchInvariance, PTL

\* Two whom TryMatch pairs meet in a room of their own, or the one of them who
\* has a room stays there (TryMatch, OnMatchFound).
THEOREM PairsMeet == MatchSpec => MatchedMeet
<1> DEFINE A == \A p \in Player, s \in Score : Len(queue') < Len(queue) /\ EnterMatch(p, s) =>
          LET gone == (Queued \cup {p}) \ Queued'
          IN  \A x \in gone :
                 IF player_room[x] # NoRoom THEN player_room'[x] = player_room[x]
                 ELSE \E y \in gone \ {x} :
                         \/ player_room[y] # NoRoom
                         \/ /\ player_room'[x] = player_room'[y]
                            /\ player_room'[x] \in Live' \ Live
                            /\ Members(rooms'[player_room'[x]]) = {x, y}
                            /\ rooms'[player_room'[x]].state = "WAITING"
<1>1. MatchInv => A
  BY EnterMatchMeets
<1>2. MatchInv /\ [MatchNext]_matchVars => [A]_matchVars
  BY <1>1
<1> HIDE DEF A
<1>3. MatchSpec => [][A]_matchVars
  BY <1>2, MatchInvariance, PTL DEF MatchSpec
<1>4. QED
  BY <1>3 DEF MatchedMeet, A

=============================================================================
