-------------------------- MODULE BufferPoolProofs --------------------------
(***************************************************************************)
(* Proofs about BufferPool, for every pool size, number of pages, set of   *)
(* guards and contents.                                                    *)
(***************************************************************************)
EXTENDS BufferPool, FiniteSetTheorems, SequenceTheorems,
        WellFoundedInduction, TLAPS

-----------------------------------------------------------------------------
(* Data. *)

\* The order of the naturals as a relation.
Below == {p \in Nat \X Nat : p[1] < p[2]}

\* Every nonempty set of naturals has a least element.
LEMMA LeastNumber ==
    ASSUME NEW T \in SUBSET Nat, T # {}
    PROVE  \E m \in T : \A k \in T : m <= k
<1>1. IsWellFoundedOn(Below, Nat)
  BY NatLessThanWellFounded, Zenon DEF OpToRel, Below
<1>2. \E m \in T : \A k \in T : ~(<<k, m>> \in Below)
  BY <1>1, WFMin, Zenon
<1>3. \A k, m \in Nat : ~(<<k, m>> \in Below) => m <= k
  BY DEF Below
<1> QED
  BY <1>2, <1>3

\* Rank numbers a finite set of numbers 1, 2, ... in increasing order.
LEMMA FiniteRanks ==
    ASSUME NEW keep \in SUBSET Nat, IsFiniteSet(keep)
    PROVE  /\ IsFiniteSet(keep) /\ Cardinality(keep) \in Nat
           /\ \A i \in keep : Rank(keep, i) \in 1 .. Cardinality(keep)
           /\ \A i, j \in keep : i < j => Rank(keep, i) < Rank(keep, j)
           /\ \A k \in 1 .. Cardinality(keep) : \E i \in keep : Rank(keep, i) = k
<1> DEFINE upto(i) == {j \in keep : j <= i}
           N == Cardinality(keep)
<1>1. IsFiniteSet(keep) /\ N \in Nat
  BY FS_CardinalityType
<1>2. ASSUME NEW i \in keep
      PROVE  IsFiniteSet(upto(i)) /\ Cardinality(upto(i)) \in 1 .. N
  <2>1. IsFiniteSet(upto(i)) /\ Cardinality(upto(i)) <= N
    <3>1. upto(i) \in SUBSET keep
      OBVIOUS
    <3> QED
      BY <1>1, <3>1, FS_Subset
  <2>2. i \in upto(i)
    OBVIOUS
  <2>3. Cardinality(upto(i)) \in Nat /\ Cardinality(upto(i)) # 0
    BY <2>1, <2>2, FS_CardinalityType, FS_EmptySet
  <2> QED
    BY <1>1, <2>1, <2>3
<1>3. ASSUME NEW i \in keep, NEW j \in keep, i < j
      PROVE  Cardinality(upto(i)) < Cardinality(upto(j))
  <2>1. upto(i) \in SUBSET upto(j)
    <3>1. \A x \in keep : x \in Int
      OBVIOUS
    <3>2. \A x \in keep : x <= i => x <= j
      BY <1>3, <3>1
    <3> QED
      BY <3>2
  <2>2. j \in upto(j) /\ j \notin upto(i)
    BY <1>3
  <2>3. /\ Cardinality(upto(i)) <= Cardinality(upto(j))
        /\ Cardinality(upto(j)) # Cardinality(upto(i))
    BY <1>2, <2>1, <2>2, FS_Subset
  <2> QED
    BY <1>2, <2>3
<1>4. ASSUME NEW k \in 1 .. N
      PROVE  \E i \in keep : Cardinality(upto(i)) = k
  <2> DEFINE f == [i \in keep |-> Cardinality(upto(i))]
  <2> HIDE DEF upto, N
  <2>1. f \in [keep -> 1 .. N]
    BY <1>2
  <2>2. \A i, j \in keep : f[i] = f[j] => i = j
    <3>1. \A i, j \in keep : i # j => i < j \/ j < i
      OBVIOUS
    <3>2. \A i, j \in keep : i < j => f[i] < f[j]
      BY <1>3
    <3>3. \A i \in keep : f[i] \in Nat
      BY <2>1
    <3> QED
      BY <3>1, <3>2, <3>3
  <2>3. f \in Injection(keep, 1 .. N)
    BY <2>1, <2>2, Zenon DEF Injection, IsInjective
  <2>4. IsFiniteSet(1 .. N) /\ Cardinality(1 .. N) = N
    BY <1>1, FS_Interval
  <2>5. f \in Surjection(keep, 1 .. N)
    BY <1>1, <2>3, <2>4, FS_Injection DEF N
  <2> QED
    BY <2>5 DEF Surjection
<1> QED
  BY <1>1, <1>2, <1>3, <1>4 DEF Rank

\* So it numbers the positions that are kept.
LEMMA RankNumbers ==
    ASSUME NEW n \in Nat, NEW keep \in SUBSET (1 .. n)
    PROVE  /\ IsFiniteSet(keep) /\ Cardinality(keep) \in Nat
           /\ \A i \in keep : Rank(keep, i) \in 1 .. Cardinality(keep)
           /\ \A i, j \in keep : i < j => Rank(keep, i) < Rank(keep, j)
           /\ \A k \in 1 .. Cardinality(keep) : \E i \in keep : Rank(keep, i) = k
<1>1. keep \in SUBSET Nat /\ IsFiniteSet(1 .. n)
  BY FS_Interval
<1>2. IsFiniteSet(keep)
  BY <1>1, FS_Subset
<1> QED
  BY <1>1, <1>2, FiniteRanks

\* Pick keeps exactly the elements at the kept positions, in their order: the
\* element at a kept position is found at its rank, and nothing else is there.
LEMMA PickElements ==
    ASSUME NEW S, NEW seq \in Seq(S), NEW keep \in SUBSET (1 .. Len(seq))
    PROVE  /\ Pick(seq, keep) \in Seq(S)
           /\ Len(Pick(seq, keep)) = Cardinality(keep)
           /\ \A i \in keep : Pick(seq, keep)[Rank(keep, i)] = seq[i]
<1> DEFINE N == Cardinality(keep)
           at(k) == CHOOSE i \in keep : Rank(keep, i) = k
<1>1. Len(seq) \in Nat
  OBVIOUS
<1>2. /\ N \in Nat
      /\ \A i \in keep : Rank(keep, i) \in 1 .. N
      /\ \A i, j \in keep : i < j => Rank(keep, i) < Rank(keep, j)
      /\ \A k \in 1 .. N : \E i \in keep : Rank(keep, i) = k
  BY <1>1, RankNumbers
<1> HIDE DEF N
<1>3. \A k \in 1 .. N : at(k) \in keep /\ Rank(keep, at(k)) = k
  BY <1>2
<1>4. Pick(seq, keep) = [k \in 1 .. N |-> seq[at(k)]]
  BY DEF Pick, N
<1> HIDE DEF at
<1>5. \A k \in 1 .. N : seq[at(k)] \in S
  <2>1. \A i \in keep : seq[i] \in S
    OBVIOUS
  <2> QED
    BY <1>3, <2>1
<1>6. Pick(seq, keep) \in Seq(S) /\ Len(Pick(seq, keep)) = N
  BY <1>2, <1>4, <1>5
<1>7. ASSUME NEW i \in keep
      PROVE  Pick(seq, keep)[Rank(keep, i)] = seq[i]
  <2> DEFINE k == Rank(keep, i)
  <2>1. k \in 1 .. N /\ at(k) \in keep /\ Rank(keep, at(k)) = k
    BY <1>2, <1>3
  <2> HIDE DEF k
  <2>2. at(k) = i
    <3>1. \A x \in keep : x \in Int /\ Rank(keep, x) \in Int
      BY <1>1, <1>2
    <3>2. \A x, y \in keep : Rank(keep, x) = Rank(keep, y) => x = y
      BY <1>2, <3>1
    <3> QED
      BY <2>1, <3>2 DEF k
  <2> QED
    BY <1>4, <2>1, <2>2 DEF k
<1> QED
  BY <1>6, <1>7 DEF N

\* How often x occurs in a sequence.
Count(seq, x) == Cardinality({i \in 1 .. Len(seq) : seq[i] = x})

\* An element that occurs is counted.
LEMMA CountZero ==
    ASSUME NEW S, NEW seq \in Seq(S), NEW x
    PROVE  /\ Count(seq, x) \in Nat
           /\ Count(seq, x) = 0 <=> \A i \in 1 .. Len(seq) : seq[i] # x
<1> DEFINE A == {i \in 1 .. Len(seq) : seq[i] = x}
<1>1. Len(seq) \in Nat /\ A \in SUBSET (1 .. Len(seq))
  OBVIOUS
<1>2. IsFiniteSet(A) /\ Cardinality(A) \in Nat
  BY <1>1, RankNumbers
<1>3. Cardinality(A) = 0 <=> A = {}
  BY <1>2, FS_EmptySet
<1> QED
  BY <1>2, <1>3 DEF Count

\* What is picked is counted as often as it is kept.
LEMMA CountPick ==
    ASSUME NEW S, NEW seq \in Seq(S), NEW keep \in SUBSET (1 .. Len(seq)), NEW x
    PROVE  Count(Pick(seq, keep), x) = Cardinality({i \in keep : seq[i] = x})
<1> DEFINE new == Pick(seq, keep)
           A == {i \in keep : seq[i] = x}
           C == {k \in 1 .. Len(new) : new[k] = x}
           f == [i \in A |-> Rank(keep, i)]
<1>1. Len(seq) \in Nat
  OBVIOUS
<1>2. /\ \A i \in keep : Rank(keep, i) \in 1 .. Cardinality(keep)
      /\ \A i, j \in keep : i < j => Rank(keep, i) < Rank(keep, j)
      /\ \A k \in 1 .. Cardinality(keep) : \E i \in keep : Rank(keep, i) = k
      /\ Cardinality(keep) \in Nat
  BY <1>1, RankNumbers
<1>3. /\ Len(new) = Cardinality(keep)
      /\ \A i \in keep : new[Rank(keep, i)] = seq[i]
  BY PickElements
<1> HIDE DEF new
<1>4. f \in [A -> C]
  BY <1>2, <1>3
<1>5. \A i, j \in A : f[i] = f[j] => i = j
  <2>1. \A i \in keep : i \in Int /\ Rank(keep, i) \in Int
    BY <1>1, <1>2
  <2> QED
    BY <1>2, <2>1
<1>6. \A k \in C : \E i \in A : f[i] = k
  BY <1>2, <1>3
<1>7. f \in Bijection(A, C)
  BY <1>4, <1>5, <1>6 DEF Bijection, Injection, Surjection, IsInjective
<1>8. IsFiniteSet(A)
  <2>1. A \in SUBSET (1 .. Len(seq))
    OBVIOUS
  <2> QED
    BY <1>1, <2>1, RankNumbers
<1>9. Cardinality(C) = Cardinality(A)
  BY <1>7, <1>8, FS_Bijection, Zenon DEF ExistsBijection
<1> QED
  BY <1>9 DEF Count, new

\* An element appended is counted once more.
LEMMA CountAppend ==
    ASSUME NEW S, NEW seq \in Seq(S), NEW x \in S, NEW y
    PROVE  Count(Append(seq, x), y) = IF x = y THEN Count(seq, y) + 1 ELSE Count(seq, y)
<1> DEFINE new == Append(seq, x)
           A == {i \in 1 .. Len(seq) : seq[i] = y}
           C == {i \in 1 .. Len(new) : new[i] = y}
           N == Len(seq)
<1>1. N \in Nat /\ Len(new) = N + 1 /\ new[N + 1] = x /\ \A i \in 1 .. N : new[i] = seq[i]
  BY AppendProperties
<1>2. \A i \in 1 .. N + 1 : i \in 1 .. N \/ i = N + 1
  BY <1>1
<1> HIDE DEF new
<1>3. IsFiniteSet(A) /\ N + 1 \notin A
  <2>1. A \in SUBSET (1 .. N)
    OBVIOUS
  <2>2. IsFiniteSet(A)
    BY <1>1, <2>1, RankNumbers
  <2>3. N + 1 \notin 1 .. N
    BY <1>1
  <2> QED
    BY <2>1, <2>2, <2>3
<1>4. CASE x = y
  <2>1. C = A \cup {N + 1}
    BY <1>1, <1>2, <1>4
  <2>2. Cardinality(C) = Cardinality(A) + 1
    BY <1>3, <2>1, FS_AddElement
  <2> QED
    BY <1>4, <2>2 DEF Count, new
<1>5. CASE x # y
  <2>1. C = A
    BY <1>1, <1>2, <1>5
  <2> QED
    BY <1>5, <2>1 DEF Count, new
<1> QED
  BY <1>4, <1>5

(***************************************************************************)
(* A loop over 0 .. N-1 that keeps the best member of C seen so far, where *)
(* i replaces the best j if <<i, j>> is in B; none stands for no candidate *)
(* yet.  ScanStep is the body of the loop and g[n] the best after n turns. *)
(***************************************************************************)
ScanStep(C, B, none, best, i) ==
    IF i \in C /\ (best = none \/ <<i, best>> \in B) THEN i ELSE best

IsScan(g, N, C, B, none) ==
    g = [n \in 0 .. N |-> IF n = 0 THEN none ELSE ScanStep(C, B, none, g[n - 1], n - 1)]

\* The recursive definition of the loop defines a function.
LEMMA ScanExists ==
    ASSUME NEW N \in Nat, NEW C, NEW B, NEW none
    PROVE  \E g : IsScan(g, N, C, B, none)
<1> DEFINE T == {m \in Nat : ~\E g : IsScan(g, m, C, B, none)}
<1>1. CASE T = {}
  BY <1>1
<1>2. CASE T # {}
  <2>1. T \in SUBSET Nat
    OBVIOUS
  <2>2. PICK m \in T : \A k \in T : m <= k
    BY <1>2, <2>1, LeastNumber
  <2>3. m # 0
    <3>1. ASSUME m = 0
          PROVE  IsScan([n \in 0 .. 0 |-> none], m, C, B, none)
      BY <3>1 DEF IsScan
    <3> QED
      BY <3>1
  <2>4. m - 1 \in Nat /\ ~(m <= m - 1) /\ m \in Nat
    BY <2>3
  <2>5. PICK h : IsScan(h, m - 1, C, B, none)
    BY <2>2, <2>4
  <2> DEFINE g == [n \in 0 .. m |-> IF n = m THEN ScanStep(C, B, none, h[m - 1], m - 1) ELSE h[n]]
  <2>6. h = [n \in 0 .. m - 1 |-> IF n = 0 THEN none ELSE ScanStep(C, B, none, h[n - 1], n - 1)]
    BY <2>5 DEF IsScan
  <2>7. \A n \in 0 .. m : g[n] = IF n = m THEN ScanStep(C, B, none, h[m - 1], m - 1) ELSE h[n]
    OBVIOUS
  <2>8. \A n \in 0 .. m - 1 : h[n] = IF n = 0 THEN none ELSE ScanStep(C, B, none, h[n - 1], n - 1)
    BY <2>6
  <2> DEFINE body(n) == IF n = 0 THEN none ELSE ScanStep(C, B, none, g[n - 1], n - 1)
  <2> HIDE DEF T
  <2>9. ASSUME NEW n \in 0 .. m
        PROVE  g[n] = body(n)
    <3> HIDE DEF g
    <3>1. CASE n = m
      <4>1. g[m - 1] = h[m - 1]
        BY <2>4, <2>7
      <4> QED
        BY <2>3, <2>7, <3>1, <4>1
    <3>2. CASE n # m /\ n # 0
      <4>1. n \in 0 .. m - 1 /\ n - 1 \in 0 .. m /\ n - 1 # m
        BY <2>4, <3>2
      <4>2. g[n - 1] = h[n - 1] /\ g[n] = h[n]
        BY <2>7, <3>2, <4>1
      <4> QED
        BY <2>8, <3>2, <4>1, <4>2
    <3>3. CASE n = 0
      <4>1. n \in 0 .. m - 1 /\ n # m
        BY <2>4, <3>3
      <4> QED
        BY <2>7, <2>8, <3>3, <4>1
    <3> QED
      BY <3>1, <3>2, <3>3
  <2>10. g = [n \in 0 .. m |-> body(n)]
    BY <2>9
  <2>11. IsScan(g, m, C, B, none)
    BY <2>10 DEF IsScan
  <2> QED
    BY <2>2, <2>11 DEF T
<1> QED
  BY <1>1, <1>2

\* If B is a strict order of C, the loop ends with a member of C that no other
\* one replaces, or with none if C is empty.
LEMMA ScanFinds ==
    ASSUME NEW N \in Nat, NEW C \in SUBSET (0 .. N - 1), NEW B, NEW none, NEW g,
           IsScan(g, N, C, B, none),
           none \notin C,
           \A i, j \in C : <<i, j>> \in B => <<j, i>> \notin B,
           \A i, j, k \in C : <<i, j>> \in B /\ <<j, k>> \in B => <<i, k>> \in B
    PROVE  /\ \A n \in 0 .. N : g[n] \in C \cup {none}
           /\ g[N] = none => C = {}
           /\ \A c \in C : c # g[N] => <<c, g[N]>> \notin B
<1> DEFINE Q(n) == /\ g[n] = none => \A c \in C : ~(c < n)
                   /\ g[n] # none => g[n] \in C /\ g[n] < n
                   /\ \A c \in C : c < n /\ c # g[n] => <<c, g[n]>> \notin B
           T == {n \in 0 .. N : ~Q(n)}
<1>1. \A n \in 0 .. N : g[n] = IF n = 0 THEN none ELSE ScanStep(C, B, none, g[n - 1], n - 1)
  BY DEF IsScan
<1>2. \A c \in C : c \in Nat /\ c < N
  OBVIOUS
<1>3. Q(0)
  <2>1. g[0] = none
    BY <1>1
  <2>2. \A c \in C : ~(c < 0)
    BY <1>2
  <2> QED
    BY <2>1, <2>2
<1>4. ASSUME NEW n \in 1 .. N, Q(n - 1)
      PROVE  Q(n)
  <2> DEFINE i == n - 1
             b == g[n - 1]
  <2>1. g[n] = ScanStep(C, B, none, b, i)
    BY <1>1
  <2>2. i \in Nat /\ i < n /\ \A c \in C : c < n <=> c < i \/ c = i
    BY <1>2
  <2>3. /\ b = none => \A c \in C : ~(c < i)
        /\ b # none => b \in C /\ b < i
        /\ \A c \in C : c < i /\ c # b => <<c, b>> \notin B
    BY <1>4
  <2> HIDE DEF i, b
  <2>4. CASE i \in C /\ b = none
    <3>1. g[n] = i
      BY <2>1, <2>4 DEF ScanStep
    <3> QED
      BY <2>2, <2>3, <2>4, <3>1
  <2>5. CASE i \in C /\ b # none /\ <<i, b>> \in B
    <3>1. g[n] = i
      BY <2>1, <2>5 DEF ScanStep
    <3>2. ASSUME NEW c \in C, c < i
          PROVE  <<c, i>> \notin B
      BY <2>3, <2>5, <3>2
    <3> QED
      BY <2>2, <2>5, <3>1, <3>2
  <2>6. CASE ~(i \in C /\ (b = none \/ <<i, b>> \in B))
    <3>1. g[n] = b
      BY <2>1, <2>6 DEF ScanStep
    <3>2. b # none => b < n
      BY <1>2, <2>2, <2>3
    <3> QED
      BY <2>2, <2>3, <2>6, <3>1, <3>2
  <2> QED
    BY <2>4, <2>5, <2>6
<1> HIDE DEF Q
<1>5. T = {}
  <2> SUFFICES ASSUME T # {}
               PROVE  FALSE
    OBVIOUS
  <2>1. T \in SUBSET Nat
    OBVIOUS
  <2>2. PICK m \in T : \A k \in T : m <= k
    BY <2>1, LeastNumber
  <2>3. m # 0
    BY <1>3
  <2>4. m \in 1 .. N /\ m - 1 \in 0 .. N /\ ~(m <= m - 1)
    BY <2>3
  <2>5. Q(m - 1)
    BY <2>2, <2>4
  <2> QED
    BY <1>4, <2>4, <2>5
<1>6. \A n \in 0 .. N : Q(n)
  BY <1>5
<1>7. \A n \in 0 .. N : g[n] \in C \cup {none}
  BY <1>6 DEF Q
<1>8. N \in 0 .. N
  OBVIOUS
<1> QED
  BY <1>2, <1>6, <1>7, <1>8 DEF Q

-----------------------------------------------------------------------------
(* The replacer. *)

\* The turn of evict()'s loop that looks at frame i.
Turn(best, i) ==
    IF Candidate(i) /\ (best = NoFrame \/ Beats(i, best)) THEN i ELSE best

Loop(best) == best = [n \in 0 .. PoolSize |-> IF n = 0 THEN NoFrame ELSE Turn(best[n - 1], n - 1)]

\* evict() is its loop.
LEMMA EvictIsLoop == Evict = (CHOOSE best : Loop(best))[PoolSize]
BY DEF Evict, Loop, Turn

Candidates == {f \in Frames : Candidate(f)}

Order == {p \in Frames \X Frames : Beats(p[1], p[2])}

\* The first access of a tracked frame is one of its accesses.
LEMMA EarliestAccess ==
    ASSUME accesses \in Seq(Frames), NEW f, Tracked(f)
    PROVE  /\ Earliest(f) \in 1 .. Len(accesses)
           /\ accesses[Earliest(f)] = f
           /\ \A j \in 1 .. Len(accesses) : accesses[j] = f => Earliest(f) <= j
<1> DEFINE T == {i \in DOMAIN accesses : accesses[i] = f}
<1>1. DOMAIN accesses = 1 .. Len(accesses) /\ Len(accesses) \in Nat
  OBVIOUS
<1>2. T \in SUBSET Nat /\ T # {}
  BY <1>1 DEF Tracked
<1>3. \E i \in T : \A j \in T : i <= j
  BY <1>2, LeastNumber
<1>4. \E i \in DOMAIN accesses :
         accesses[i] = f /\ \A j \in DOMAIN accesses : accesses[j] = f => i <= j
  BY <1>3
<1> QED
  BY <1>1, <1>4 DEF Earliest

\* The comparison of the loop is a strict order of the tracked frames.
LEMMA BeatsOrder ==
    ASSUME accesses \in Seq(Frames)
    PROVE  /\ \A i, j \in Candidates : <<i, j>> \in Order => <<j, i>> \notin Order
           /\ \A i, j, k \in Candidates :
                 <<i, j>> \in Order /\ <<j, k>> \in Order => <<i, k>> \in Order
<1> DEFINE inf(f) == HistorySize(f) < K
<1>1. \A f \in Candidates : f \in Frames /\ Earliest(f) \in Nat
  BY EarliestAccess DEF Candidates, Candidate
<1>2. \A i, j \in Candidates : <<i, j>> \in Order <=>
         \/ inf(i) /\ ~inf(j)
         \/ (inf(i) <=> inf(j)) /\ Earliest(i) < Earliest(j)
  BY <1>1 DEF Order, Beats
<1> HIDE DEF inf
<1> QED
  BY <1>1, <1>2

\* evict() ends with a candidate that no other one beats, and with nothing only
\* if there is no candidate.
LEMMA EvictFinds ==
    ASSUME accesses \in Seq(Frames)
    PROVE  /\ Evict \in Candidates \cup {NoFrame}
           /\ Evict = NoFrame => Candidates = {}
           /\ Evict # NoFrame => \A f \in Candidates : f # Evict => ~Beats(f, Evict)
<1>1. PoolSize \in Nat /\ NoFrame \notin Frames /\ Frames = 0 .. PoolSize - 1
  BY PoolAssumption DEF Frames
<1>2. Candidates \in SUBSET (0 .. PoolSize - 1) /\ NoFrame \notin Candidates
  BY <1>1 DEF Candidates
<1>3. /\ \A i, j \in Candidates : <<i, j>> \in Order => <<j, i>> \notin Order
      /\ \A i, j, k \in Candidates :
            <<i, j>> \in Order /\ <<j, k>> \in Order => <<i, k>> \in Order
  BY BeatsOrder
<1>4. ASSUME NEW b \in Candidates \cup {NoFrame}, NEW i \in Frames
      PROVE  /\ Turn(b, i) = ScanStep(Candidates, Order, NoFrame, b, i)
             /\ Turn(b, i) \in Candidates \cup {NoFrame}
  <2>1. i \in Candidates <=> Candidate(i)
    BY DEF Candidates
  <2>2. b # NoFrame => (<<i, b>> \in Order <=> Beats(i, b))
    BY DEF Candidates, Order
  <2> QED
    BY <2>1, <2>2 DEF Turn, ScanStep
<1>5. \A n \in 0 .. PoolSize : n # 0 => n - 1 \in Frames /\ n - 1 \in 0 .. PoolSize
  BY <1>1
<1>6. \E best : Loop(best)
  <2>1. PICK g : IsScan(g, PoolSize, Candidates, Order, NoFrame)
    BY <1>1, ScanExists
  <2>2. \A n \in 0 .. PoolSize : g[n] \in Candidates \cup {NoFrame}
    BY <1>1, <1>2, <1>3, <2>1, ScanFinds
  <2>3. g = [n \in 0 .. PoolSize |->
               IF n = 0 THEN NoFrame ELSE ScanStep(Candidates, Order, NoFrame, g[n - 1], n - 1)]
    BY <2>1 DEF IsScan
  <2>4. \A n \in 0 .. PoolSize : n # 0 =>
           Turn(g[n - 1], n - 1) = ScanStep(Candidates, Order, NoFrame, g[n - 1], n - 1)
    BY <1>4, <1>5, <2>2
  <2>5. Loop(g)
    <3>1. \A n \in 0 .. PoolSize : g[n] = IF n = 0 THEN NoFrame ELSE Turn(g[n - 1], n - 1)
      BY <2>3, <2>4
    <3>2. g = [n \in 0 .. PoolSize |-> g[n]]
      BY <2>3
    <3> QED
      BY <3>1, <3>2 DEF Loop
  <2> QED
    BY <2>5
<1> DEFINE best == CHOOSE b : Loop(b)
<1>7. Loop(best)
  BY <1>6
<1>8. Evict = best[PoolSize]
  BY EvictIsLoop
<1> HIDE DEF best
<1>9. best = [n \in 0 .. PoolSize |-> IF n = 0 THEN NoFrame ELSE Turn(best[n - 1], n - 1)]
  BY <1>7 DEF Loop
<1>10. \A n \in 0 .. PoolSize : best[n] = IF n = 0 THEN NoFrame ELSE Turn(best[n - 1], n - 1)
  BY <1>9
<1> DEFINE T == {n \in 0 .. PoolSize : best[n] \notin Candidates \cup {NoFrame}}
<1>11. T = {}
  <2> SUFFICES ASSUME T # {}
               PROVE  FALSE
    OBVIOUS
  <2>1. T \in SUBSET Nat
    OBVIOUS
  <2>2. PICK m \in T : \A k \in T : m <= k
    BY <2>1, LeastNumber
  <2>3. m # 0
    BY <1>10
  <2>4. m - 1 \in Frames /\ m - 1 \in 0 .. PoolSize /\ ~(m <= m - 1)
    BY <1>1, <1>5, <2>3
  <2>5. best[m - 1] \in Candidates \cup {NoFrame}
    BY <2>2, <2>4
  <2>6. best[m] = Turn(best[m - 1], m - 1)
    BY <1>10, <2>3
  <2> QED
    BY <1>4, <2>4, <2>5, <2>6
<1>12. \A n \in 0 .. PoolSize : best[n] \in Candidates \cup {NoFrame}
  BY <1>11
<1>13. IsScan(best, PoolSize, Candidates, Order, NoFrame)
  <2>1. \A n \in 0 .. PoolSize : n # 0 =>
           Turn(best[n - 1], n - 1) = ScanStep(Candidates, Order, NoFrame, best[n - 1], n - 1)
    BY <1>4, <1>5, <1>12
  <2>2. \A n \in 0 .. PoolSize : best[n] =
           IF n = 0 THEN NoFrame ELSE ScanStep(Candidates, Order, NoFrame, best[n - 1], n - 1)
    BY <1>10, <2>1
  <2>3. best = [n \in 0 .. PoolSize |-> best[n]]
    BY <1>9
  <2> QED
    BY <2>2, <2>3 DEF IsScan
<1> HIDE DEF T
<1>14. /\ \A n \in 0 .. PoolSize : best[n] \in Candidates \cup {NoFrame}
       /\ best[PoolSize] = NoFrame => Candidates = {}
       /\ \A c \in Candidates : c # best[PoolSize] => <<c, best[PoolSize]>> \notin Order
  BY <1>1, <1>2, <1>3, <1>13, ScanFinds, Zenon
<1>15. best[PoolSize] \in Candidates \cup {NoFrame}
  BY <1>1, <1>12
<1>16. \A c, e \in Candidates : <<c, e>> \notin Order => ~Beats(c, e)
  BY DEF Order, Candidates
<1> QED
  BY <1>8, <1>14, <1>15, <1>16

-----------------------------------------------------------------------------
(***************************************************************************)
(* The parts of the invariant, as statements about the values of the       *)
(* variables, so that one lemma serves both ends of a step.                *)
(***************************************************************************)
OnFrame(gs, f) == {g \in Guards : gs[g].frame = f}

TableOK(fr, pt) ==
    /\ \A p \in PageId : pt[p] # NoFrame => fr[pt[p]].page = p
    /\ \A f \in Frames : fr[f].page # NoPage => pt[fr[f].page] = f

GuardsOK(fr, gs) ==
    \A g \in Guards :
        \/ gs[g] = EmptyGuard
        \/ /\ gs[g].page \in PageId
           /\ gs[g].frame \in Frames
           /\ fr[gs[g].frame].page = gs[g].page

PinsOK(fr, gs) == \A f \in Frames : fr[f].pin = Cardinality(OnFrame(gs, f))

EvictableOK(fr, ev, cs) ==
    /\ ev = {f \in Frames : fr[f].page # NoPage /\ fr[f].pin = 0}
    /\ cs = Cardinality(ev)

HistoryOK(fr, ac) ==
    \A f \in Frames : Count(ac, f) <= 2 /\ (Count(ac, f) = 0 <=> fr[f].page = NoPage)

Structure(fr, pt, ac, ev, cs, gs) ==
    /\ fr \in [Frames -> BufferFrame]
    /\ pt \in [PageId -> Frames \cup {NoFrame}]
    /\ ac \in Seq(Frames)
    /\ gs \in [Guards -> PageGuard]
    /\ TableOK(fr, pt) /\ GuardsOK(fr, gs) /\ PinsOK(fr, gs)
    /\ EvictableOK(fr, ev, cs) /\ HistoryOK(fr, ac)

FileType == [PageId -> {{}} \cup {{c} : c \in Page}]

\* No guard on the frame holds an unfinished write.
Settled(gs, f) == \A g \in Guards : gs[g].frame = f => ~gs[g].dirty

\* What the file has on page p, counts left out.
DataOf(dk, p) == {x.data : x \in dk[p]}

\* A cached page is a page of the file; the file has what a clean frame shows,
\* if the page is one of those whose writers mark what they have written.  (All
\* are, in this module; a caller of the pool may write a page and not mark it.)
Stored(Marked, frame, settled, dk, pc) ==
    frame.page # NoPage =>
        /\ frame.page < pc
        /\ DataOf(dk, frame.page) # {}
        /\ frame.page \in Marked /\ ~frame.dirty /\ settled => frame.content.data \in DataOf(dk, frame.page)

Contents(Marked, fr, gs, dk, pc) ==
    /\ dk \in FileType
    /\ pc \in 0 .. MaxPages
    /\ DataOf(dk, 0) # {}
    /\ \A f \in Frames : Stored(Marked, fr[f], Settled(gs, f), dk, pc)

PoolParts(Marked) ==
    /\ Structure(frames, page_table, accesses, evictable, curr_size, guards)
    /\ Contents(Marked, frames, guards, disk, page_count)

\* The frames of the pool, and the fields of frames and guards.
LEMMA Constants ==
    /\ PoolSize \in Nat /\ MaxPages \in Nat /\ MaxPages > 0
    /\ NoPage \notin PageId /\ NoFrame \notin Frames /\ ZeroPage \in Data
    /\ IsFiniteSet(Frames) /\ IsFiniteSet(Guards)
    /\ 0 \in PageId /\ \A p \in PageId : p \in 0 .. MaxPages - 1
<1>1. IsFiniteSet(0 .. PoolSize - 1)
  BY PoolAssumption, FS_Interval
<1> QED
  BY <1>1, PoolAssumption DEF Frames, PageId

\* What a frame and a page are made of.
LEMMA FrameFields ==
    ASSUME NEW fr \in [Frames -> BufferFrame], NEW f \in Frames
    PROVE  /\ fr[f] \in BufferFrame
           /\ fr[f].page \in PageId \cup {NoPage}
           /\ fr[f].pin \in Nat
           /\ fr[f].dirty \in BOOLEAN
           /\ fr[f].content \in Page
           /\ fr[f].content.count \in 0 .. MaxPages
           /\ fr[f].content.data \in Data
<1>1. fr[f] \in BufferFrame
  OBVIOUS
<1> QED
  BY <1>1 DEF BufferFrame, Page

\* What a guard is made of.
LEMMA GuardFields ==
    /\ EmptyGuard \in PageGuard
    /\ EmptyGuard.page = NoPage /\ EmptyGuard.frame = NoFrame /\ EmptyGuard.dirty = FALSE
    /\ \A g \in PageGuard :
          /\ g.page \in PageId \cup {NoPage}
          /\ g.frame \in Frames \cup {NoFrame}
          /\ g.dirty \in BOOLEAN
BY DEF EmptyGuard, PageGuard

\* Loaded and Invalidated frames.
LEMMA NewFrames ==
    /\ Cleared \in Page
    /\ Invalidated \in BufferFrame
    /\ Invalidated.page = NoPage /\ Invalidated.pin = 0 /\ Invalidated.dirty = FALSE
    /\ \A p \in PageId, c \in Page :
          /\ Loaded(p, c) \in BufferFrame
          /\ Loaded(p, c).page = p
          /\ Loaded(p, c).pin = 1
          /\ Loaded(p, c).dirty = FALSE
          /\ Loaded(p, c).content = c
BY Constants DEF Cleared, Invalidated, Loaded, BufferFrame, Page

\* A frame's history is its accesses.
LEMMA HistoryCounts ==
    ASSUME accesses \in Seq(Frames), NEW f
    PROVE  /\ HistorySize(f) = Count(accesses, f)
           /\ Count(accesses, f) \in Nat
           /\ Tracked(f) <=> Count(accesses, f) # 0
<1>1. DOMAIN accesses = 1 .. Len(accesses)
  OBVIOUS
<1>2. /\ Count(accesses, f) \in Nat
      /\ Count(accesses, f) = 0 <=> \A i \in 1 .. Len(accesses) : accesses[i] # f
  BY CountZero
<1> QED
  BY <1>1, <1>2 DEF HistorySize, Tracked, Count

\* The parts are the invariant.
LEMMA InvariantParts == PoolInvariant <=> PoolParts(PageId)
<1>1. accesses \in Seq(Frames) => \A f \in Frames :
         /\ HistorySize(f) = Count(accesses, f)
         /\ Tracked(f) <=> Count(accesses, f) # 0
  BY HistoryCounts
<1>2. ASSUME PoolInvariant
      PROVE  PoolParts(PageId)
  <2>1. TypeOK
    BY <1>2 DEF PoolInvariant
  <2>2. TableOK(frames, page_table)
    BY <1>2 DEF PoolInvariant, PinsMatchGuards, TableMatchesFrames, Valid, TableOK
  <2>3. GuardsOK(frames, guards)
    BY <1>2, <2>1, GuardFields DEF PoolInvariant, PinsMatchGuards, GuardsWhole, TypeOK, GuardsOK
  <2>4. PinsOK(frames, guards)
    BY <1>2 DEF PoolInvariant, PinsMatchGuards, PinsOK, OnFrame
  <2>5. EvictableOK(frames, evictable, curr_size)
    BY <1>2 DEF PoolInvariant, ReplacerAgrees, EvictableOK, Valid
  <2>6. HistoryOK(frames, accesses)
    BY <1>1, <1>2, <2>1
       DEF PoolInvariant, ReplacerAgrees, HistoryBounded, HistoryOK, TypeOK, Valid, K
  <2>7. Contents(PageId, frames, guards, disk, page_count)
    BY <1>2, <2>1
       DEF PoolInvariant, CachedPagesExist, CleanMatchesDisk, Contents, TypeOK, Valid,
           FileType, Settled, Stored, DataOf
  <2> QED
    BY <2>1, <2>2, <2>3, <2>4, <2>5, <2>6, <2>7 DEF PoolParts, Structure, TypeOK
<1>3. ASSUME PoolParts(PageId)
      PROVE  PoolInvariant
  <2>1. /\ Structure(frames, page_table, accesses, evictable, curr_size, guards)
        /\ Contents(PageId, frames, guards, disk, page_count)
    BY <1>3 DEF PoolParts
  <2>2. TypeOK
    <3>1. evictable \subseteq Frames
      BY <2>1 DEF Structure, EvictableOK
    <3>2. curr_size \in Nat
      BY <2>1, <3>1, Constants, FS_Subset, FS_CardinalityType DEF Structure, EvictableOK
    <3> QED
      BY <2>1, <3>1, <3>2 DEF Structure, Contents, FileType, TypeOK
  <2>3. GuardsWhole
    BY <2>1, Constants DEF Structure, GuardsOK, GuardsWhole
  <2>4. PinsMatchGuards
    <3>1. TableMatchesFrames
      BY <2>1 DEF Structure, TableOK, TableMatchesFrames, Valid
    <3>2. \A g \in Guards : guards[g] # EmptyGuard => frames[guards[g].frame].page = guards[g].page
      BY <2>1 DEF Structure, GuardsOK
    <3>3. \A f \in Frames : frames[f].pin = Cardinality({g \in Guards : guards[g].frame = f})
      BY <2>1 DEF Structure, PinsOK, OnFrame
    <3> QED
      BY <3>1, <3>2, <3>3 DEF PinsMatchGuards
  <2>5. ReplacerAgrees /\ HistoryBounded
    BY <1>1, <2>1
       DEF Structure, EvictableOK, HistoryOK, ReplacerAgrees, HistoryBounded, Valid, K
  <2>6. CachedPagesExist /\ CleanMatchesDisk
    <3>1. \A f \in Frames : frames[f].page \in PageId \cup {NoPage}
      BY <2>1, FrameFields DEF Structure
    <3> QED
      BY <2>1, <3>1 DEF Contents, CachedPagesExist, CleanMatchesDisk, Valid, Settled, Stored, DataOf
  <2> QED
    BY <2>2, <2>3, <2>4, <2>5, <2>6 DEF PoolInvariant
<1> QED
  BY <1>2, <1>3

-----------------------------------------------------------------------------
(* What the calls do to the parts. *)

\* A guard set on a frame, from an empty one, is one more guard on it.
LEMMA GuardSet ==
    ASSUME NEW gs \in [Guards -> PageGuard], NEW g \in Guards, gs[g].frame = NoFrame,
           NEW x \in PageGuard, x.frame \in Frames, NEW h \in Frames
    PROVE  Cardinality(OnFrame([gs EXCEPT ![g] = x], h)) =
              IF h = x.frame THEN Cardinality(OnFrame(gs, h)) + 1 ELSE Cardinality(OnFrame(gs, h))
<1> DEFINE new == [gs EXCEPT ![g] = x]
<1>1. \A k \in Guards : new[k] = IF k = g THEN x ELSE gs[k]
  OBVIOUS
<1> HIDE DEF new
<1>2. g \notin OnFrame(gs, h)
  BY Constants DEF OnFrame
<1>3. IsFiniteSet(OnFrame(gs, h))
  BY Constants, FS_Subset DEF OnFrame
<1>4. CASE h = x.frame
  <2>1. OnFrame(new, h) = OnFrame(gs, h) \cup {g}
    BY <1>1, <1>4 DEF OnFrame
  <2> QED
    BY <1>2, <1>3, <1>4, <2>1, FS_AddElement DEF new
<1>5. CASE h # x.frame
  <2>1. OnFrame(new, h) = OnFrame(gs, h)
    BY <1>1, <1>2, <1>5 DEF OnFrame
  <2> QED
    BY <1>5, <2>1 DEF new
<1> QED
  BY <1>4, <1>5

\* An emptied guard is one less on its frame.
LEMMA GuardCleared ==
    ASSUME NEW gs \in [Guards -> PageGuard], NEW g \in Guards, gs[g].frame \in Frames,
           NEW h \in Frames
    PROVE  /\ Cardinality(OnFrame([gs EXCEPT ![g] = EmptyGuard], h)) =
                 IF h = gs[g].frame THEN Cardinality(OnFrame(gs, h)) - 1
                                    ELSE Cardinality(OnFrame(gs, h))
           /\ h = gs[g].frame => Cardinality(OnFrame(gs, h)) \in Nat \ {0}
<1> DEFINE new == [gs EXCEPT ![g] = EmptyGuard]
<1>1. \A k \in Guards : new[k] = IF k = g THEN EmptyGuard ELSE gs[k]
  OBVIOUS
<1> HIDE DEF new
<1>2. h = gs[g].frame <=> g \in OnFrame(gs, h)
  BY DEF OnFrame
<1>3. IsFiniteSet(OnFrame(gs, h))
  BY Constants, FS_Subset DEF OnFrame
<1>4. OnFrame(new, h) = OnFrame(gs, h) \ {g}
  BY <1>1, Constants, GuardFields DEF OnFrame
<1>5. Cardinality(OnFrame(new, h)) =
         IF g \in OnFrame(gs, h) THEN Cardinality(OnFrame(gs, h)) - 1 ELSE Cardinality(OnFrame(gs, h))
  BY <1>3, <1>4, FS_RemoveElement
<1>6. g \in OnFrame(gs, h) => Cardinality(OnFrame(gs, h)) \in Nat \ {0}
  BY <1>3, FS_CardinalityType, FS_EmptySet
<1> QED
  BY <1>2, <1>5, <1>6 DEF new

\* Taking a frame away from the evictable ones.
LEMMA EvictableLess ==
    ASSUME NEW ev \in SUBSET Frames, NEW f
    PROVE  /\ Cardinality(ev \ {f}) = IF f \in ev THEN Cardinality(ev) - 1 ELSE Cardinality(ev)
           /\ Cardinality(ev) \in Nat
<1>1. IsFiniteSet(ev)
  BY Constants, FS_Subset
<1> QED
  BY <1>1, FS_RemoveElement, FS_CardinalityType

\* Adding one.
LEMMA EvictableMore ==
    ASSUME NEW ev \in SUBSET Frames, NEW f \in Frames, f \notin ev
    PROVE  Cardinality(ev \cup {f}) = Cardinality(ev) + 1
<1>1. IsFiniteSet(ev)
  BY Constants, FS_Subset
<1> QED
  BY <1>1, FS_AddElement

\* A forgotten frame has no accesses, the others keep theirs.
LEMMA ForgetCounts ==
    ASSUME NEW ac \in Seq(Frames), NEW f \in Frames
    PROVE  LET new == Pick(ac, {i \in 1 .. Len(ac) : ac[i] # f})
           IN  /\ new \in Seq(Frames)
               /\ \A h \in Frames : Count(new, h) = IF h = f THEN 0 ELSE Count(ac, h)
<1> DEFINE keep == {i \in 1 .. Len(ac) : ac[i] # f}
           new == Pick(ac, keep)
<1>1. keep \in SUBSET (1 .. Len(ac))
  OBVIOUS
<1>2. new \in Seq(Frames)
  BY <1>1, PickElements
<1>3. ASSUME NEW h \in Frames
      PROVE  Count(new, h) = IF h = f THEN 0 ELSE Count(ac, h)
  <2>1. Count(new, h) = Cardinality({i \in keep : ac[i] = h})
    BY <1>1, CountPick
  <2>2. CASE h = f
    <3>1. {i \in keep : ac[i] = h} = {}
      BY <2>2
    <3> QED
      BY <2>1, <2>2, <3>1, FS_EmptySet
  <2>3. CASE h # f
    <3>1. {i \in keep : ac[i] = h} = {i \in 1 .. Len(ac) : ac[i] = h}
      BY <2>3
    <3> QED
      BY <2>1, <2>3, <3>1 DEF Count
  <2> QED
    BY <2>2, <2>3
<1> QED
  BY <1>2, <1>3

\* The books after frame f, unpinned, was loaded with page p for guard g.
LEMMA LoadStructure ==
    ASSUME Structure(frames, page_table, accesses, evictable, curr_size, guards),
           NEW f \in Frames, NEW p \in PageId, NEW c \in Page, NEW g \in Guards,
           guards[g] = EmptyGuard, OnFrame(guards, f) = {}, page_table[p] = NoFrame
    PROVE  Structure([frames EXCEPT ![f] = Loaded(p, c)],
                     [[q \in PageId |-> IF q = frames[f].page THEN NoFrame ELSE page_table[q]] EXCEPT ![p] = f],
                     Append(Pick(accesses, {i \in 1 .. Len(accesses) : accesses[i] # f}), f),
                     evictable \ {f}, IF f \in evictable THEN curr_size - 1 ELSE curr_size,
                     [guards EXCEPT ![g] = [page |-> p, frame |-> f, dirty |-> FALSE]])
<1> DEFINE fr2 == [frames EXCEPT ![f] = Loaded(p, c)]
           pt2 == [[q \in PageId |-> IF q = frames[f].page THEN NoFrame ELSE page_table[q]] EXCEPT ![p] = f]
           kept == Pick(accesses, {i \in 1 .. Len(accesses) : accesses[i] # f})
           ac2 == Append(kept, f)
           x == [page |-> p, frame |-> f, dirty |-> FALSE]
           gs2 == [guards EXCEPT ![g] = x]
<1>1. /\ frames \in [Frames -> BufferFrame] /\ page_table \in [PageId -> Frames \cup {NoFrame}]
      /\ accesses \in Seq(Frames) /\ guards \in [Guards -> PageGuard]
  BY DEF Structure
<1>2. x \in PageGuard /\ x.page = p /\ x.frame = f /\ x.dirty = FALSE
  BY DEF PageGuard
<1>3. /\ Loaded(p, c) \in BufferFrame /\ Loaded(p, c).page = p /\ Loaded(p, c).pin = 1
  BY NewFrames
<1>4. fr2 \in [Frames -> BufferFrame] /\ \A h \in Frames : fr2[h] = IF h = f THEN Loaded(p, c) ELSE frames[h]
  BY <1>1, <1>3
<1>5. /\ pt2 \in [PageId -> Frames \cup {NoFrame}]
      /\ \A q \in PageId : pt2[q] = IF q = p THEN f
                                    ELSE IF q = frames[f].page THEN NoFrame ELSE page_table[q]
  BY <1>1
<1> HIDE DEF x
<1>6. gs2 \in [Guards -> PageGuard] /\ \A k \in Guards : gs2[k] = IF k = g THEN x ELSE guards[k]
  BY <1>1, <1>2
<1>7. kept \in Seq(Frames) /\ \A h \in Frames : Count(kept, h) = IF h = f THEN 0 ELSE Count(accesses, h)
  BY <1>1, ForgetCounts
<1> HIDE DEF kept
<1>8. /\ ac2 \in Seq(Frames)
      /\ \A h \in Frames : Count(ac2, h) = IF h = f THEN 1 ELSE Count(accesses, h)
  <2>1. \A h \in Frames : Count(ac2, h) = IF f = h THEN Count(kept, h) + 1 ELSE Count(kept, h)
    BY <1>7, CountAppend
  <2> QED
    BY <1>7, <2>1
<1> HIDE DEF fr2, pt2, ac2, gs2
<1>9. TableOK(fr2, pt2)
  <2>1. TableOK(frames, page_table)
    BY DEF Structure
  <2>2. ASSUME NEW q \in PageId, pt2[q] # NoFrame
        PROVE  fr2[pt2[q]].page = q
    <3>1. CASE q = p
      BY <1>3, <1>4, <1>5, <3>1
    <3>2. CASE q # p
      <4>1. q # frames[f].page /\ pt2[q] = page_table[q]
        BY <1>5, <2>2, <3>2
      <4>2. page_table[q] \in Frames /\ frames[page_table[q]].page = q
        BY <1>1, <2>1, <2>2, <4>1 DEF TableOK
      <4>3. page_table[q] # f
        BY <4>1, <4>2
      <4> QED
        BY <1>4, <4>1, <4>2, <4>3
    <3> QED
      BY <3>1, <3>2
  <2>3. ASSUME NEW h \in Frames, fr2[h].page # NoPage
        PROVE  pt2[fr2[h].page] = h
    <3>1. CASE h = f
      BY <1>3, <1>4, <1>5, <3>1
    <3>2. CASE h # f
      <4>1. fr2[h].page = frames[h].page /\ frames[h].page # NoPage /\ frames[h].page \in PageId
        BY <1>1, <1>4, <2>3, <3>2, FrameFields
      <4>2. page_table[frames[h].page] = h
        BY <2>1, <4>1 DEF TableOK
      <4>3. frames[h].page # p
        BY <4>2, Constants
      <4>4. frames[h].page # frames[f].page
        BY <2>1, <3>2, <4>1, <4>2 DEF TableOK
      <4> QED
        BY <1>5, <4>1, <4>2, <4>3, <4>4
    <3> QED
      BY <3>1, <3>2
  <2> QED
    BY <2>2, <2>3 DEF TableOK
<1>10. GuardsOK(fr2, gs2)
  <2> SUFFICES ASSUME NEW k \in Guards
               PROVE  \/ gs2[k] = EmptyGuard
                      \/ /\ gs2[k].page \in PageId
                         /\ gs2[k].frame \in Frames
                         /\ fr2[gs2[k].frame].page = gs2[k].page
    BY DEF GuardsOK
  <2>1. CASE k = g
    BY <1>2, <1>3, <1>4, <1>6, <2>1
  <2>2. CASE k # g
    <3>1. gs2[k] = guards[k] /\ guards[k].frame # f
      BY <1>6, <2>2 DEF OnFrame
    <3> QED
      BY <1>4, <3>1 DEF Structure, GuardsOK
  <2> QED
    BY <2>1, <2>2
<1>11. PinsOK(fr2, gs2)
  <2> SUFFICES ASSUME NEW h \in Frames
               PROVE  fr2[h].pin = Cardinality(OnFrame(gs2, h))
    BY DEF PinsOK
  <2>1. guards[g].frame = NoFrame
    BY GuardFields
  <2>2. Cardinality(OnFrame(gs2, h)) =
           IF h = f THEN Cardinality(OnFrame(guards, h)) + 1 ELSE Cardinality(OnFrame(guards, h))
    BY ZenonT(60), <1>1, <1>2, <2>1, GuardSet DEF gs2
  <2>3. h = f => Cardinality(OnFrame(guards, h)) = 0
    BY FS_EmptySet
  <2> QED
    BY <1>3, <1>4, <2>2, <2>3 DEF Structure, PinsOK
<1>12. EvictableOK(fr2, evictable \ {f}, IF f \in evictable THEN curr_size - 1 ELSE curr_size)
  <2>1. evictable = {h \in Frames : frames[h].page # NoPage /\ frames[h].pin = 0} /\ curr_size = Cardinality(evictable)
    BY DEF Structure, EvictableOK
  <2>2. evictable \ {f} = {h \in Frames : fr2[h].page # NoPage /\ fr2[h].pin = 0}
    BY <1>3, <1>4, <2>1
  <2>3. Cardinality(evictable \ {f}) = IF f \in evictable THEN curr_size - 1 ELSE curr_size
    BY <2>1, EvictableLess
  <2> QED
    BY <2>2, <2>3 DEF EvictableOK
<1>13. HistoryOK(fr2, ac2)
  BY <1>3, <1>4, <1>8, Constants DEF Structure, HistoryOK
<1> QED
  BY <1>4, <1>5, <1>6, <1>8, <1>9, <1>10, <1>11, <1>12, <1>13
     DEF Structure, fr2, pt2, ac2, gs2, kept, x

\* The books after frame f, unpinned, was emptied.
LEMMA EmptyStructure ==
    ASSUME Structure(frames, page_table, accesses, evictable, curr_size, guards),
           NEW f \in Frames, OnFrame(guards, f) = {}
    PROVE  Structure([frames EXCEPT ![f] = Invalidated],
                     [q \in PageId |-> IF q = frames[f].page THEN NoFrame ELSE page_table[q]],
                     Pick(accesses, {i \in 1 .. Len(accesses) : accesses[i] # f}),
                     evictable \ {f}, IF f \in evictable THEN curr_size - 1 ELSE curr_size, guards)
<1> DEFINE fr2 == [frames EXCEPT ![f] = Invalidated]
           pt2 == [q \in PageId |-> IF q = frames[f].page THEN NoFrame ELSE page_table[q]]
           kept == Pick(accesses, {i \in 1 .. Len(accesses) : accesses[i] # f})
<1>1. /\ frames \in [Frames -> BufferFrame] /\ page_table \in [PageId -> Frames \cup {NoFrame}]
      /\ accesses \in Seq(Frames) /\ guards \in [Guards -> PageGuard]
  BY DEF Structure
<1>2. Invalidated \in BufferFrame /\ Invalidated.page = NoPage /\ Invalidated.pin = 0
  BY NewFrames
<1>3. fr2 \in [Frames -> BufferFrame] /\ \A h \in Frames : fr2[h] = IF h = f THEN Invalidated ELSE frames[h]
  BY <1>1, <1>2
<1>4. /\ pt2 \in [PageId -> Frames \cup {NoFrame}]
      /\ \A q \in PageId : pt2[q] = IF q = frames[f].page THEN NoFrame ELSE page_table[q]
  BY <1>1
<1>5. kept \in Seq(Frames) /\ \A h \in Frames : Count(kept, h) = IF h = f THEN 0 ELSE Count(accesses, h)
  BY <1>1, ForgetCounts
<1> HIDE DEF fr2, pt2, kept
<1>6. TableOK(fr2, pt2)
  <2>1. TableOK(frames, page_table)
    BY DEF Structure
  <2>2. ASSUME NEW q \in PageId, pt2[q] # NoFrame
        PROVE  fr2[pt2[q]].page = q
    <3>1. q # frames[f].page /\ pt2[q] = page_table[q]
      BY <1>4, <2>2
    <3>2. page_table[q] \in Frames /\ frames[page_table[q]].page = q
      BY <1>1, <2>1, <2>2, <3>1 DEF TableOK
    <3> QED
      BY <1>3, <3>1, <3>2
  <2>3. ASSUME NEW h \in Frames, fr2[h].page # NoPage
        PROVE  pt2[fr2[h].page] = h
    <3>1. h # f /\ fr2[h] = frames[h]
      BY <1>2, <1>3, <2>3
    <3>2. frames[h].page \in PageId /\ frames[h].page # NoPage
      BY <1>1, <2>3, <3>1, FrameFields
    <3>3. page_table[frames[h].page] = h
      BY <2>1, <3>2 DEF TableOK
    <3>4. frames[h].page # frames[f].page
      BY <2>1, <3>1, <3>2, <3>3 DEF TableOK
    <3> QED
      BY <1>4, <3>1, <3>2, <3>3, <3>4
  <2> QED
    BY <2>2, <2>3 DEF TableOK
<1>7. GuardsOK(fr2, guards)
  <2>1. \A k \in Guards : guards[k].frame # f
    BY DEF OnFrame
  <2> QED
    BY <1>3, <2>1 DEF Structure, GuardsOK
<1>8. PinsOK(fr2, guards)
  <2>1. Cardinality(OnFrame(guards, f)) = 0
    BY FS_EmptySet
  <2> QED
    BY <1>2, <1>3, <2>1 DEF Structure, PinsOK
<1>9. EvictableOK(fr2, evictable \ {f}, IF f \in evictable THEN curr_size - 1 ELSE curr_size)
  <2>1. evictable = {h \in Frames : frames[h].page # NoPage /\ frames[h].pin = 0} /\ curr_size = Cardinality(evictable)
    BY DEF Structure, EvictableOK
  <2>2. evictable \ {f} = {h \in Frames : fr2[h].page # NoPage /\ fr2[h].pin = 0}
    BY <1>2, <1>3, <2>1
  <2>3. Cardinality(evictable \ {f}) = IF f \in evictable THEN curr_size - 1 ELSE curr_size
    BY <2>1, EvictableLess
  <2> QED
    BY <2>2, <2>3 DEF EvictableOK
<1>10. HistoryOK(fr2, kept)
  BY <1>2, <1>3, <1>5 DEF Structure, HistoryOK
<1> QED
  BY <1>1, <1>3, <1>4, <1>5, <1>6, <1>7, <1>8, <1>9, <1>10 DEF Structure, fr2, pt2, kept

\* The books after a cached page was pinned by one more guard.
LEMMA PinStructure ==
    ASSUME Structure(frames, page_table, accesses, evictable, curr_size, guards),
           NEW f \in Frames, NEW p \in PageId, NEW g \in Guards,
           guards[g] = EmptyGuard, page_table[p] = f,
           NEW ac2 \in Seq(Frames),
           \A h \in Frames : h # f => Count(ac2, h) = Count(accesses, h),
           Count(ac2, f) \in 1 .. 2
    PROVE  Structure([frames EXCEPT ![f].pin = @ + 1], page_table, ac2,
                     evictable \ {f}, IF f \in evictable THEN curr_size - 1 ELSE curr_size,
                     [guards EXCEPT ![g] = [page |-> p, frame |-> f, dirty |-> FALSE]])
<1> DEFINE fr2 == [frames EXCEPT ![f].pin = @ + 1]
           x == [page |-> p, frame |-> f, dirty |-> FALSE]
           gs2 == [guards EXCEPT ![g] = x]
<1>1. /\ frames \in [Frames -> BufferFrame] /\ page_table \in [PageId -> Frames \cup {NoFrame}]
      /\ accesses \in Seq(Frames) /\ guards \in [Guards -> PageGuard]
  BY DEF Structure
<1>2. x \in PageGuard /\ x.page = p /\ x.frame = f /\ x.dirty = FALSE
  BY DEF PageGuard
<1>3. /\ fr2 \in [Frames -> BufferFrame]
      /\ \A h \in Frames : fr2[h].page = frames[h].page
      /\ \A h \in Frames : fr2[h].pin = IF h = f THEN frames[h].pin + 1 ELSE frames[h].pin
  <2>1. frames[f] \in BufferFrame
    BY <1>1
  <2>2. [frames[f] EXCEPT !.pin = @ + 1] \in BufferFrame
    BY <2>1 DEF BufferFrame
  <2> QED
    BY <1>1, <2>1, <2>2 DEF BufferFrame
<1> HIDE DEF x
<1>4. gs2 \in [Guards -> PageGuard] /\ \A k \in Guards : gs2[k] = IF k = g THEN x ELSE guards[k]
  BY <1>1, <1>2
<1>5. frames[f].page = p
  BY Constants DEF Structure, TableOK
<1> HIDE DEF fr2, gs2
<1>6. TableOK(fr2, page_table)
  BY <1>1, <1>3 DEF Structure, TableOK
<1>7. GuardsOK(fr2, gs2)
  BY <1>2, <1>3, <1>4, <1>5 DEF Structure, GuardsOK
<1>8. PinsOK(fr2, gs2)
  <2> SUFFICES ASSUME NEW h \in Frames
               PROVE  fr2[h].pin = Cardinality(OnFrame(gs2, h))
    BY DEF PinsOK
  <2>1. guards[g].frame = NoFrame
    BY GuardFields
  <2>2. Cardinality(OnFrame(gs2, h)) =
           IF h = f THEN Cardinality(OnFrame(guards, h)) + 1 ELSE Cardinality(OnFrame(guards, h))
    BY ZenonT(60), <1>1, <1>2, <2>1, GuardSet DEF gs2
  <2> QED
    BY <1>3, <2>2 DEF Structure, PinsOK
<1>9. EvictableOK(fr2, evictable \ {f}, IF f \in evictable THEN curr_size - 1 ELSE curr_size)
  <2>1. evictable = {h \in Frames : frames[h].page # NoPage /\ frames[h].pin = 0} /\ curr_size = Cardinality(evictable)
    BY DEF Structure, EvictableOK
  <2>2. fr2[f].pin # 0
    BY <1>1, <1>3, FrameFields
  <2>3. evictable \ {f} = {h \in Frames : fr2[h].page # NoPage /\ fr2[h].pin = 0}
    BY <1>3, <2>1, <2>2
  <2>4. Cardinality(evictable \ {f}) = IF f \in evictable THEN curr_size - 1 ELSE curr_size
    BY <2>1, EvictableLess
  <2> QED
    BY <2>3, <2>4 DEF EvictableOK
<1>10. HistoryOK(fr2, ac2)
  <2>1. fr2[f].page # NoPage
    BY <1>3, <1>5, Constants
  <2> QED
    BY <1>3, <2>1 DEF Structure, HistoryOK
<1> QED
  BY <1>1, <1>3, <1>4, <1>6, <1>7, <1>8, <1>9, <1>10 DEF Structure, fr2, gs2, x

\* BufferFrame::unpin of a pinned frame.
LEMMA UnpinnedFields ==
    ASSUME NEW frame \in BufferFrame, NEW d \in BOOLEAN, frame.pin \in Nat \ {0}
    PROVE  /\ Unpinned(frame, d) \in BufferFrame
           /\ Unpinned(frame, d).page = frame.page
           /\ Unpinned(frame, d).pin = frame.pin - 1
           /\ Unpinned(frame, d).dirty = (frame.dirty \/ d)
           /\ Unpinned(frame, d).content = frame.content
<1> DEFINE b == frame.dirty \/ d
           u == [page |-> frame.page, pin |-> frame.pin - 1, dirty |-> b, content |-> frame.content]
<1>1. frame.page \in PageId \cup {NoPage} /\ frame.content \in Page /\ frame.dirty \in BOOLEAN
  BY DEF BufferFrame
<1>2. frame = [page |-> frame.page, pin |-> frame.pin, dirty |-> frame.dirty,
               content |-> frame.content]
  BY DEF BufferFrame
<1>3. frame.pin > 0 /\ frame.pin - 1 \in Nat
  OBVIOUS
<1>4. b \in BOOLEAN
  OBVIOUS
<1>5. Unpinned(frame, d) = u
  <2> DEFINE n == IF frame.pin > 0 THEN frame.pin - 1 ELSE frame.pin
  <2>1. n = frame.pin - 1
    BY <1>3
  <2>2. Unpinned(frame, d) = [frame EXCEPT !.pin = n, !.dirty = b]
    BY DEF Unpinned
  <2> HIDE DEF n, b
  <2> QED
    BY <1>2, <2>1, <2>2
<1> HIDE DEF b
<1>6. u \in BufferFrame
  BY <1>1, <1>3, <1>4 DEF BufferFrame
<1>7. u.page = frame.page /\ u.pin = frame.pin - 1 /\ u.dirty = b /\ u.content = frame.content
  OBVIOUS
<1> QED
  BY <1>5, <1>6, <1>7 DEF b

\* The books after a guard on frame f was dropped: the last one makes the
\* frame evictable.
LEMMA UnpinStructure ==
    ASSUME Structure(frames, page_table, accesses, evictable, curr_size, guards),
           NEW g \in Guards, guards[g] # EmptyGuard, NEW f \in Frames, f = guards[g].frame
    PROVE  /\ frames[f].page = guards[g].page /\ page_table[guards[g].page] = f
           /\ frames[f].pin \in Nat \ {0} /\ f \notin evictable
           /\ Structure([frames EXCEPT ![f] = Unpinned(@, guards[g].dirty)], page_table, accesses,
                        IF frames[f].pin = 1 THEN evictable \cup {f} ELSE evictable,
                        IF frames[f].pin = 1 THEN curr_size + 1 ELSE curr_size,
                        [guards EXCEPT ![g] = EmptyGuard])
<1> DEFINE fr2 == [frames EXCEPT ![f] = Unpinned(@, guards[g].dirty)]
           gs2 == [guards EXCEPT ![g] = EmptyGuard]
           ev2 == IF frames[f].pin = 1 THEN evictable \cup {f} ELSE evictable
           cs2 == IF frames[f].pin = 1 THEN curr_size + 1 ELSE curr_size
<1>1. /\ frames \in [Frames -> BufferFrame] /\ page_table \in [PageId -> Frames \cup {NoFrame}]
      /\ accesses \in Seq(Frames) /\ guards \in [Guards -> PageGuard]
  BY DEF Structure
<1>2. frames[f].page = guards[g].page /\ guards[g].page \in PageId
  BY DEF Structure, GuardsOK
<1>3. page_table[guards[g].page] = f
  BY <1>2, Constants DEF Structure, TableOK
<1>4. \A h \in Frames :
         /\ Cardinality(OnFrame(gs2, h)) =
               IF h = f THEN Cardinality(OnFrame(guards, h)) - 1 ELSE Cardinality(OnFrame(guards, h))
         /\ h = f => Cardinality(OnFrame(guards, h)) \in Nat \ {0}
  <2> SUFFICES ASSUME NEW h \in Frames
               PROVE  /\ Cardinality(OnFrame(gs2, h)) =
                            IF h = f THEN Cardinality(OnFrame(guards, h)) - 1
                                     ELSE Cardinality(OnFrame(guards, h))
                      /\ h = f => Cardinality(OnFrame(guards, h)) \in Nat \ {0}
    OBVIOUS
  <2>1. guards[g].frame \in Frames
    OBVIOUS
  <2>2. /\ Cardinality(OnFrame([guards EXCEPT ![g] = EmptyGuard], h)) =
              IF h = guards[g].frame THEN Cardinality(OnFrame(guards, h)) - 1
                                 ELSE Cardinality(OnFrame(guards, h))
        /\ h = guards[g].frame => Cardinality(OnFrame(guards, h)) \in Nat \ {0}
    BY <1>1, <2>1, GuardCleared, Zenon
  <2> HIDE DEF gs2
  <2> QED
    BY <2>2 DEF gs2
<1>5. frames[f].pin \in Nat \ {0}
  BY <1>4 DEF Structure, PinsOK
<1>6. /\ fr2 \in [Frames -> BufferFrame]
      /\ \A h \in Frames : fr2[h].page = frames[h].page
      /\ \A h \in Frames : fr2[h].pin = IF h = f THEN frames[h].pin - 1 ELSE frames[h].pin
  <2>1. frames[f] \in BufferFrame /\ guards[g].dirty \in BOOLEAN
    BY <1>1, GuardFields
  <2>2. /\ Unpinned(frames[f], guards[g].dirty) \in BufferFrame
        /\ Unpinned(frames[f], guards[g].dirty).page = frames[f].page
        /\ Unpinned(frames[f], guards[g].dirty).pin = frames[f].pin - 1
    BY <1>5, <2>1, UnpinnedFields
  <2> QED
    BY <1>1, <2>2
<1>7. gs2 \in [Guards -> PageGuard] /\ \A k \in Guards : gs2[k] = IF k = g THEN EmptyGuard ELSE guards[k]
  BY <1>1, GuardFields
<1>8. evictable = {h \in Frames : frames[h].page # NoPage /\ frames[h].pin = 0} /\ curr_size = Cardinality(evictable)
  BY DEF Structure, EvictableOK
<1>9. f \notin evictable
  BY <1>5, <1>8
<1> HIDE DEF fr2, gs2
<1>10. TableOK(fr2, page_table)
  BY <1>1, <1>6 DEF Structure, TableOK
<1>11. GuardsOK(fr2, gs2)
  BY <1>6, <1>7 DEF Structure, GuardsOK
<1>12. PinsOK(fr2, gs2)
  BY <1>4, <1>6 DEF Structure, PinsOK
<1>13. EvictableOK(fr2, ev2, cs2)
  <2>1. frames[f].page # NoPage
    BY <1>2, Constants
  <2>2. ev2 = {h \in Frames : fr2[h].page # NoPage /\ fr2[h].pin = 0}
    <3>1. CASE frames[f].pin = 1
      <4>1. \A h \in Frames : h \in ev2 <=> fr2[h].page # NoPage /\ fr2[h].pin = 0
        BY <1>6, <1>8, <2>1, <3>1
      <4> QED
        BY <1>8, <4>1
    <3>2. CASE frames[f].pin # 1
      <4>1. fr2[f].pin # 0
        BY <1>5, <1>6, <3>2
      <4> QED
        BY <1>6, <1>8, <1>9, <3>2, <4>1
    <3> QED
      BY <3>1, <3>2
  <2>3. Cardinality(evictable \cup {f}) = curr_size + 1
    BY <1>8, <1>9, EvictableMore
  <2> QED
    BY <1>8, <2>2, <2>3 DEF EvictableOK
<1>14. HistoryOK(fr2, accesses)
  BY <1>6 DEF Structure, HistoryOK
<1> QED
  BY <1>1, <1>2, <1>3, <1>5, <1>6, <1>7, <1>9, <1>10, <1>11, <1>12, <1>13, <1>14
     DEF Structure, fr2, gs2

\* A change of contents and marks leaves the books alone.
LEMMA SameStructure ==
    ASSUME Structure(frames, page_table, accesses, evictable, curr_size, guards),
           NEW fr2 \in [Frames -> BufferFrame], NEW gs2 \in [Guards -> PageGuard],
           \A h \in Frames : fr2[h].page = frames[h].page /\ fr2[h].pin = frames[h].pin,
           \A k \in Guards : /\ gs2[k].page = guards[k].page /\ gs2[k].frame = guards[k].frame
                             /\ guards[k] = EmptyGuard => gs2[k] = EmptyGuard
    PROVE  Structure(fr2, page_table, accesses, evictable, curr_size, gs2)
<1>1. page_table \in [PageId -> Frames \cup {NoFrame}] /\ accesses \in Seq(Frames)
  BY DEF Structure
<1>2. TableOK(fr2, page_table)
  BY <1>1 DEF Structure, TableOK
<1>3. GuardsOK(fr2, gs2)
  BY DEF Structure, GuardsOK
<1>4. PinsOK(fr2, gs2)
  <2>1. \A f : OnFrame(gs2, f) = OnFrame(guards, f)
    BY DEF OnFrame
  <2> QED
    BY <2>1 DEF Structure, PinsOK
<1>5. EvictableOK(fr2, evictable, curr_size)
  BY DEF Structure, EvictableOK
<1>6. HistoryOK(fr2, accesses)
  BY DEF Structure, HistoryOK
<1> QED
  BY <1>1, <1>2, <1>3, <1>4, <1>5, <1>6 DEF Structure

\* A guard that is moved is one less and one more on the same frame.
LEMMA MoveStructure ==
    ASSUME Structure(frames, page_table, accesses, evictable, curr_size, guards),
           NEW g \in Guards, NEW h \in Guards, guards[g] # EmptyGuard, guards[h] = EmptyGuard
    PROVE  Structure(frames, page_table, accesses, evictable, curr_size, [guards EXCEPT ![h] = guards[g], ![g] = EmptyGuard])
<1> DEFINE mid == [guards EXCEPT ![g] = EmptyGuard]
           gs2 == [mid EXCEPT ![h] = guards[g]]
<1>1. guards \in [Guards -> PageGuard] /\ g # h
  BY DEF Structure
<1>2. [guards EXCEPT ![h] = guards[g], ![g] = EmptyGuard] = gs2
  BY <1>1
<1>3. guards[g].page \in PageId /\ guards[g].frame \in Frames /\ frames[guards[g].frame].page = guards[g].page
  BY DEF Structure, GuardsOK
<1>4. mid \in [Guards -> PageGuard] /\ mid[h].frame = NoFrame /\ guards[g] \in PageGuard
  BY <1>1, GuardFields
<1>5. ASSUME NEW f \in Frames
      PROVE  Cardinality(OnFrame(gs2, f)) = Cardinality(OnFrame(guards, f))
  <2>1. /\ Cardinality(OnFrame(mid, f)) =
              IF f = guards[g].frame THEN Cardinality(OnFrame(guards, f)) - 1 ELSE Cardinality(OnFrame(guards, f))
        /\ f = guards[g].frame => Cardinality(OnFrame(guards, f)) \in Nat \ {0}
    BY <1>1, <1>3, GuardCleared
  <2>2. Cardinality(OnFrame(gs2, f)) =
           IF f = guards[g].frame THEN Cardinality(OnFrame(mid, f)) + 1 ELSE Cardinality(OnFrame(mid, f))
    <3> HIDE DEF mid
    <3> QED
      BY <1>3, <1>4, GuardSet, Zenon
  <2> QED
    BY <2>1, <2>2
<1>6. /\ gs2 \in [Guards -> PageGuard]
      /\ \A k \in Guards : gs2[k] = IF k = h THEN guards[g] ELSE IF k = g THEN EmptyGuard ELSE guards[k]
  BY <1>1, <1>4
<1> HIDE DEF gs2, mid
<1>7. GuardsOK(frames, gs2)
  BY <1>3, <1>6 DEF Structure, GuardsOK
<1>8. PinsOK(frames, gs2)
  BY <1>5 DEF Structure, PinsOK
<1> QED
  BY <1>2, <1>6, <1>7, <1>8 DEF Structure

\* recordAccess keeps one or two accesses of a tracked frame, and those of the
\* others.
LEMMA AccessRecorded ==
    ASSUME accesses \in Seq(Frames), NEW f \in Frames, Count(accesses, f) \in 1 .. 2
    PROVE  /\ RecordAccess(f) \in Seq(Frames)
           /\ \A h \in Frames : h # f => Count(RecordAccess(f), h) = Count(accesses, h)
           /\ Count(RecordAccess(f), f) \in 1 .. 2
<1>1. HistorySize(f) = Count(accesses, f) /\ Tracked(f)
  BY HistoryCounts
<1>2. CASE HistorySize(f) < K
  <2>1. RecordAccess(f) = Append(accesses, f)
    BY <1>2 DEF RecordAccess
  <2>2. \A h \in Frames : Count(Append(accesses, f), h) =
            IF f = h THEN Count(accesses, h) + 1 ELSE Count(accesses, h)
    BY CountAppend
  <2> QED
    BY <1>1, <1>2, <2>1, <2>2 DEF K
<1>3. CASE ~(HistorySize(f) < K)
  <2> DEFINE keep == 1 .. Len(accesses) \ {Earliest(f)}
             kept == Pick(accesses, keep)
  <2>1. RecordAccess(f) = Append(kept, f)
    BY <1>3 DEF RecordAccess
  <2>2. keep \in SUBSET (1 .. Len(accesses))
    OBVIOUS
  <2>3. kept \in Seq(Frames)
    BY <2>2, PickElements
  <2>4. Earliest(f) \in 1 .. Len(accesses) /\ accesses[Earliest(f)] = f
    BY <1>1, EarliestAccess
  <2>5. ASSUME NEW h \in Frames
        PROVE  Count(kept, h) = IF f = h THEN Count(accesses, h) - 1 ELSE Count(accesses, h)
    <3> DEFINE A == {i \in 1 .. Len(accesses) : accesses[i] = h}
    <3>1. Count(kept, h) = Cardinality({i \in keep : accesses[i] = h})
      BY <2>2, CountPick
    <3>2. {i \in keep : accesses[i] = h} = A \ {Earliest(f)}
      OBVIOUS
    <3>3. Earliest(f) \in A <=> f = h
      BY <2>4
    <3>4. IsFiniteSet(A)
      <4>1. IsFiniteSet(1 .. Len(accesses))
        BY FS_Interval
      <4> QED
        BY <4>1, FS_Subset
    <3>5. Cardinality(A \ {Earliest(f)}) =
             IF Earliest(f) \in A THEN Cardinality(A) - 1 ELSE Cardinality(A)
      BY <3>4, FS_RemoveElement
    <3> QED
      BY <3>1, <3>2, <3>3, <3>5 DEF Count
  <2> HIDE DEF kept
  <2>6. \A h \in Frames : Count(Append(kept, f), h) =
            IF f = h THEN Count(kept, h) + 1 ELSE Count(kept, h)
    BY <2>3, CountAppend
  <2>7. Append(kept, f) \in Seq(Frames)
    BY <2>3
  <2>8. Count(accesses, f) = 2
    BY <1>1, <1>3 DEF K
  <2> QED
    BY <2>1, <2>5, <2>6, <2>7, <2>8
<1> QED
  BY <1>2, <1>3

\* A frame that findFreeFrame returns has no guard, and is tracked by the
\* replacer just if it is evictable.
LEMMA FreeFrameFacts ==
    ASSUME NEW Marked, PoolParts(Marked), NEW f \in Frames, FreeFrame(f)
    PROVE  /\ OnFrame(guards, f) = {}
           /\ Tracked(f) <=> f \in evictable
<1>1. /\ Structure(frames, page_table, accesses, evictable, curr_size, guards)
      /\ accesses \in Seq(Frames) /\ guards \in [Guards -> PageGuard]
  BY DEF PoolParts, Structure
<1>2. OnFrame(guards, f) = {}
  <2>1. CASE ~Valid(f)
    <3>1. frames[f].page = NoPage
      BY <2>1 DEF Valid
    <3>2. \A g \in Guards : guards[g].frame # f
      BY <1>1, <3>1, Constants, GuardFields DEF Structure, GuardsOK
    <3> QED
      BY <3>2 DEF OnFrame
  <2>2. CASE Victim(f)
    <3>1. f \in Candidates
      BY <1>1, <2>2, EvictFinds DEF Victim
    <3>2. f \in evictable
      BY <3>1 DEF Candidates, Candidate
    <3>3. frames[f].pin = 0
      BY <1>1, <3>2 DEF Structure, EvictableOK
    <3>4. Cardinality(OnFrame(guards, f)) = 0
      BY <1>1, <3>3 DEF Structure, PinsOK
    <3>5. IsFiniteSet(OnFrame(guards, f))
      BY Constants, FS_Subset DEF OnFrame
    <3> QED
      BY <3>4, <3>5, FS_EmptySet
  <2> QED
    BY <2>1, <2>2 DEF FreeFrame
<1>3. frames[f].pin = 0
  BY <1>1, <1>2, FS_EmptySet DEF Structure, PinsOK
<1>4. Tracked(f) <=> frames[f].page # NoPage
  BY <1>1, HistoryCounts DEF Structure, HistoryOK
<1> QED
  BY <1>1, <1>2, <1>3, <1>4 DEF Structure, EvictableOK

-----------------------------------------------------------------------------
(* What the calls do to the file. *)

\* A page of the file holds one content or nothing.
LEMMA FilePages ==
    ASSUME NEW dk \in FileType, NEW p \in PageId
    PROVE  /\ dk[p] \in {{}} \cup {{c} : c \in Page}
           /\ \A c \in dk[p] : c \in Page /\ dk[p] = {c}
           /\ \A x \in DataOf(dk, p) : x \in Data /\ DataOf(dk, p) = {x}
           /\ dk[p] = {} <=> DataOf(dk, p) = {}
<1>1. dk[p] \in {{}} \cup {{c} : c \in Page}
  BY DEF FileType
<1>2. CASE dk[p] = {}
  BY <1>1, <1>2 DEF DataOf
<1>3. CASE dk[p] # {}
  <2>1. PICK c \in Page : dk[p] = {c}
    BY <1>1, <1>3
  <2>2. DataOf(dk, p) = {c.data}
    BY <2>1 DEF DataOf
  <2>3. c.data \in Data
    BY DEF Page
  <2> QED
    BY <1>1, <2>1, <2>2, <2>3
<1> QED
  BY <1>2, <1>3

\* A page written whole.
LEMMA WrittenData ==
    ASSUME NEW dk \in FileType, NEW p \in PageId, NEW c \in Page, NEW new, new = Written(dk, p, c)
    PROVE  /\ new \in FileType
           /\ new[p] = {c} /\ DataOf(new, p) = {c.data}
           /\ \A q \in PageId : q # p => new[q] = dk[q] /\ DataOf(new, q) = DataOf(dk, q)
<1>1. new \in FileType /\ \A q \in PageId : new[q] = IF q = p THEN {c} ELSE dk[q]
  BY DEF Written, FileType
<1> QED
  BY <1>1 DEF DataOf

\* A write that fails touches no other page and leaves something on its own.
LEMMA TornData ==
    ASSUME NEW dk \in FileType, NEW p \in PageId, NEW c \in Page, NEW new \in TornWrite(dk, p, c)
    PROVE  /\ new \in FileType
           /\ DataOf(new, p) # {}
           /\ \A q \in PageId : q # p => new[q] = dk[q] /\ DataOf(new, q) = DataOf(dk, q)
<1>1. PICK n \in {c.count} \cup {old.count : old \in dk[p]}, x \in Data :
         new = [dk EXCEPT ![p] = {[count |-> n, data |-> x]}]
  BY DEF TornWrite
<1>2. c.count \in 0 .. MaxPages /\ \A old \in dk[p] : old.count \in 0 .. MaxPages
  BY FilePages DEF Page
<1>3. n \in 0 .. MaxPages
  BY <1>2
<1> DEFINE y == [count |-> n, data |-> x]
<1>4. y \in Page
  BY <1>3 DEF Page
<1> HIDE DEF y
<1>5. new = [dk EXCEPT ![p] = {y}]
  BY <1>1 DEF y
<1>6. new \in FileType /\ \A q \in PageId : new[q] = IF q = p THEN {y} ELSE dk[q]
  BY <1>4, <1>5 DEF FileType
<1> QED
  BY <1>6 DEF DataOf

\* The file grown to hold page p, and the gaps below it filled.
LEMMA ExtendedData ==
    ASSUME NEW dk \in FileType, NEW p \in PageId
    PROVE  /\ Extended(dk, p) \in FileType
           /\ \A q \in PageId : DataOf(Extended(dk, p), q) =
                 IF q = p \/ (q < p /\ DataOf(dk, q) = {}) THEN {ZeroPage} ELSE DataOf(dk, q)
           /\ 0 # p /\ DataOf(dk, 0) # {} => Extended(dk, p)[0] = dk[0]
<1>1. Cleared \in Page /\ Cleared.data = ZeroPage
  BY NewFrames DEF Cleared
<1>2. /\ Extended(dk, p) \in FileType
      /\ \A q \in PageId : Extended(dk, p)[q] = IF q = p \/ (q < p /\ dk[q] = {}) THEN {Cleared} ELSE dk[q]
  BY <1>1 DEF Extended, FileType
<1>3. \A q \in PageId : dk[q] = {} <=> DataOf(dk, q) = {}
  BY FilePages
<1>4. ASSUME NEW q \in PageId
      PROVE  DataOf(Extended(dk, p), q) =
                IF q = p \/ (q < p /\ DataOf(dk, q) = {}) THEN {ZeroPage} ELSE DataOf(dk, q)
  <2>1. CASE q = p \/ (q < p /\ dk[q] = {})
    <3>1. Extended(dk, p)[q] = {Cleared}
      BY <1>2, <2>1
    <3>2. DataOf(Extended(dk, p), q) = {ZeroPage}
      BY <1>1, <3>1 DEF DataOf
    <3> QED
      BY <1>3, <2>1, <3>2
  <2>2. CASE ~(q = p \/ (q < p /\ dk[q] = {}))
    <3>1. Extended(dk, p)[q] = dk[q]
      BY <1>2, <2>2
    <3>2. DataOf(Extended(dk, p), q) = DataOf(dk, q)
      BY <3>1 DEF DataOf
    <3> QED
      BY <1>3, <2>2, <3>2
  <2> QED
    BY <2>1, <2>2
<1>5. ASSUME 0 # p, DataOf(dk, 0) # {}
      PROVE  Extended(dk, p)[0] = dk[0]
  BY <1>2, <1>3, <1>5, Constants
<1> QED
  BY <1>2, <1>4, <1>5

\* The count of page 0 rewritten.
LEMMA CountUpdatedData ==
    ASSUME NEW dk \in FileType, NEW n \in 0 .. MaxPages
    PROVE  /\ CountUpdated(dk, n) \in FileType
           /\ \A q \in PageId : DataOf(CountUpdated(dk, n), q) = DataOf(dk, q)
           /\ \A c \in CountUpdated(dk, n)[0] : c.count = n
<1> DEFINE zero == {[c EXCEPT !.count = n] : c \in dk[0]}
<1>1. 0 \in PageId
  BY Constants
<1>2. \A q \in PageId : CountUpdated(dk, n)[q] = IF q = 0 THEN zero ELSE dk[q]
  BY <1>1 DEF CountUpdated, FileType
<1>3. /\ zero \in {{}} \cup {{c} : c \in Page}
      /\ {x.data : x \in zero} = DataOf(dk, 0)
      /\ \A c \in zero : c.count = n
  <2>1. CASE dk[0] = {}
    BY <2>1 DEF DataOf
  <2>2. CASE dk[0] # {}
    <3>1. PICK c \in Page : dk[0] = {c}
      BY <1>1, <2>2, FilePages
    <3> DEFINE e == [c EXCEPT !.count = n]
    <3>2. e \in Page /\ e.data = c.data /\ e.count = n
      BY DEF Page
    <3>3. zero = {e}
      BY <3>1
    <3> HIDE DEF e, zero
    <3> QED
      BY <3>1, <3>2, <3>3 DEF DataOf
  <2> QED
    BY <2>1, <2>2
<1> HIDE DEF zero
<1>4. CountUpdated(dk, n) \in FileType
  <2>1. CountUpdated(dk, n) = [q \in PageId |-> CountUpdated(dk, n)[q]]
    BY DEF CountUpdated, FileType
  <2> QED
    BY <1>2, <1>3, <2>1, FilePages DEF FileType
<1> QED
  BY <1>1, <1>2, <1>3, <1>4 DEF DataOf

\* The flush of a frame without guards: its page has what the frame shows, and
\* no other page changes.
LEMMA VictimFlushed ==
    ASSUME NEW Marked, PoolParts(Marked), NEW f \in Frames, OnFrame(guards, f) = {}
    PROVE  /\ FlushVictim(f) \in FileType
           /\ \A q \in PageId : q # frames[f].page =>
                 FlushVictim(f)[q] = disk[q] /\ DataOf(FlushVictim(f), q) = DataOf(disk, q)
           /\ frames[f].page # NoPage => DataOf(FlushVictim(f), frames[f].page) # {}
           /\ frames[f].page # NoPage /\ (frames[f].page \in Marked \/ frames[f].dirty) =>
                 DataOf(FlushVictim(f), frames[f].page) = {frames[f].content.data}
           /\ ~frames[f].dirty => FlushVictim(f) = disk
<1>1. frames \in [Frames -> BufferFrame] /\ disk \in FileType
  BY DEF PoolParts, Structure, Contents
<1>2. frames[f].page \in PageId \cup {NoPage} /\ frames[f].content \in Page
  BY <1>1, FrameFields
<1>3. CASE ~frames[f].dirty
  <2>1. FlushVictim(f) = disk
    BY <1>3 DEF FlushVictim
  <2>2. ASSUME frames[f].page # NoPage
        PROVE  /\ DataOf(disk, frames[f].page) # {}
               /\ frames[f].page \in Marked => DataOf(disk, frames[f].page) = {frames[f].content.data}
    <3>1. Settled(guards, f)
      BY DEF OnFrame, Settled
    <3>2. Stored(Marked, frames[f], Settled(guards, f), disk, page_count)
      BY DEF PoolParts, Contents
    <3>3. /\ DataOf(disk, frames[f].page) # {}
          /\ frames[f].page \in Marked => frames[f].content.data \in DataOf(disk, frames[f].page)
      BY <1>3, <2>2, <3>1, <3>2 DEF Stored
    <3> QED
      BY <1>1, <1>2, <2>2, <3>3, FilePages
  <2> QED
    BY <1>1, <1>3, <2>1, <2>2
<1>4. CASE frames[f].dirty /\ frames[f].page # NoPage
  <2>1. FlushVictim(f) = Written(disk, frames[f].page, frames[f].content)
    BY <1>4 DEF FlushVictim
  <2>2. frames[f].page \in PageId
    BY <1>2, <1>4
  <2>3. ASSUME NEW p \in PageId, NEW c \in Page, p = frames[f].page, c = frames[f].content
        PROVE  /\ FlushVictim(f) \in FileType
               /\ \A q \in PageId : q # p =>
                     FlushVictim(f)[q] = disk[q] /\ DataOf(FlushVictim(f), q) = DataOf(disk, q)
               /\ DataOf(FlushVictim(f), p) = {c.data}
    <3>1. FlushVictim(f) = Written(disk, p, c)
      BY <2>1, <2>3
    <3> QED
      BY <1>1, <3>1, WrittenData, Z3
  <2> QED
    BY <1>2, <1>4, <2>2, <2>3
<1>5. CASE frames[f].dirty /\ frames[f].page = NoPage
  <2>1. FlushVictim(f) = [disk EXCEPT ![NoPage] = {frames[f].content}]
    BY <1>5 DEF FlushVictim, Written
  <2>2. [disk EXCEPT ![NoPage] = {frames[f].content}] = disk
    BY <1>1, Constants DEF FileType
  <2> QED
    BY <1>1, <1>5, <2>1, <2>2
<1> QED
  BY <1>3, <1>4, <1>5

\* Two frames never hold one page.
LEMMA PagesDistinct ==
    ASSUME NEW fr, NEW pt, TableOK(fr, pt), NEW f \in Frames, NEW h \in Frames,
           fr[f].page # NoPage, fr[h].page = fr[f].page
    PROVE  f = h
BY DEF TableOK

\* flushAllPages as far as frame n: each dirty frame below n is on the file, the
\* other pages are as they were.
LEMMA FlushedData ==
    ASSUME NEW Marked, PoolParts(Marked), NEW n \in Int
    PROVE  /\ FlushedBelow(n) \in FileType
           /\ \A f \in DirtyBelow(n) :
                 /\ FlushedBelow(n)[frames[f].page] = {frames[f].content}
                 /\ DataOf(FlushedBelow(n), frames[f].page) = {frames[f].content.data}
           /\ \A q \in PageId : (\A f \in DirtyBelow(n) : frames[f].page # q) =>
                 FlushedBelow(n)[q] = disk[q] /\ DataOf(FlushedBelow(n), q) = DataOf(disk, q)
<1>1. /\ frames \in [Frames -> BufferFrame] /\ disk \in FileType
      /\ TableOK(frames, page_table)
  BY DEF PoolParts, Structure, Contents
<1>2. ASSUME NEW f \in DirtyBelow(n)
      PROVE  /\ f \in Frames /\ frames[f].page \in PageId /\ frames[f].content \in Page
             /\ FlushedBelow(n)[frames[f].page] = {frames[f].content}
  <2>1. f \in Frames /\ frames[f].page # NoPage
    BY DEF DirtyBelow, Valid
  <2>2. frames[f].page \in PageId /\ frames[f].content \in Page
    BY <1>1, <2>1, FrameFields
  <2>3. {h \in DirtyBelow(n) : frames[h].page = frames[f].page} = {f}
    BY <1>1, <2>1, PagesDistinct DEF DirtyBelow
  <2>4. FlushedBelow(n)[frames[f].page] =
           {frames[h].content : h \in {h \in DirtyBelow(n) : frames[h].page = frames[f].page}}
    BY <2>2 DEF FlushedBelow
  <2> QED
    BY <2>1, <2>2, <2>3, <2>4
<1>3. \A q \in PageId : (\A f \in DirtyBelow(n) : frames[f].page # q) => FlushedBelow(n)[q] = disk[q]
  BY DEF FlushedBelow
<1>4. FlushedBelow(n) \in FileType
  <2>1. FlushedBelow(n) = [q \in PageId |-> FlushedBelow(n)[q]]
    BY DEF FlushedBelow
  <2>2. ASSUME NEW q \in PageId
        PROVE  FlushedBelow(n)[q] \in {{}} \cup {{c} : c \in Page}
    <3>1. CASE \A f \in DirtyBelow(n) : frames[f].page # q
      BY <1>1, <1>3, <3>1, FilePages
    <3>2. CASE \E f \in DirtyBelow(n) : frames[f].page = q
      BY <1>2, <3>2
    <3> QED
      BY <3>1, <3>2
  <2> QED
    BY <2>1, <2>2 DEF FileType
<1> QED
  BY <1>2, <1>3, <1>4 DEF DataOf

\* The frames whose flush cleans them keep their pages, pins and contents.
LEMMA CleanedFrames ==
    ASSUME frames \in [Frames -> BufferFrame], NEW n \in Int
    PROVE  /\ CleanedBelow(n) \in [Frames -> BufferFrame]
           /\ \A f \in Frames :
                 /\ CleanedBelow(n)[f].page = frames[f].page
                 /\ CleanedBelow(n)[f].pin = frames[f].pin
                 /\ CleanedBelow(n)[f].content = frames[f].content
                 /\ CleanedBelow(n)[f].dirty = (frames[f].dirty /\ f \notin DirtyBelow(n))
<1>1. ASSUME NEW f \in Frames
      PROVE  /\ CleanedBelow(n)[f] \in BufferFrame
             /\ CleanedBelow(n)[f].page = frames[f].page
             /\ CleanedBelow(n)[f].pin = frames[f].pin
             /\ CleanedBelow(n)[f].content = frames[f].content
             /\ CleanedBelow(n)[f].dirty = (frames[f].dirty /\ f \notin DirtyBelow(n))
  <2>1. frames[f] \in BufferFrame
    OBVIOUS
  <2>2. CASE f \in DirtyBelow(n)
    <3>1. CleanedBelow(n)[f] = [frames[f] EXCEPT !.dirty = FALSE]
      BY <2>2 DEF CleanedBelow
    <3> QED
      BY <2>1, <2>2, <3>1 DEF BufferFrame
  <2>3. CASE f \notin DirtyBelow(n)
    <3>1. CleanedBelow(n)[f] = frames[f]
      BY <2>3 DEF CleanedBelow
    <3>2. frames[f].dirty \in BOOLEAN
      BY FrameFields
    <3> QED
      BY <2>1, <2>3, <3>1, <3>2
  <2> QED
    BY <2>2, <2>3
<1>2. CleanedBelow(n) = [f \in Frames |-> CleanedBelow(n)[f]]
  BY DEF CleanedBelow
<1>3. CleanedBelow(n) \in [Frames -> BufferFrame]
  BY <1>1, <1>2
<1> QED
  BY <1>1, <1>3

-----------------------------------------------------------------------------
(* What readers are shown. *)

\* Current, as a statement about the values of the variables.
Shown(fr, pt, dk, pc, p) ==
    IF pt[p] # NoFrame THEN {fr[pt[p]].content.data} ELSE IF p < pc THEN DataOf(dk, p) ELSE {}

\* No such page shows anything else than before, if it showed anything.
Keeps(Marked, fr, pt, dk, pc, fr2, pt2, dk2, pc2) ==
    \A q \in PageId :
        q \in Marked /\ Shown(fr, pt, dk, pc, q) # {} => Shown(fr2, pt2, dk2, pc2, q) = Shown(fr, pt, dk, pc, q)

KeepsCurrent(Marked) ==
    Keeps(Marked, frames, page_table, disk, page_count, frames', page_table', disk', page_count')

\* The file, but for the pages of P, has what it had.
FileKeeps(dk, dk2, P) ==
    \A q \in PageId : q \notin P /\ DataOf(dk, q) # {} => DataOf(dk2, q) = DataOf(dk, q)

\* What the parts say of the variables' types.
LEMMA PartTypes ==
    ASSUME NEW Marked, PoolParts(Marked)
    PROVE  /\ Structure(frames, page_table, accesses, evictable, curr_size, guards)
           /\ Contents(Marked, frames, guards, disk, page_count)
           /\ frames \in [Frames -> BufferFrame]
           /\ page_table \in [PageId -> Frames \cup {NoFrame}]
           /\ accesses \in Seq(Frames)
           /\ guards \in [Guards -> PageGuard]
           /\ disk \in FileType
           /\ page_count \in 0 .. MaxPages
           /\ TableOK(frames, page_table)
           /\ DataOf(disk, 0) # {}
BY DEF PoolParts, Structure, Contents

\* The contents after frame f, unpinned and on the file, was loaded with page p.
LEMMA LoadContents ==
    ASSUME NEW Marked, PoolParts(Marked),
           NEW f \in Frames, NEW p \in PageId, NEW c \in Page, NEW g \in Guards,
           guards[g] = EmptyGuard, page_table[p] = NoFrame,
           NEW dk2 \in FileType, NEW pc2 \in 0 .. MaxPages, page_count <= pc2, p < pc2,
           FileKeeps(disk, dk2, {frames[f].page, p}), DataOf(dk2, 0) # {}, DataOf(dk2, p) = {c.data},
           frames[f].page # NoPage /\ frames[f].page \in Marked =>
               DataOf(dk2, frames[f].page) = {frames[f].content.data},
           Shown(frames, page_table, disk, page_count, p) # {} => Shown(frames, page_table, disk, page_count, p) = {c.data}
    PROVE  LET fr2 == [frames EXCEPT ![f] = Loaded(p, c)]
               pt2 == [[q \in PageId |-> IF q = frames[f].page THEN NoFrame ELSE page_table[q]] EXCEPT ![p] = f]
               gs2 == [guards EXCEPT ![g] = [page |-> p, frame |-> f, dirty |-> FALSE]]
           IN  /\ Contents(Marked, fr2, gs2, dk2, pc2)
               /\ Keeps(Marked, frames, page_table, disk, page_count, fr2, pt2, dk2, pc2)
<1> DEFINE fr2 == [frames EXCEPT ![f] = Loaded(p, c)]
           pt2 == [[q \in PageId |-> IF q = frames[f].page THEN NoFrame ELSE page_table[q]] EXCEPT ![p] = f]
           x == [page |-> p, frame |-> f, dirty |-> FALSE]
           gs2 == [guards EXCEPT ![g] = x]
<1>0. /\ frames \in [Frames -> BufferFrame] /\ page_table \in [PageId -> Frames \cup {NoFrame}]
      /\ guards \in [Guards -> PageGuard] /\ TableOK(frames, page_table)
      /\ Contents(Marked, frames, guards, disk, page_count)
  BY PartTypes
<1>1. /\ Loaded(p, c) \in BufferFrame /\ Loaded(p, c).page = p
      /\ Loaded(p, c).dirty = FALSE /\ Loaded(p, c).content = c
  BY <1>0, NewFrames
<1>2. \A h \in Frames : fr2[h] = IF h = f THEN Loaded(p, c) ELSE frames[h]
  BY <1>0
<1>3. \A q \in PageId : pt2[q] = IF q = p THEN f ELSE IF q = frames[f].page THEN NoFrame ELSE page_table[q]
  BY <1>0
<1>4. guards[g].frame = NoFrame /\ x.frame = f
  BY <1>0, GuardFields
<1> HIDE DEF x
<1>5. \A k \in Guards : gs2[k] = IF k = g THEN x ELSE guards[k]
  BY <1>0
<1>6. page_count \in 0 .. MaxPages /\ \A q \in PageId : q \in Nat
  BY <1>0, Constants DEF Contents
<1> HIDE DEF fr2, pt2, gs2
<1>7. ASSUME NEW h \in Frames
      PROVE  Stored(Marked, fr2[h], Settled(gs2, h), dk2, pc2)
  <2>1. CASE h = f
    BY <1>0, <1>1, <1>2, <2>1 DEF Stored
  <2>2. CASE h # f
    <3> SUFFICES ASSUME frames[h].page # NoPage
                 PROVE  Stored(Marked, frames[h], Settled(gs2, h), dk2, pc2)
      BY <1>0, <1>2, <2>2 DEF Stored
    <3>1. frames[h].page \in PageId /\ frames[h].page # frames[f].page
      BY <1>0, <2>2, FrameFields, PagesDistinct
    <3>2. Stored(Marked, frames[h], Settled(guards, h), disk, page_count)
      BY <1>0 DEF Contents
    <3>3. frames[h].page < page_count /\ DataOf(disk, frames[h].page) # {}
      BY <1>0, <3>2 DEF Stored
    <3>4. DataOf(dk2, frames[h].page) = DataOf(disk, frames[h].page)
      <4>1. frames[h].page # p
        BY <1>0, Constants DEF TableOK
      <4> QED
        BY <1>0, <3>1, <3>3, <4>1 DEF FileKeeps
    <3>5. Settled(gs2, h) => Settled(guards, h)
      BY <1>0, <1>4, <1>5, Constants DEF Settled
    <3>6. frames[h].page < pc2
      BY <1>0, <1>6, <3>1, <3>3
    <3> QED
      BY <1>0, <3>2, <3>4, <3>5, <3>6 DEF Stored
  <2> QED
    BY <1>0, <2>1, <2>2
<1>8. Contents(Marked, fr2, gs2, dk2, pc2)
  BY <1>0, <1>7 DEF Contents
<1>9. ASSUME NEW q \in PageId, q \in Marked, Shown(frames, page_table, disk, page_count, q) # {}
      PROVE  Shown(fr2, pt2, dk2, pc2, q) = Shown(frames, page_table, disk, page_count, q)
  <2>1. CASE q = p
    <3>1. pt2[q] = f /\ fr2[f].content = c
      BY <1>0, <1>1, <1>2, <1>3, <2>1
    <3>2. Shown(fr2, pt2, dk2, pc2, q) = {c.data}
      BY <1>0, <3>1, Constants DEF Shown
    <3> QED
      BY <1>0, <1>9, <2>1, <3>2
  <2>2. CASE q # p /\ q = frames[f].page
    <3>1. frames[f].page # NoPage /\ page_table[q] = f
      BY <1>0, <2>2, Constants DEF TableOK
    <3>2. q < pc2
      <4>1. Stored(Marked, frames[f], Settled(guards, f), disk, page_count)
        BY <1>0 DEF Contents
      <4>2. q < page_count
        BY <1>0, <2>2, <3>1, <4>1 DEF Stored
      <4> QED
        BY <1>0, <1>6, <4>2
    <3>3. pt2[q] = NoFrame
      BY <1>0, <1>3, <2>2
    <3> QED
      BY <1>0, <1>9, <2>2, <3>1, <3>2, <3>3, Constants DEF Shown
  <2>3. CASE q # p /\ q # frames[f].page /\ page_table[q] # NoFrame
    <3>1. page_table[q] \in Frames /\ frames[page_table[q]].page = q
      BY <1>0, <2>3 DEF TableOK
    <3>2. pt2[q] = page_table[q] /\ fr2[page_table[q]] = frames[page_table[q]]
      BY <1>0, <1>2, <1>3, <2>3, <3>1
    <3> QED
      BY <1>0, <2>3, <3>2 DEF Shown
  <2>4. CASE q # p /\ q # frames[f].page /\ page_table[q] = NoFrame
    <3>1. q < page_count /\ DataOf(disk, q) # {} /\ Shown(frames, page_table, disk, page_count, q) = DataOf(disk, q)
      BY <1>0, <1>9, <2>4 DEF Shown
    <3>2. q < pc2
      BY <1>0, <1>6, <3>1
    <3>3. DataOf(dk2, q) = DataOf(disk, q)
      BY <1>0, <2>4, <3>1 DEF FileKeeps
    <3>4. pt2[q] = NoFrame
      BY <1>0, <1>3, <2>4
    <3> QED
      BY <1>0, <3>1, <3>2, <3>3, <3>4 DEF Shown
  <2> QED
    BY <1>0, <2>1, <2>2, <2>3, <2>4
<1>10. Keeps(Marked, frames, page_table, disk, page_count, fr2, pt2, dk2, pc2)
  BY <1>0, <1>9 DEF Keeps
<1> QED
  BY <1>0, <1>8, <1>10 DEF fr2, pt2, gs2, x

\* The contents after frame f, unpinned and on the file, was emptied.
LEMMA EmptyContents ==
    ASSUME NEW Marked, PoolParts(Marked), NEW f \in Frames,
           NEW dk2 \in FileType, NEW pc2 \in 0 .. MaxPages, page_count <= pc2,
           FileKeeps(disk, dk2, {frames[f].page}), DataOf(dk2, 0) # {},
           frames[f].page # NoPage /\ frames[f].page \in Marked =>
               DataOf(dk2, frames[f].page) = {frames[f].content.data}
    PROVE  LET fr2 == [frames EXCEPT ![f] = Invalidated]
               pt2 == [q \in PageId |-> IF q = frames[f].page THEN NoFrame ELSE page_table[q]]
           IN  /\ Contents(Marked, fr2, guards, dk2, pc2)
               /\ Keeps(Marked, frames, page_table, disk, page_count, fr2, pt2, dk2, pc2)
<1> DEFINE fr2 == [frames EXCEPT ![f] = Invalidated]
           pt2 == [q \in PageId |-> IF q = frames[f].page THEN NoFrame ELSE page_table[q]]
<1>0. /\ frames \in [Frames -> BufferFrame] /\ page_table \in [PageId -> Frames \cup {NoFrame}]
      /\ guards \in [Guards -> PageGuard] /\ TableOK(frames, page_table)
      /\ Contents(Marked, frames, guards, disk, page_count)
  BY PartTypes
<1>1. Invalidated.page = NoPage
  BY <1>0, NewFrames
<1>2. \A h \in Frames : fr2[h] = IF h = f THEN Invalidated ELSE frames[h]
  BY <1>0
<1>3. \A q \in PageId : pt2[q] = IF q = frames[f].page THEN NoFrame ELSE page_table[q]
  BY <1>0
<1>4. page_count \in 0 .. MaxPages /\ \A q \in PageId : q \in Nat
  BY <1>0, Constants DEF Contents
<1> HIDE DEF fr2, pt2
<1>5. ASSUME NEW h \in Frames
      PROVE  Stored(Marked, fr2[h], Settled(guards, h), dk2, pc2)
  <2>1. CASE h = f
    BY <1>0, <1>1, <1>2, <2>1 DEF Stored
  <2>2. CASE h # f
    <3> SUFFICES ASSUME frames[h].page # NoPage
                 PROVE  Stored(Marked, frames[h], Settled(guards, h), dk2, pc2)
      BY <1>0, <1>2, <2>2 DEF Stored
    <3>1. frames[h].page \in PageId /\ frames[h].page # frames[f].page
      BY <1>0, <2>2, FrameFields, PagesDistinct
    <3>2. Stored(Marked, frames[h], Settled(guards, h), disk, page_count)
      BY <1>0 DEF Contents
    <3>3. frames[h].page < page_count /\ DataOf(disk, frames[h].page) # {}
      BY <1>0, <3>2 DEF Stored
    <3>4. DataOf(dk2, frames[h].page) = DataOf(disk, frames[h].page)
      BY <1>0, <3>1, <3>3 DEF FileKeeps
    <3>5. frames[h].page < pc2
      BY <1>0, <1>4, <3>1, <3>3
    <3> QED
      BY <1>0, <3>2, <3>4, <3>5 DEF Stored
  <2> QED
    BY <1>0, <2>1, <2>2
<1>6. Contents(Marked, fr2, guards, dk2, pc2)
  BY <1>0, <1>5 DEF Contents
<1>7. ASSUME NEW q \in PageId, q \in Marked, Shown(frames, page_table, disk, page_count, q) # {}
      PROVE  Shown(fr2, pt2, dk2, pc2, q) = Shown(frames, page_table, disk, page_count, q)
  <2>1. CASE q = frames[f].page
    <3>1. frames[f].page # NoPage /\ page_table[q] = f
      BY <1>0, <2>1, Constants DEF TableOK
    <3>2. q < pc2
      <4>1. Stored(Marked, frames[f], Settled(guards, f), disk, page_count)
        BY <1>0 DEF Contents
      <4>2. q < page_count
        BY <1>0, <2>1, <3>1, <4>1 DEF Stored
      <4> QED
        BY <1>0, <1>4, <4>2
    <3>3. pt2[q] = NoFrame
      BY <1>0, <1>3, <2>1
    <3> QED
      BY <1>0, <1>7, <2>1, <3>1, <3>2, <3>3, Constants DEF Shown
  <2>2. CASE q # frames[f].page /\ page_table[q] # NoFrame
    <3>1. page_table[q] \in Frames /\ frames[page_table[q]].page = q
      BY <1>0, <2>2 DEF TableOK
    <3>2. pt2[q] = page_table[q] /\ fr2[page_table[q]] = frames[page_table[q]]
      BY <1>0, <1>2, <1>3, <2>2, <3>1
    <3> QED
      BY <1>0, <2>2, <3>2 DEF Shown
  <2>3. CASE q # frames[f].page /\ page_table[q] = NoFrame
    <3>1. q < page_count /\ DataOf(disk, q) # {} /\ Shown(frames, page_table, disk, page_count, q) = DataOf(disk, q)
      BY <1>0, <1>7, <2>3 DEF Shown
    <3>2. q < pc2
      BY <1>0, <1>4, <3>1
    <3>3. DataOf(dk2, q) = DataOf(disk, q)
      BY <1>0, <2>3, <3>1 DEF FileKeeps
    <3>4. pt2[q] = NoFrame
      BY <1>0, <1>3, <2>3
    <3> QED
      BY <1>0, <3>1, <3>2, <3>3, <3>4 DEF Shown
  <2> QED
    BY <1>0, <2>1, <2>2, <2>3
<1>8. Keeps(Marked, frames, page_table, disk, page_count, fr2, pt2, dk2, pc2)
  BY <1>0, <1>7 DEF Keeps
<1> QED
  BY <1>0, <1>6, <1>8 DEF fr2, pt2

-----------------------------------------------------------------------------
(* One lemma for each action. *)

\* A fetch of a cached page.
LEMMA FetchHitStep ==
    ASSUME NEW Marked, PoolParts(Marked), NEW g \in Guards, NEW p \in PageId, FetchHit(g, p)
    PROVE  PoolParts(Marked)' /\ KeepsCurrent(Marked)
<1> DEFINE f == page_table[p]
<1>1. f \in Frames /\ guards[g] = EmptyGuard
  BY PartTypes DEF FetchHit
<1>2. frames[f].page = p
  BY <1>1, PartTypes, Constants DEF TableOK
<1>3. Count(accesses, f) \in 1 .. 2
  <2>1. Count(accesses, f) \in Nat
    BY PartTypes, HistoryCounts
  <2>2. Count(accesses, f) <= 2 /\ Count(accesses, f) # 0
    BY <1>1, <1>2, PartTypes, Constants DEF Structure, HistoryOK
  <2> QED
    BY <2>1, <2>2
<1>4. /\ RecordAccess(f) \in Seq(Frames)
      /\ \A h \in Frames : h # f => Count(RecordAccess(f), h) = Count(accesses, h)
      /\ Count(RecordAccess(f), f) \in 1 .. 2
  BY <1>1, <1>3, PartTypes, AccessRecorded
<1>5. /\ frames' = [frames EXCEPT ![f].pin = @ + 1]
      /\ page_table' = page_table
      /\ accesses' = RecordAccess(f)
      /\ evictable' = evictable \ {f}
      /\ curr_size' = IF f \in evictable THEN curr_size - 1 ELSE curr_size
      /\ guards' = [guards EXCEPT ![g] = [page |-> p, frame |-> f, dirty |-> FALSE]]
      /\ disk' = disk /\ page_count' = page_count
  BY DEF FetchHit, Guard
<1>6. page_table[p] = f
  OBVIOUS
<1> HIDE DEF f
<1>7. Structure(frames', page_table', accesses', evictable', curr_size', guards')
  <2>1. Structure([frames EXCEPT ![f].pin = @ + 1], page_table, RecordAccess(f),
                  evictable \ {f}, IF f \in evictable THEN curr_size - 1 ELSE curr_size,
                  [guards EXCEPT ![g] = [page |-> p, frame |-> f, dirty |-> FALSE]])
    <3>1. Structure(frames, page_table, accesses, evictable, curr_size, guards)
      BY PartTypes
    <3> QED
      BY <1>1, <1>4, <1>6, <3>1, PinStructure
  <2> QED
    BY <1>5, <2>1, Zenon
<1>8. \A h \in Frames : /\ frames'[h].page = frames[h].page
                        /\ frames'[h].dirty = frames[h].dirty
                        /\ frames'[h].content = frames[h].content
  BY <1>1, <1>5, PartTypes DEF BufferFrame
<1>9. \A h \in Frames : Settled(guards', h) => Settled(guards, h)
  BY <1>1, <1>5, PartTypes, GuardFields, Constants DEF Settled
<1>10. Contents(Marked, frames', guards', disk', page_count')
  <2>1. \A h \in Frames : Stored(Marked, frames[h], Settled(guards, h), disk, page_count)
    BY PartTypes DEF Contents
  <2>2. \A h \in Frames : Stored(Marked, frames'[h], Settled(guards', h), disk, page_count)
    BY <1>8, <1>9, <2>1 DEF Stored
  <2> QED
    BY <1>5, <2>2, PartTypes DEF Contents
<1>11. KeepsCurrent(Marked)
  BY <1>5, <1>8, PartTypes DEF KeepsCurrent, Keeps, Shown
<1> QED
  BY <1>7, <1>10, <1>11 DEF PoolParts

\* The file after a flush of the frame that findFreeFrame returns.
LEMMA FreedFrame ==
    ASSUME NEW Marked, PoolParts(Marked), NEW f \in Frames, FreeFrame(f)
    PROVE  /\ OnFrame(guards, f) = {}
           /\ Tracked(f) <=> f \in evictable
           /\ FlushVictim(f) \in FileType
           /\ FileKeeps(disk, FlushVictim(f), {frames[f].page})
           /\ \A q \in PageId : q # frames[f].page => FlushVictim(f)[q] = disk[q]
           /\ DataOf(FlushVictim(f), 0) # {}
           /\ frames[f].page # NoPage /\ frames[f].page \in Marked =>
                 DataOf(FlushVictim(f), frames[f].page) = {frames[f].content.data}
<1>1. OnFrame(guards, f) = {} /\ (Tracked(f) <=> f \in evictable)
  BY FreeFrameFacts
<1>2. /\ FlushVictim(f) \in FileType
      /\ \A q \in PageId : q # frames[f].page =>
            FlushVictim(f)[q] = disk[q] /\ DataOf(FlushVictim(f), q) = DataOf(disk, q)
      /\ frames[f].page # NoPage => DataOf(FlushVictim(f), frames[f].page) # {}
      /\ frames[f].page # NoPage /\ frames[f].page \in Marked =>
            DataOf(FlushVictim(f), frames[f].page) = {frames[f].content.data}
  BY <1>1, VictimFlushed
<1>3. FileKeeps(disk, FlushVictim(f), {frames[f].page})
  BY <1>2 DEF FileKeeps
<1>4. DataOf(FlushVictim(f), 0) # {}
  BY <1>2, PartTypes, Constants
<1> QED
  BY <1>1, <1>2, <1>3, <1>4

\* A fetch of a page that is not cached.
LEMMA FetchMissStep ==
    ASSUME NEW Marked, PoolParts(Marked), NEW g \in Guards, NEW p \in PageId, NEW f \in Frames, FetchMiss(g, p, f)
    PROVE  PoolParts(Marked)' /\ KeepsCurrent(Marked)
<1> DEFINE c == CHOOSE c \in disk'[p] : TRUE
<1>1. /\ guards[g] = EmptyGuard /\ page_table[p] = NoFrame /\ FreeFrame(f)
      /\ disk' = FlushVictim(f) /\ p < page_count /\ disk'[p] # {}
      /\ page_count' = page_count
  BY DEF FetchMiss, Readable
<1>2. /\ frames' = [frames EXCEPT ![f] = Loaded(p, c)]
      /\ page_table' = [[q \in PageId |-> IF q = frames[f].page THEN NoFrame ELSE page_table[q]]
                             EXCEPT ![p] = f]
      /\ accesses' = Append(Pick(accesses, {i \in 1 .. Len(accesses) : accesses[i] # f}), f)
      /\ guards' = [guards EXCEPT ![g] = [page |-> p, frame |-> f, dirty |-> FALSE]]
  BY DEF FetchMiss, EraseVictim, LoadFrame, Forget, Guard
<1>3. /\ OnFrame(guards, f) = {}
      /\ Tracked(f) <=> f \in evictable
      /\ disk' \in FileType
      /\ FileKeeps(disk, disk', {frames[f].page})
      /\ DataOf(disk', 0) # {}
      /\ frames[f].page # NoPage /\ frames[f].page \in Marked => DataOf(disk', frames[f].page) = {frames[f].content.data}
      /\ \A q \in PageId : q # frames[f].page => disk'[q] = disk[q]
  BY <1>1, FreedFrame
<1>4. evictable' = evictable \ {f} /\ curr_size' = IF f \in evictable THEN curr_size - 1 ELSE curr_size
  BY <1>3 DEF FetchMiss, RemoveFrame
<1>5. c \in disk'[p]
  BY <1>1
<1> HIDE DEF c
<1>6. c \in Page /\ DataOf(disk', p) = {c.data}
  <2>1. c \in Page /\ disk'[p] = {c}
    BY <1>3, <1>5, FilePages
  <2> QED
    BY <2>1 DEF DataOf
<1>7. Structure(frames', page_table', accesses', evictable', curr_size', guards')
  <2>1. Structure([frames EXCEPT ![f] = Loaded(p, c)],
                  [[q \in PageId |-> IF q = frames[f].page THEN NoFrame ELSE page_table[q]]
                       EXCEPT ![p] = f],
                  Append(Pick(accesses, {i \in 1 .. Len(accesses) : accesses[i] # f}), f),
                  evictable \ {f}, IF f \in evictable THEN curr_size - 1 ELSE curr_size,
                  [guards EXCEPT ![g] = [page |-> p, frame |-> f, dirty |-> FALSE]])
    <3>1. Structure(frames, page_table, accesses, evictable, curr_size, guards)
      BY PartTypes
    <3> QED
      BY <1>1, <1>3, <1>6, <3>1, LoadStructure
  <2> QED
    BY <1>2, <1>4, <2>1, Zenon
<1>8. p # frames[f].page
  BY <1>1, PartTypes, Constants DEF TableOK
<1>9. Shown(frames, page_table, disk, page_count, p) = {c.data}
  BY <1>1, <1>3, <1>6, <1>8 DEF Shown, DataOf
<1>10. page_count' \in 0 .. MaxPages /\ page_count <= page_count' /\ p < page_count'
  BY <1>1, PartTypes
<1>11. /\ Contents(Marked, frames', guards', disk', page_count')
       /\ KeepsCurrent(Marked)
  <2>1. FileKeeps(disk, disk', {frames[f].page, p})
    BY <1>3 DEF FileKeeps
  <2>2. LET fr2 == [frames EXCEPT ![f] = Loaded(p, c)]
            pt2 == [[q \in PageId |-> IF q = frames[f].page THEN NoFrame ELSE page_table[q]]
                       EXCEPT ![p] = f]
            gs2 == [guards EXCEPT ![g] = [page |-> p, frame |-> f, dirty |-> FALSE]]
        IN  /\ Contents(Marked, fr2, gs2, disk', page_count')
            /\ Keeps(Marked, frames, page_table, disk, page_count, fr2, pt2, disk', page_count')
    BY <1>1, <1>3, <1>6, <1>9, <1>10, <2>1, LoadContents
  <2> QED
    BY <1>2, <2>2 DEF KeepsCurrent
<1> QED
  BY <1>7, <1>11 DEF PoolParts

\* The books after a call that emptied frame f.
LEMMA EmptiedStep ==
    ASSUME NEW Marked, PoolParts(Marked), NEW f \in Frames, FreeFrame(f),
           frames' = [frames EXCEPT ![f] = Invalidated],
           page_table' = EraseVictim(f),
           accesses' = Forget(f),
           RemoveFrame(f),
           disk' = FlushVictim(f),
           guards' = guards,
           page_count' \in 0 .. MaxPages, page_count <= page_count'
    PROVE  PoolParts(Marked)' /\ KeepsCurrent(Marked)
<1>1. /\ OnFrame(guards, f) = {}
      /\ Tracked(f) <=> f \in evictable
      /\ disk' \in FileType
      /\ FileKeeps(disk, disk', {frames[f].page})
      /\ DataOf(disk', 0) # {}
      /\ frames[f].page # NoPage /\ frames[f].page \in Marked => DataOf(disk', frames[f].page) = {frames[f].content.data}
  BY FreedFrame
<1>2. /\ page_table' = [q \in PageId |-> IF q = frames[f].page THEN NoFrame ELSE page_table[q]]
      /\ accesses' = Pick(accesses, {i \in 1 .. Len(accesses) : accesses[i] # f})
      /\ evictable' = evictable \ {f}
      /\ curr_size' = IF f \in evictable THEN curr_size - 1 ELSE curr_size
  BY <1>1 DEF EraseVictim, Forget, RemoveFrame
<1>3. Structure(frames', page_table', accesses', evictable', curr_size', guards')
  BY <1>1, <1>2, PartTypes, EmptyStructure
<1>4. Contents(Marked, frames', guards', disk', page_count') /\ KeepsCurrent(Marked)
  <2>1. LET fr2 == [frames EXCEPT ![f] = Invalidated]
            pt2 == [q \in PageId |-> IF q = frames[f].page THEN NoFrame ELSE page_table[q]]
        IN  /\ Contents(Marked, fr2, guards, disk', page_count')
            /\ Keeps(Marked, frames, page_table, disk, page_count, fr2, pt2, disk', page_count')
    BY <1>1, EmptyContents
  <2> QED
    BY <1>2, <2>1 DEF KeepsCurrent
<1> QED
  BY <1>3, <1>4 DEF PoolParts

\* A fetch whose read fails.
LEMMA FetchFailsStep ==
    ASSUME NEW Marked, PoolParts(Marked), NEW g \in Guards, NEW p \in PageId, NEW f \in Frames, FetchFails(g, p, f)
    PROVE  PoolParts(Marked)' /\ KeepsCurrent(Marked)
<1>1. page_count' \in 0 .. MaxPages /\ page_count <= page_count'
  BY PartTypes DEF FetchFails
<1> QED
  BY <1>1, EmptiedStep DEF FetchFails

\* A page allocation that fails.
LEMMA NewPageFailsStep ==
    ASSUME NEW Marked, PoolParts(Marked), NEW g \in Guards, NEW f \in Frames, NewPageFails(g, f)
    PROVE  PoolParts(Marked)' /\ KeepsCurrent(Marked)
<1>1. page_count' \in 0 .. MaxPages /\ page_count <= page_count'
  BY PartTypes, Constants DEF NewPageFails
<1> QED
  BY <1>1, EmptiedStep DEF NewPageFails

\* A new page.
LEMMA NewPageStep ==
    ASSUME NEW Marked, PoolParts(Marked), NEW g \in Guards, NEW f \in Frames, NewPage(g, f)
    PROVE  PoolParts(Marked)' /\ KeepsCurrent(Marked) /\ page_count \in PageId
<1> DEFINE p == page_count
           flushed == FlushVictim(f)
           grown == Extended(flushed, p)
<1>1. /\ guards[g] = EmptyGuard /\ FreeFrame(f) /\ page_count < MaxPages
      /\ page_count' = page_count + 1
      /\ frames' = [frames EXCEPT ![f] = Loaded(p, Cleared)]
      /\ page_table' = [[q \in PageId |-> IF q = frames[f].page THEN NoFrame ELSE page_table[q]]
                             EXCEPT ![p] = f]
      /\ accesses' = Append(Pick(accesses, {i \in 1 .. Len(accesses) : accesses[i] # f}), f)
      /\ guards' = [guards EXCEPT ![g] = [page |-> p, frame |-> f, dirty |-> FALSE]]
      /\ disk' = CountUpdated(grown, page_count') \/ disk' = grown
  BY DEF NewPage, EraseVictim, LoadFrame, Forget, Guard
<1>2. /\ OnFrame(guards, f) = {}
      /\ Tracked(f) <=> f \in evictable
      /\ flushed \in FileType
      /\ FileKeeps(disk, flushed, {frames[f].page})
      /\ DataOf(flushed, 0) # {}
      /\ frames[f].page # NoPage /\ frames[f].page \in Marked => DataOf(flushed, frames[f].page) = {frames[f].content.data}
  BY <1>1, FreedFrame
<1>3. evictable' = evictable \ {f} /\ curr_size' = IF f \in evictable THEN curr_size - 1 ELSE curr_size
  BY <1>2 DEF NewPage, RemoveFrame
<1>4. /\ p \in PageId /\ page_count' \in 0 .. MaxPages
      /\ page_count <= page_count' /\ p < page_count'
  BY <1>1, PartTypes, Constants DEF PageId
<1> HIDE DEF flushed
<1>5. page_table[p] = NoFrame
  <2> SUFFICES ASSUME page_table[p] # NoFrame
               PROVE  FALSE
    OBVIOUS
  <2>1. page_table[p] \in Frames /\ frames[page_table[p]].page = p
    BY <1>4, PartTypes DEF TableOK
  <2>2. Stored(Marked, frames[page_table[p]], Settled(guards, page_table[p]), disk, page_count)
    BY <2>1, PartTypes DEF Contents
  <2>3. p < page_count
    BY <1>4, <2>1, <2>2, Constants DEF Stored
  <2> QED
    BY <2>3, PartTypes
<1>6. p # frames[f].page
  BY <1>4, <1>5, PartTypes, Constants DEF TableOK
<1>7. /\ grown \in FileType
      /\ \A q \in PageId : DataOf(grown, q) =
            IF q = p \/ (q < p /\ DataOf(flushed, q) = {}) THEN {ZeroPage} ELSE DataOf(flushed, q)
  BY <1>2, <1>4, ExtendedData
<1> HIDE DEF grown
<1>8. disk' \in FileType /\ \A q \in PageId : DataOf(disk', q) = DataOf(grown, q)
  BY <1>1, <1>4, <1>7, CountUpdatedData
<1>9. Cleared \in Page /\ Cleared.data = ZeroPage
  BY NewFrames DEF Cleared
<1>10. DataOf(disk', p) = {Cleared.data} /\ DataOf(disk', 0) # {}
  BY <1>2, <1>4, <1>7, <1>8, <1>9, Constants
<1>11. frames[f].page # NoPage /\ frames[f].page \in Marked => DataOf(disk', frames[f].page) = {frames[f].content.data}
  <2>1. frames[f].page \in PageId \cup {NoPage}
    BY PartTypes, FrameFields
  <2> QED
    BY <1>2, <1>6, <1>7, <1>8, <2>1
<1>12. \A q \in PageId : page_table[q] # NoFrame \/ q < page_count => q # p
  BY <1>5, PartTypes, Constants
<1>13. Shown(frames, page_table, disk, page_count, p) = {}
  BY <1>5, PartTypes DEF Shown
<1>14. FileKeeps(disk, disk', {frames[f].page, p})
  BY <1>2, <1>7, <1>8 DEF FileKeeps
<1> HIDE DEF p
<1>15. Structure(frames', page_table', accesses', evictable', curr_size', guards')
  BY <1>1, <1>2, <1>3, <1>4, <1>5, <1>9, PartTypes, LoadStructure
<1>16. Contents(Marked, frames', guards', disk', page_count') /\ KeepsCurrent(Marked)
  <2>1. LET fr2 == [frames EXCEPT ![f] = Loaded(p, Cleared)]
            pt2 == [[q \in PageId |-> IF q = frames[f].page THEN NoFrame ELSE page_table[q]]
                       EXCEPT ![p] = f]
            gs2 == [guards EXCEPT ![g] = [page |-> p, frame |-> f, dirty |-> FALSE]]
        IN  /\ Contents(Marked, fr2, gs2, disk', page_count')
            /\ Keeps(Marked, frames, page_table, disk, page_count, fr2, pt2, disk', page_count')
    BY <1>1, <1>4, <1>5, <1>8, <1>9, <1>10, <1>11, <1>13, <1>14, LoadContents
  <2> QED
    BY <1>1, <2>1 DEF KeepsCurrent
<1> QED
  BY <1>4, <1>15, <1>16 DEF PoolParts, p

\* Flushes, complete or not: only marks change in the pool; a page that is not
\* cached keeps its data; a frame that ends clean was clean and its page is
\* untouched, or the file has what it shows.
LEMMA FlushedStep ==
    ASSUME NEW Marked, PoolParts(Marked),
           frames' \in [Frames -> BufferFrame], disk' \in FileType,
           UNCHANGED <<page_table, accesses, evictable, curr_size, guards, page_count>>,
           \A f \in Frames : /\ frames'[f].page = frames[f].page
                             /\ frames'[f].pin = frames[f].pin
                             /\ frames'[f].content = frames[f].content,
           \A q \in PageId : page_table[q] = NoFrame => DataOf(disk', q) = DataOf(disk, q),
           \A f \in Frames : frames[f].page # NoPage =>
               /\ DataOf(disk', frames[f].page) # {}
               /\ ~frames'[f].dirty =>
                     \/ ~frames[f].dirty /\ DataOf(disk', frames[f].page) = DataOf(disk, frames[f].page)
                     \/ DataOf(disk', frames[f].page) = {frames[f].content.data}
    PROVE  PoolParts(Marked)' /\ KeepsCurrent(Marked)
<1>1. Structure(frames', page_table', accesses', evictable', curr_size', guards')
  <2>1. Structure(frames', page_table, accesses, evictable, curr_size, guards)
    BY PartTypes, SameStructure
  <2> QED
    BY <2>1
<1>2. DataOf(disk', 0) # {}
  <2>1. CASE page_table[0] = NoFrame
    BY <2>1, PartTypes, Constants
  <2>2. CASE page_table[0] # NoFrame
    <3>1. page_table[0] \in Frames /\ frames[page_table[0]].page = 0
      BY <2>2, PartTypes, Constants DEF TableOK
    <3> QED
      BY <3>1, Constants
  <2> QED
    BY <2>1, <2>2
<1>3. ASSUME NEW f \in Frames
      PROVE  Stored(Marked, frames'[f], Settled(guards', f), disk', page_count')
  <2>1. Stored(Marked, frames[f], Settled(guards, f), disk, page_count)
    BY PartTypes DEF Contents
  <2>2. /\ frames'[f].page = frames[f].page /\ frames'[f].content = frames[f].content
        /\ Settled(guards', f) = Settled(guards, f) /\ page_count' = page_count
    BY DEF Settled
  <2> QED
    BY <2>1, <2>2 DEF Stored
<1>4. Contents(Marked, frames', guards', disk', page_count')
  BY <1>2, <1>3, PartTypes DEF Contents
<1>5. KeepsCurrent(Marked)
  BY PartTypes DEF KeepsCurrent, Keeps, Shown
<1> QED
  BY <1>1, <1>4, <1>5 DEF PoolParts

\* The eviction of a dirty page whose write fails.
LEMMA EvictionFailsStep ==
    ASSUME NEW Marked, PoolParts(Marked), NEW f \in Frames, EvictionFails(f)
    PROVE  PoolParts(Marked)' /\ KeepsCurrent(Marked)
<1>1. frames[f].page \in PageId /\ frames[f].content \in Page
  BY PartTypes, FrameFields DEF EvictionFails, Victim, NoInvalidFrame, Valid
<1>2. /\ disk' \in FileType
      /\ DataOf(disk', frames[f].page) # {}
      /\ \A q \in PageId : q # frames[f].page => DataOf(disk', q) = DataOf(disk, q)
  BY <1>1, PartTypes, TornData DEF EvictionFails
<1>3. /\ frames' = frames /\ frames[f].dirty
      /\ UNCHANGED <<page_table, accesses, evictable, curr_size, guards, page_count>>
  BY DEF EvictionFails
<1>4. page_table[frames[f].page] = f
  BY <1>1, PartTypes, Constants DEF TableOK
<1>5. ASSUME NEW h \in Frames, frames[h].page # NoPage
      PROVE  /\ DataOf(disk', frames[h].page) # {}
             /\ ~frames'[h].dirty =>
                   ~frames[h].dirty /\ DataOf(disk', frames[h].page) = DataOf(disk, frames[h].page)
  <2>1. frames[h].page \in PageId /\ (h # f => frames[h].page # frames[f].page)
    BY <1>1, <1>5, PartTypes, FrameFields, PagesDistinct, Constants
  <2>2. Stored(Marked, frames[h], Settled(guards, h), disk, page_count)
    BY PartTypes DEF Contents
  <2>3. DataOf(disk, frames[h].page) # {}
    BY <1>5, <2>2 DEF Stored
  <2> QED
    BY <1>2, <1>3, <2>1, <2>3
<1> QED
  BY <1>1, <1>2, <1>3, <1>4, <1>5, PartTypes, FlushedStep, Constants

\* flushPage.
LEMMA FlushPageStep ==
    ASSUME NEW Marked, PoolParts(Marked), NEW p \in PageId, FlushPage(p)
    PROVE  PoolParts(Marked)' /\ KeepsCurrent(Marked)
<1> DEFINE f == page_table[p]
<1>1. f \in Frames /\ frames[f].page = p /\ f # NoFrame
  BY PartTypes DEF FlushPage, TableOK
<1>2. /\ disk' = Written(disk, p, frames[f].content)
      /\ frames' = [frames EXCEPT ![f].dirty = FALSE]
      /\ UNCHANGED <<page_table, accesses, evictable, curr_size, guards, page_count>>
  BY DEF FlushPage
<1>3. page_table[p] = f
  OBVIOUS
<1> HIDE DEF f
<1>4. /\ disk' \in FileType
      /\ DataOf(disk', p) = {frames[f].content.data}
      /\ \A q \in PageId : q # p => DataOf(disk', q) = DataOf(disk, q)
  <2>1. frames[f].content \in Page
    BY <1>1, PartTypes, FrameFields
  <2> QED
    BY <1>2, <2>1, PartTypes, WrittenData, Z3
<1>5. /\ frames' \in [Frames -> BufferFrame]
      /\ \A h \in Frames : /\ frames'[h].page = frames[h].page
                           /\ frames'[h].pin = frames[h].pin
                           /\ frames'[h].content = frames[h].content
                           /\ h # f => frames'[h] = frames[h]
  <2>1. frames[f] \in BufferFrame
    BY <1>1, PartTypes
  <2>2. [frames[f] EXCEPT !.dirty = FALSE] \in BufferFrame
    BY <2>1 DEF BufferFrame
  <2> QED
    BY <1>1, <1>2, <2>1, <2>2, PartTypes DEF BufferFrame
<1>6. ASSUME NEW h \in Frames, frames[h].page # NoPage
      PROVE  /\ DataOf(disk', frames[h].page) # {}
             /\ ~frames'[h].dirty =>
                   \/ ~frames[h].dirty /\ DataOf(disk', frames[h].page) = DataOf(disk, frames[h].page)
                   \/ DataOf(disk', frames[h].page) = {frames[h].content.data}
  <2>1. frames[h].page \in PageId /\ (h # f => frames[h].page # p)
    BY <1>1, <1>6, PartTypes, FrameFields, PagesDistinct, Constants
  <2>2. Stored(Marked, frames[h], Settled(guards, h), disk, page_count)
    BY PartTypes DEF Contents
  <2>3. DataOf(disk, frames[h].page) # {}
    BY <1>6, <2>2 DEF Stored
  <2>4. CASE h = f
    BY <1>1, <1>4, <2>4
  <2>5. CASE h # f
    <3>1. frames'[h] = frames[h]
      BY <1>5, <2>5, Zenon
    <3>2. DataOf(disk', frames[h].page) = DataOf(disk, frames[h].page)
      BY <1>4, <2>1, <2>5, Zenon
    <3> QED
      BY <2>3, <3>1, <3>2, Zenon
  <2> QED
    BY <2>4, <2>5
<1>7. \A q \in PageId : page_table[q] = NoFrame => DataOf(disk', q) = DataOf(disk, q)
  BY <1>1, <1>3, <1>4
<1> QED
  BY <1>2, <1>4, <1>5, <1>6, <1>7, FlushedStep

\* A flushPage whose write fails.
LEMMA FlushPageFailsStep ==
    ASSUME NEW Marked, PoolParts(Marked), NEW p \in PageId, FlushPageFails(p)
    PROVE  PoolParts(Marked)' /\ KeepsCurrent(Marked)
<1> DEFINE f == page_table[p]
<1>1. f \in Frames /\ frames[f].page = p /\ frames[f].content \in Page /\ f # NoFrame
  BY PartTypes, FrameFields DEF FlushPageFails, TableOK
<1>2. /\ disk' \in TornWrite(disk, p, frames[f].content)
      /\ frames' = frames /\ frames[f].dirty
      /\ UNCHANGED <<page_table, accesses, evictable, curr_size, guards, page_count>>
  BY DEF FlushPageFails
<1>3. page_table[p] = f
  OBVIOUS
<1> HIDE DEF f
<1>4. /\ disk' \in FileType
      /\ DataOf(disk', p) # {}
      /\ \A q \in PageId : q # p => DataOf(disk', q) = DataOf(disk, q)
  BY <1>1, <1>2, PartTypes, TornData
<1>5. ASSUME NEW h \in Frames, frames[h].page # NoPage
      PROVE  /\ DataOf(disk', frames[h].page) # {}
             /\ ~frames'[h].dirty =>
                   ~frames[h].dirty /\ DataOf(disk', frames[h].page) = DataOf(disk, frames[h].page)
  <2>1. frames[h].page \in PageId /\ (h # f => frames[h].page # p)
    BY <1>1, <1>5, PartTypes, FrameFields, PagesDistinct, Constants
  <2>2. Stored(Marked, frames[h], Settled(guards, h), disk, page_count)
    BY PartTypes DEF Contents
  <2>3. DataOf(disk, frames[h].page) # {}
    BY <1>5, <2>2 DEF Stored
  <2> QED
    BY <1>1, <1>2, <1>4, <2>1, <2>3
<1> QED
  BY <1>1, <1>2, <1>3, <1>4, <1>5, PartTypes, FlushedStep

\* What a complete flush below frame n leaves for each cached page.
LEMMA FlushedPages ==
    ASSUME NEW Marked, PoolParts(Marked), NEW n \in Int, NEW h \in Frames, frames[h].page # NoPage
    PROVE  /\ frames[h].page \in PageId
           /\ DataOf(FlushedBelow(n), frames[h].page) # {}
           /\ h \in DirtyBelow(n) => DataOf(FlushedBelow(n), frames[h].page) = {frames[h].content.data}
           /\ h \notin DirtyBelow(n) =>
                 /\ FlushedBelow(n)[frames[h].page] = disk[frames[h].page]
                 /\ DataOf(FlushedBelow(n), frames[h].page) = DataOf(disk, frames[h].page)
<1>1. frames[h].page \in PageId
  BY PartTypes, FrameFields
<1>2. CASE h \in DirtyBelow(n)
  BY <1>1, <1>2, FlushedData
<1>3. CASE h \notin DirtyBelow(n)
  <2>1. \A f \in DirtyBelow(n) : frames[f].page # frames[h].page
    BY <1>3, PartTypes, PagesDistinct DEF DirtyBelow
  <2>2. Stored(Marked, frames[h], Settled(guards, h), disk, page_count)
    BY PartTypes DEF Contents
  <2>3. DataOf(disk, frames[h].page) # {}
    BY <2>2 DEF Stored
  <2> QED
    BY <1>1, <1>3, <2>1, <2>3, FlushedData
<1> QED
  BY <1>2, <1>3

\* A page that is not cached is not flushed.
LEMMA UncachedUnflushed ==
    ASSUME NEW Marked, PoolParts(Marked), NEW n \in Int, NEW q \in PageId, page_table[q] = NoFrame
    PROVE  /\ FlushedBelow(n)[q] = disk[q]
           /\ DataOf(FlushedBelow(n), q) = DataOf(disk, q)
           /\ \A f \in Frames : frames[f].page # q
<1>1. \A f \in Frames : frames[f].page # q
  BY PartTypes, Constants DEF TableOK
<1>2. \A f \in DirtyBelow(n) : frames[f].page # q
  BY <1>1 DEF DirtyBelow
<1> QED
  BY <1>1, <1>2, FlushedData

\* flushAllPages.
LEMMA FlushAllPagesStep ==
    ASSUME NEW Marked, PoolParts(Marked), FlushAllPages
    PROVE  PoolParts(Marked)' /\ KeepsCurrent(Marked)
<1>1. PoolSize \in Int
  BY Constants
<1>2. /\ disk' = FlushedBelow(PoolSize) /\ frames' = CleanedBelow(PoolSize)
      /\ UNCHANGED <<page_table, accesses, evictable, curr_size, guards, page_count>>
  BY DEF FlushAllPages
<1>3. disk' \in FileType
  BY <1>1, <1>2, FlushedData
<1>4. /\ frames' \in [Frames -> BufferFrame]
      /\ \A f \in Frames :
            /\ frames'[f].page = frames[f].page
            /\ frames'[f].pin = frames[f].pin
            /\ frames'[f].content = frames[f].content
            /\ frames'[f].dirty = (frames[f].dirty /\ f \notin DirtyBelow(PoolSize))
  BY <1>1, <1>2, PartTypes, CleanedFrames
<1>5. ASSUME NEW h \in Frames, frames[h].page # NoPage
      PROVE  /\ DataOf(disk', frames[h].page) # {}
             /\ ~frames'[h].dirty =>
                   \/ ~frames[h].dirty /\ DataOf(disk', frames[h].page) = DataOf(disk, frames[h].page)
                   \/ DataOf(disk', frames[h].page) = {frames[h].content.data}
  BY <1>1, <1>2, <1>4, <1>5, FlushedPages
<1>6. \A q \in PageId : page_table[q] = NoFrame => DataOf(disk', q) = DataOf(disk, q)
  BY <1>1, <1>2, UncachedUnflushed
<1> QED
  BY <1>2, <1>3, <1>4, <1>5, <1>6, FlushedStep

\* The file after a flush that fails at frame n.
LEMMA TornFlush ==
    ASSUME NEW Marked, PoolParts(Marked), NEW n \in DirtyBelow(PoolSize),
           NEW new \in TornWrite(FlushedBelow(n), frames[n].page, frames[n].content)
    PROVE  /\ n \in Frames /\ n \in Int /\ frames[n].page \in PageId /\ frames[n].dirty
           /\ n \notin DirtyBelow(n)
           /\ new \in FileType
           /\ DataOf(new, frames[n].page) # {}
           /\ \A q \in PageId : q # frames[n].page =>
                 new[q] = FlushedBelow(n)[q] /\ DataOf(new, q) = DataOf(FlushedBelow(n), q)
<1>1. n \in Frames /\ n \in Int /\ frames[n].page # NoPage /\ frames[n].dirty
  BY Constants DEF DirtyBelow, Valid, Frames
<1>2. frames[n].page \in PageId /\ frames[n].content \in Page
  BY <1>1, PartTypes, FrameFields
<1>3. n \notin DirtyBelow(n)
  BY <1>1 DEF DirtyBelow
<1>4. FlushedBelow(n) \in FileType
  BY <1>1, FlushedData
<1> QED
  BY <1>1, <1>2, <1>3, <1>4, TornData

\* flushAllPages that stops at a failing write.
LEMMA FlushAllPagesFailsStep ==
    ASSUME NEW Marked, PoolParts(Marked), NEW n \in Frames, FlushAllPagesFails(n)
    PROVE  PoolParts(Marked)' /\ KeepsCurrent(Marked)
<1>1. /\ n \in DirtyBelow(PoolSize)
      /\ disk' \in TornWrite(FlushedBelow(n), frames[n].page, frames[n].content)
      /\ frames' = CleanedBelow(n)
      /\ UNCHANGED <<page_table, accesses, evictable, curr_size, guards, page_count>>
  BY DEF FlushAllPagesFails
<1>2. /\ n \in Int /\ frames[n].page \in PageId /\ frames[n].dirty
      /\ n \notin DirtyBelow(n)
      /\ disk' \in FileType
      /\ DataOf(disk', frames[n].page) # {}
      /\ \A q \in PageId : q # frames[n].page => DataOf(disk', q) = DataOf(FlushedBelow(n), q)
  BY <1>1, TornFlush
<1>3. /\ frames' \in [Frames -> BufferFrame]
      /\ \A f \in Frames :
            /\ frames'[f].page = frames[f].page
            /\ frames'[f].pin = frames[f].pin
            /\ frames'[f].content = frames[f].content
            /\ frames'[f].dirty = (frames[f].dirty /\ f \notin DirtyBelow(n))
  BY <1>1, <1>2, PartTypes, CleanedFrames
<1>4. ASSUME NEW h \in Frames, frames[h].page # NoPage
      PROVE  /\ DataOf(disk', frames[h].page) # {}
             /\ ~frames'[h].dirty =>
                   \/ ~frames[h].dirty /\ DataOf(disk', frames[h].page) = DataOf(disk, frames[h].page)
                   \/ DataOf(disk', frames[h].page) = {frames[h].content.data}
  <2>1. CASE h = n
    BY <1>2, <1>3, <2>1
  <2>2. CASE h # n
    <3>1. frames[h].page \in PageId /\ frames[h].page # frames[n].page
      BY <1>4, <2>2, PartTypes, FrameFields, PagesDistinct
    <3>2. DataOf(disk', frames[h].page) = DataOf(FlushedBelow(n), frames[h].page)
      BY <1>2, <3>1
    <3>3. /\ DataOf(FlushedBelow(n), frames[h].page) # {}
          /\ h \in DirtyBelow(n) =>
                DataOf(FlushedBelow(n), frames[h].page) = {frames[h].content.data}
          /\ h \notin DirtyBelow(n) =>
                DataOf(FlushedBelow(n), frames[h].page) = DataOf(disk, frames[h].page)
      BY <1>2, <1>4, FlushedPages
    <3> QED
      BY <1>3, <3>2, <3>3
  <2> QED
    BY <2>1, <2>2
<1>5. \A q \in PageId : page_table[q] = NoFrame => DataOf(disk', q) = DataOf(disk, q)
  BY <1>2, UncachedUnflushed
<1> QED
  BY <1>1, <1>2, <1>3, <1>4, <1>5, FlushedStep

\* A guard that is not empty is on a frame with its page.
LEMMA GuardOnFrame ==
    ASSUME NEW Marked, PoolParts(Marked), NEW g \in Guards, guards[g] # EmptyGuard
    PROVE  /\ guards[g].page \in PageId /\ guards[g].frame \in Frames
           /\ frames[guards[g].frame].page = guards[g].page
           /\ page_table[guards[g].page] = guards[g].frame
<1>1. /\ guards[g].page \in PageId /\ guards[g].frame \in Frames
      /\ frames[guards[g].frame].page = guards[g].page
  BY PartTypes DEF Structure, GuardsOK
<1> QED
  BY <1>1, PartTypes, Constants DEF TableOK

\* A write through a guard changes what its own page shows, and no other.
LEMMA WriteStep ==
    ASSUME NEW Marked, PoolParts(Marked), NEW g \in Guards, NEW x \in Data, Write(g, x)
    PROVE  /\ PoolParts(Marked)' /\ guards'[g].dirty
           /\ \A q \in PageId : q # guards[g].page =>
                 Shown(frames', page_table', disk', page_count', q) =
                    Shown(frames, page_table, disk, page_count, q)
<1> DEFINE f == guards[g].frame
           p == guards[g].page
<1>1. p \in PageId /\ guards[g] # EmptyGuard
  BY PoolAssumption, Constants, GuardFields DEF Write
<1>2. f \in Frames /\ frames[f].page = p /\ page_table[p] = f
  BY <1>1, GuardOnFrame
<1>3. /\ frames' = [frames EXCEPT ![f].content.data = x]
      /\ guards' = [guards EXCEPT ![g].dirty = TRUE]
      /\ page_table' = page_table /\ accesses' = accesses /\ evictable' = evictable
      /\ curr_size' = curr_size /\ disk' = disk /\ page_count' = page_count
  BY DEF Write
<1>4. /\ frames' \in [Frames -> BufferFrame]
      /\ \A h \in Frames : /\ frames'[h].page = frames[h].page
                           /\ frames'[h].pin = frames[h].pin
                           /\ frames'[h].dirty = frames[h].dirty
                           /\ h # f => frames'[h] = frames[h]
  <2>1. frames[f] \in BufferFrame /\ frames[f].content \in Page
    BY <1>2, PartTypes, FrameFields
  <2> DEFINE c == [frames[f].content EXCEPT !.data = x]
             new == [frames[f] EXCEPT !.content = c]
  <2>2. c \in Page
    BY <2>1 DEF Page
  <2> HIDE DEF c
  <2>3. /\ new \in BufferFrame
        /\ new.page = frames[f].page /\ new.pin = frames[f].pin /\ new.dirty = frames[f].dirty
    BY <2>1, <2>2 DEF BufferFrame
  <2>4. frames' = [frames EXCEPT ![f] = new]
    BY <1>3 DEF c
  <2> HIDE DEF new
  <2> QED
    BY <1>2, <2>3, <2>4, PartTypes
<1>5. /\ guards' \in [Guards -> PageGuard]
      /\ guards'[g].dirty = TRUE /\ guards'[g].page = p /\ guards'[g].frame = f
      /\ \A k \in Guards : k # g => guards'[k] = guards[k]
  <2>1. guards[g] \in PageGuard
    BY PartTypes
  <2> DEFINE y == [guards[g] EXCEPT !.dirty = TRUE]
  <2>2. y \in PageGuard /\ y.dirty = TRUE /\ y.page = p /\ y.frame = f
    BY <2>1 DEF PageGuard
  <2>3. guards' = [guards EXCEPT ![g] = y]
    BY <1>3
  <2> HIDE DEF y, p, f
  <2> QED
    BY <2>2, <2>3, PartTypes
<1>6. \A k \in Guards : /\ guards'[k].page = guards[k].page /\ guards'[k].frame = guards[k].frame
                        /\ guards[k] = EmptyGuard => guards'[k] = EmptyGuard
  BY <1>1, <1>5
<1>7. Structure(frames', page_table', accesses', evictable', curr_size', guards')
  <2>1. Structure(frames', page_table, accesses, evictable, curr_size, guards')
    BY <1>4, <1>5, <1>6, PartTypes, SameStructure
  <2> QED
    BY <1>3, <2>1
<1> HIDE DEF f, p
<1>8. ASSUME NEW h \in Frames
      PROVE  Stored(Marked, frames'[h], Settled(guards', h), disk', page_count')
  <2>1. Stored(Marked, frames[h], Settled(guards, h), disk, page_count)
    BY PartTypes DEF Contents
  <2>2. CASE h = f
    <3>1. ~Settled(guards', h)
      BY <1>5, <2>2 DEF Settled
    <3> QED
      BY <1>3, <1>4, <2>1, <3>1 DEF Stored
  <2>3. CASE h # f
    <3>1. Settled(guards', h) => Settled(guards, h)
      BY <1>5, <1>6, <2>3 DEF Settled, f
    <3>2. frames'[h] = frames[h]
      BY <1>4, <2>3
    <3> QED
      BY <1>3, <2>1, <3>1, <3>2 DEF Stored
  <2> QED
    BY <2>2, <2>3
<1>9. Contents(Marked, frames', guards', disk', page_count')
  BY <1>3, <1>8, PartTypes DEF Contents
<1>10. ASSUME NEW q \in PageId, q # p
       PROVE  Shown(frames', page_table', disk', page_count', q) =
                 Shown(frames, page_table, disk, page_count, q)
  <2>1. page_table[q] # NoFrame => page_table[q] \in Frames /\ page_table[q] # f
    BY <1>2, <1>10, PartTypes DEF TableOK
  <2>2. page_table[q] # NoFrame => frames'[page_table[q]] = frames[page_table[q]]
    BY <1>4, <2>1
  <2> QED
    BY <1>3, <2>2 DEF Shown
<1> QED
  BY <1>5, <1>7, <1>9, <1>10 DEF PoolParts, p

\* A guard dropped.
LEMMA DropStep ==
    ASSUME NEW Marked, PoolParts(Marked), NEW g \in Guards, Drop(g)
    PROVE  PoolParts(Marked)' /\ KeepsCurrent(Marked)
<1> DEFINE f == guards[g].frame
<1>1. guards[g] # EmptyGuard
  BY DEF Drop
<1>2. f \in Frames /\ page_table[guards[g].page] = f
  BY <1>1, GuardOnFrame
<1>3. /\ frames[f].pin \in Nat \ {0} /\ f \notin evictable /\ frames[f].page = guards[g].page
      /\ Structure([frames EXCEPT ![f] = Unpinned(@, guards[g].dirty)], page_table, accesses,
                   IF frames[f].pin = 1 THEN evictable \cup {f} ELSE evictable,
                   IF frames[f].pin = 1 THEN curr_size + 1 ELSE curr_size,
                   [guards EXCEPT ![g] = EmptyGuard])
  BY <1>1, <1>2, PartTypes, UnpinStructure
<1> DEFINE u == Unpinned(frames[f], guards[g].dirty)
<1>4. /\ u \in BufferFrame /\ u.page = frames[f].page /\ u.pin = frames[f].pin - 1
      /\ u.dirty = (frames[f].dirty \/ guards[g].dirty) /\ u.content = frames[f].content
  BY <1>2, <1>3, PartTypes, GuardFields, UnpinnedFields
<1>5. /\ frames' = [frames EXCEPT ![f] = Unpinned(@, guards[g].dirty)]
      /\ IF frames'[f].pin = 0 THEN SetEvictable(f, TRUE) ELSE UNCHANGED <<evictable, curr_size>>
      /\ guards' = [guards EXCEPT ![g] = EmptyGuard]
      /\ page_table' = page_table /\ accesses' = accesses
      /\ disk' = disk /\ page_count' = page_count
  <2>1. f # NoFrame /\ ~(frames[f].pin <= 0)
    BY <1>2, <1>3, Constants
  <2> QED
    BY <1>2, <2>1 DEF Drop
<1> HIDE DEF u
<1>6. frames'[f] = u /\ \A h \in Frames : h # f => frames'[h] = frames[h]
  BY <1>2, <1>5, PartTypes DEF u
<1>7. Tracked(f)
  <2>1. frames[f].page # NoPage
    BY <1>1, <1>3, GuardOnFrame, Constants
  <2> QED
    BY <1>2, <2>1, PartTypes, HistoryCounts DEF Structure, HistoryOK
<1>8. /\ evictable' = IF frames[f].pin = 1 THEN evictable \cup {f} ELSE evictable
      /\ curr_size' = IF frames[f].pin = 1 THEN curr_size + 1 ELSE curr_size
  <2>1. frames'[f].pin = 0 <=> frames[f].pin = 1
    BY <1>3, <1>4, <1>6
  <2> QED
    BY <1>3, <1>5, <1>7, <2>1 DEF SetEvictable
<1>9. Structure(frames', page_table', accesses', evictable', curr_size', guards')
  BY <1>3, <1>5, <1>8, Zenon
<1>10. guards'[g] = EmptyGuard /\ \A k \in Guards : k # g => guards'[k] = guards[k]
  BY <1>5, PartTypes
<1>11. ASSUME NEW h \in Frames
       PROVE  Stored(Marked, frames'[h], Settled(guards', h), disk', page_count')
  <2>1. Stored(Marked, frames[h], Settled(guards, h), disk, page_count)
    BY PartTypes DEF Contents
  <2>2. CASE h = f
    <3>1. Settled(guards', h) /\ ~guards[g].dirty => Settled(guards, h)
      BY <1>10 DEF Settled
    <3> QED
      BY <1>4, <1>5, <1>6, <2>1, <2>2, <3>1 DEF Stored
  <2>3. CASE h # f
    <3>1. Settled(guards', h) => Settled(guards, h)
      BY <1>10, <2>3 DEF Settled
    <3>2. frames'[h] = frames[h]
      BY <1>6, <2>3
    <3> QED
      BY <1>5, <2>1, <3>1, <3>2 DEF Stored
  <2> QED
    BY <2>2, <2>3
<1>12. Contents(Marked, frames', guards', disk', page_count')
  BY <1>5, <1>11, PartTypes DEF Contents
<1>13. \A h \in Frames : frames'[h].content = frames[h].content
  BY <1>4, <1>6
<1>14. KeepsCurrent(Marked)
  BY <1>5, <1>13, PartTypes DEF KeepsCurrent, Keeps, Shown
<1> QED
  BY <1>9, <1>12, <1>14 DEF PoolParts

\* A guard moved.
LEMMA MoveStep ==
    ASSUME NEW Marked, PoolParts(Marked), NEW g \in Guards, NEW h \in Guards, Move(g, h)
    PROVE  PoolParts(Marked)' /\ KeepsCurrent(Marked)
<1>1. /\ guards[g] # EmptyGuard /\ guards[h] = EmptyGuard /\ g # h
      /\ guards' = [guards EXCEPT ![h] = guards[g], ![g] = EmptyGuard]
      /\ frames' = frames /\ page_table' = page_table /\ accesses' = accesses
      /\ evictable' = evictable /\ curr_size' = curr_size /\ disk' = disk
      /\ page_count' = page_count
  BY DEF Move
<1>2. Structure(frames', page_table', accesses', evictable', curr_size', guards')
  BY <1>1, PartTypes, MoveStructure
<1>3. \A f : Settled(guards', f) => Settled(guards, f)
  <2>1. guards'[h] = guards[g] /\ \A k \in Guards : k # g /\ k # h => guards'[k] = guards[k]
    BY <1>1, PartTypes
  <2>2. ~guards[h].dirty
    BY <1>1, GuardFields
  <2> QED
    BY <2>1, <2>2 DEF Settled
<1>4. \A f \in Frames : Stored(Marked, frames[f], Settled(guards, f), disk, page_count)
  BY PartTypes DEF Contents
<1>5. \A f \in Frames : Stored(Marked, frames[f], Settled(guards', f), disk, page_count)
  BY <1>3, <1>4 DEF Stored
<1>6. Contents(Marked, frames', guards', disk', page_count')
  BY <1>1, <1>5, PartTypes DEF Contents
<1>7. KeepsCurrent(Marked)
  BY <1>1 DEF KeepsCurrent, Keeps
<1> QED
  BY <1>2, <1>6, <1>7 DEF PoolParts

\* A new pool, without guards.
LEMMA NewPool ==
    ASSUME NEW Marked, NEW gs, gs = [g \in Guards |-> EmptyGuard]
    PROVE  /\ Structure([f \in Frames |-> Invalidated], [p \in PageId |-> NoFrame], <<>>, {}, 0, gs)
           /\ \A f \in Frames : \A d, dk, pc : Stored(Marked, [h \in Frames |-> Invalidated][f], d, dk, pc)
<1> DEFINE fr == [f \in Frames |-> Invalidated]
           pt == [p \in PageId |-> NoFrame]
<1>1. Invalidated \in BufferFrame /\ Invalidated.page = NoPage /\ Invalidated.pin = 0
  BY NewFrames
<1>2. fr \in [Frames -> BufferFrame] /\ \A f \in Frames : fr[f] = Invalidated
  BY <1>1
<1>3. pt \in [PageId -> Frames \cup {NoFrame}] /\ \A p \in PageId : pt[p] = NoFrame
  OBVIOUS
<1>4. gs \in [Guards -> PageGuard] /\ \A g \in Guards : gs[g] = EmptyGuard
  BY GuardFields
<1> HIDE DEF fr, pt
<1>5. TableOK(fr, pt) /\ GuardsOK(fr, gs)
  BY <1>1, <1>2, <1>3, <1>4 DEF TableOK, GuardsOK
<1>6. PinsOK(fr, gs)
  <2>1. \A f \in Frames : OnFrame(gs, f) = {}
    BY <1>4, GuardFields, Constants DEF OnFrame
  <2> QED
    BY <1>1, <1>2, <2>1, FS_EmptySet DEF PinsOK
<1>7. EvictableOK(fr, {}, 0)
  <2>1. {} = {f \in Frames : fr[f].page # NoPage /\ fr[f].pin = 0}
    BY <1>1, <1>2
  <2> QED
    BY <2>1, FS_EmptySet DEF EvictableOK
<1>8. HistoryOK(fr, <<>>)
  <2>1. \A f \in Frames : {i \in 1 .. Len(<<>>) : <<>>[i] = f} = {}
    OBVIOUS
  <2>2. \A f \in Frames : Count(<<>>, f) = 0
    BY <2>1, FS_EmptySet, Zenon DEF Count
  <2> QED
    BY <1>1, <1>2, <2>2 DEF HistoryOK
<1>9. Structure(fr, pt, <<>>, {}, 0, gs)
  BY <1>2, <1>3, <1>4, <1>5, <1>6, <1>7, <1>8 DEF Structure
<1>10. \A f \in Frames : \A d, dk, pc : Stored(Marked, fr[f], d, dk, pc)
  BY <1>1, <1>2 DEF Stored
<1> QED
  BY <1>9, <1>10 DEF fr, pt

\* A pool that is opened on a file.
LEMMA ReopenStep ==
    ASSUME NEW Marked, PoolParts(Marked), Reopen, disk' \in FileType, DataOf(disk', 0) # {}
    PROVE  PoolParts(Marked)' /\ \A c \in disk'[0] : c.count = page_count'
<1>1. /\ \A g \in Guards : guards[g] = EmptyGuard
      /\ guards' = guards
      /\ frames' = [f \in Frames |-> Invalidated]
      /\ page_table' = [p \in PageId |-> NoFrame]
      /\ accesses' = <<>> /\ evictable' = {} /\ curr_size' = 0
      /\ page_count' = (CHOOSE c \in disk'[0] : TRUE).count
  BY DEF Reopen
<1>2. guards' = [g \in Guards |-> EmptyGuard]
  BY <1>1, PartTypes
<1>3. Structure(frames', page_table', accesses', evictable', curr_size', guards')
  BY <1>1, <1>2, NewPool
<1>4. disk'[0] # {}
  BY FilePages, Constants
<1>5. PICK c \in Page : disk'[0] = {c}
  BY <1>4, FilePages, Constants
<1>6. page_count' = c.count /\ c.count \in 0 .. MaxPages
  BY <1>1, <1>5 DEF Page
<1>7. \A f \in Frames : Stored(Marked, frames'[f], Settled(guards', f), disk', page_count')
  BY <1>1, <1>2, NewPool
<1>8. Contents(Marked, frames', guards', disk', page_count')
  BY <1>6, <1>7 DEF Contents
<1> QED
  BY <1>3, <1>5, <1>6, <1>8 DEF PoolParts

\* The file has page 0 also after a flush.
LEMMA FlushKeepsZero ==
    ASSUME NEW Marked, PoolParts(Marked), NEW n \in Int
    PROVE  DataOf(FlushedBelow(n), 0) # {}
<1>1. CASE page_table[0] = NoFrame
  BY <1>1, PartTypes, Constants, UncachedUnflushed
<1>2. CASE page_table[0] # NoFrame
  <2>1. page_table[0] \in Frames /\ frames[page_table[0]].page = 0
    BY <1>2, PartTypes, Constants DEF TableOK
  <2>2. frames[page_table[0]].page # NoPage
    BY <2>1, Constants
  <2> QED
    BY <2>1, <2>2, FlushedPages
<1> QED
  BY <1>1, <1>2

\* A restart.  If nothing fails and the file has the page count, all pages show
\* what they showed.
LEMMA RestartStep ==
    ASSUME NEW Marked, PoolParts(Marked), Restart
    PROVE  /\ PoolParts(Marked)'
           /\ ~Failing /\ CountOnFile => KeepsCurrent(Marked) /\ CountOnFile'
<1>1. disk' = FlushedBelow(PoolSize) /\ Reopen /\ PoolSize \in Int
  BY Constants DEF Restart
<1>2. disk' \in FileType /\ DataOf(disk', 0) # {}
  BY <1>1, FlushedData, FlushKeepsZero
<1>3. PoolParts(Marked)' /\ \A c \in disk'[0] : c.count = page_count'
  BY <1>1, <1>2, ReopenStep
<1>4. /\ frames' = [f \in Frames |-> Invalidated]
      /\ page_table' = [p \in PageId |-> NoFrame]
      /\ \A g \in Guards : guards[g] = EmptyGuard
      /\ guards' = guards
  BY <1>1 DEF Reopen
<1>5. ASSUME ~Failing, CountOnFile
      PROVE  KeepsCurrent(Marked) /\ CountOnFile'
  <2>1. disk'[0] = disk[0]
    <3>1. \A f \in DirtyBelow(PoolSize) : frames[f].page # 0
      BY <1>5 DEF CountOnFile, DirtyBelow
    <3> QED
      BY <1>1, <3>1, FlushedData, Constants
  <2>2. page_count' = page_count
    BY <1>2, <1>3, <1>5, <2>1, FilePages, Constants DEF CountOnFile
  <2>3. ASSUME NEW h \in Frames, frames[h].page # NoPage, frames[h].page \in Marked
        PROVE  DataOf(disk', frames[h].page) = {frames[h].content.data} /\ frames[h].page < page_count
    <3>1. Settled(guards, h)
      BY <1>4, GuardFields DEF Settled
    <3>2. Stored(Marked, frames[h], Settled(guards, h), disk, page_count)
      BY PartTypes DEF Contents
    <3>3. CASE h \in DirtyBelow(PoolSize)
      BY <1>1, <2>3, <3>2, <3>3, FlushedPages DEF Stored
    <3>4. CASE h \notin DirtyBelow(PoolSize)
      <4>1. ~frames[h].dirty
        BY <2>3, <3>4, Constants DEF DirtyBelow, Valid, Frames
      <4>2. frames[h].page < page_count /\ frames[h].content.data \in DataOf(disk, frames[h].page)
        BY <2>3, <3>1, <3>2, <4>1 DEF Stored
      <4>3. frames[h].page \in PageId
        BY <2>3, PartTypes, FrameFields
      <4>4. DataOf(disk, frames[h].page) = {frames[h].content.data}
        BY <4>2, <4>3, PartTypes, FilePages
      <4>5. DataOf(disk', frames[h].page) = DataOf(disk, frames[h].page)
        BY <1>1, <2>3, <3>4, FlushedPages
      <4> QED
        BY <4>2, <4>4, <4>5
    <3> QED
      BY <3>3, <3>4
  <2>4. ASSUME NEW q \in PageId, q \in Marked, Shown(frames, page_table, disk, page_count, q) # {}
        PROVE  Shown(frames', page_table', disk', page_count', q) =
                  Shown(frames, page_table, disk, page_count, q)
    <3>1. page_table'[q] = NoFrame
      BY <1>4
    <3>2. CASE page_table[q] = NoFrame
      <4>1. DataOf(disk', q) = DataOf(disk, q)
        BY <1>1, <3>2, UncachedUnflushed
      <4> QED
        BY <2>2, <3>1, <3>2, <4>1 DEF Shown
    <3>3. CASE page_table[q] # NoFrame
      <4>1. page_table[q] \in Frames /\ frames[page_table[q]].page = q /\ q # NoPage
        BY <3>3, PartTypes, Constants DEF TableOK
      <4>2. DataOf(disk', q) = {frames[page_table[q]].content.data} /\ q < page_count
        BY <2>3, <2>4, <4>1
      <4> QED
        BY <2>2, <3>1, <3>3, <4>2 DEF Shown
    <3> QED
      BY <3>2, <3>3
  <2>5. KeepsCurrent(Marked)
    BY <2>4 DEF KeepsCurrent, Keeps
  <2>6. \A f \in Frames : frames'[f].page # 0
    BY <1>4, NewFrames, Constants
  <2>7. \A g \in Guards : ~guards'[g].dirty
    BY <1>4, GuardFields
  <2>8. CountOnFile'
    BY <1>3, <2>6, <2>7 DEF CountOnFile
  <2> QED
    BY <2>5, <2>8
<1> QED
  BY <1>3, <1>5

\* A restart whose last flush fails.
LEMMA RestartFailsStep ==
    ASSUME NEW Marked, PoolParts(Marked), NEW n \in Frames, RestartFails(n)
    PROVE  PoolParts(Marked)'
<1>1. /\ n \in DirtyBelow(PoolSize) /\ Reopen
      /\ disk' \in TornWrite(FlushedBelow(n), frames[n].page, frames[n].content)
  BY DEF RestartFails
<1>2. /\ disk' \in FileType /\ n \in Int
      /\ DataOf(disk', frames[n].page) # {}
      /\ \A q \in PageId : q # frames[n].page => DataOf(disk', q) = DataOf(FlushedBelow(n), q)
  BY <1>1, TornFlush
<1>3. DataOf(disk', 0) # {}
  BY <1>2, FlushKeepsZero, Constants
<1> QED
  BY <1>1, <1>2, <1>3, ReopenStep

-----------------------------------------------------------------------------
(* The copies of a page, marked when it is written or not. *)

\* Copies, as a statement about the values of the variables.
CopiesOf(fr, pt, gs, dk, p) ==
    IF pt[p] = NoFrame THEN dk[p]
    ELSE {fr[pt[p]].content} \cup IF ~fr[pt[p]].dirty /\ Settled(gs, pt[p]) THEN dk[p] ELSE {}

\* It is Copies.
LEMMA CopiesNow ==
    ASSUME NEW p
    PROVE  /\ Copies(p) = CopiesOf(frames, page_table, guards, disk, p)
           /\ Copies(p)' = CopiesOf(frames', page_table', guards', disk', p)
BY DEF Copies, CopiesOf, Settled

\* A guard shows one of the copies of its page.
LEMMA GuardShows ==
    ASSUME NEW fr, NEW pt, TableOK(fr, pt), NEW gs, GuardsOK(fr, gs), NEW dk,
           NEW g \in Guards, gs[g] # EmptyGuard
    PROVE  /\ gs[g].page \in PageId /\ gs[g].frame \in Frames
           /\ fr[gs[g].frame].page = gs[g].page
           /\ fr[gs[g].frame].content \in CopiesOf(fr, pt, gs, dk, gs[g].page)
<1>1. gs[g].page \in PageId /\ gs[g].frame \in Frames /\ fr[gs[g].frame].page = gs[g].page
  BY DEF GuardsOK
<1>2. pt[gs[g].page] = gs[g].frame
  BY <1>1, Constants DEF TableOK
<1> QED
  BY <1>1, <1>2, Constants DEF CopiesOf

\* Every page of the file below the page count has copies, and they are pages.
LEMMA CopiesThere ==
    ASSUME NEW Marked, PoolParts(Marked), NEW p \in PageId
    PROVE  /\ Copies(p) \subseteq Page
           /\ disk[p] # {} => Copies(p) # {}
<1>1. disk[p] \subseteq Page
  BY PartTypes, FilePages
<1>2. page_table[p] # NoFrame => frames[page_table[p]].content \in Page
  BY PartTypes, FrameFields
<1> QED
  BY <1>1, <1>2, CopiesNow DEF CopiesOf

\* The flush of an unpinned frame puts a copy of its page on the file.
LEMMA VictimCopies ==
    ASSUME NEW Marked, PoolParts(Marked), NEW f \in Frames, OnFrame(guards, f) = {},
           NEW q \in PageId
    PROVE  /\ q = frames[f].page => FlushVictim(f)[q] \subseteq Copies(q)
           /\ q # frames[f].page => FlushVictim(f)[q] = disk[q]
<1>1. CASE q # frames[f].page
  BY <1>1, VictimFlushed
<1>2. CASE q = frames[f].page
  <2>1. page_table[q] = f /\ f # NoFrame
    BY <1>2, PartTypes, Constants DEF TableOK
  <2>2. CASE frames[f].dirty
    <3>1. FlushVictim(f)[q] = {frames[f].content}
      BY <1>2, <2>2, PartTypes DEF FlushVictim, Written, FileType
    <3> QED
      BY <1>2, <2>1, <3>1, CopiesNow DEF CopiesOf
  <2>3. CASE ~frames[f].dirty
    <3>1. FlushVictim(f) = disk /\ Settled(guards, f)
      BY <2>3 DEF FlushVictim, OnFrame, Settled
    <3> QED
      BY <1>2, <2>1, <2>3, <3>1, CopiesNow DEF CopiesOf
  <2> QED
    BY <2>2, <2>3
<1> QED
  BY <1>1, <1>2

\* The copies of another page after a frame was loaded with page p.
LEMMA LoadedCopies ==
    ASSUME NEW Marked, PoolParts(Marked), NEW f \in Frames, OnFrame(guards, f) = {},
           NEW p \in PageId, NEW c, NEW g \in Guards, guards[g] = EmptyGuard,
           frames' = [frames EXCEPT ![f] = Loaded(p, c)],
           page_table' = [[q \in PageId |-> IF q = frames[f].page THEN NoFrame ELSE page_table[q]]
                             EXCEPT ![p] = f],
           guards' = [guards EXCEPT ![g] = [page |-> p, frame |-> f, dirty |-> FALSE]],
           NEW q \in PageId, q # p, NEW d \in Copies(q)'
    PROVE  d \in Copies(q) \/ (d \in disk'[q] /\ FlushVictim(f)[q] \subseteq Copies(q))
<1>1. /\ frames \in [Frames -> BufferFrame] /\ page_table \in [PageId -> Frames \cup {NoFrame}]
      /\ guards \in [Guards -> PageGuard] /\ TableOK(frames, page_table)
  BY PartTypes
<1>2. page_table'[q] = IF q = frames[f].page THEN NoFrame ELSE page_table[q]
  BY <1>1
<1>3. CASE q = frames[f].page
  BY <1>2, <1>3, VictimCopies, CopiesNow DEF CopiesOf
<1>4. CASE q # frames[f].page /\ page_table[q] = NoFrame
  <2>1. FlushVictim(f)[q] = disk[q]
    BY <1>4, VictimCopies
  <2> QED
    BY <1>2, <1>4, <2>1, CopiesNow DEF CopiesOf
<1>5. CASE q # frames[f].page /\ page_table[q] # NoFrame
  <2> PICK h : h = page_table[q]
    OBVIOUS
  <2>1. h \in Frames /\ h # f /\ frames[h].page = q /\ h # NoFrame
    BY <1>1, <1>5 DEF TableOK
  <2>2. frames'[h] = frames[h] /\ page_table'[q] = h
    BY <1>1, <1>2, <1>5, <2>1
  <2>3. Settled(guards', h) <=> Settled(guards, h)
    <3>1. guards'[g].frame = f /\ \A k \in Guards : k # g => guards'[k] = guards[k]
      BY <1>1
    <3> QED
      BY <2>1, <3>1, GuardFields DEF Settled
  <2>4. FlushVictim(f)[q] = disk[q]
    BY <1>5, VictimCopies
  <2>5. Copies(q) = {frames[h].content} \cup IF ~frames[h].dirty /\ Settled(guards, h) THEN disk[q] ELSE {}
    BY <1>5, CopiesNow DEF CopiesOf
  <2>6. d \in {frames[h].content} \cup IF ~frames[h].dirty /\ Settled(guards, h) THEN disk'[q] ELSE {}
    <3>1. Copies(q)' = {frames'[h].content} \cup IF ~frames'[h].dirty /\ Settled(guards', h) THEN disk'[q] ELSE {}
      BY <2>1, <2>2, CopiesNow DEF CopiesOf
    <3> QED
      BY <2>2, <2>3, <3>1
  <2> QED
    BY <2>4, <2>5, <2>6
<1> QED
  BY <1>3, <1>4, <1>5

\* A step that leaves the table and the file alone, and what the frames show,
\* and makes no frame clean.
LEMMA SameCopies ==
    ASSUME NEW Marked, PoolParts(Marked),
           page_table' = page_table, disk' = disk,
           \A h \in Frames : /\ frames'[h].content = frames[h].content
                             /\ ~frames'[h].dirty /\ Settled(guards', h) =>
                                   ~frames[h].dirty /\ Settled(guards, h),
           NEW q \in PageId
    PROVE  Copies(q)' \subseteq Copies(q)
<1>1. CASE page_table[q] = NoFrame
  BY <1>1, CopiesNow DEF CopiesOf
<1>2. CASE page_table[q] # NoFrame
  <2> PICK h \in Frames : h = page_table[q]
    BY <1>2, PartTypes
  <2>1. Copies(q) = {frames[h].content} \cup IF ~frames[h].dirty /\ Settled(guards, h) THEN disk[q] ELSE {}
    BY <1>2, CopiesNow DEF CopiesOf
  <2>2. Copies(q)' = {frames'[h].content} \cup IF ~frames'[h].dirty /\ Settled(guards', h) THEN disk[q] ELSE {}
    BY <1>2, CopiesNow DEF CopiesOf
  <2> QED
    BY <2>1, <2>2
<1> QED
  BY <1>1, <1>2

\* A fetch of a cached page adds no copies.
LEMMA FetchHitCopies ==
    ASSUME NEW Marked, PoolParts(Marked), NEW g \in Guards, NEW p \in PageId, FetchHit(g, p),
           NEW q \in PageId
    PROVE  Copies(q)' \subseteq Copies(q)
<1> PICK f \in Frames : f = page_table[p]
  BY PartTypes DEF FetchHit
<1>1. /\ frames' = [frames EXCEPT ![f].pin = @ + 1]
      /\ page_table' = page_table /\ disk' = disk
      /\ guards[g] = EmptyGuard
      /\ guards' = [guards EXCEPT ![g] = [page |-> p, frame |-> f, dirty |-> FALSE]]
  BY DEF FetchHit, Guard
<1>2. \A h \in Frames : /\ frames'[h].dirty = frames[h].dirty
                        /\ frames'[h].content = frames[h].content
  BY <1>1, PartTypes DEF BufferFrame
<1>3. \A h \in Frames : Settled(guards', h) => Settled(guards, h)
  BY <1>1, PartTypes, GuardFields, Constants DEF Settled
<1> QED
  BY <1>1, <1>2, <1>3, SameCopies

\* A fetch of another page adds no copies: what it evicts is one.
LEMMA FetchMissCopies ==
    ASSUME NEW Marked, PoolParts(Marked), NEW g \in Guards, NEW p \in PageId, NEW f \in Frames,
           FetchMiss(g, p, f), NEW q \in PageId
    PROVE  Copies(q)' \subseteq Copies(q)
<1> DEFINE c == CHOOSE c \in disk'[p] : TRUE
<1>1. /\ guards[g] = EmptyGuard /\ page_table[p] = NoFrame /\ FreeFrame(f)
      /\ disk' = FlushVictim(f) /\ disk'[p] # {}
      /\ frames' = [frames EXCEPT ![f] = Loaded(p, c)]
      /\ page_table' = [[r \in PageId |-> IF r = frames[f].page THEN NoFrame ELSE page_table[r]]
                             EXCEPT ![p] = f]
      /\ guards' = [guards EXCEPT ![g] = [page |-> p, frame |-> f, dirty |-> FALSE]]
  BY DEF FetchMiss, Readable, EraseVictim, Guard
<1>2. OnFrame(guards, f) = {}
  BY <1>1, FreedFrame
<1>3. c \in disk'[p]
  BY <1>1
<1> HIDE DEF c
<1>4. p # frames[f].page
  BY <1>1, PartTypes, Constants DEF TableOK
<1>5. disk'[p] = disk[p]
  BY <1>1, <1>2, <1>4, VictimCopies
<1>6. CASE q # p
  BY <1>1, <1>2, <1>6, LoadedCopies
<1>7. CASE q = p
  <2>1. Copies(p) = disk[p]
    BY <1>1, CopiesNow DEF CopiesOf
  <2>2. page_table'[p] = f /\ frames'[f].content = c
    BY <1>1, PartTypes DEF Loaded
  <2>3. Copies(p)' \subseteq {c} \cup disk'[p]
    BY <2>2, CopiesNow, Constants DEF CopiesOf
  <2> QED
    BY <1>3, <1>5, <1>7, <2>1, <2>3
<1> QED
  BY <1>6, <1>7

\* A new page leaves the copies of page 0 as they were, but for their counts:
\* the count in the file is the new one.
LEMMA NewPageCopies ==
    ASSUME NEW Marked, PoolParts(Marked), NEW g \in Guards, NEW f \in Frames, NewPage(g, f),
           page_count # 0, NEW c \in Copies(0)'
    PROVE  \E d \in Copies(0) : c.data = d.data /\ c.count \in {d.count, page_count'}
<1> DEFINE flushed == FlushVictim(f)
           grown == Extended(flushed, page_count)
<1>1. /\ guards[g] = EmptyGuard /\ FreeFrame(f)
      /\ frames' = [frames EXCEPT ![f] = Loaded(page_count, Cleared)]
      /\ page_table' = [[q \in PageId |-> IF q = frames[f].page THEN NoFrame ELSE page_table[q]]
                             EXCEPT ![page_count] = f]
      /\ guards' = [guards EXCEPT ![g] = [page |-> page_count, frame |-> f, dirty |-> FALSE]]
      /\ disk' = CountUpdated(grown, page_count') \/ disk' = grown
  BY DEF NewPage, EraseVictim, Guard
<1>2. OnFrame(guards, f) = {} /\ flushed \in FileType /\ DataOf(flushed, 0) # {}
  BY <1>1, FreedFrame
<1>3. page_count \in PageId
  BY NewPageStep
<1> HIDE DEF flushed
<1>4. flushed[0] # {}
  BY <1>2, FilePages, Constants
<1>5. grown[0] = flushed[0]
  BY <1>4, Constants DEF Extended
<1>6. grown = [q \in PageId |-> grown[q]]
  BY DEF Extended
<1> HIDE DEF grown
<1>7. disk'[0] = {[x EXCEPT !.count = page_count'] : x \in flushed[0]} \/ disk'[0] = flushed[0]
  BY <1>1, <1>5, <1>6, Constants DEF CountUpdated
<1>8. c \in Copies(0) \/ (c \in disk'[0] /\ flushed[0] \subseteq Copies(0))
  BY <1>1, <1>2, <1>3, Constants, LoadedCopies DEF flushed
<1>9. CASE c \in Copies(0)
  BY <1>9
<1>10. CASE c \in disk'[0] /\ flushed[0] \subseteq Copies(0)
  <2>1. CASE disk'[0] = flushed[0]
    BY <1>10, <2>1
  <2>2. CASE disk'[0] = {[x EXCEPT !.count = page_count'] : x \in flushed[0]}
    <3>1. PICK x \in flushed[0] : c = [x EXCEPT !.count = page_count']
      BY <1>10, <2>2
    <3>2. x \in Page
      BY <1>2, FilePages, Constants
    <3>3. c.data = x.data /\ c.count = page_count'
      BY <3>1, <3>2 DEF Page
    <3> QED
      BY <1>10, <3>3
  <2> QED
    BY <1>7, <2>1, <2>2
<1> QED
  BY <1>8, <1>9, <1>10

\* Nor does a guard that is dropped.
LEMMA DropCopies ==
    ASSUME NEW Marked, PoolParts(Marked), NEW g \in Guards, Drop(g), NEW q \in PageId
    PROVE  Copies(q)' \subseteq Copies(q)
<1> PICK f \in Frames : f = guards[g].frame
  BY GuardOnFrame DEF Drop
<1>1. guards[g] # EmptyGuard /\ page_table[guards[g].page] = f
  BY GuardOnFrame DEF Drop
<1>2. /\ page_table' = page_table /\ disk' = disk
      /\ guards' = [guards EXCEPT ![g] = EmptyGuard]
  BY DEF Drop
<1>3. frames[f].pin \in Nat \ {0}
  BY <1>1, PartTypes, UnpinStructure
<1> DEFINE u == Unpinned(frames[f], guards[g].dirty)
<1>4. u.dirty = (frames[f].dirty \/ guards[g].dirty) /\ u.content = frames[f].content
  BY <1>3, PartTypes, GuardFields, UnpinnedFields
<1>5. frames' = [frames EXCEPT ![f] = u]
  <2>1. f # NoFrame /\ ~(frames[f].pin <= 0)
    BY <1>3, Constants
  <2>2. frames' = [frames EXCEPT ![f] = Unpinned(@, guards[g].dirty)]
    BY <1>1, <2>1 DEF Drop
  <2> QED
    BY <2>2
<1> HIDE DEF u
<1>6. frames'[f] = u /\ \A h \in Frames : h # f => frames'[h] = frames[h]
  BY <1>5, PartTypes
<1>7. guards'[g] = EmptyGuard /\ \A k \in Guards : k # g => guards'[k] = guards[k]
  BY <1>2, PartTypes
<1>8. ASSUME NEW h \in Frames, ~frames'[h].dirty, Settled(guards', h)
      PROVE  ~frames[h].dirty /\ Settled(guards, h)
  <2>1. h = f => ~guards[g].dirty /\ ~frames[h].dirty
    BY <1>4, <1>6, <1>8
  <2>2. h # f => ~frames[h].dirty
    BY <1>6, <1>8
  <2>3. Settled(guards, h)
    BY <1>7, <1>8, <2>1 DEF Settled
  <2> QED
    BY <2>1, <2>2, <2>3
<1>9. \A h \in Frames : frames'[h].content = frames[h].content
  BY <1>4, <1>6
<1> QED
  BY <1>2, <1>8, <1>9, SameCopies

\* flushAllPages puts copies on the file.
LEMMA FlushAllPagesCopies ==
    ASSUME NEW Marked, PoolParts(Marked), FlushAllPages, NEW q \in PageId
    PROVE  Copies(q)' \subseteq Copies(q)
<1>1. PoolSize \in Int
  BY Constants
<1>2. /\ disk' = FlushedBelow(PoolSize) /\ frames' = CleanedBelow(PoolSize)
      /\ page_table' = page_table /\ guards' = guards
  BY DEF FlushAllPages
<1>3. \A f \in Frames : /\ frames'[f].content = frames[f].content
                        /\ frames'[f].dirty = (frames[f].dirty /\ f \notin DirtyBelow(PoolSize))
  BY <1>1, <1>2, PartTypes, CleanedFrames
<1>4. CASE page_table[q] = NoFrame
  BY <1>1, <1>2, <1>4, UncachedUnflushed, CopiesNow DEF CopiesOf
<1>5. CASE page_table[q] # NoFrame
  <2> PICK h \in Frames : h = page_table[q]
    BY <1>5, PartTypes
  <2>1. frames[h].page = q /\ q # NoPage
    BY <1>5, PartTypes, Constants DEF TableOK
  <2>2. Copies(q) = {frames[h].content} \cup IF ~frames[h].dirty /\ Settled(guards, h) THEN disk[q] ELSE {}
    BY <1>5, CopiesNow DEF CopiesOf
  <2>3. Copies(q)' = {frames'[h].content} \cup IF ~frames'[h].dirty /\ Settled(guards', h) THEN disk'[q] ELSE {}
    BY <1>2, <1>5, CopiesNow DEF CopiesOf
  <2>4. CASE h \in DirtyBelow(PoolSize)
    <3>1. disk'[q] = {frames[h].content}
      BY <1>1, <1>2, <2>1, <2>4, FlushedData
    <3> QED
      BY <1>3, <2>2, <2>3, <3>1
  <2>5. CASE h \notin DirtyBelow(PoolSize)
    <3>1. disk'[q] = disk[q]
      BY <1>1, <1>2, <2>1, <2>5, FlushedPages
    <3>2. frames'[h].dirty = frames[h].dirty
      BY <1>3, <2>5, PartTypes, FrameFields
    <3> QED
      BY <1>2, <1>3, <2>2, <2>3, <3>1, <3>2
  <2> QED
    BY <2>4, <2>5
<1> QED
  BY <1>4, <1>5

\* After a restart a page has one of the copies it had before, and the page
\* count is the one of page 0.
LEMMA RestartCopies ==
    ASSUME NEW Marked, PoolParts(Marked), Restart, NEW q \in PageId
    PROVE  /\ Copies(q)' \subseteq Copies(q)
           /\ \A c \in Copies(0)' : c.count = page_count'
           /\ Copies(0)' # {}
<1>1. disk' = FlushedBelow(PoolSize) /\ Reopen /\ PoolSize \in Int
  BY Constants DEF Restart
<1>2. page_table' = [p \in PageId |-> NoFrame] /\ \A g \in Guards : guards[g] = EmptyGuard
  BY <1>1 DEF Reopen
<1>3. \A p \in PageId : Copies(p)' = disk'[p]
  BY <1>2, CopiesNow DEF CopiesOf
<1>4. disk' \in FileType /\ DataOf(disk', 0) # {}
  BY <1>1, FlushedData, FlushKeepsZero
<1>5. disk'[0] # {} /\ \A c \in disk'[0] : c.count = page_count'
  BY <1>1, <1>4, ReopenStep, FilePages, Constants
<1>6. disk'[q] \subseteq Copies(q)
  <2>1. CASE page_table[q] = NoFrame
    BY <1>1, <2>1, UncachedUnflushed, CopiesNow DEF CopiesOf
  <2>2. CASE page_table[q] # NoFrame
    <3> PICK h \in Frames : h = page_table[q]
      BY <2>2, PartTypes
    <3>1. frames[h].page = q /\ q # NoPage
      BY <2>2, PartTypes, Constants DEF TableOK
    <3>2. Copies(q) = {frames[h].content} \cup IF ~frames[h].dirty /\ Settled(guards, h) THEN disk[q] ELSE {}
      BY <2>2, CopiesNow DEF CopiesOf
    <3>3. CASE h \in DirtyBelow(PoolSize)
      <4>1. disk'[q] = {frames[h].content}
        BY <1>1, <3>1, <3>3, FlushedData
      <4> QED
        BY <3>2, <4>1
    <3>4. CASE h \notin DirtyBelow(PoolSize)
      <4>1. ~frames[h].dirty
        BY <3>1, <3>4, Constants DEF DirtyBelow, Valid, Frames
      <4>2. Settled(guards, h)
        BY <1>2, GuardFields DEF Settled
      <4>3. disk'[q] = disk[q]
        BY <1>1, <3>1, <3>4, FlushedPages
      <4> QED
        BY <3>2, <4>1, <4>2, <4>3
    <3> QED
      BY <3>3, <3>4
  <2> QED
    BY <2>1, <2>2
<1> QED
  BY <1>3, <1>5, <1>6, Constants

\* A frame whose data is replaced.
LEMMA DataReplaced ==
    ASSUME NEW fr \in [Frames -> BufferFrame], NEW f \in Frames, NEW x \in Data,
           NEW new, new = [fr EXCEPT ![f].content.data = x]
    PROVE  /\ new \in [Frames -> BufferFrame]
           /\ new[f].content.data = x /\ new[f].content.count = fr[f].content.count
           /\ \A h \in Frames : /\ new[h].page = fr[h].page
                                /\ new[h].pin = fr[h].pin
                                /\ new[h].dirty = fr[h].dirty
                                /\ h # f => new[h] = fr[h]
<1> DEFINE c == [fr[f].content EXCEPT !.data = x]
           y == [fr[f] EXCEPT !.content = c]
<1>1. fr[f] \in BufferFrame /\ fr[f].content \in Page
  BY FrameFields
<1>2. c \in Page /\ c.data = x /\ c.count = fr[f].content.count
  BY <1>1 DEF Page
<1>3. new = [fr EXCEPT ![f] = y]
  OBVIOUS
<1> HIDE DEF c
<1>4. /\ y \in BufferFrame /\ y.content = c
      /\ y.page = fr[f].page /\ y.pin = fr[f].pin /\ y.dirty = fr[f].dirty
  BY <1>1, <1>2 DEF BufferFrame
<1> HIDE DEF y
<1> QED
  BY <1>2, <1>3, <1>4

\* A write through a guard leaves one copy of the page, with the old count.
LEMMA WriteCopies ==
    ASSUME NEW Marked, PoolParts(Marked), NEW g \in Guards, NEW x \in Data, Write(g, x),
           NEW p \in PageId, p = guards[g].page, NEW c \in Copies(p)'
    PROVE  c.data = x /\ \E d \in Copies(p) : c.count = d.count
<1>1. guards[g] # EmptyGuard
  BY Constants, GuardFields
<1> PICK f \in Frames : f = guards[g].frame
  BY <1>1, GuardOnFrame
<1>2. page_table[p] = f
  BY <1>1, GuardOnFrame
<1>3. /\ frames' = [frames EXCEPT ![f].content.data = x]
      /\ guards' = [guards EXCEPT ![g].dirty = TRUE] /\ page_table' = page_table
  BY DEF Write
<1>4. frames'[f].content.data = x /\ frames'[f].content.count = frames[f].content.count
  BY <1>3, PartTypes, DataReplaced
<1>5. guards'[g].dirty = TRUE /\ guards'[g].frame = f
  BY <1>3, PartTypes DEF PageGuard
<1>6. ~Settled(guards', f)
  BY <1>5 DEF Settled
<1>7. frames[f].content \in Copies(p)
  BY <1>2, CopiesNow, Constants DEF CopiesOf
<1>8. Copies(p)' = {frames'[f].content}
  <2>1. page_table'[p] = f /\ f # NoFrame
    BY <1>2, <1>3, Constants
  <2>2. Copies(p)' = {frames'[f].content}
                        \cup IF ~frames'[f].dirty /\ Settled(guards', f) THEN disk'[p] ELSE {}
    BY <2>1, CopiesNow DEF CopiesOf
  <2> QED
    BY <1>6, <2>2
<1> QED
  BY <1>4, <1>7, <1>8

\* A write whose guard is not marked.
WriteUnmarked(g, x) ==
    /\ frames' = [frames EXCEPT ![guards[g].frame].content.data = x]
    /\ UNCHANGED <<page_table, accesses, evictable, curr_size, guards, disk, page_count>>

\* It adds a copy, and the file keeps its own.
LEMMA UnmarkedWriteStep ==
    ASSUME NEW Marked, PoolParts(Marked), NEW g \in Guards, NEW x \in Data, WriteUnmarked(g, x),
           NEW p \in PageId \ Marked, p = guards[g].page
    PROVE  /\ PoolParts(Marked)'
           /\ \A c \in Copies(p)' :
                 c \in Copies(p) \/ (c.data = x /\ \E d \in Copies(p) : c.count = d.count)
<1>1. guards[g] # EmptyGuard
  BY Constants, GuardFields
<1> PICK f \in Frames : f = guards[g].frame
  BY <1>1, GuardOnFrame
<1>2. page_table[p] = f /\ frames[f].page = p
  BY <1>1, GuardOnFrame
<1>3. /\ frames' = [frames EXCEPT ![f].content.data = x]
      /\ page_table' = page_table /\ accesses' = accesses /\ evictable' = evictable
      /\ curr_size' = curr_size /\ guards' = guards /\ disk' = disk /\ page_count' = page_count
  BY DEF WriteUnmarked
<1>4. /\ frames' \in [Frames -> BufferFrame]
      /\ frames'[f].content.data = x /\ frames'[f].content.count = frames[f].content.count
      /\ \A h \in Frames : /\ frames'[h].page = frames[h].page
                           /\ frames'[h].pin = frames[h].pin
                           /\ frames'[h].dirty = frames[h].dirty
                           /\ h # f => frames'[h] = frames[h]
  BY <1>3, PartTypes, DataReplaced
<1>5. Structure(frames', page_table', accesses', evictable', curr_size', guards')
  <2>1. Structure(frames', page_table, accesses, evictable, curr_size, guards)
    BY <1>4, PartTypes, SameStructure
  <2> QED
    BY <1>3, <2>1
<1>6. ASSUME NEW h \in Frames
      PROVE  Stored(Marked, frames'[h], Settled(guards', h), disk', page_count')
  <2>1. Stored(Marked, frames[h], Settled(guards, h), disk, page_count)
    BY PartTypes DEF Contents
  <2>2. Settled(guards', h) <=> Settled(guards, h)
    BY <1>3 DEF Settled
  <2>3. CASE h = f
    BY <1>2, <1>3, <1>4, <2>1, <2>3 DEF Stored
  <2>4. CASE h # f
    BY <1>3, <1>4, <2>1, <2>2, <2>4 DEF Stored
  <2> QED
    BY <2>3, <2>4
<1>7. PoolParts(Marked)'
  BY <1>3, <1>5, <1>6, PartTypes DEF PoolParts, Contents
<1>8. Copies(p) = {frames[f].content} \cup IF ~frames[f].dirty /\ Settled(guards, f) THEN disk[p] ELSE {}
  BY <1>2, CopiesNow, Constants DEF CopiesOf
<1>9. Copies(p)' = {frames'[f].content} \cup IF ~frames'[f].dirty /\ Settled(guards, f) THEN disk[p] ELSE {}
  BY <1>2, <1>3, CopiesNow, Constants DEF CopiesOf
<1>10. ASSUME NEW c \in Copies(p)'
      PROVE  c \in Copies(p) \/ (c.data = x /\ \E d \in Copies(p) : c.count = d.count)
  <2>1. c = frames'[f].content \/ c \in Copies(p)
    BY <1>4, <1>8, <1>9, <1>10
  <2>2. frames[f].content \in Copies(p)
    BY <1>8
  <2> QED
    BY <1>4, <2>1, <2>2
<1> QED
  BY <1>7, <1>10

\* The parts hold of fewer pages too.
LEMMA FewerMarked ==
    ASSUME NEW Marked, NEW Fewer, Fewer \subseteq Marked, PoolParts(Marked)
    PROVE  PoolParts(Fewer)
<1>1. \A f \in Frames : Stored(Marked, frames[f], Settled(guards, f), disk, page_count)
  BY PartTypes DEF Contents
<1>2. \A f \in Frames : Stored(Fewer, frames[f], Settled(guards, f), disk, page_count)
  BY <1>1 DEF Stored
<1> QED
  BY <1>2, PartTypes DEF PoolParts, Contents

\* The parts hold at the start.
LEMMA PoolInit == Init => PoolParts(PageId)
<1> SUFFICES ASSUME Init
             PROVE  PoolParts(PageId)
  OBVIOUS
<1>1. guards = [g \in Guards |-> EmptyGuard]
  BY DEF Init
<1>2. /\ Structure(frames, page_table, accesses, evictable, curr_size, guards)
      /\ \A f \in Frames : Stored(PageId, frames[f], Settled(guards, f), disk, page_count)
  BY <1>1, NewPool DEF Init
<1> DEFINE c == [count |-> 1, data |-> ZeroPage]
<1>3. c \in Page /\ page_count \in 0 .. MaxPages
  BY Constants DEF Page, Init
<1>4. disk = [p \in PageId |-> IF p = 0 THEN {c} ELSE {}]
  BY DEF Init
<1> HIDE DEF c
<1>5. disk \in FileType /\ DataOf(disk, 0) # {}
  BY <1>3, <1>4, Constants DEF FileType, DataOf
<1> QED
  BY <1>2, <1>3, <1>5 DEF PoolParts, Contents

\* Every step keeps the parts.
LEMMA PoolNext == PoolParts(PageId) /\ [Next]_vars => PoolParts(PageId)'
<1> SUFFICES ASSUME PoolParts(PageId), [Next]_vars
             PROVE  PoolParts(PageId)'
  OBVIOUS
<1>1. CASE \E g \in Guards, p \in PageId : FetchHit(g, p)
  BY <1>1, FetchHitStep
<1>2. CASE \E g \in Guards, p \in PageId, f \in Frames : FetchMiss(g, p, f)
  BY <1>2, FetchMissStep
<1>3. CASE \E g \in Guards, p \in PageId, f \in Frames : FetchFails(g, p, f)
  BY <1>3, FetchFailsStep
<1>4. CASE \E f \in Frames : EvictionFails(f)
  BY <1>4, EvictionFailsStep
<1>5. CASE \E g \in Guards, f \in Frames : NewPage(g, f)
  BY <1>5, NewPageStep
<1>6. CASE \E g \in Guards, f \in Frames : NewPageFails(g, f)
  BY <1>6, NewPageFailsStep
<1>7. CASE \E g \in Guards, x \in Data : Write(g, x)
  BY <1>7, WriteStep
<1>8. CASE \E g \in Guards : Drop(g)
  BY <1>8, DropStep
<1>9. CASE \E g, h \in Guards : Move(g, h)
  BY <1>9, MoveStep
<1>10. CASE \E p \in PageId : FlushPage(p)
  BY <1>10, FlushPageStep
<1>11. CASE \E p \in PageId : FlushPageFails(p)
  BY <1>11, FlushPageFailsStep
<1>12. CASE FlushAllPages
  BY <1>12, FlushAllPagesStep
<1>13. CASE \E n \in Frames : FlushAllPagesFails(n)
  BY <1>13, FlushAllPagesFailsStep
<1>14. CASE Restart
  BY <1>14, RestartStep
<1>15. CASE \E n \in Frames : RestartFails(n)
  BY <1>15, RestartFailsStep
<1>16. CASE UNCHANGED vars
  BY <1>16 DEF vars, PoolParts
<1> QED
  BY <1>1, <1>2, <1>3, <1>4, <1>5, <1>6, <1>7, <1>8, <1>9, <1>10, <1>11, <1>12, <1>13, <1>14,
     <1>15, <1>16 DEF Next

\* Every step keeps page 0 clean and its count on the file, if no caller writes
\* page 0.
LEMMA CountNext ==
    ASSUME 0 \notin Writable, PoolParts(PageId), CountOnFile, [Next]_vars
    PROVE  CountOnFile'
<1> DEFINE Marks(fr, gs) == /\ \A f \in Frames : fr[f].page = 0 => ~fr[f].dirty
                            /\ \A g \in Guards : gs[g].page = 0 => ~gs[g].dirty
<1>1. Marks(frames, guards) /\ 0 # NoPage
  BY Constants DEF CountOnFile
<1>2. ASSUME Marks(frames', guards'), Failing \/ \A c \in disk'[0] : c.count = page_count'
      PROVE  CountOnFile'
  BY <1>2 DEF CountOnFile
<1>3. ~Failing => \A c \in disk[0] : c.count = page_count
  BY DEF CountOnFile
<1>4. ASSUME NEW f \in Frames, FreeFrame(f)
      PROVE  FlushVictim(f)[0] = disk[0]
  <2>1. CASE frames[f].page # 0
    BY <1>4, <2>1, FreedFrame, Constants
  <2>2. CASE frames[f].page = 0
    BY <1>1, <2>2 DEF FlushVictim
  <2> QED
    BY <2>1, <2>2
<1>5. ASSUME NEW f \in Frames, NEW p \in PageId, NEW c,
             \/ frames' = [frames EXCEPT ![f] = Loaded(p, c)]
             \/ frames' = [frames EXCEPT ![f] = Invalidated]
      PROVE  \A h \in Frames : frames'[h].page = 0 => ~frames'[h].dirty
  <2>1. Loaded(p, c).dirty = FALSE /\ Invalidated.dirty = FALSE
    BY DEF Loaded, Invalidated
  <2> QED
    BY <1>1, <1>5, <2>1, PartTypes
<1>6. ASSUME NEW g \in Guards, NEW x \in PageGuard, ~x.dirty, guards' = [guards EXCEPT ![g] = x]
      PROVE  \A k \in Guards : guards'[k].page = 0 => ~guards'[k].dirty
  BY <1>1, <1>6, PartTypes
<1>7. ASSUME NEW g \in Guards, NEW p \in PageId, NEW f \in Frames, Guard(g, f, p)
      PROVE  \A k \in Guards : guards'[k].page = 0 => ~guards'[k].dirty
  <2> DEFINE x == [page |-> p, frame |-> f, dirty |-> FALSE]
  <2>1. x \in PageGuard /\ ~x.dirty /\ guards' = [guards EXCEPT ![g] = x]
    BY <1>7 DEF Guard, PageGuard
  <2> HIDE DEF x
  <2> QED
    BY <1>6, <2>1
<1>8. ASSUME NEW g \in Guards, NEW p \in PageId, FetchHit(g, p)
      PROVE  CountOnFile'
  <2>1. page_table[p] \in Frames
    BY <1>8, PartTypes DEF FetchHit
  <2>2. \A h \in Frames : frames'[h].page = frames[h].page /\ frames'[h].dirty = frames[h].dirty
    BY <1>8, <2>1, PartTypes DEF FetchHit, BufferFrame
  <2>3. Guard(g, page_table[p], p) /\ UNCHANGED <<disk, page_count>>
    BY <1>8 DEF FetchHit
  <2>4. Marks(frames', guards')
    BY <1>1, <1>7, <2>1, <2>2, <2>3
  <2> HIDE DEF Marks
  <2> QED
    BY <1>2, <1>3, <2>3, <2>4
<1>9. ASSUME NEW g \in Guards, NEW p \in PageId, NEW f \in Frames, FetchMiss(g, p, f)
      PROVE  CountOnFile'
  <2>1. /\ FreeFrame(f) /\ Guard(g, f, p) /\ disk' = FlushVictim(f) /\ page_count' = page_count
        /\ frames' = [frames EXCEPT ![f] = Loaded(p, CHOOSE c \in disk'[p] : TRUE)]
    BY <1>9 DEF FetchMiss
  <2>2. Marks(frames', guards')
    BY <1>5, <1>7, <2>1
  <2> HIDE DEF Marks
  <2> QED
    BY <1>2, <1>3, <1>4, <2>1, <2>2
<1>10. ASSUME NEW g \in Guards, NEW p \in PageId, NEW f \in Frames, FetchFails(g, p, f)
       PROVE  CountOnFile'
  <2>1. /\ FreeFrame(f) /\ guards' = guards /\ disk' = FlushVictim(f) /\ page_count' = page_count
        /\ frames' = [frames EXCEPT ![f] = Invalidated]
    BY <1>10 DEF FetchFails
  <2>2. Marks(frames', guards')
    BY <1>1, <1>5, <2>1
  <2> HIDE DEF Marks
  <2> QED
    BY <1>2, <1>3, <1>4, <2>1, <2>2
<1>11. ASSUME NEW f \in Frames, EvictionFails(f)
       PROVE  CountOnFile'
  <2>1. Failing /\ frames' = frames /\ guards' = guards
    BY <1>11 DEF EvictionFails
  <2> QED
    BY <1>1, <1>2, <2>1
<1>12. ASSUME NEW g \in Guards, NEW f \in Frames, NewPage(g, f)
       PROVE  CountOnFile'
  <2>1. page_count \in PageId
    BY <1>12, NewPageStep
  <2>2. /\ FreeFrame(f) /\ Guard(g, f, page_count) /\ page_count' = page_count + 1
        /\ frames' = [frames EXCEPT ![f] = Loaded(page_count, Cleared)]
        /\ Failing \/ disk' = CountUpdated(Extended(FlushVictim(f), page_count), page_count')
    BY <1>12 DEF NewPage
  <2>3. Extended(FlushVictim(f), page_count) \in FileType /\ page_count' \in 0 .. MaxPages
    <3>1. FlushVictim(f) \in FileType
      BY <2>2, FreedFrame
    <3>2. Extended(FlushVictim(f), page_count) \in FileType
      BY <2>1, <3>1, ExtendedData
    <3>3. page_count \in 0 .. MaxPages - 1
      BY <2>1, Constants
    <3> QED
      BY <2>2, <3>2, <3>3, Constants
  <2>4. Failing \/ \A c \in disk'[0] : c.count = page_count'
    BY <2>2, <2>3, CountUpdatedData
  <2>5. Marks(frames', guards')
    BY <1>5, <1>7, <2>1, <2>2
  <2> HIDE DEF Marks
  <2> QED
    BY <1>2, <2>4, <2>5
<1>13. ASSUME NEW g \in Guards, NEW f \in Frames, NewPageFails(g, f)
       PROVE  CountOnFile'
  <2>1. Failing /\ guards' = guards /\ frames' = [frames EXCEPT ![f] = Invalidated]
    BY <1>13 DEF NewPageFails
  <2>2. Marks(frames', guards')
    BY <1>1, <1>5, <2>1, Constants
  <2> HIDE DEF Marks
  <2> QED
    BY <1>2, <2>1, <2>2
<1>14. ASSUME NEW g \in Guards, NEW x \in Data, Write(g, x)
       PROVE  CountOnFile'
  <2> DEFINE f == guards[g].frame
  <2>1. /\ guards[g].page \in PageId /\ guards[g].page # 0 /\ guards[g] # EmptyGuard
        /\ frames' = [frames EXCEPT ![f].content.data = x]
        /\ guards' = [guards EXCEPT ![g].dirty = TRUE]
        /\ UNCHANGED <<disk, page_count>>
    BY <1>14, PoolAssumption, Constants, GuardFields DEF Write
  <2>2. f \in Frames
    BY <2>1, GuardOnFrame
  <2>3. \A h \in Frames : frames'[h].page = frames[h].page /\ frames'[h].dirty = frames[h].dirty
    BY <2>1, <2>2, PartTypes DEF BufferFrame
  <2>4. \A k \in Guards : guards'[k].page = guards[k].page /\ (k # g => guards'[k] = guards[k])
    BY <2>1, PartTypes DEF PageGuard
  <2>5. Marks(frames', guards')
    BY <1>1, <2>1, <2>3, <2>4
  <2> HIDE DEF Marks
  <2> QED
    BY <1>2, <1>3, <2>1, <2>5
<1>15. ASSUME NEW g \in Guards, Drop(g)
       PROVE  CountOnFile'
  <2> DEFINE f == guards[g].frame
  <2>1. /\ guards[g] # EmptyGuard /\ guards' = [guards EXCEPT ![g] = EmptyGuard]
        /\ UNCHANGED <<disk, page_count>>
    BY <1>15 DEF Drop
  <2>2. f \in Frames /\ frames[f].page = guards[g].page /\ page_table[guards[g].page] = f
    BY <2>1, GuardOnFrame
  <2>3. \/ frames' = frames
        \/ frames' = [frames EXCEPT ![f] = Unpinned(@, guards[g].dirty)] /\ ~(frames[f].pin <= 0)
    BY <1>15, <2>2 DEF Drop
  <2>4. \A h \in Frames : frames'[h].page = 0 => ~frames'[h].dirty
    <3>1. CASE frames' = frames
      BY <1>1, <3>1
    <3>2. CASE frames' = [frames EXCEPT ![f] = Unpinned(@, guards[g].dirty)] /\ ~(frames[f].pin <= 0)
      <4> DEFINE u == Unpinned(frames[f], guards[g].dirty)
      <4>1. frames[f] \in BufferFrame /\ guards[g].dirty \in BOOLEAN /\ frames[f].pin \in Nat \ {0}
        BY <2>2, <3>2, PartTypes, FrameFields, GuardFields
      <4>2. u.page = frames[f].page /\ u.dirty = (frames[f].dirty \/ guards[g].dirty)
        BY <4>1, UnpinnedFields
      <4> HIDE DEF u
      <4>3. frames' = [frames EXCEPT ![f] = u]
        BY <3>2 DEF u
      <4>4. u.page = 0 => ~u.dirty
        BY <1>1, <2>2, <4>2
      <4> QED
        BY <1>1, <2>2, <4>3, <4>4, PartTypes
    <3> QED
      BY <2>3, <3>1, <3>2
  <2>5. \A k \in Guards : guards'[k].page = 0 => ~guards'[k].dirty
    BY <1>6, <2>1, GuardFields
  <2>6. Marks(frames', guards')
    BY <2>4, <2>5
  <2> HIDE DEF Marks
  <2> QED
    BY <1>2, <1>3, <2>1, <2>6
<1>16. ASSUME NEW g \in Guards, NEW h \in Guards, Move(g, h)
       PROVE  CountOnFile'
  <2>1. /\ guards' = [guards EXCEPT ![h] = guards[g], ![g] = EmptyGuard]
        /\ frames' = frames /\ UNCHANGED <<disk, page_count>>
    BY <1>16 DEF Move
  <2>2. \A k \in Guards : guards'[k] \in {guards[k], guards[g], EmptyGuard}
    BY <2>1, PartTypes
  <2>3. Marks(frames', guards')
    BY <1>1, <2>1, <2>2, GuardFields
  <2> HIDE DEF Marks
  <2> QED
    BY <1>2, <1>3, <2>1, <2>3
<1>17. ASSUME NEW p \in PageId, FlushPage(p)
       PROVE  CountOnFile'
  <2> DEFINE f == page_table[p]
  <2>1. /\ f # NoFrame /\ frames[f].dirty /\ guards' = guards /\ page_count' = page_count
        /\ disk' = Written(disk, p, frames[f].content)
        /\ frames' = [frames EXCEPT ![f].dirty = FALSE]
    BY <1>17 DEF FlushPage
  <2>2. f \in Frames /\ frames[f].page = p
    BY <2>1, PartTypes DEF TableOK
  <2>3. p # 0
    BY <1>1, <2>1, <2>2
  <2>4. disk'[0] = disk[0]
    BY <2>1, <2>3, PartTypes, Constants DEF Written, FileType
  <2>5. \A h \in Frames : frames'[h].page = 0 => ~frames'[h].dirty
    BY <1>1, <2>1, <2>2, <2>3, PartTypes DEF BufferFrame
  <2>6. Marks(frames', guards')
    BY <1>1, <2>1, <2>5
  <2> HIDE DEF Marks
  <2> QED
    BY <1>2, <1>3, <2>1, <2>4, <2>6
<1>18. ASSUME NEW p \in PageId, FlushPageFails(p)
       PROVE  CountOnFile'
  <2>1. Failing /\ frames' = frames /\ guards' = guards
    BY <1>18 DEF FlushPageFails
  <2> QED
    BY <1>1, <1>2, <2>1
<1>19. ASSUME FlushAllPages
       PROVE  CountOnFile'
  <2>1. /\ disk' = FlushedBelow(PoolSize) /\ frames' = CleanedBelow(PoolSize) /\ PoolSize \in Int
        /\ guards' = guards /\ page_count' = page_count
    BY <1>19, Constants DEF FlushAllPages
  <2>2. \A f \in DirtyBelow(PoolSize) : frames[f].page # 0
    BY <1>1 DEF DirtyBelow
  <2>3. disk'[0] = disk[0]
    BY <2>1, <2>2, FlushedData, Constants
  <2>4. \A h \in Frames : frames'[h].page = 0 => ~frames'[h].dirty
    BY <1>1, <2>1, PartTypes, CleanedFrames
  <2>5. Marks(frames', guards')
    BY <1>1, <2>1, <2>4
  <2> HIDE DEF Marks
  <2> QED
    BY <1>2, <1>3, <2>1, <2>3, <2>5
<1>20. ASSUME NEW n \in Frames, FlushAllPagesFails(n)
       PROVE  CountOnFile'
  <2>1. Failing /\ frames' = CleanedBelow(n) /\ guards' = guards /\ n \in Int
    BY <1>20, Constants DEF FlushAllPagesFails, Frames
  <2>2. \A h \in Frames : frames'[h].page = 0 => ~frames'[h].dirty
    BY <1>1, <2>1, PartTypes, CleanedFrames
  <2>3. Marks(frames', guards')
    BY <1>1, <2>1, <2>2
  <2> HIDE DEF Marks
  <2> QED
    BY <1>2, <2>1, <2>3
<1>21. ASSUME Reopen, Failing \/ \A c \in disk'[0] : c.count = page_count'
       PROVE  CountOnFile'
  <2>1. \A f \in Frames : frames'[f].page # 0
    BY <1>21, NewFrames, Constants DEF Reopen
  <2>2. \A g \in Guards : ~guards'[g].dirty
    BY <1>21, GuardFields DEF Reopen
  <2> QED
    BY <1>2, <1>21, <2>1, <2>2
<1>22. ASSUME Restart
       PROVE  CountOnFile'
  BY <1>21, <1>22, RestartStep DEF Restart
<1>23. ASSUME NEW n \in Frames, RestartFails(n)
       PROVE  CountOnFile'
  BY <1>21, <1>23 DEF RestartFails
<1>24. ASSUME UNCHANGED vars
       PROVE  CountOnFile'
  BY <1>24 DEF vars, CountOnFile
<1> QED
  BY <1>8, <1>9, <1>10, <1>11, <1>12, <1>13, <1>14, <1>15, <1>16, <1>17, <1>18, <1>19, <1>20,
     <1>22, <1>23, <1>24 DEF Next

\* At the start, too.
LEMMA CountInit == Init => CountOnFile
BY NewFrames, GuardFields, Constants DEF Init, CountOnFile

-----------------------------------------------------------------------------
(* The theorems. *)

\* The books of the pool (page table, pins, guards, replacer, history), its
\* cached pages and the file stay in agreement through every order of calls
\* and failures of BufferPoolManager, LRUKReplacer, the guards and DiskManager.
THEOREM PoolSound == Spec => []PoolInvariant
<1>1. Spec => []PoolParts(PageId)
  BY PoolInit, PoolNext, PTL DEF Spec
<1>2. PoolParts(PageId) => PoolInvariant
  BY InvariantParts
<1> QED
  BY <1>1, <1>2, PTL

\* A live guard keeps its page, the page table agrees with the frames and each
\* pin is a guard's (findFreeFrame, fetchPage, newPage, unpinPage).
THEOREM PinsMatchGuardsAlways == Spec => []PinsMatchGuards
<1>1. PoolInvariant => PinsMatchGuards
  BY DEF PoolInvariant
<1> QED
  BY <1>1, PoolSound, PTL

\* A clean frame without an unfinished writer shows what the file holds
\* (writePage and its errors against the dirty marks).
THEOREM CleanMatchesDiskAlways == Spec => []CleanMatchesDisk
<1>1. PoolInvariant => CleanMatchesDisk
  BY DEF PoolInvariant
<1> QED
  BY <1>1, PoolSound, PTL

\* The replacer offers exactly the unpinned pages, and evict() finds a victim
\* whenever a full pool has one.
THEOREM EvictableWhenUnpinnedAlways == Spec => []EvictableWhenUnpinned
<1>1. ASSUME PoolInvariant
      PROVE  EvictableWhenUnpinned
  <2>1. ReplacerAgrees /\ accesses \in Seq(Frames)
    BY <1>1 DEF PoolInvariant, TypeOK
  <2>2. ASSUME NoInvalidFrame, NEW f \in Frames, frames[f].pin = 0
        PROVE  Evict # NoFrame
    <3>1. f \in Candidates
      BY <2>1, <2>2 DEF ReplacerAgrees, NoInvalidFrame, Candidates, Candidate
    <3> QED
      BY <2>1, <3>1, EvictFinds
  <2> QED
    BY <2>1, <2>2 DEF EvictableWhenUnpinned
<1> QED
  BY <1>1, PoolSound, PTL

\* evict() returns the frame with the largest backward K-distance, for any
\* number of frames and any history of accesses.
THEOREM VictimIsOldestAlways == Spec => []VictimIsOldest
<1>1. ASSUME PoolInvariant
      PROVE  VictimIsOldest
  <2>1. ReplacerAgrees /\ HistoryBounded /\ accesses \in Seq(Frames)
    BY <1>1 DEF PoolInvariant, TypeOK
  <2> SUFFICES ASSUME NEW f \in Frames \cap evictable, Evict # NoFrame, f # Evict
               PROVE  /\ HistorySize(Evict) <= K /\ HistorySize(f) <= K
                      /\ HistorySize(Evict) >= K => HistorySize(f) >= K
                      /\ (HistorySize(Evict) >= K <=> HistorySize(f) >= K) =>
                            Earliest(Evict) < Earliest(f)
    BY DEF VictimIsOldest
  <2> DEFINE e == Evict
  <2>2. e \in Candidates /\ \A h \in Candidates : h # e => ~Beats(h, e)
    BY <2>1, EvictFinds
  <2>3. f \in Candidates
    BY <2>1 DEF ReplacerAgrees, Candidates, Candidate
  <2>4. e # f
    OBVIOUS
  <2> HIDE DEF e
  <2>5. /\ e \in Frames /\ f \in Frames /\ Tracked(e) /\ Tracked(f)
    BY <2>2, <2>3 DEF Candidates, Candidate
  <2>6. /\ HistorySize(e) <= K /\ HistorySize(f) <= K
        /\ HistorySize(e) \in Nat /\ HistorySize(f) \in Nat /\ K \in Nat
    BY <2>1, <2>5, HistoryCounts DEF HistoryBounded, K
  <2>7. Earliest(e) \in Nat /\ Earliest(f) \in Nat /\ Earliest(e) # Earliest(f)
    BY <2>1, <2>4, <2>5, EarliestAccess
  <2>8. ~Beats(f, e)
    BY <2>2, <2>3, <2>4
  <2>9. /\ HistorySize(e) >= K => HistorySize(f) >= K
        /\ (HistorySize(e) >= K <=> HistorySize(f) >= K) => Earliest(e) < Earliest(f)
    BY <2>6, <2>7, <2>8 DEF Beats
  <2> QED
    BY <2>6, <2>9 DEF e
<1> QED
  BY <1>1, PoolSound, PTL

\* Nothing but a write through a guard on the page changes what readers of a
\* page are shown: no eviction, no flush that fails, no failed read and, if the
\* file works, no restart (findFreeFrame, flushPage, ~BufferPoolManager).  A
\* caller that writes page 0 through the pool can put an old page count back,
\* which a restart reads: the pool's promise needs page 0 left to the disk
\* manager, or restarts that are not counted on.
THEOREM NoLostWriteAlways ==
    ASSUME Failing \/ 0 \notin Writable
    PROVE  Spec => NoLostWrite
<1> DEFINE Inv == PoolParts(PageId) /\ (Failing \/ CountOnFile)
           Kept == \A p \in PageId :
                      Current(p) # {} /\ Current(p)' # Current(p) =>
                          LossyRestart \/ \E g \in Guards : guards[g].page = p /\ guards'[g].dirty
<1>1. Init => Inv
  BY PoolInit, CountInit
<1>2. Inv /\ [Next]_vars => Inv'
  <2> SUFFICES ASSUME Inv, [Next]_vars
               PROVE  PoolParts(PageId)' /\ (Failing \/ CountOnFile')
    OBVIOUS
  <2>1. PoolParts(PageId)'
    BY PoolNext
  <2>2. Failing \/ CountOnFile'
    BY CountNext
  <2> QED
    BY <2>1, <2>2
<1>3. Inv /\ [Next]_vars => [Kept]_vars
  <2> SUFFICES ASSUME Inv, Next
               PROVE  Kept
    OBVIOUS
  <2>1. \A p \in PageId : /\ Current(p) = Shown(frames, page_table, disk, page_count, p)
                          /\ Current(p)' = Shown(frames', page_table', disk', page_count', p)
    BY DEF Current, Shown, DataOf
  <2>2. KeepsCurrent(PageId) => Kept
    <3> SUFFICES ASSUME KeepsCurrent(PageId), NEW p \in PageId, Current(p) # {}
                 PROVE  Current(p)' = Current(p)
      OBVIOUS
    <3> QED
      BY <2>1 DEF KeepsCurrent, Keeps
  <2>3. ASSUME NEW g \in Guards, NEW x \in Data, Write(g, x)
        PROVE  Kept
    <3> SUFFICES ASSUME NEW p \in PageId, Current(p)' # Current(p)
                 PROVE  guards[g].page = p /\ guards'[g].dirty
      OBVIOUS
    <3> QED
      BY <2>1, <2>3, WriteStep
  <2>4. ASSUME Restart
        PROVE  Kept
    <3>1. CASE Failing
      BY <2>4, <3>1 DEF LossyRestart
    <3>2. CASE ~Failing
      BY <2>2, <2>4, <3>2, RestartStep
    <3> QED
      BY <3>1, <3>2
  <2>5. ASSUME NEW n \in Frames, RestartFails(n)
        PROVE  Kept
    BY <2>5 DEF LossyRestart, RestartFails
  <2> HIDE DEF Kept
  <2>6. CASE \E g \in Guards, p \in PageId : FetchHit(g, p)
    BY <2>2, <2>6, FetchHitStep
  <2>7. CASE \E g \in Guards, p \in PageId, f \in Frames : FetchMiss(g, p, f)
    BY <2>2, <2>7, FetchMissStep
  <2>8. CASE \E g \in Guards, p \in PageId, f \in Frames : FetchFails(g, p, f)
    BY <2>2, <2>8, FetchFailsStep
  <2>9. CASE \E f \in Frames : EvictionFails(f)
    BY <2>2, <2>9, EvictionFailsStep
  <2>10. CASE \E g \in Guards, f \in Frames : NewPage(g, f)
    BY <2>2, <2>10, NewPageStep
  <2>11. CASE \E g \in Guards, f \in Frames : NewPageFails(g, f)
    BY <2>2, <2>11, NewPageFailsStep
  <2>12. CASE \E g \in Guards : Drop(g)
    BY <2>2, <2>12, DropStep
  <2>13. CASE \E g, h \in Guards : Move(g, h)
    BY <2>2, <2>13, MoveStep
  <2>14. CASE \E p \in PageId : FlushPage(p)
    BY <2>2, <2>14, FlushPageStep
  <2>15. CASE \E p \in PageId : FlushPageFails(p)
    BY <2>2, <2>15, FlushPageFailsStep
  <2>16. CASE FlushAllPages
    BY <2>2, <2>16, FlushAllPagesStep
  <2>17. CASE \E n \in Frames : FlushAllPagesFails(n)
    BY <2>2, <2>17, FlushAllPagesFailsStep
  <2> QED
    BY <2>3, <2>4, <2>5, <2>6, <2>7, <2>8, <2>9, <2>10, <2>11, <2>12, <2>13, <2>14, <2>15,
       <2>16, <2>17 DEF Next
<1> QED
  BY <1>1, <1>2, <1>3, PTL DEF Spec, NoLostWrite
=============================================================================
