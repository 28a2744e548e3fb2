-------------------------- MODULE TableHeapProofs --------------------------
(***************************************************************************)
(* Proofs about TableHeap, for any number of objects, iterators, tuples,   *)
(* pages and failures.                                                     *)
(*                                                                         *)
(* The lemmas come in three layers: what Path lists, which steps change    *)
(* the list or a page of it (nothing, one page, or a page appended), and   *)
(* one lemma per action.                                                   *)
(***************************************************************************)
EXTENDS TableHeap, FiniteSetTheorems, WellFoundedInduction, TLAPS

-----------------------------------------------------------------------------
(* Numbers. *)

Below == {p \in Nat \X Nat : p[1] < p[2]}

\* Every nonempty set of naturals has a least element.
LEMMA LeastNumber ==
    ASSUME NEW T \in SUBSET Nat, T # {}
    PROVE  \E m \in T : \A k \in T : m <= k
<1>1. IsWellFoundedOn(Below, Nat)
  BY NatLessThanWellFounded, Zenon DEF OpToRel, Below
<1>2. \E m \in T : \A k \in T : ~(<<k, m>> \in Below)
  BY <1>1, WFMin, Zenon
<1>3. \A k, m \in Nat : ~(<<k, m>> \in Below) => m <= k
  BY DEF Below
<1> QED
  BY <1>2, <1>3

\* It is the one that Min takes.
LEMMA MinIsLeast ==
    ASSUME NEW T \in SUBSET Nat, T # {}
    PROVE  Min(T) \in T /\ \A k \in T : Min(T) <= k
  BY LeastNumber DEF Min

-----------------------------------------------------------------------------
(* What Path lists. *)

NextOf(d, p) == IF p = NoPage \/ d[p] = RawPage THEN NoPage ELSE d[p].next

Walk(d, p) ==
    CHOOSE at : at = [i \in 1 .. MaxPages |-> IF i = 1 THEN p ELSE NextOf(d, at[i - 1])]

\* Path on the disk d.
PathOf(d, p) ==
    [i \in 1 .. Cardinality({k \in 1 .. MaxPages : Walk(d, p)[k] # NoPage}) |-> Walk(d, p)[i]]

LEMMA PathIs ==
    ASSUME NEW p
    PROVE  /\ Path(p) = PathOf(disk, p)
           /\ NextPage(p) = NextOf(disk, p)
<1>1. \A q : NextPage(q) = NextOf(disk, q)
  BY DEF NextPage, NextOf
<1>2. Path(p) = PathOf(disk, p)
  BY DEF Path, PathOf, Walk, NextPage, NextOf
<1> QED
  BY <1>1, <1>2

\* The same of the next state.
LEMMA PathIsNext ==
    /\ Path(first)' = PathOf(disk', first')
    /\ \A p : NextPage(p)' = NextOf(disk', p)
<1>1. \A q : NextPage(q)' = NextOf(disk', q)
  BY DEF NextPage, NextOf
<1>2. Path(first)' = PathOf(disk', first')
  BY DEF Path, PathOf, Walk, NextPage, NextOf
<1> QED
  BY <1>1, <1>2

\* s lists the pages from p on along the next pointers of d, in the order in
\* which they were allocated.
IsList(d, p, s) ==
    /\ s \in Seq(PageId)
    /\ IF s = <<>> THEN p = NoPage ELSE p = s[1] /\ NextOf(d, s[Len(s)]) = NoPage
    /\ \A j, k \in 1 .. Len(s) : j < k => s[j] < s[k]
    /\ \A k \in 1 .. Len(s) - 1 : NextOf(d, s[k]) = s[k + 1]

\* There are as many pages as the file has at most.
LEMMA ListLength ==
    ASSUME NEW s \in Seq(PageId), \A j, k \in 1 .. Len(s) : j < k => s[j] < s[k]
    PROVE  Len(s) \in 0 .. MaxPages
<1> DEFINE T == {k \in Nat : k \in 1 .. Len(s) /\ s[k] < k}
<1>1. /\ Len(s) \in Nat /\ MaxPages \in Nat
      /\ \A k \in 1 .. Len(s) : s[k] \in 1 .. MaxPages
  BY HeapAssumption DEF PageId
<1>2. T = {}
  <2> SUFFICES ASSUME T # {}
               PROVE  FALSE
    OBVIOUS
  <2>1. PICK m \in T : \A k \in T : m <= k
    BY LeastNumber
  <2>2. m \in 1 .. Len(s) /\ s[m] < m /\ m # 1
    BY <1>1, <2>1
  <2>3. m - 1 \in 1 .. Len(s) /\ m - 1 \in Nat /\ ~(m <= m - 1)
    BY <1>1, <2>2
  <2>4. s[m - 1] < s[m] /\ ~(s[m - 1] < m - 1)
    BY <2>1, <2>2, <2>3
  <2> QED
    BY <1>1, <2>2, <2>3, <2>4
<1>3. CASE Len(s) = 0
  BY <1>1, <1>3
<1>4. CASE Len(s) # 0
  <2>1. Len(s) \in 1 .. Len(s) /\ Len(s) \in Nat
    BY <1>1, <1>4
  <2>2. ~(s[Len(s)] < Len(s))
    BY <1>2, <2>1
  <2> QED
    BY <1>1, <2>1, <2>2
<1> QED
  BY <1>3, <1>4

\* A list is what Path returns.
LEMMA PathFound ==
    ASSUME NEW d, NEW p, NEW s, IsList(d, p, s)
    PROVE  PathOf(d, p) = s
<1> DEFINE S == 1 .. MaxPages
           step(at) == [i \in S |-> IF i = 1 THEN p ELSE NextOf(d, at[i - 1])]
           w == [i \in S |-> IF i <= Len(s) THEN s[i] ELSE NoPage]
           at0 == Walk(d, p)
<1>1. /\ s \in Seq(PageId) /\ Len(s) \in 0 .. MaxPages /\ Len(s) \in Nat /\ MaxPages \in Nat
      /\ \A k \in 1 .. Len(s) : s[k] \in PageId /\ s[k] # NoPage
  BY ListLength, HeapAssumption DEF IsList
<1>2. NextOf(d, NoPage) = NoPage
  BY DEF NextOf
<1>3. w = step(w)
  <2>1. ASSUME NEW i \in S
        PROVE  w[i] = step(w)[i]
    <3>1. CASE i = 1
      <4>1. s = <<>> <=> Len(s) = 0
        BY <1>1
      <4> QED
        BY <1>1, <3>1, <4>1 DEF IsList
    <3>2. CASE i # 1 /\ i <= Len(s)
      <4>1. i - 1 \in 1 .. Len(s) - 1 /\ i - 1 \in S /\ i - 1 <= Len(s) /\ (i - 1) + 1 = i
        BY <1>1, <3>2
      <4>2. NextOf(d, s[i - 1]) = s[i]
        BY <4>1 DEF IsList
      <4> QED
        BY <3>2, <4>1, <4>2
    <3>3. CASE i # 1 /\ i = Len(s) + 1
      <4>1. i - 1 \in S /\ i - 1 = Len(s) /\ i - 1 <= Len(s) /\ ~(i <= Len(s)) /\ s # <<>>
        BY <1>1, <3>3
      <4>2. NextOf(d, s[i - 1]) = NoPage
        BY <4>1 DEF IsList
      <4> QED
        BY <3>3, <4>1, <4>2
    <3>4. CASE i # 1 /\ i > Len(s) + 1
      <4>1. i - 1 \in S /\ ~(i - 1 <= Len(s)) /\ ~(i <= Len(s))
        BY <1>1, <3>4
      <4> QED
        BY <1>2, <3>4, <4>1
    <3> QED
      BY <1>1, <3>1, <3>2, <3>3, <3>4
  <2> QED
    BY <2>1
<1>4. at0 = CHOOSE at : at = step(at)
  BY DEF Walk
<1>5. at0 = step(at0)
  <2> HIDE DEF step, w, at0
  <2> QED
    BY <1>3, <1>4
<1> HIDE DEF w, at0
<1> DEFINE T == {k \in Nat : k \in S /\ at0[k] # w[k]}
<1>6. T = {}
  <2> SUFFICES ASSUME T # {}
               PROVE  FALSE
    OBVIOUS
  <2>1. PICK m \in T : \A k \in T : m <= k
    BY LeastNumber
  <2>2. m \in S /\ m \in Nat /\ at0[m] # w[m]
    OBVIOUS
  <2>3. at0[m] = step(at0)[m] /\ w[m] = step(w)[m]
    BY <1>3, <1>5
  <2>4. m # 1
    BY <2>2, <2>3
  <2>5. m - 1 \in S /\ m - 1 \in Nat /\ ~(m <= m - 1)
    BY <1>1, <2>2, <2>4
  <2>6. at0[m - 1] = w[m - 1]
    BY <2>1, <2>5
  <2> QED
    BY <2>2, <2>3, <2>4, <2>6
<1>7. \A k \in S : at0[k] = w[k] /\ k \in Nat
  BY <1>1, <1>6
<1>8. {k \in S : at0[k] # NoPage} = 1 .. Len(s)
  BY <1>1, <1>7 DEF w
<1>9. Cardinality(1 .. Len(s)) = Len(s)
  <2>1. 1 \in Int /\ Len(s) \in Int /\ Len(s) >= 0
    BY <1>1
  <2>2. Cardinality(1 .. Len(s)) = IF 1 > Len(s) THEN 0 ELSE Len(s) - 1 + 1
    BY <2>1, FS_Interval
  <2> QED
    BY <2>1, <2>2
<1>10. PathOf(d, p) = [i \in 1 .. Len(s) |-> at0[i]]
  BY <1>8, <1>9 DEF PathOf, at0
<1>11. \A i \in 1 .. Len(s) : at0[i] = s[i]
  BY <1>1, <1>7 DEF w
<1>12. s = [i \in 1 .. Len(s) |-> s[i]]
  BY <1>1
<1> QED
  BY <1>10, <1>11, <1>12

\* From any of its pages a list goes on to the same end.
LEMMA ListSuffix ==
    ASSUME NEW d, NEW p, NEW s, IsList(d, p, s), NEW k \in 1 .. Len(s)
    PROVE  LET t == SubSeq(s, k, Len(s))
           IN  /\ PathOf(d, s[k]) = t
               /\ Len(t) = Len(s) - k + 1
               /\ \A j \in 1 .. Len(t) : t[j] = s[k + j - 1]
<1> DEFINE t == SubSeq(s, k, Len(s))
<1>1. s \in Seq(PageId) /\ Len(s) \in Nat /\ k \in Nat
  BY DEF IsList
<1>2. /\ t \in Seq(PageId) /\ Len(t) = Len(s) - k + 1
      /\ \A j \in 1 .. Len(t) : t[j] = s[k + j - 1]
  BY <1>1
<1> HIDE DEF t
<1>3. Len(t) \in Nat /\ Len(t) # 0 /\ t # <<>>
  BY <1>1, <1>2
<1>4. t[1] = s[k] /\ t[Len(t)] = s[Len(s)] /\ s # <<>>
  BY <1>1, <1>2, <1>3
<1>5. \A j \in 1 .. Len(t) : k + j - 1 \in 1 .. Len(s)
  BY <1>1, <1>2
<1>6. ASSUME NEW i \in 1 .. Len(t), NEW j \in 1 .. Len(t), i < j
      PROVE  t[i] < t[j]
  <2>1. k + i - 1 < k + j - 1
    BY <1>1, <1>3, <1>6
  <2> QED
    BY <1>2, <1>5, <2>1 DEF IsList
<1>7. ASSUME NEW j \in 1 .. Len(t) - 1
      PROVE  NextOf(d, t[j]) = t[j + 1]
  <2>1. /\ k + j - 1 \in 1 .. Len(s) - 1 /\ (k + j - 1) + 1 = k + (j + 1) - 1
        /\ j \in 1 .. Len(t) /\ j + 1 \in 1 .. Len(t)
    BY <1>1, <1>2, <1>3
  <2>2. NextOf(d, s[k + j - 1]) = s[(k + j - 1) + 1]
    BY <2>1 DEF IsList
  <2> QED
    BY <1>2, <2>1, <2>2
<1>8. IsList(d, s[k], t)
  BY <1>2, <1>3, <1>4, <1>6, <1>7 DEF IsList
<1> QED
  BY <1>2, <1>8, PathFound DEF t

\* Beyond the last page there is nothing.
LEMMA EmptyList ==
    ASSUME NEW d
    PROVE  PathOf(d, NoPage) = <<>>
<1>1. IsList(d, NoPage, <<>>)
  BY DEF IsList
<1> QED
  BY <1>1, PathFound

-----------------------------------------------------------------------------
(* The pages of the heap. *)

Disk == [PageId -> HeapPage \cup {RawPage}]

\* PagesChained, of the pages s that are listed from p on in a file d of pc
\* pages.
Chained(d, pc, p, s) ==
    /\ IsList(d, p, s)
    /\ \A k \in 1 .. Len(s) : s[k] <= pc
    /\ \A k \in 1 .. Len(s) : d[s[k]] # RawPage => d[s[k]].prev = IF k = 1 THEN NoPage ELSE s[k - 1]
    /\ \A q \in PageId : d[q] # RawPage =>
          /\ q <= pc
          /\ Len(d[q].slots) <= Capacity - d[q].free
          /\ d[q].slots = <<>> \/ \E k \in 1 .. Len(s) : q = s[k]

LEMMA ChainedIs == PagesChained <=> Chained(disk, page_count, first, Path(first))
  BY DEF PagesChained, Chained, IsList, NextPage, NextOf

LEMMA ChainedNext ==
    ASSUME NEW s, Chained(disk', page_count', first', s)
    PROVE  PagesChained' /\ Path(first)' = s
<1>1. Path(first)' = s
  BY PathIsNext, PathFound DEF Chained
<1>2. Chained(disk', page_count', first', Path(first)')
  BY <1>1
<1>3. PagesChained'
  BY <1>2 DEF PagesChained, Chained, IsList, NextPage, NextOf
<1> QED
  BY <1>1, <1>3

\* A page whose links stay is written again.
LEMMA PageRewritten ==
    ASSUME NEW d \in Disk, NEW pc, NEW p, NEW s, Chained(d, pc, p, s),
           NEW q \in PageId, d[q] # RawPage, \E k \in 1 .. Len(s) : q = s[k],
           NEW image \in HeapPage, image.prev = d[q].prev, image.next = d[q].next,
           Len(image.slots) <= Capacity - image.free
    PROVE  Chained([d EXCEPT ![q] = image], pc, p, s) /\ [d EXCEPT ![q] = image] \in Disk
<1> DEFINE d2 == [d EXCEPT ![q] = image]
<1>1. image # RawPage
  BY HeapAssumption
<1>2. /\ d2 \in Disk /\ d2[q] = image
      /\ \A x \in PageId : x # q => d2[x] = d[x]
  BY DEF Disk
<1> HIDE DEF d2
<1>3. \A x \in PageId : (d2[x] = RawPage <=> d[x] = RawPage)
  BY <1>1, <1>2
<1>4. \A x \in PageId : d2[x] # RawPage => d2[x].prev = d[x].prev /\ d2[x].next = d[x].next
  BY <1>1, <1>2
<1>5. \A x \in PageId : NextOf(d2, x) = NextOf(d, x)
  BY <1>3, <1>4 DEF NextOf
<1>6. s \in Seq(PageId) /\ Len(s) \in Nat /\ \A k \in 1 .. Len(s) : s[k] \in PageId
  BY DEF Chained, IsList
<1>7. IsList(d2, p, s)
  <2>1. s # <<>> => Len(s) \in 1 .. Len(s)
    BY <1>6
  <2>2. \A k \in 1 .. Len(s) - 1 : k \in 1 .. Len(s)
    BY <1>6
  <2>3. IsList(d, p, s)
    BY DEF Chained
  <2> QED
    BY <1>5, <1>6, <2>1, <2>2, <2>3 DEF IsList
<1>8. \A x \in PageId : d2[x] # RawPage =>
          /\ x <= pc
          /\ Len(d2[x].slots) <= Capacity - d2[x].free
          /\ d2[x].slots = <<>> \/ \E k \in 1 .. Len(s) : x = s[k]
  BY <1>1, <1>2 DEF Chained
<1>9. \A k \in 1 .. Len(s) : d2[s[k]] # RawPage => d2[s[k]].prev = IF k = 1 THEN NoPage ELSE s[k - 1]
  BY <1>3, <1>4, <1>6 DEF Chained
<1> QED
  BY <1>2, <1>7, <1>8, <1>9 DEF Chained, d2

\* The pages s are followed by the page pc + 1, which holds image.
LEMMA PageAppended ==
    ASSUME NEW d \in Disk, NEW pc \in Nat, pc < MaxPages, NEW p, NEW s, Chained(d, pc, p, s),
           s # <<>>, d[s[Len(s)]] # RawPage,
           NEW image \in HeapPage \cup {RawPage},
           image # RawPage => /\ image.prev = s[Len(s)] /\ image.next = NoPage
                              /\ Len(image.slots) <= Capacity - image.free
    PROVE  LET d2 == [[d EXCEPT ![s[Len(s)]].next = pc + 1] EXCEPT ![pc + 1] = image]
           IN  /\ Chained(d2, pc + 1, p, Append(s, pc + 1))
               /\ d2 \in Disk
<1> DEFINE new == pc + 1
           last == s[Len(s)]
           d2 == [[d EXCEPT ![last].next = new] EXCEPT ![new] = image]
           t == Append(s, new)
           N == Len(s)
<1>1. /\ s \in Seq(PageId) /\ N \in Nat /\ N # 0 /\ N \in 1 .. N /\ last \in PageId
      /\ \A k \in 1 .. N : s[k] \in PageId /\ s[k] <= pc
      /\ new \in PageId /\ MaxPages \in Nat
  BY HeapAssumption DEF Chained, IsList, PageId
<1>2. /\ t \in Seq(PageId) /\ Len(t) = N + 1 /\ t[N + 1] = new
      /\ \A k \in 1 .. N : t[k] = s[k]
  BY <1>1
<1>3. last # new /\ d[last] \in HeapPage /\ d[new] = RawPage
  <2>1. last <= pc /\ new \in Int /\ last \in Int /\ ~(new <= pc)
    BY <1>1 DEF PageId
  <2> QED
    BY <1>1, <2>1 DEF Chained, Disk
<1>4. [d[last] EXCEPT !.next = new] \in HeapPage
  BY <1>1, <1>3 DEF HeapPage
<1>5. /\ d2 \in Disk /\ d2[new] = image /\ d2[last] = [d[last] EXCEPT !.next = new]
      /\ \A x \in PageId : x # new /\ x # last => d2[x] = d[x]
  BY <1>1, <1>3, <1>4 DEF Disk
<1> HIDE DEF d2, t
<1>6. /\ d2[last] # RawPage /\ d2[last].next = new
      /\ d2[last].prev = d[last].prev /\ d2[last].slots = d[last].slots /\ d2[last].free = d[last].free
  BY <1>3, <1>4, <1>5, HeapAssumption DEF HeapPage
<1>7. new # NoPage /\ last # NoPage
  BY <1>1, HeapAssumption
<1>8. NextOf(d2, last) = new /\ NextOf(d2, new) = NoPage
  BY <1>5, <1>6, <1>7 DEF NextOf
<1>9. \A k \in 1 .. N : k # N => s[k] # last
  <2>1. \A k \in 1 .. N : k # N => s[k] < last
    BY <1>1 DEF Chained, IsList
  <2> QED
    BY <1>1, <2>1 DEF PageId
<1>10. \A k \in 1 .. N : k # N => s[k] # new /\ d2[s[k]] = d[s[k]]
  <2>1. \A k \in 1 .. N : s[k] # new
    <3> SUFFICES ASSUME NEW k \in 1 .. N
                 PROVE  s[k] # new
      OBVIOUS
    <3>1. s[k] <= pc /\ s[k] \in Int
      BY <1>1 DEF PageId
    <3> QED
      BY <3>1
  <2> QED
    BY <1>1, <1>5, <1>9, <2>1
<1>11. \A k \in 1 .. Len(t) : k \in 1 .. N \/ k = N + 1
  BY <1>1, <1>2
<1>12. IsList(d2, p, t)
  <2>1. t # <<>> /\ p = t[1] /\ NextOf(d2, t[Len(t)]) = NoPage
    BY <1>1, <1>2, <1>8 DEF Chained, IsList
  <2>2. ASSUME NEW j \in 1 .. Len(t), NEW k \in 1 .. Len(t), j < k
        PROVE  t[j] < t[k]
    <3>1. CASE k \in 1 .. N
      <4>1. j \in 1 .. N
        BY <1>1, <1>2, <2>2, <3>1
      <4> QED
        BY <1>2, <2>2, <3>1, <4>1 DEF Chained, IsList
    <3>2. CASE k = N + 1
      <4>1. j \in 1 .. N
        BY <1>1, <1>2, <2>2, <3>2
      <4>2. s[j] <= pc /\ s[j] \in Int
        BY <1>1, <4>1 DEF PageId
      <4> QED
        BY <1>2, <3>2, <4>1, <4>2
    <3> QED
      BY <1>11, <3>1, <3>2
  <2>3. ASSUME NEW k \in 1 .. Len(t) - 1
        PROVE  NextOf(d2, t[k]) = t[k + 1]
    <3>1. CASE k = N
      BY <1>1, <1>2, <1>8, <3>1
    <3>2. CASE k # N
      <4>1. k \in 1 .. N /\ k \in 1 .. N - 1 /\ k + 1 \in 1 .. N
        BY <1>1, <1>2, <3>2
      <4>2. NextOf(d, s[k]) = s[k + 1]
        BY <4>1 DEF Chained, IsList
      <4>3. NextOf(d2, s[k]) = NextOf(d, s[k])
        BY <1>10, <3>2, <4>1 DEF NextOf
      <4> QED
        BY <1>2, <4>1, <4>2, <4>3
    <3> QED
      BY <3>1, <3>2
  <2> QED
    BY <1>2, <2>1, <2>2, <2>3 DEF IsList
<1>13. \A k \in 1 .. Len(t) : t[k] <= new
  <2> SUFFICES ASSUME NEW k \in 1 .. Len(t)
               PROVE  t[k] <= new
    OBVIOUS
  <2>1. CASE k = N + 1
    BY <1>2, <2>1
  <2>2. CASE k \in 1 .. N
    <3>1. s[k] <= pc /\ s[k] \in Int /\ t[k] = s[k]
      BY <1>1, <1>2, <2>2 DEF PageId
    <3> QED
      BY <3>1
  <2> QED
    BY <1>11, <2>1, <2>2
<1>14. ASSUME NEW k \in 1 .. Len(t), d2[t[k]] # RawPage
       PROVE  d2[t[k]].prev = IF k = 1 THEN NoPage ELSE t[k - 1]
  <2>1. CASE k = N + 1
    <3>1. k # 1 /\ k - 1 = N
      BY <1>1, <2>1
    <3> QED
      BY <1>1, <1>2, <1>5, <1>14, <2>1, <3>1
  <2>2. CASE k \in 1 .. N
    <3>1. k # 1 => k - 1 \in 1 .. N
      BY <1>1, <2>2
    <3>2. d[s[k]] # RawPage /\ d2[s[k]].prev = d[s[k]].prev
      BY <1>2, <1>3, <1>6, <1>10, <1>14, <2>2
    <3>3. d[s[k]].prev = IF k = 1 THEN NoPage ELSE s[k - 1]
      BY <2>2, <3>2 DEF Chained
    <3> QED
      BY <1>2, <2>2, <3>1, <3>2, <3>3
  <2> QED
    BY <1>11, <2>1, <2>2
<1>15. ASSUME NEW q \in PageId, d2[q] # RawPage
       PROVE  /\ q <= new
              /\ Len(d2[q].slots) <= Capacity - d2[q].free
              /\ d2[q].slots = <<>> \/ \E k \in 1 .. Len(t) : q = t[k]
  <2>1. CASE q = new
    <3>1. N + 1 \in 1 .. Len(t)
      BY <1>1, <1>2
    <3> QED
      BY <1>1, <1>2, <1>5, <1>15, <2>1, <3>1 DEF PageId
  <2>2. CASE q # new
    <3>1. d[q] # RawPage /\ d2[q].slots = d[q].slots /\ d2[q].free = d[q].free
      BY <1>3, <1>5, <1>6, <1>15, <2>2
    <3>2. /\ q <= pc
          /\ Len(d[q].slots) <= Capacity - d[q].free
          /\ d[q].slots = <<>> \/ \E k \in 1 .. N : q = s[k]
      BY <3>1 DEF Chained
    <3>3. q <= new
      BY <3>2 DEF PageId
    <3>4. \A k \in 1 .. N : k \in 1 .. Len(t)
      BY <1>1, <1>2
    <3> QED
      BY <1>2, <3>1, <3>2, <3>3, <3>4
  <2> QED
    BY <2>1, <2>2
<1> QED
  BY <1>5, <1>12, <1>13, <1>14, <1>15 DEF Chained, d2, t

\* A page is allocated that no page leads to: it stays as it is, or holds no
\* tuples.
LEMMA PageLeaked ==
    ASSUME NEW d \in Disk, NEW pc \in Nat, pc < MaxPages, NEW p, NEW s, Chained(d, pc, p, s)
    PROVE  Chained(d, pc + 1, p, s)
<1>1. \A k \in 1 .. Len(s) : s[k] \in Int
  <2>1. s \in Seq(PageId)
    BY DEF Chained, IsList
  <2>2. \A k \in 1 .. Len(s) : s[k] \in PageId
    BY <2>1
  <2> QED
    BY <2>2 DEF PageId
<1>2. \A q \in PageId : q \in Int
  BY DEF PageId
<1> QED
  BY <1>1, <1>2 DEF Chained

\* The first page of a heap.
LEMMA PageCreated ==
    ASSUME NEW d \in Disk, NEW pc \in Nat, pc < MaxPages, Chained(d, pc, NoPage, <<>>),
           NEW image \in HeapPage, image.prev = NoPage, image.next = NoPage, image.slots = <<>>
    PROVE  LET d2 == [d EXCEPT ![pc + 1] = image]
           IN  d2 \in Disk /\ Chained(d2, pc + 1, pc + 1, <<pc + 1>>) /\ Chained(d2, pc + 1, NoPage, <<>>)
<1> DEFINE new == pc + 1
           d2 == [d EXCEPT ![new] = image]
<1>1. new \in PageId /\ \A q \in PageId : q \in Int
  BY HeapAssumption DEF PageId
<1>2. d2 \in Disk /\ d2[new] = image /\ \A q \in PageId : q # new => d2[q] = d[q]
  BY <1>1 DEF Disk
<1> HIDE DEF d2
<1>3. image # RawPage /\ new # NoPage
  BY <1>1, HeapAssumption
<1>4. NextOf(d2, new) = NoPage
  BY <1>2, <1>3 DEF NextOf
<1>5. /\ <<new>> \in Seq(PageId) /\ Len(<<new>>) = 1 /\ <<new>>[1] = new /\ <<new>> # <<>>
      /\ <<>> \in Seq(PageId) /\ Len(<<>>) = 0
  BY <1>1
<1>6. image.free \in 0 .. Capacity /\ Capacity \in Nat /\ Len(image.slots) = 0
  BY HeapAssumption DEF HeapPage
<1>7. \A q \in PageId : d2[q] # RawPage => /\ q <= new /\ Len(d2[q].slots) <= Capacity - d2[q].free
                                           /\ d2[q].slots = <<>>
  <2> SUFFICES ASSUME NEW q \in PageId, d2[q] # RawPage
               PROVE  q <= new /\ Len(d2[q].slots) <= Capacity - d2[q].free /\ d2[q].slots = <<>>
    OBVIOUS
  <2>1. CASE q = new
    BY <1>1, <1>2, <1>6, <2>1
  <2>2. CASE q # new
    <3>1. q <= pc /\ Len(d[q].slots) <= Capacity - d[q].free /\ d[q].slots = <<>>
      BY <1>2, <1>5, <2>2 DEF Chained
    <3> QED
      BY <1>1, <1>2, <2>2, <3>1
  <2> QED
    BY <2>1, <2>2
<1>8. IsList(d2, new, <<new>>) /\ IsList(d2, NoPage, <<>>)
  BY <1>4, <1>5 DEF IsList
<1>9. Chained(d2, new, NoPage, <<>>)
  BY <1>5, <1>7, <1>8 DEF Chained
<1>10. Chained(d2, new, new, <<new>>)
  <2>1. \A k \in 1 .. Len(<<new>>) : k = 1
    BY <1>5
  <2>2. <<new>>[1] <= new
    BY <1>1, <1>5
  <2> QED
    BY <1>2, <1>5, <1>7, <1>8, <2>1, <2>2 DEF Chained
<1> QED
  BY <1>2, <1>9, <1>10 DEF d2

-----------------------------------------------------------------------------
(* The slots of a page. *)

LEMMA PageFields ==
    ASSUME NEW image \in HeapPage
    PROVE  /\ image.slots \in Seq(Tuple \cup {NoTuple}) /\ Len(image.slots) \in Nat
           /\ image.free \in Nat /\ image.free <= Capacity /\ Capacity \in Nat
           /\ image.prev \in PageId \cup {NoPage} /\ image.next \in PageId \cup {NoPage}
           /\ image # RawPage
           /\ LiveSlots(image) \in SUBSET (1 .. Len(image.slots))
           /\ FreeSlots(image) \in SUBSET (1 .. Len(image.slots))
           /\ \A i \in LiveSlots(image) : image.slots[i] \in Tuple
  BY HeapAssumption DEF HeapPage, LiveSlots, FreeSlots

LEMMA EmptyPageIs ==
    ASSUME NEW prev \in PageId \cup {NoPage}
    PROVE  /\ EmptyPage(prev) \in HeapPage
           /\ EmptyPage(prev).prev = prev /\ EmptyPage(prev).next = NoPage
           /\ EmptyPage(prev).slots = <<>> /\ EmptyPage(prev).free = Capacity
           /\ LiveSlots(EmptyPage(prev)) = {} /\ SlotFor(EmptyPage(prev)) = 1
<1>1. Capacity \in 0 .. Capacity /\ <<>> \in Seq(Tuple \cup {NoTuple})
  BY HeapAssumption
<1>2. /\ EmptyPage(prev) \in HeapPage
      /\ EmptyPage(prev).prev = prev /\ EmptyPage(prev).next = NoPage
      /\ EmptyPage(prev).slots = <<>> /\ EmptyPage(prev).free = Capacity
  BY <1>1 DEF EmptyPage, HeapPage
<1>3. LiveSlots(EmptyPage(prev)) = {} /\ FreeSlots(EmptyPage(prev)) = {}
  BY <1>2 DEF LiveSlots, FreeSlots
<1>4. SlotFor(EmptyPage(prev)) = 1
  BY <1>2, <1>3 DEF SlotFor
<1> QED
  BY <1>2, <1>3, <1>4

\* insertTuple puts the tuple into a slot that held none, and leaves the
\* others alone.
LEMMA TupleAdded ==
    ASSUME NEW image \in HeapPage, NEW tuple \in Tuple, Fits(image, tuple),
           Len(image.slots) <= Capacity - image.free
    PROVE  LET new == WithTuple(image, tuple)
               slot == SlotFor(image)
           IN  /\ new \in HeapPage /\ new.prev = image.prev /\ new.next = image.next
               /\ Len(new.slots) <= Capacity - new.free
               /\ slot \in 1 .. Capacity /\ slot \notin LiveSlots(image)
               /\ LiveSlots(new) = LiveSlots(image) \cup {slot}
               /\ new.slots[slot] = tuple
               /\ \A i \in LiveSlots(image) : new.slots[i] = image.slots[i]
<1> DEFINE new == WithTuple(image, tuple)
           slot == SlotFor(image)
           N == Len(image.slots)
<1>1. /\ image.slots \in Seq(Tuple \cup {NoTuple}) /\ N \in Nat
      /\ image.free \in Nat /\ image.free <= Capacity /\ Capacity \in Nat
      /\ LiveSlots(image) \in SUBSET (1 .. N) /\ FreeSlots(image) \in SUBSET (1 .. N)
  BY PageFields
<1>2. tuple \in Nat /\ tuple # 0 /\ tuple # NoTuple /\ SlotSize \in Nat /\ SlotSize # 0
  BY HeapAssumption
<1>3. LiveSlots(image) = (1 .. N) \ FreeSlots(image)
  BY DEF LiveSlots, FreeSlots
<1>4. CASE FreeSlots(image) = {}
  <2>1. slot = N + 1 /\ tuple + SlotSize <= image.free
    BY <1>4 DEF SlotFor, Fits
  <2>2. new = [image EXCEPT !.slots = Append(image.slots, tuple), !.free = image.free - tuple - SlotSize]
    BY <1>4 DEF WithTuple
  <2>3. /\ Append(image.slots, tuple) \in Seq(Tuple \cup {NoTuple})
        /\ Len(Append(image.slots, tuple)) = N + 1 /\ Append(image.slots, tuple)[N + 1] = tuple
        /\ \A i \in 1 .. N : Append(image.slots, tuple)[i] = image.slots[i]
    BY <1>1
  <2>4. image.free - tuple - SlotSize \in 0 .. Capacity /\ N + 1 <= Capacity - (image.free - tuple - SlotSize)
    BY <1>1, <1>2, <2>1
  <2>5. /\ new \in HeapPage /\ new.prev = image.prev /\ new.next = image.next
        /\ new.slots = Append(image.slots, tuple) /\ new.free = image.free - tuple - SlotSize
    BY <2>2, <2>3, <2>4 DEF HeapPage
  <2>6. slot \in 1 .. Capacity /\ slot \notin 1 .. N
    <3>1. N + 1 <= Capacity /\ N + 1 \in Nat /\ N + 1 >= 1
      BY <1>1, <2>4
    <3>2. N + 1 \notin 1 .. N
      BY <1>1
    <3> QED
      BY <1>1, <2>1, <3>1, <3>2
  <2>7. LiveSlots(new) = LiveSlots(image) \cup {slot}
    <3>1. \A i \in 1 .. N + 1 : i \in 1 .. N \/ i = N + 1
      BY <1>1
    <3>2. \A i \in 1 .. N : i \in 1 .. N + 1
      BY <1>1
    <3>3. N + 1 \in 1 .. N + 1
      BY <1>1
    <3>4. LiveSlots(new) = {i \in 1 .. N + 1 : new.slots[i] # NoTuple}
      BY <2>3, <2>5 DEF LiveSlots
    <3>5. LiveSlots(image) = {i \in 1 .. N : image.slots[i] # NoTuple}
      BY DEF LiveSlots
    <3> HIDE DEF new, slot, N
    <3> QED
      BY <1>2, <2>1, <2>3, <2>5, <3>1, <3>2, <3>3, <3>4, <3>5
  <2> QED
    BY <1>1, <2>1, <2>3, <2>4, <2>5, <2>6, <2>7
<1>5. CASE FreeSlots(image) # {}
  <2>1. slot = Min(FreeSlots(image)) /\ tuple <= image.free
    BY <1>1, <1>2, <1>5 DEF SlotFor, Fits
  <2>2. slot \in FreeSlots(image)
    <3>1. FreeSlots(image) \in SUBSET Nat
      BY <1>1
    <3> QED
      BY <1>5, <2>1, <3>1, MinIsLeast
  <2>3. slot \in 1 .. N /\ slot \notin LiveSlots(image)
    BY <1>1, <1>3, <2>2
  <2>4. new = [image EXCEPT !.slots = [image.slots EXCEPT ![slot] = tuple], !.free = image.free - tuple]
    BY <1>5 DEF WithTuple, HeapPage
  <2>5. /\ [image.slots EXCEPT ![slot] = tuple] \in Seq(Tuple \cup {NoTuple})
        /\ Len([image.slots EXCEPT ![slot] = tuple]) = N
        /\ [image.slots EXCEPT ![slot] = tuple][slot] = tuple
        /\ \A i \in 1 .. N : i # slot => [image.slots EXCEPT ![slot] = tuple][i] = image.slots[i]
    BY <1>1, <2>3
  <2>6. image.free - tuple \in 0 .. Capacity /\ N <= Capacity - (image.free - tuple)
    BY <1>1, <1>2, <2>1
  <2> HIDE DEF new, slot, N
  <2>7. /\ new \in HeapPage /\ new.prev = image.prev /\ new.next = image.next
        /\ new.slots = [image.slots EXCEPT ![slot] = tuple] /\ new.free = image.free - tuple
    BY <2>4, <2>5, <2>6 DEF HeapPage
  <2>8. slot \in 1 .. Capacity
    BY <1>1, <2>3, <2>6 DEF N
  <2>9. LiveSlots(new) = LiveSlots(image) \cup {slot}
    <3>1. LiveSlots(new) = {i \in 1 .. N : new.slots[i] # NoTuple}
      BY <2>5, <2>7 DEF LiveSlots
    <3>2. LiveSlots(image) = {i \in 1 .. N : image.slots[i] # NoTuple}
      BY DEF LiveSlots, N
    <3> QED
      BY <1>2, <2>3, <2>5, <2>7, <3>1, <3>2
  <2>10. \A i \in LiveSlots(image) : new.slots[i] = image.slots[i]
    BY <1>1, <2>3, <2>5, <2>7 DEF N
  <2> QED
    BY <2>3, <2>5, <2>6, <2>7, <2>8, <2>9, <2>10 DEF new, slot
<1> QED
  BY <1>4, <1>5

\* deleteTuple empties its slot.
LEMMA TupleRemoved ==
    ASSUME NEW image \in HeapPage, NEW slot \in LiveSlots(image)
    PROVE  LET new == WithoutTuple(image, slot)
           IN  /\ new \in HeapPage /\ new.prev = image.prev /\ new.next = image.next
               /\ Len(new.slots) = Len(image.slots) /\ new.free = image.free
               /\ LiveSlots(new) = LiveSlots(image) \ {slot}
               /\ \A i \in LiveSlots(new) : new.slots[i] = image.slots[i]
<1> DEFINE new == WithoutTuple(image, slot)
           cut == [image.slots EXCEPT ![slot] = NoTuple]
           N == Len(image.slots)
<1>1. image.slots \in Seq(Tuple \cup {NoTuple}) /\ N \in Nat /\ slot \in 1 .. N
  BY PageFields
<1>2. /\ cut \in Seq(Tuple \cup {NoTuple}) /\ Len(cut) = N
      /\ cut[slot] = NoTuple /\ \A i \in 1 .. N : i # slot => cut[i] = image.slots[i]
  BY <1>1
<1>3. new = [image EXCEPT !.slots = cut]
  BY DEF WithoutTuple, HeapPage
<1> HIDE DEF new, cut, N
<1>4. /\ new \in HeapPage /\ new.prev = image.prev /\ new.next = image.next
      /\ new.slots = cut /\ new.free = image.free
  BY <1>2, <1>3 DEF HeapPage
<1>5. LiveSlots(new) = {i \in 1 .. N : cut[i] # NoTuple}
  BY <1>2, <1>4 DEF LiveSlots
<1>6. LiveSlots(image) = {i \in 1 .. N : image.slots[i] # NoTuple}
  BY DEF LiveSlots, N
<1> QED
  BY <1>1, <1>2, <1>4, <1>5, <1>6 DEF new, N

-----------------------------------------------------------------------------
(* What steps change, and what the properties need of it. *)

\* The state of the heap, as the lemmas above speak of it.
LEMMA HeapFacts ==
    ASSUME HeapInvariant
    PROVE  LET s == Path(first)
           IN  /\ disk \in Disk /\ page_count \in Nat /\ page_count <= MaxPages /\ MaxPages \in Nat
               /\ Chained(disk, page_count, first, s)
               /\ s \in Seq(PageId) /\ Len(s) \in Nat /\ \A k \in 1 .. Len(s) : s[k] \in PageId
               /\ first = NoPage <=> s = <<>>
               /\ \A p \in PageId : disk[p] # RawPage => disk[p] \in HeapPage
               /\ \A rid \in DOMAIN stored : rid \in RID /\ stored[rid] \in Tuple
<1> DEFINE s == Path(first)
<1>1. /\ disk \in Disk /\ page_count \in Nat /\ page_count <= MaxPages /\ MaxPages \in Nat
      /\ \A rid \in DOMAIN stored : rid \in RID /\ stored[rid] \in Tuple
  BY HeapAssumption DEF HeapInvariant, TypeOK, Disk
<1>2. Chained(disk, page_count, first, s)
  BY ChainedIs DEF HeapInvariant
<1>3. s \in Seq(PageId)
  BY <1>2 DEF Chained, IsList
<1>4. Len(s) \in Nat /\ \A k \in 1 .. Len(s) : s[k] \in PageId
  BY <1>3
<1>5. first = NoPage <=> s = <<>>
  <2>1. s # <<>> => 1 \in 1 .. Len(s)
    BY <1>3, <1>4
  <2> QED
    BY <1>2, <1>4, <2>1, HeapAssumption DEF Chained, IsList
<1>6. \A p \in PageId : disk[p] # RawPage => disk[p] \in HeapPage
  BY <1>1 DEF Disk
<1> QED
  BY <1>1, <1>2, <1>3, <1>4, <1>5, <1>6

\* An acknowledged tuple is in a slot of a page of the heap.
LEMMA StoredPlaces ==
    ASSUME HeapInvariant, NEW rid \in DOMAIN stored
    PROVE  /\ rid[1] \in PageId /\ rid[2] \in Nat /\ rid = <<rid[1], rid[2]>>
           /\ disk[rid[1]] \in HeapPage /\ disk[rid[1]] # RawPage
           /\ rid[2] \in LiveSlots(disk[rid[1]])
           /\ disk[rid[1]].slots[rid[2]] = stored[rid]
           /\ \E k \in 1 .. Len(Path(first)) : rid[1] = Path(first)[k]
<1>1. rid[1] \in PageId /\ rid[2] \in Nat /\ rid = <<rid[1], rid[2]>>
  BY HeapFacts DEF RID
<1>2. /\ disk[rid[1]] # RawPage /\ rid[2] \in LiveSlots(disk[rid[1]])
      /\ disk[rid[1]].slots[rid[2]] = stored[rid]
  BY DEF HeapInvariant, StoredReadable
<1>3. disk[rid[1]].slots # <<>>
  BY <1>2 DEF LiveSlots
<1>4. \E k \in 1 .. Len(Path(first)) : rid[1] = Path(first)[k]
  BY <1>1, <1>2, <1>3, HeapFacts DEF Chained
<1> QED
  BY <1>1, <1>2, <1>4, HeapFacts

\* Where a file holds tuples.
LiveIn(d) ==
    {rid \in PageId \X (1 .. Capacity) : d[rid[1]] # RawPage /\ rid[2] \in LiveSlots(d[rid[1]])}

LEMMA LiveInIs == LiveRIDs = LiveIn(disk) /\ LiveRIDs' = LiveIn(disk')
  BY DEF LiveRIDs, LiveIn

LEMMA LiveInFinite ==
    ASSUME NEW d
    PROVE  IsFiniteSet(LiveIn(d)) /\ Cardinality(LiveIn(d)) \in Nat
<1>1. IsFiniteSet(PageId) /\ IsFiniteSet(1 .. Capacity)
  BY HeapAssumption, FS_Interval DEF PageId
<1>2. IsFiniteSet(PageId \X (1 .. Capacity))
  BY <1>1, FS_Product
<1>3. LiveIn(d) \in SUBSET (PageId \X (1 .. Capacity))
  BY DEF LiveIn
<1>4. IsFiniteSet(LiveIn(d))
  BY <1>2, <1>3, FS_Subset
<1> QED
  BY <1>4, FS_CardinalityType

\* Every tuple of d is in d2, and every page that had a next page.
Kept(d, d2) ==
    \A p \in PageId : d[p] # RawPage =>
        /\ d2[p] # RawPage
        /\ d[p].next \in {NoPage, d2[p].next}
        /\ LiveSlots(d[p]) \subseteq LiveSlots(d2[p])
        /\ \A i \in LiveSlots(d[p]) : d2[p].slots[i] = d[p].slots[i]

\* So iterators that stand still have the same ahead of them.
LEMMA ScansKept ==
    ASSUME HeapInvariant, Kept(disk, disk'), UNCHANGED <<iters, scans>>,
           \A k \in 1 .. Len(Path(first)) :
              \E j \in 1 .. Len(Path(first)') : Path(first)'[j] = Path(first)[k],
           \A rid \in DOMAIN stored : rid \in DOMAIN stored' /\ stored'[rid] = stored[rid]
    PROVE  ScansSound'
<1> SUFFICES ASSUME NEW i \in Iter
             PROVE  LET it == iters[i]
                        must == scans[i].must
                    IN  /\ must \subseteq DOMAIN stored' /\ scans[i].again = {}
                        /\ it = AtEnd => scans[i].cut \/ must \subseteq scans[i].seen
                        /\ it # AtEnd =>
                              /\ \E k \in 1 .. Len(Path(first)') : it.page = Path(first)'[k]
                              /\ disk'[it.page] # RawPage /\ it.slot \in LiveSlots(it.cached)
                              /\ it.cached.next \in {NoPage, disk'[it.page].next}
                              /\ \A rid \in scans[i].seen : Passed(it, rid)
                              /\ \A rid \in must : rid[1] = it.page =>
                                    rid[2] \in LiveSlots(it.cached) /\ it.cached.slots[rid[2]] = stored'[rid]
                              /\ \A rid \in must \ scans[i].seen :
                                    \/ rid[1] = it.page /\ rid[2] > it.slot
                                    \/ rid[1] > it.page /\ it.cached.next # NoPage
  BY DEF ScansSound
<1> DEFINE it == iters[i]
           must == scans[i].must
<1>1. /\ must \subseteq DOMAIN stored /\ scans[i].again = {}
      /\ it = AtEnd => scans[i].cut \/ must \subseteq scans[i].seen
      /\ it # AtEnd =>
            /\ \E k \in 1 .. Len(Path(first)) : it.page = Path(first)[k]
            /\ disk[it.page] # RawPage /\ it.slot \in LiveSlots(it.cached)
            /\ it.cached.next \in {NoPage, disk[it.page].next}
            /\ \A rid \in scans[i].seen : Passed(it, rid)
            /\ \A rid \in must : rid[1] = it.page =>
                  rid[2] \in LiveSlots(it.cached) /\ it.cached.slots[rid[2]] = stored[rid]
            /\ \A rid \in must \ scans[i].seen :
                  \/ rid[1] = it.page /\ rid[2] > it.slot
                  \/ rid[1] > it.page /\ it.cached.next # NoPage
  BY DEF HeapInvariant, ScansSound
<1>2. it # AtEnd => it.page \in PageId
  BY DEF HeapInvariant, TypeOK
<1> HIDE DEF it, must
<1>3. must \subseteq DOMAIN stored' /\ \A rid \in must : stored'[rid] = stored[rid]
  BY <1>1
<1>4. it # AtEnd => \E k \in 1 .. Len(Path(first)') : it.page = Path(first)'[k]
  BY <1>1
<1>5. it # AtEnd => disk'[it.page] # RawPage /\ it.cached.next \in {NoPage, disk'[it.page].next}
  BY <1>1, <1>2 DEF Kept
<1> QED
  BY <1>1, <1>3, <1>4, <1>5 DEF it, must

\* Acknowledged tuples stay readable, and the new ones are.
LEMMA StoredKept ==
    ASSUME HeapInvariant, Kept(disk, disk'),
           \A rid \in DOMAIN stored' :
              \/ rid \in DOMAIN stored /\ stored'[rid] = stored[rid]
              \/ /\ disk'[rid[1]] # RawPage
                 /\ rid[2] \in LiveSlots(disk'[rid[1]])
                 /\ disk'[rid[1]].slots[rid[2]] = stored'[rid]
    PROVE  StoredReadable'
<1> SUFFICES ASSUME NEW rid \in DOMAIN stored'
             PROVE  /\ disk'[rid[1]] # RawPage
                    /\ rid[2] \in LiveSlots(disk'[rid[1]])
                    /\ disk'[rid[1]].slots[rid[2]] = stored'[rid]
  BY DEF StoredReadable, LiveSlots
<1>1. CASE rid \in DOMAIN stored /\ stored'[rid] = stored[rid]
  <2>1. /\ rid[1] \in PageId /\ disk[rid[1]] # RawPage /\ rid[2] \in LiveSlots(disk[rid[1]])
        /\ disk[rid[1]].slots[rid[2]] = stored[rid]
    BY <1>1, StoredPlaces
  <2> QED
    BY <1>1, <2>1 DEF Kept
<1> QED
  BY <1>1

\* insertTuple writes a tuple to a page of the heap.
LEMMA PutDisk ==
    ASSUME HeapInvariant, UNCHANGED <<page_count, first>>,
           NEW tuple \in Tuple, NEW k \in 1 .. Len(Path(first)),
           disk[Path(first)[k]] # RawPage, Fits(disk[Path(first)[k]], tuple),
           disk' = [disk EXCEPT ![Path(first)[k]] = WithTuple(@, tuple)]
    PROVE  LET q == Path(first)[k]
               slot == SlotFor(disk[q])
           IN  /\ disk' \in Disk /\ PagesChained' /\ Path(first)' = Path(first)
               /\ Kept(disk, disk')
               /\ q \in PageId /\ slot \in 1 .. Capacity
               /\ <<q, slot>> \notin LiveIn(disk) /\ LiveIn(disk') = LiveIn(disk) \cup {<<q, slot>>}
               /\ <<q, slot>> \notin DOMAIN stored
               /\ disk'[q] # RawPage /\ slot \in LiveSlots(disk'[q]) /\ disk'[q].slots[slot] = tuple
<1> DEFINE s == Path(first)
           q == s[k]
           slot == SlotFor(disk[q])
           image == WithTuple(disk[q], tuple)
<1>1. /\ disk \in Disk /\ Chained(disk, page_count, first, s)
      /\ q \in PageId /\ disk[q] \in HeapPage
  BY HeapFacts
<1>2. Len(disk[q].slots) <= Capacity - disk[q].free
  BY <1>1 DEF Chained
<1>3. /\ image \in HeapPage /\ image.prev = disk[q].prev /\ image.next = disk[q].next
      /\ Len(image.slots) <= Capacity - image.free
      /\ slot \in 1 .. Capacity /\ slot \notin LiveSlots(disk[q])
      /\ LiveSlots(image) = LiveSlots(disk[q]) \cup {slot}
      /\ image.slots[slot] = tuple
      /\ \A i \in LiveSlots(disk[q]) : image.slots[i] = disk[q].slots[i]
  BY <1>1, <1>2, TupleAdded
<1>4. disk' = [disk EXCEPT ![q] = image]
  OBVIOUS
<1> HIDE DEF image, slot
<1>5. disk' \in Disk /\ Chained(disk', page_count', first', s)
  <2>1. \E j \in 1 .. Len(s) : q = s[j]
    OBVIOUS
  <2> HIDE DEF s, q
  <2>2. Chained([disk EXCEPT ![q] = image], page_count, first, s) /\ [disk EXCEPT ![q] = image] \in Disk
    BY <1>1, <1>3, <2>1, PageRewritten DEF s, q
  <2> QED
    BY <1>4, <2>2
<1>6. PagesChained' /\ Path(first)' = s
  BY <1>5, ChainedNext
<1>7. disk'[q] = image /\ \A p \in PageId : p # q => disk'[p] = disk[p]
  BY <1>1, <1>4 DEF Disk
<1>8. image # RawPage
  BY <1>3, HeapAssumption
<1>9. Kept(disk, disk')
  <2> SUFFICES ASSUME NEW p \in PageId, disk[p] # RawPage
               PROVE  /\ disk'[p] # RawPage
                      /\ disk[p].next \in {NoPage, disk'[p].next}
                      /\ LiveSlots(disk[p]) \subseteq LiveSlots(disk'[p])
                      /\ \A i \in LiveSlots(disk[p]) : disk'[p].slots[i] = disk[p].slots[i]
    BY DEF Kept
  <2>1. CASE p = q
    BY <1>3, <1>7, <1>8, <2>1
  <2>2. CASE p # q
    BY <1>7, <2>2
  <2> QED
    BY <2>1, <2>2
<1>10. <<q, slot>> \notin LiveIn(disk)
  BY <1>3 DEF LiveIn
<1>11. LiveIn(disk') = LiveIn(disk) \cup {<<q, slot>>}
  <2>1. ASSUME NEW rid \in PageId \X (1 .. Capacity)
        PROVE  rid \in LiveIn(disk') <=> rid \in LiveIn(disk) \/ rid = <<q, slot>>
    <3>1. CASE rid[1] = q
      <4>1. rid = <<q, slot>> <=> rid[2] = slot
        BY <3>1
      <4> QED
        BY <1>1, <1>3, <1>7, <1>8, <3>1, <4>1 DEF LiveIn
    <3>2. CASE rid[1] # q
      BY <1>7, <3>2 DEF LiveIn
    <3> QED
      BY <3>1, <3>2
  <2>2. \A d : LiveIn(d) \subseteq PageId \X (1 .. Capacity)
    BY DEF LiveIn
  <2>3. <<q, slot>> \in PageId \X (1 .. Capacity)
    BY <1>1, <1>3
  <2> QED
    BY <2>1, <2>2, <2>3
<1>12. <<q, slot>> \notin DOMAIN stored
  <2> SUFFICES ASSUME <<q, slot>> \in DOMAIN stored
               PROVE  FALSE
    OBVIOUS
  <2>1. <<q, slot>>[2] \in LiveSlots(disk[<<q, slot>>[1]])
    BY StoredPlaces
  <2> QED
    BY <1>3, <2>1
<1> QED
  BY <1>1, <1>3, <1>5, <1>6, <1>7, <1>8, <1>9, <1>10, <1>11, <1>12 DEF slot

\* A page no call has written yet.
LEMMA NextPageRaw ==
    ASSUME HeapInvariant, page_count < MaxPages
    PROVE  /\ NewPageId \in PageId /\ disk[NewPageId] = RawPage
           /\ \A k \in 1 .. Len(Path(first)) : Path(first)[k] # NewPageId
           /\ \A rid \in DOMAIN stored : rid[1] # NewPageId
<1>1. /\ disk \in Disk /\ Chained(disk, page_count, first, Path(first))
      /\ page_count \in Nat /\ MaxPages \in Nat
  BY HeapFacts
<1>2. NewPageId \in PageId /\ ~(NewPageId <= page_count) /\ NewPageId \in Int
  BY <1>1 DEF NewPageId, PageId
<1>3. disk[NewPageId] = RawPage
  BY <1>1, <1>2 DEF Chained
<1>4. \A k \in 1 .. Len(Path(first)) : Path(first)[k] # NewPageId
  BY <1>1, <1>2 DEF Chained
<1>5. \A rid \in DOMAIN stored : rid[1] # NewPageId
  BY <1>3, StoredPlaces
<1> QED
  BY <1>2, <1>3, <1>4, <1>5

\* insertTuple links a page behind the last one and writes image to it, or
\* does not get that far.
LEMMA GrowDisk ==
    ASSUME HeapInvariant, page_count < MaxPages, page_count' = NewPageId, UNCHANGED first,
           Path(first) # <<>>, Intact(Path(first)),
           NEW image \in HeapPage \cup {RawPage},
           image # RawPage => /\ image.prev = LastPage /\ image.next = NoPage
                              /\ Len(image.slots) <= Capacity - image.free,
           disk' = [Linked(NewPageId) EXCEPT ![NewPageId] = image]
    PROVE  /\ disk' \in Disk /\ PagesChained' /\ Path(first)' = Append(Path(first), NewPageId)
           /\ Kept(disk, disk') /\ disk'[NewPageId] = image
           /\ \A rid \in PageId \X (1 .. Capacity) :
                 rid \in LiveIn(disk') <=>
                    \/ rid \in LiveIn(disk)
                    \/ rid[1] = NewPageId /\ image # RawPage /\ rid[2] \in LiveSlots(image)
<1> DEFINE s == Path(first)
           new == NewPageId
           last == s[Len(s)]
<1>1. /\ disk \in Disk /\ Chained(disk, page_count, first, s) /\ page_count \in Nat
      /\ s \in Seq(PageId) /\ Len(s) \in Nat
  BY HeapFacts
<1>2. Len(s) \in 1 .. Len(s) /\ last = LastPage
  BY <1>1 DEF LastPage
<1>3. last \in PageId /\ disk[last] # RawPage /\ disk[last] \in HeapPage
  BY <1>1, <1>2, HeapFacts DEF Intact
<1>4. new \in PageId /\ disk[new] = RawPage /\ last # new /\ new # NoPage
  BY <1>2, NextPageRaw, HeapAssumption
<1>5. disk' = [[disk EXCEPT ![last].next = page_count + 1] EXCEPT ![page_count + 1] = image]
  BY <1>2 DEF Linked, NewPageId
<1>6. Chained(disk', page_count', first', Append(s, new)) /\ disk' \in Disk
  <2> HIDE DEF s
  <2>1. /\ Chained([[disk EXCEPT ![s[Len(s)]].next = page_count + 1] EXCEPT ![page_count + 1] = image],
                   page_count + 1, first, Append(s, page_count + 1))
        /\ [[disk EXCEPT ![s[Len(s)]].next = page_count + 1] EXCEPT ![page_count + 1] = image] \in Disk
    <3>1. s # <<>> /\ disk[s[Len(s)]] # RawPage
      BY <1>3 DEF s
    <3>2. image # RawPage => /\ image.prev = s[Len(s)] /\ image.next = NoPage
                             /\ Len(image.slots) <= Capacity - image.free
      BY <1>2
    <3> QED
      BY <1>1, <3>1, <3>2, PageAppended
  <2> QED
    BY <1>5, <2>1 DEF NewPageId
<1>7. PagesChained' /\ Path(first)' = Append(s, new)
  BY <1>6, ChainedNext
<1>8. /\ disk'[new] = image /\ disk'[last] = [disk[last] EXCEPT !.next = new]
      /\ \A p \in PageId : p # new /\ p # last => disk'[p] = disk[p]
  BY <1>1, <1>3, <1>4, <1>5 DEF Disk, NewPageId
<1>9. /\ disk'[last] # RawPage /\ disk'[last].next = new /\ disk'[last].slots = disk[last].slots
  <2>1. [disk[last] EXCEPT !.next = new] \in HeapPage
    BY <1>3, <1>4 DEF HeapPage
  <2> QED
    BY <1>3, <1>8, <2>1, HeapAssumption DEF HeapPage
<1>10. disk[last].next = NoPage
  <2>1. NextOf(disk, last) = NoPage
    BY <1>1 DEF Chained, IsList
  <2> QED
    BY <1>3, <2>1, HeapAssumption DEF NextOf
<1>11. LiveSlots(disk'[last]) = LiveSlots(disk[last])
  BY <1>9 DEF LiveSlots
<1>12. Kept(disk, disk')
  <2> SUFFICES ASSUME NEW p \in PageId, disk[p] # RawPage
               PROVE  /\ disk'[p] # RawPage
                      /\ disk[p].next \in {NoPage, disk'[p].next}
                      /\ LiveSlots(disk[p]) \subseteq LiveSlots(disk'[p])
                      /\ \A i \in LiveSlots(disk[p]) : disk'[p].slots[i] = disk[p].slots[i]
    BY DEF Kept
  <2>1. CASE p = last
    BY <1>9, <1>10, <1>11, <2>1
  <2>2. CASE p # last
    <3>1. p # new
      BY <1>4
    <3> QED
      BY <1>8, <2>2, <3>1
  <2> QED
    BY <2>1, <2>2
<1>13. ASSUME NEW rid \in PageId \X (1 .. Capacity)
       PROVE  rid \in LiveIn(disk') <=>
                    \/ rid \in LiveIn(disk)
                    \/ rid[1] = new /\ image # RawPage /\ rid[2] \in LiveSlots(image)
  <2>1. CASE rid[1] = new
    BY <1>4, <1>8, <2>1 DEF LiveIn
  <2>2. CASE rid[1] = last
    BY <1>3, <1>4, <1>9, <1>11, <2>2 DEF LiveIn
  <2>3. CASE rid[1] # new /\ rid[1] # last
    BY <1>8, <2>3 DEF LiveIn
  <2> QED
    BY <2>1, <2>2, <2>3
<1> QED
  BY <1>6, <1>7, <1>8, <1>12, <1>13

-----------------------------------------------------------------------------
(* The actions. *)

\* Before the heap is created there is nothing in it.
LEMMA NoHeap ==
    ASSUME HeapInvariant, first = NoPage
    PROVE  /\ Path(first) = <<>> /\ DOMAIN stored = {} /\ LiveIn(disk) = {}
           /\ \A i \in Iter : iters[i] = AtEnd
           /\ \A h \in Heap : ~heaps[h].open
<1>1. Path(first) = <<>> /\ Chained(disk, page_count, first, Path(first))
  BY HeapFacts
<1>2. Len(Path(first)) = 0
  BY <1>1
<1>3. DOMAIN stored = {}
  BY <1>2, StoredPlaces
<1>4. LiveIn(disk) = {}
  BY <1>1, <1>2 DEF LiveIn, Chained, LiveSlots
<1>5. \A i \in Iter : iters[i] = AtEnd
  BY <1>2 DEF HeapInvariant, ScansSound
<1>6. \A h \in Heap : ~heaps[h].open
  BY DEF HeapInvariant
<1> QED
  BY <1>1, <1>3, <1>4, <1>5, <1>6

\* What create leaves on the disk.
LEMMA CreateDisk ==
    ASSUME HeapInvariant, first = NoPage, Allocate,
           disk' = [disk EXCEPT ![NewPageId] = EmptyPage(NoPage)]
    PROVE  /\ disk' \in Disk /\ Kept(disk, disk') /\ LiveIn(disk') = {}
           /\ Chained(disk', page_count', NewPageId, <<NewPageId>>)
           /\ Chained(disk', page_count', NoPage, <<>>)
<1>1. /\ disk \in Disk /\ page_count \in Nat /\ Chained(disk, page_count, NoPage, <<>>)
      /\ LiveIn(disk) = {}
  BY HeapFacts, NoHeap
<1>2. page_count < MaxPages /\ page_count' = page_count + 1
  BY DEF Allocate
<1>3. /\ EmptyPage(NoPage) \in HeapPage /\ EmptyPage(NoPage).prev = NoPage
      /\ EmptyPage(NoPage).next = NoPage /\ EmptyPage(NoPage).slots = <<>>
      /\ LiveSlots(EmptyPage(NoPage)) = {}
  BY EmptyPageIs
<1>4. /\ disk' \in Disk /\ Chained(disk', page_count', NewPageId, <<NewPageId>>)
      /\ Chained(disk', page_count', NoPage, <<>>)
  BY <1>1, <1>2, <1>3, PageCreated DEF NewPageId
<1>5. NewPageId \in PageId /\ disk[NewPageId] = RawPage
  BY <1>2, NextPageRaw
<1>6. disk'[NewPageId] = EmptyPage(NoPage) /\ \A p \in PageId : p # NewPageId => disk'[p] = disk[p]
  BY <1>1, <1>5 DEF Disk
<1>7. Kept(disk, disk')
  BY <1>5, <1>6 DEF Kept
<1>8. LiveIn(disk') = {}
  BY <1>1, <1>3, <1>6 DEF LiveIn
<1> QED
  BY <1>4, <1>7, <1>8

LEMMA CreateStep ==
    ASSUME HeapInvariant, NEW h \in Heap, Create(h)
    PROVE  HeapInvariant'
<1>1. /\ first = NoPage /\ Allocate /\ first' = NewPageId
      /\ disk' = [disk EXCEPT ![NewPageId] = EmptyPage(NoPage)]
      /\ heaps' = [heaps EXCEPT ![h] = [open |-> TRUE, pages |-> 1, tuples |-> 0]]
      /\ UNCHANGED <<failures, iters, stored, outdated, scans>>
  BY DEF Create
<1>2. /\ disk' \in Disk /\ Kept(disk, disk') /\ LiveIn(disk') = {}
      /\ Chained(disk', page_count', first', <<NewPageId>>)
  BY <1>1, CreateDisk
<1>3. PagesChained' /\ Path(first)' = <<NewPageId>>
  BY <1>2, ChainedNext
<1>4. /\ Path(first) = <<>> /\ DOMAIN stored = {} /\ \A i \in Iter : iters[i] = AtEnd
      /\ \A g \in Heap : ~heaps[g].open
  BY <1>1, NoHeap
<1>5. page_count < MaxPages /\ NewPageId \in PageId /\ NewPageId # NoPage
  BY <1>1, NextPageRaw, HeapAssumption DEF Allocate
<1>6. TypeOK'
  <2>1. page_count' \in 0 .. MaxPages
    BY <1>1, <1>5, HeapFacts DEF Allocate
  <2>2. heaps' \in [Heap -> {Closed} \cup [open : {TRUE}, pages : Nat, tuples : Int]]
    <3>1. [open |-> TRUE, pages |-> 1, tuples |-> 0] \in [open : {TRUE}, pages : Nat, tuples : Int]
      OBVIOUS
    <3>2. heaps \in [Heap -> {Closed} \cup [open : {TRUE}, pages : Nat, tuples : Int]]
      BY DEF HeapInvariant, TypeOK
    <3> QED
      BY <1>1, <3>1, <3>2
  <2> QED
    BY <1>1, <1>2, <1>5, <2>1, <2>2 DEF HeapInvariant, TypeOK, Disk
<1>7. StoredReadable' /\ ScansSound'
  BY <1>1, <1>2, <1>4, StoredKept, ScansKept
<1>8. CountsExact'
  <2>1. Cardinality(LiveRIDs') = 0
    BY <1>2, LiveInIs, FS_EmptySet
  <2>2. \A g \in Heap : heaps'[g].open => heaps'[g] = [open |-> TRUE, pages |-> 1, tuples |-> 0]
    BY <1>1, <1>4 DEF HeapInvariant, TypeOK
  <2>3. Len(Path(first)') = 1
    BY <1>3
  <2> QED
    BY <2>1, <2>2, <2>3 DEF CountsExact
<1>9. \A g \in Heap : heaps'[g].open => first' # NoPage
  BY <1>1, <1>5
<1> QED
  BY <1>3, <1>6, <1>7, <1>8, <1>9 DEF HeapInvariant

LEMMA CreateFailsStep ==
    ASSUME HeapInvariant, CreateFails
    PROVE  HeapInvariant'
<1>1. /\ first = NoPage /\ Allocate /\ Failure /\ first' = first
      /\ disk' \in {disk, [disk EXCEPT ![NewPageId] = EmptyPage(NoPage)]}
      /\ UNCHANGED <<heaps, iters, stored, outdated, scans>>
  BY DEF CreateFails, FailedWrite
<1>2. page_count < MaxPages /\ page_count' = page_count + 1
  BY <1>1 DEF Allocate
<1>3. /\ disk \in Disk /\ page_count \in Nat /\ Chained(disk, page_count, NoPage, <<>>)
      /\ MaxPages \in Nat /\ LiveIn(disk) = {}
  BY <1>1, HeapFacts, NoHeap
<1>4. disk' \in Disk /\ Kept(disk, disk') /\ LiveIn(disk') = {} /\ Chained(disk', page_count', NoPage, <<>>)
  <2>1. CASE disk' = disk
    <3>1. Kept(disk, disk')
      BY <2>1 DEF Kept
    <3> QED
      BY <1>2, <1>3, <2>1, <3>1, PageLeaked
  <2>2. CASE disk' = [disk EXCEPT ![NewPageId] = EmptyPage(NoPage)]
    BY <1>1, <2>2, CreateDisk
  <2> QED
    BY <1>1, <2>1, <2>2
<1>5. PagesChained' /\ Path(first)' = <<>>
  BY <1>1, <1>4, ChainedNext
<1>6. /\ Path(first) = <<>> /\ DOMAIN stored = {} /\ \A i \in Iter : iters[i] = AtEnd
      /\ \A g \in Heap : ~heaps[g].open
  BY <1>1, NoHeap
<1>7. TypeOK'
  <2>1. page_count' \in 0 .. MaxPages /\ failures' \in 0 .. MaxFailures
    BY <1>1, <1>2, <1>3, HeapAssumption DEF Failure, HeapInvariant, TypeOK
  <2> QED
    BY <1>1, <1>4, <2>1 DEF HeapInvariant, TypeOK, Disk
<1>8. StoredReadable' /\ ScansSound'
  BY <1>1, <1>4, <1>5, <1>6, StoredKept, ScansKept
<1>9. CountsExact' /\ \A g \in Heap : ~heaps'[g].open
  BY <1>1, <1>6 DEF CountsExact
<1> QED
  BY <1>5, <1>7, <1>8, <1>9 DEF HeapInvariant

\* bootstrapMetadata counts the tuples of the heap.
LEMMA TuplesCounted ==
    ASSUME HeapInvariant, Intact(Path(first))
    PROVE  LiveTuples(Path(first)) = Cardinality(LiveIn(disk))
<1> DEFINE s == Path(first)
           D == UNION {{i} \X LiveSlots(disk[s[i]]) : i \in 1 .. Len(s)}
           L == LiveIn(disk)
           f == [rid \in L |-> <<CHOOSE i \in 1 .. Len(s) : s[i] = rid[1], rid[2]>>]
<1>1. /\ Chained(disk, page_count, first, s) /\ Len(s) \in Nat
      /\ \A k \in 1 .. Len(s) : s[k] \in PageId /\ disk[s[k]] # RawPage /\ disk[s[k]] \in HeapPage
  BY HeapFacts DEF Intact
<1>2. \A i, j \in 1 .. Len(s) : s[i] = s[j] => i = j
  <2>1. \A i, j \in 1 .. Len(s) : i < j => s[i] < s[j]
    BY <1>1 DEF Chained, IsList
  <2>2. \A i, j \in 1 .. Len(s) : i # j => i < j \/ j < i
    BY <1>1
  <2>3. \A i \in 1 .. Len(s) : s[i] \in Int
    BY <1>1 DEF PageId
  <2> QED
    BY <2>1, <2>2, <2>3
<1>3. \A x : x \in D <=> \E i \in 1 .. Len(s) : \E j \in LiveSlots(disk[s[i]]) : x = <<i, j>>
  OBVIOUS
<1>4. ASSUME NEW i \in 1 .. Len(s), NEW j \in LiveSlots(disk[s[i]])
      PROVE  j \in 1 .. Capacity
  <2>1. /\ j \in 1 .. Len(disk[s[i]].slots) /\ Len(disk[s[i]].slots) \in Nat
        /\ disk[s[i]].free \in Nat /\ Capacity \in Nat
    BY <1>1, PageFields
  <2>2. Len(disk[s[i]].slots) <= Capacity - disk[s[i]].free
    BY <1>1 DEF Chained
  <2> QED
    BY <2>1, <2>2
<1>5. ASSUME NEW rid \in L
      PROVE  /\ rid[1] \in PageId /\ rid = <<rid[1], rid[2]>> /\ rid[2] \in LiveSlots(disk[rid[1]])
             /\ \E i \in 1 .. Len(s) : s[i] = rid[1]
  <2>1. /\ rid[1] \in PageId /\ rid = <<rid[1], rid[2]>> /\ rid[2] \in LiveSlots(disk[rid[1]])
        /\ disk[rid[1]] # RawPage
    BY DEF LiveIn
  <2>2. disk[rid[1]].slots # <<>>
    BY <2>1 DEF LiveSlots
  <2> QED
    BY <1>1, <2>1, <2>2 DEF Chained
<1> DEFINE at(rid) == CHOOSE i \in 1 .. Len(s) : s[i] = rid[1]
<1>6. \A rid \in L : at(rid) \in 1 .. Len(s) /\ s[at(rid)] = rid[1]
  BY <1>5
<1> HIDE DEF D, L, s, at
<1>7. \A rid \in L : f[rid] = <<at(rid), rid[2]>>
  BY DEF at
<1>8. f \in [L -> D]
  <2>1. \A rid \in L : <<at(rid), rid[2]>> \in D
    BY <1>3, <1>5, <1>6
  <2> QED
    BY <1>7, <2>1 DEF at
<1> HIDE DEF f
<1>9. \A a, b \in L : f[a] = f[b] => a = b
  <2> SUFFICES ASSUME NEW a \in L, NEW b \in L, f[a] = f[b]
               PROVE  a = b
    OBVIOUS
  <2>1. at(a) = at(b) /\ a[2] = b[2]
    BY <1>7
  <2>2. a[1] = b[1]
    BY <1>6, <2>1
  <2> QED
    BY <1>5, <2>1, <2>2
<1>10. \A x \in D : \E rid \in L : f[rid] = x
  <2> SUFFICES ASSUME NEW x \in D
               PROVE  \E rid \in L : f[rid] = x
    OBVIOUS
  <2>1. PICK i \in 1 .. Len(s) : \E j \in LiveSlots(disk[s[i]]) : x = <<i, j>>
    BY <1>3
  <2>2. PICK j \in LiveSlots(disk[s[i]]) : x = <<i, j>>
    BY <2>1
  <2>3. <<s[i], j>> \in L
    BY <1>1, <1>4 DEF L, LiveIn
  <2>4. at(<<s[i], j>>) = i
    BY <1>2, <1>6, <2>3
  <2> QED
    BY <1>7, <2>2, <2>3, <2>4
<1>11. f \in Bijection(L, D)
  BY <1>8, <1>9, <1>10 DEF Bijection, Injection, Surjection, IsInjective
<1>12. IsFiniteSet(L)
  BY LiveInFinite DEF L
<1>13. Cardinality(D) = Cardinality(L)
  BY <1>11, <1>12, FS_Bijection, Zenon DEF ExistsBijection
<1> QED
  BY <1>13 DEF LiveTuples, D, L, s

LEMMA OpenStep ==
    ASSUME HeapInvariant, NEW h \in Heap, Open(h)
    PROVE  HeapInvariant'
<1> DEFINE s == Path(first)
           object == [open |-> TRUE, pages |-> Len(s), tuples |-> LiveTuples(s)]
<1>1. /\ first # NoPage /\ Intact(s) /\ heaps' = [heaps EXCEPT ![h] = object]
      /\ outdated' = outdated \ {h}
      /\ UNCHANGED <<disk, page_count, failures, first, iters, stored, scans>>
  BY DEF Open, diskVars
<1>2. Chained(disk, page_count, first, s) /\ Len(s) \in Nat
  BY HeapFacts
<1>3. PagesChained' /\ Path(first)' = s
  BY <1>1, <1>2, ChainedNext
<1>4. LiveTuples(s) = Cardinality(LiveIn(disk)) /\ LiveTuples(s) \in Nat
  BY <1>1, TuplesCounted, LiveInFinite
<1> HIDE DEF s
<1>5. object \in [open : {TRUE}, pages : Nat, tuples : Int]
  BY <1>2, <1>4
<1>6. TypeOK'
  <2>1. heaps' \in [Heap -> {Closed} \cup [open : {TRUE}, pages : Nat, tuples : Int]]
    BY <1>1, <1>5 DEF HeapInvariant, TypeOK
  <2> QED
    BY <1>1, <2>1 DEF HeapInvariant, TypeOK
<1>7. Kept(disk, disk')
  BY <1>1 DEF Kept
<1>8. StoredReadable' /\ ScansSound'
  BY <1>1, <1>3, <1>7, StoredKept, ScansKept DEF s
<1>9. CountsExact'
  <2> SUFFICES ASSUME NEW g \in Heap \ outdated', heaps'[g].open
               PROVE  heaps'[g].pages = Len(s) /\ heaps'[g].tuples = Cardinality(LiveIn(disk))
    BY <1>1, <1>3, LiveInIs DEF CountsExact
  <2>1. CASE g = h
    <3>1. heaps'[g] = object
      BY <1>1, <2>1 DEF HeapInvariant, TypeOK
    <3> QED
      BY <1>4, <3>1
  <2>2. CASE g # h
    <3>1. heaps'[g] = heaps[g] /\ g \in Heap \ outdated
      BY <1>1, <2>2 DEF HeapInvariant, TypeOK
    <3> QED
      BY <3>1, LiveInIs DEF HeapInvariant, CountsExact, s
  <2> QED
    BY <2>1, <2>2
<1>10. \A g \in Heap : heaps'[g].open => first' # NoPage
  BY <1>1
<1> QED
  BY <1>3, <1>6, <1>8, <1>9, <1>10 DEF HeapInvariant

\* The page insertTuple stops at.
LEMMA RoomAt ==
    ASSUME HeapInvariant, NEW tuple, NEW k \in 1 .. Len(Path(first)), HasRoom(Path(first), k, tuple)
    PROVE  disk[Path(first)[k]] # RawPage /\ Fits(disk[Path(first)[k]], tuple)
<1> DEFINE s == Path(first)
           t == SubSeq(s, 1, k)
<1>1. s \in Seq(PageId) /\ Len(s) \in Nat
  BY HeapFacts
<1> HIDE DEF s
<1>2. Len(t) = k /\ t[k] = s[k] /\ k \in 1 .. Len(t)
  BY <1>1 DEF s
<1> HIDE DEF t
<1>3. disk[s[k]] # RawPage
  BY <1>2 DEF HasRoom, Intact, s, t
<1> QED
  BY <1>3 DEF HasRoom, s

\* The tuple is written, and acknowledged.
LEMMA InsertTupleStep ==
    ASSUME HeapInvariant, NEW h \in Heap, NEW tuple \in Tuple, InsertTuple(h, tuple)
    PROVE  HeapInvariant'
<1> DEFINE s == Path(first)
<1>1. /\ heaps[h].open /\ heaps' = [heaps EXCEPT ![h].tuples = @ + 1]
      /\ UNCHANGED <<page_count, failures, first, iters, scans>>
  BY DEF InsertTuple
<1>2. PICK k \in 1 .. Len(s) :
          /\ HasRoom(s, k, tuple)
          /\ disk' = [disk EXCEPT ![s[k]] = WithTuple(@, tuple)]
          /\ Acknowledge(h, <<s[k], SlotFor(disk[s[k]])>>, tuple)
  BY DEF InsertTuple
<1> DEFINE q == s[k]
           slot == SlotFor(disk[q])
           rid == <<q, slot>>
<1>3. /\ disk' \in Disk /\ PagesChained' /\ Path(first)' = s
      /\ Kept(disk, disk')
      /\ q \in PageId /\ slot \in 1 .. Capacity
      /\ rid \notin LiveIn(disk) /\ LiveIn(disk') = LiveIn(disk) \cup {rid}
      /\ rid \notin DOMAIN stored
      /\ disk'[q] # RawPage /\ slot \in LiveSlots(disk'[q]) /\ disk'[q].slots[slot] = tuple
  <2>1. disk[s[k]] # RawPage /\ Fits(disk[s[k]], tuple)
    BY <1>2, RoomAt
  <2> QED
    BY <1>1, <1>2, <2>1, PutDisk
<1>4. /\ DOMAIN stored' = DOMAIN stored \cup {rid}
      /\ \A r \in DOMAIN stored' : stored'[r] = IF r = rid THEN tuple ELSE stored[r]
      /\ outdated' = outdated \cup (Heap \ {h})
  BY <1>2 DEF Acknowledge
<1> HIDE DEF slot, s
<1>5. rid \in RID
  BY <1>3 DEF RID
<1>6. heaps[h] \in [open : {TRUE}, pages : Nat, tuples : Int]
  <2>1. heaps[h] \in {Closed} \cup [open : {TRUE}, pages : Nat, tuples : Int]
    BY DEF HeapInvariant, TypeOK
  <2>2. heaps[h] # Closed
    BY <1>1 DEF Closed
  <2> QED
    BY <2>1, <2>2
<1>7. /\ heaps' \in [Heap -> {Closed} \cup [open : {TRUE}, pages : Nat, tuples : Int]]
      /\ heaps'[h].open /\ heaps'[h].pages = heaps[h].pages /\ heaps'[h].tuples = heaps[h].tuples + 1
      /\ \A g \in Heap : g # h => heaps'[g] = heaps[g]
  <2>1. [heaps[h] EXCEPT !.tuples = @ + 1] \in [open : {TRUE}, pages : Nat, tuples : Int]
    <3>1. ASSUME NEW r \in [open : {TRUE}, pages : Nat, tuples : Int]
          PROVE  [r EXCEPT !.tuples = @ + 1] \in [open : {TRUE}, pages : Nat, tuples : Int]
      <4>1. r.tuples + 1 \in Int
        OBVIOUS
      <4> QED
        BY <4>1
    <3> QED
      BY <1>6, <3>1
  <2>2. heaps' = [heaps EXCEPT ![h] = [heaps[h] EXCEPT !.tuples = @ + 1]]
    BY <1>1
  <2> QED
    BY <1>6, <2>1, <2>2 DEF HeapInvariant, TypeOK
<1>8. TypeOK'
  <2>1. DOMAIN stored' \subseteq RID /\ \A r \in DOMAIN stored' : stored'[r] \in Tuple
    BY <1>4, <1>5, HeapFacts
  <2>2. outdated' \subseteq Heap
    BY <1>4 DEF HeapInvariant, TypeOK
  <2> QED
    BY <1>1, <1>3, <1>7, <2>1, <2>2 DEF HeapInvariant, TypeOK, Disk
<1>9. StoredReadable'
  <2>1. \A r \in DOMAIN stored' :
              \/ r \in DOMAIN stored /\ stored'[r] = stored[r]
              \/ /\ disk'[r[1]] # RawPage
                 /\ r[2] \in LiveSlots(disk'[r[1]])
                 /\ disk'[r[1]].slots[r[2]] = stored'[r]
    BY <1>3, <1>4
  <2> QED
    BY <1>3, <2>1, StoredKept
<1>10. ScansSound'
  <2>1. \A r \in DOMAIN stored : r \in DOMAIN stored' /\ stored'[r] = stored[r]
    BY <1>3, <1>4
  <2> QED
    BY <1>1, <1>3, <2>1, ScansKept DEF s
<1>11. CountsExact'
  <2> SUFFICES ASSUME NEW g \in Heap \ outdated', heaps'[g].open
               PROVE  heaps'[g].pages = Len(s) /\ heaps'[g].tuples = Cardinality(LiveIn(disk'))
    BY <1>3, LiveInIs DEF CountsExact
  <2>1. g = h /\ h \notin outdated
    BY <1>4
  <2>2. heaps[h].pages = Len(s) /\ heaps[h].tuples = Cardinality(LiveIn(disk))
    BY <1>1, <2>1, LiveInIs DEF HeapInvariant, CountsExact, s
  <2>3. Cardinality(LiveIn(disk')) = Cardinality(LiveIn(disk)) + 1
    BY <1>3, LiveInFinite, FS_AddElement
  <2> QED
    BY <1>7, <2>1, <2>2, <2>3
<1>12. \A g \in Heap : heaps'[g].open => first' # NoPage
  BY <1>1 DEF HeapInvariant
<1> QED
  BY <1>3, <1>8, <1>9, <1>10, <1>11, <1>12 DEF HeapInvariant

LEMMA InsertTupleFailsStep ==
    ASSUME HeapInvariant, NEW h \in Heap, NEW tuple \in Tuple, InsertTupleFails(h, tuple)
    PROVE  HeapInvariant'
<1> DEFINE s == Path(first)
<1>1. /\ Failure /\ outdated' = Heap
      /\ UNCHANGED <<page_count, first, heaps, iters, stored, scans>>
  BY DEF InsertTupleFails, Doubt
<1>2. PICK k \in 1 .. Len(s) :
          /\ HasRoom(s, k, tuple)
          /\ disk' = [disk EXCEPT ![s[k]] = WithTuple(@, tuple)]
  BY DEF InsertTupleFails
<1>3. disk' \in Disk /\ PagesChained' /\ Path(first)' = s /\ Kept(disk, disk')
  BY <1>1, <1>2, RoomAt, PutDisk
<1>4. TypeOK'
  <2>1. failures' \in 0 .. MaxFailures
    BY <1>1, HeapAssumption DEF Failure, HeapInvariant, TypeOK
  <2> QED
    BY <1>1, <1>3, <2>1 DEF HeapInvariant, TypeOK, Disk
<1>5. StoredReadable' /\ ScansSound'
  BY <1>1, <1>3, StoredKept, ScansKept
<1>6. CountsExact'
  BY <1>1 DEF CountsExact
<1>7. \A g \in Heap : heaps'[g].open => first' # NoPage
  BY <1>1 DEF HeapInvariant
<1> QED
  BY <1>3, <1>4, <1>5, <1>6, <1>7 DEF HeapInvariant

\* What MustGrow says of the state.
LEMMA GrowFacts ==
    ASSUME HeapInvariant, NEW h \in Heap, NEW tuple \in Tuple, MustGrow(h, tuple)
    PROVE  /\ heaps[h].open /\ Path(first) # <<>> /\ Intact(Path(first))
           /\ page_count < MaxPages /\ page_count' = NewPageId
           /\ page_count' \in 0 .. MaxPages
           /\ LastPage \in PageId
<1>1. heaps[h].open /\ Intact(Path(first)) /\ page_count < MaxPages /\ page_count' = NewPageId
  BY DEF MustGrow, Allocate, NewPageId
<1>2. Path(first) # <<>>
  BY <1>1, HeapFacts DEF HeapInvariant
<1>3. page_count' \in 0 .. MaxPages
  BY <1>1, HeapFacts DEF NewPageId
<1>4. LastPage \in PageId
  <2>1. Path(first) \in Seq(PageId)
    BY HeapFacts
  <2>2. Len(Path(first)) \in 1 .. Len(Path(first))
    BY <1>2, <2>1
  <2> QED
    BY <2>2, HeapFacts DEF LastPage
<1> QED
  BY <1>1, <1>2, <1>3, <1>4

\* The new page with the tuple in its first slot.
LEMMA NewPageIs ==
    ASSUME NEW last \in PageId, NEW tuple \in Tuple, Fits(EmptyPage(last), tuple)
    PROVE  LET image == WithTuple(EmptyPage(last), tuple)
           IN  /\ image \in HeapPage /\ image # RawPage /\ image.prev = last /\ image.next = NoPage
               /\ Len(image.slots) <= Capacity - image.free
               /\ LiveSlots(image) = {1} /\ image.slots[1] = tuple /\ 1 \in 1 .. Capacity
<1> DEFINE empty == EmptyPage(last)
           image == WithTuple(empty, tuple)
<1>1. /\ empty \in HeapPage /\ empty.prev = last /\ empty.next = NoPage
      /\ empty.slots = <<>> /\ empty.free = Capacity /\ LiveSlots(empty) = {} /\ SlotFor(empty) = 1
  BY EmptyPageIs
<1>2. Len(empty.slots) <= Capacity - empty.free
  BY <1>1, HeapAssumption
<1> HIDE DEF empty
<1>3. /\ image \in HeapPage /\ image.prev = empty.prev /\ image.next = empty.next
      /\ Len(image.slots) <= Capacity - image.free
      /\ SlotFor(empty) \in 1 .. Capacity
      /\ LiveSlots(image) = LiveSlots(empty) \cup {SlotFor(empty)}
      /\ image.slots[SlotFor(empty)] = tuple
  BY <1>1, <1>2, TupleAdded DEF empty
<1> QED
  BY <1>1, <1>3, HeapAssumption DEF empty

\* On the disk a growth that stops after the link differs from one that
\* completes in the new page only.
LEMMA LinkedIs ==
    ASSUME HeapInvariant, NEW h \in Heap, NEW tuple \in Tuple, MustGrow(h, tuple)
    PROVE  Linked(NewPageId) = [Linked(NewPageId) EXCEPT ![NewPageId] = RawPage]
<1>1. /\ Path(first) # <<>> /\ page_count < MaxPages /\ LastPage \in PageId
  BY GrowFacts
<1>2. /\ NewPageId \in PageId /\ disk[NewPageId] = RawPage /\ LastPage # NewPageId
  <2>1. Path(first) \in Seq(PageId)
    BY HeapFacts
  <2>2. Len(Path(first)) \in 1 .. Len(Path(first))
    BY <1>1, <2>1
  <2> QED
    BY <1>1, <2>2, NextPageRaw DEF LastPage
<1>3. disk \in [PageId -> HeapPage \cup {RawPage}]
  BY HeapFacts DEF Disk
<1> QED
  BY <1>1, <1>2, <1>3 DEF Linked

\* A heap that has grown is still a heap: the pages, and the tuples that were
\* acknowledged before.
LEMMA GrownHeap ==
    ASSUME HeapInvariant, UNCHANGED <<iters, scans>>, Kept(disk, disk'),
           Path(first)' = Path(first) \/ Path(first)' = Append(Path(first), NewPageId),
           \A rid \in DOMAIN stored : rid \in DOMAIN stored' /\ stored'[rid] = stored[rid],
           \A rid \in DOMAIN stored' :
              \/ rid \in DOMAIN stored
              \/ /\ disk'[rid[1]] # RawPage
                 /\ rid[2] \in LiveSlots(disk'[rid[1]])
                 /\ disk'[rid[1]].slots[rid[2]] = stored'[rid]
    PROVE  StoredReadable' /\ ScansSound'
<1>1. Path(first) \in Seq(PageId) /\ Len(Path(first)) \in Nat
  BY HeapFacts
<1>2. \A k \in 1 .. Len(Path(first)) :
              \E j \in 1 .. Len(Path(first)') : Path(first)'[j] = Path(first)[k]
  <2>1. CASE Path(first)' = Path(first)
    BY <2>1
  <2>2. CASE Path(first)' = Append(Path(first), NewPageId)
    BY <1>1, <2>2
  <2> QED
    BY <2>1, <2>2
<1> QED
  BY <1>2, StoredKept, ScansKept

LEMMA InsertGrowsStep ==
    ASSUME HeapInvariant, NEW h \in Heap, NEW tuple \in Tuple, InsertGrows(h, tuple)
    PROVE  HeapInvariant'
<1> DEFINE s == Path(first)
           image == WithTuple(EmptyPage(LastPage), tuple)
           rid == <<NewPageId, 1>>
<1>1. /\ MustGrow(h, tuple) /\ Fits(EmptyPage(LastPage), tuple)
      /\ disk' = [Linked(NewPageId) EXCEPT ![NewPageId] = image]
      /\ Acknowledge(h, rid, tuple)
      /\ heaps' = [heaps EXCEPT ![h].pages = @ + 1, ![h].tuples = @ + 1]
      /\ UNCHANGED <<failures, first, iters, scans>>
  BY DEF InsertGrows
<1>2. /\ heaps[h].open /\ s # <<>> /\ Intact(s) /\ page_count < MaxPages /\ page_count' = NewPageId
      /\ page_count' \in 0 .. MaxPages /\ LastPage \in PageId
  BY <1>1, GrowFacts
<1>3. /\ image \in HeapPage /\ image # RawPage /\ image.prev = LastPage /\ image.next = NoPage
      /\ Len(image.slots) <= Capacity - image.free
      /\ LiveSlots(image) = {1} /\ image.slots[1] = tuple /\ 1 \in 1 .. Capacity
  BY <1>1, <1>2, NewPageIs
<1>4. /\ NewPageId \in PageId /\ disk[NewPageId] = RawPage
      /\ \A r \in DOMAIN stored : r[1] # NewPageId
  BY <1>2, NextPageRaw
<1> HIDE DEF image
<1>5. /\ disk' \in Disk /\ PagesChained' /\ Path(first)' = Append(s, NewPageId)
      /\ Kept(disk, disk') /\ disk'[NewPageId] = image
      /\ \A r \in PageId \X (1 .. Capacity) :
            r \in LiveIn(disk') <=>
               \/ r \in LiveIn(disk)
               \/ r[1] = NewPageId /\ image # RawPage /\ r[2] \in LiveSlots(image)
  BY <1>1, <1>2, <1>3, GrowDisk
<1>6. /\ DOMAIN stored' = DOMAIN stored \cup {rid}
      /\ \A r \in DOMAIN stored' : stored'[r] = IF r = rid THEN tuple ELSE stored[r]
      /\ outdated' = outdated \cup (Heap \ {h})
  BY <1>1 DEF Acknowledge
<1>7. rid \in RID /\ rid[1] = NewPageId /\ rid[2] = 1 /\ rid \notin DOMAIN stored
  BY <1>4 DEF RID
<1>8. LiveIn(disk') = LiveIn(disk) \cup {rid} /\ rid \notin LiveIn(disk)
  <2>1. \A d : LiveIn(d) \subseteq PageId \X (1 .. Capacity)
    BY DEF LiveIn
  <2>2. rid \in PageId \X (1 .. Capacity)
    BY <1>3, <1>4
  <2>3. ASSUME NEW r \in PageId \X (1 .. Capacity)
        PROVE  r \in LiveIn(disk') <=> r \in LiveIn(disk) \/ r = rid
    BY <1>3, <1>5, <1>7
  <2>4. rid \notin LiveIn(disk)
    BY <1>4 DEF LiveIn
  <2> QED
    BY <2>1, <2>2, <2>3, <2>4
<1> HIDE DEF rid
<1>9. heaps[h] \in [open : {TRUE}, pages : Nat, tuples : Int]
  <2>1. heaps[h] \in {Closed} \cup [open : {TRUE}, pages : Nat, tuples : Int]
    BY DEF HeapInvariant, TypeOK
  <2>2. heaps[h] # Closed
    BY <1>2 DEF Closed
  <2> QED
    BY <2>1, <2>2
<1>10. /\ heaps' \in [Heap -> {Closed} \cup [open : {TRUE}, pages : Nat, tuples : Int]]
       /\ heaps'[h].pages = heaps[h].pages + 1 /\ heaps'[h].tuples = heaps[h].tuples + 1
       /\ \A g \in Heap : g # h => heaps'[g] = heaps[g]
  <2>1. ASSUME NEW r \in [open : {TRUE}, pages : Nat, tuples : Int]
        PROVE  LET r2 == [r EXCEPT !.pages = @ + 1, !.tuples = @ + 1]
               IN  /\ r2 \in [open : {TRUE}, pages : Nat, tuples : Int]
                   /\ r2.pages = r.pages + 1 /\ r2.tuples = r.tuples + 1
    <3>1. r.tuples + 1 \in Int /\ r.pages + 1 \in Nat
      OBVIOUS
    <3> QED
      BY <3>1
  <2>2. heaps' = [heaps EXCEPT ![h] = [heaps[h] EXCEPT !.pages = @ + 1, !.tuples = @ + 1]]
    BY <1>1, <1>9 DEF HeapInvariant, TypeOK
  <2> QED
    BY <1>9, <2>1, <2>2 DEF HeapInvariant, TypeOK
<1>11. TypeOK'
  <2>1. DOMAIN stored' \subseteq RID /\ \A r \in DOMAIN stored' : stored'[r] \in Tuple
    BY <1>6, <1>7, HeapFacts
  <2>2. outdated' \subseteq Heap
    BY <1>6 DEF HeapInvariant, TypeOK
  <2> QED
    BY <1>1, <1>2, <1>5, <1>10, <2>1, <2>2 DEF HeapInvariant, TypeOK, Disk
<1>12. StoredReadable' /\ ScansSound'
  <2>1. \A r \in DOMAIN stored : r \in DOMAIN stored' /\ stored'[r] = stored[r]
    BY <1>6, <1>7
  <2>2. \A r \in DOMAIN stored' :
              \/ r \in DOMAIN stored
              \/ /\ disk'[r[1]] # RawPage
                 /\ r[2] \in LiveSlots(disk'[r[1]])
                 /\ disk'[r[1]].slots[r[2]] = stored'[r]
    BY <1>3, <1>5, <1>6, <1>7
  <2> QED
    BY <1>1, <1>5, <2>1, <2>2, GrownHeap
<1>13. CountsExact'
  <2> SUFFICES ASSUME NEW g \in Heap \ outdated', heaps'[g].open
               PROVE  heaps'[g].pages = Len(Path(first)') /\ heaps'[g].tuples = Cardinality(LiveIn(disk'))
    BY LiveInIs DEF CountsExact
  <2>1. g = h /\ h \notin outdated
    BY <1>6
  <2>2. heaps[h].pages = Len(s) /\ heaps[h].tuples = Cardinality(LiveIn(disk))
    BY <1>2, <2>1, LiveInIs DEF HeapInvariant, CountsExact
  <2>3. Cardinality(LiveIn(disk')) = Cardinality(LiveIn(disk)) + 1
    BY <1>8, LiveInFinite, FS_AddElement
  <2>4. Len(Path(first)') = Len(s) + 1
    BY <1>5, HeapFacts
  <2> QED
    BY <1>10, <2>1, <2>2, <2>3, <2>4
<1>14. \A g \in Heap : heaps'[g].open => first' # NoPage
  <2>1. first # NoPage
    BY <1>2 DEF HeapInvariant
  <2> QED
    BY <1>1, <2>1
<1> QED
  BY <1>5, <1>11, <1>12, <1>13, <1>14 DEF HeapInvariant

\* Growths that end early leave the counters in doubt and the rest as it was.
LEMMA DoubtfulGrowth ==
    ASSUME HeapInvariant, UNCHANGED <<first, heaps, iters, stored, scans>>, Doubt,
           page_count' \in 0 .. MaxPages, failures' \in 0 .. MaxFailures,
           disk' \in Disk, PagesChained', Kept(disk, disk'),
           Path(first)' = Path(first) \/ Path(first)' = Append(Path(first), NewPageId)
    PROVE  HeapInvariant'
<1>1. TypeOK'
  BY DEF HeapInvariant, TypeOK, Disk, Doubt
<1>2. StoredReadable' /\ ScansSound'
  BY GrownHeap
<1>3. CountsExact' /\ \A g \in Heap : heaps'[g].open => first' # NoPage
  BY DEF CountsExact, Doubt, HeapInvariant
<1> QED
  BY <1>1, <1>2, <1>3 DEF HeapInvariant

LEMMA InsertTooLargeStep ==
    ASSUME HeapInvariant, NEW h \in Heap, NEW tuple \in Tuple, InsertTooLarge(h, tuple)
    PROVE  HeapInvariant'
<1>1. /\ MustGrow(h, tuple) /\ disk' = Linked(NewPageId) /\ Doubt
      /\ UNCHANGED <<failures, first, heaps, iters, stored, scans>>
  BY DEF InsertTooLarge
<1>2. /\ Path(first) # <<>> /\ Intact(Path(first)) /\ page_count < MaxPages /\ page_count' = NewPageId
      /\ page_count' \in 0 .. MaxPages
  BY <1>1, GrowFacts
<1>3. /\ disk' \in Disk /\ PagesChained' /\ Path(first)' = Append(Path(first), NewPageId)
      /\ Kept(disk, disk')
  BY <1>1, <1>2, LinkedIs, GrowDisk
<1>4. failures' \in 0 .. MaxFailures
  BY <1>1 DEF HeapInvariant, TypeOK
<1> QED
  BY <1>1, <1>2, <1>3, <1>4, DoubtfulGrowth

LEMMA InsertGrowFailsStep ==
    ASSUME HeapInvariant, NEW h \in Heap, NEW tuple \in Tuple, InsertGrowFails(h, tuple)
    PROVE  HeapInvariant'
<1> DEFINE image == WithTuple(EmptyPage(LastPage), tuple)
<1>1. /\ MustGrow(h, tuple) /\ Failure /\ Doubt
      /\ \/ disk' = disk
         \/ disk' = Linked(NewPageId)
         \/ Fits(EmptyPage(LastPage), tuple) /\ disk' = [Linked(NewPageId) EXCEPT ![NewPageId] = image]
      /\ UNCHANGED <<first, heaps, iters, stored, scans>>
  BY DEF InsertGrowFails
<1>2. /\ Path(first) # <<>> /\ Intact(Path(first)) /\ page_count < MaxPages /\ page_count' = NewPageId
      /\ page_count' \in 0 .. MaxPages /\ LastPage \in PageId
  BY <1>1, GrowFacts
<1>3. /\ disk' \in Disk /\ PagesChained' /\ Kept(disk, disk')
      /\ Path(first)' = Path(first) \/ Path(first)' = Append(Path(first), NewPageId)
  <2>1. CASE disk' = disk
    <3>1. Chained(disk', page_count', first', Path(first)) /\ disk' \in Disk
      BY <1>1, <1>2, <2>1, HeapFacts, PageLeaked DEF NewPageId
    <3>2. PagesChained' /\ Path(first)' = Path(first)
      BY <3>1, ChainedNext
    <3> QED
      BY <2>1, <3>1, <3>2 DEF Kept
  <2>2. CASE disk' = Linked(NewPageId)
    BY <1>1, <1>2, <2>2, LinkedIs, GrowDisk
  <2>3. CASE Fits(EmptyPage(LastPage), tuple) /\ disk' = [Linked(NewPageId) EXCEPT ![NewPageId] = image]
    <3>1. /\ image \in HeapPage /\ image # RawPage /\ image.prev = LastPage /\ image.next = NoPage
          /\ Len(image.slots) <= Capacity - image.free
      BY <1>2, <2>3, NewPageIs
    <3> HIDE DEF image
    <3> QED
      BY <1>1, <1>2, <2>3, <3>1, GrowDisk
  <2> QED
    BY <1>1, <2>1, <2>2, <2>3
<1>4. failures' \in 0 .. MaxFailures
  BY <1>1, HeapAssumption DEF Failure, HeapInvariant, TypeOK
<1> QED
  BY <1>1, <1>2, <1>3, <1>4, DoubtfulGrowth

-----------------------------------------------------------------------------
(* Deletes. *)

\* deleteTuple takes one tuple from a page of the heap.
LEMMA CutDisk ==
    ASSUME HeapInvariant, NEW p \in PageId, disk[p] # RawPage, NEW slot \in LiveSlots(disk[p]),
           disk' = [disk EXCEPT ![p] = WithoutTuple(@, slot)], UNCHANGED <<page_count, first>>
    PROVE  /\ disk' \in Disk /\ PagesChained' /\ Path(first)' = Path(first)
           /\ <<p, slot>> \in LiveIn(disk) /\ LiveIn(disk') = LiveIn(disk) \ {<<p, slot>>}
           /\ disk'[p] # RawPage /\ disk'[p].next = disk[p].next
           /\ LiveSlots(disk'[p]) = LiveSlots(disk[p]) \ {slot}
           /\ \A i \in LiveSlots(disk'[p]) : disk'[p].slots[i] = disk[p].slots[i]
           /\ \A q \in PageId : q # p => disk'[q] = disk[q]
<1> DEFINE s == Path(first)
           image == WithoutTuple(disk[p], slot)
<1>1. /\ disk \in Disk /\ Chained(disk, page_count, first, s) /\ disk[p] \in HeapPage
  BY HeapFacts
<1>2. /\ image \in HeapPage /\ image.prev = disk[p].prev /\ image.next = disk[p].next
      /\ Len(image.slots) = Len(disk[p].slots) /\ image.free = disk[p].free
      /\ LiveSlots(image) = LiveSlots(disk[p]) \ {slot}
      /\ \A i \in LiveSlots(image) : image.slots[i] = disk[p].slots[i]
  BY <1>1, TupleRemoved
<1>3. disk' = [disk EXCEPT ![p] = image]
  OBVIOUS
<1> HIDE DEF image
<1>4. slot \in 1 .. Len(disk[p].slots) /\ Len(disk[p].slots) <= Capacity - disk[p].free
  BY <1>1 DEF LiveSlots, Chained
<1>5. disk' \in Disk /\ Chained(disk', page_count', first', s)
  <2>1. \E j \in 1 .. Len(s) : p = s[j]
    BY <1>1, <1>4 DEF Chained
  <2> HIDE DEF s
  <2>2. Len(image.slots) <= Capacity - image.free
    BY <1>2, <1>4
  <2>3. disk \in Disk /\ Chained(disk, page_count, first, s)
    BY <1>1 DEF s
  <2>4. image \in HeapPage /\ image.prev = disk[p].prev /\ image.next = disk[p].next
    BY <1>2
  <2>5. Chained([disk EXCEPT ![p] = image], page_count, first, s) /\ [disk EXCEPT ![p] = image] \in Disk
    BY <2>1, <2>2, <2>3, <2>4, PageRewritten
  <2> QED
    BY <1>3, <2>5
<1>6. PagesChained' /\ Path(first)' = s
  BY <1>5, ChainedNext
<1>7. disk'[p] = image /\ \A q \in PageId : q # p => disk'[q] = disk[q]
  BY <1>1, <1>3 DEF Disk
<1>8. image # RawPage
  BY <1>2, HeapAssumption
<1>9. <<p, slot>> \in LiveIn(disk)
  <2>1. slot \in 1 .. Capacity
    BY <1>1, <1>4, PageFields
  <2> QED
    BY <2>1 DEF LiveIn
<1>10. LiveIn(disk') = LiveIn(disk) \ {<<p, slot>>}
  <2>1. ASSUME NEW rid \in PageId \X (1 .. Capacity)
        PROVE  rid \in LiveIn(disk') <=> rid \in LiveIn(disk) /\ rid # <<p, slot>>
    <3>1. CASE rid[1] = p
      <4>1. rid = <<p, slot>> <=> rid[2] = slot
        BY <3>1
      <4> QED
        BY <1>2, <1>7, <1>8, <3>1, <4>1 DEF LiveIn
    <3>2. CASE rid[1] # p
      BY <1>7, <3>2 DEF LiveIn
    <3> QED
      BY <3>1, <3>2
  <2>2. \A d : LiveIn(d) \subseteq PageId \X (1 .. Capacity)
    BY DEF LiveIn
  <2> QED
    BY <2>1, <2>2
<1> QED
  BY <1>2, <1>5, <1>6, <1>7, <1>8, <1>9, <1>10

\* The history of a scan.
Scan == [seen : SUBSET RID, again : SUBSET RID, must : SUBSET RID, cut : BOOLEAN]

\* No acknowledged tuple but the deleted one is lost, and no scan waits for
\* that one.
LEMMA DeletesFacts ==
    ASSUME HeapInvariant, NEW h \in Heap, NEW p \in PageId, NEW slot, Deletes(h, p, slot)
    PROVE  /\ disk' \in Disk /\ PagesChained' /\ Path(first)' = Path(first)
           /\ <<p, slot>> \in LiveIn(disk) /\ LiveIn(disk') = LiveIn(disk) \ {<<p, slot>>}
           /\ heaps[h].open /\ UNCHANGED <<page_count, first, iters>>
           /\ DOMAIN stored' \subseteq RID /\ \A rid \in DOMAIN stored' : stored'[rid] \in Tuple
           /\ scans' \in [Iter -> Scan]
           /\ StoredReadable' /\ ScansSound'
<1> DEFINE gone == <<p, slot>>
<1>1. /\ heaps[h].open /\ disk[p] # RawPage /\ slot \in LiveSlots(disk[p])
      /\ disk' = [disk EXCEPT ![p] = WithoutTuple(@, slot)]
      /\ DOMAIN stored' = DOMAIN stored \ {gone}
      /\ \A rid \in DOMAIN stored' : stored'[rid] = stored[rid]
      /\ scans' = [i \in Iter |-> [scans[i] EXCEPT !.must = @ \ {gone}]]
      /\ UNCHANGED <<page_count, first, iters>>
  BY DEF Deletes, Retract
<1>2. /\ disk' \in Disk /\ PagesChained' /\ Path(first)' = Path(first)
      /\ gone \in LiveIn(disk) /\ LiveIn(disk') = LiveIn(disk) \ {gone}
      /\ disk'[p] # RawPage /\ disk'[p].next = disk[p].next
      /\ LiveSlots(disk'[p]) = LiveSlots(disk[p]) \ {slot}
      /\ \A i \in LiveSlots(disk'[p]) : disk'[p].slots[i] = disk[p].slots[i]
      /\ \A q \in PageId : q # p => disk'[q] = disk[q]
  BY <1>1, CutDisk
<1>3. DOMAIN stored' \subseteq RID /\ \A rid \in DOMAIN stored' : stored'[rid] \in Tuple
  BY <1>1, HeapFacts
<1>4. ASSUME NEW i \in Iter
      PROVE  /\ scans'[i] \in Scan
             /\ scans'[i].seen = scans[i].seen /\ scans'[i].cut = scans[i].cut
             /\ scans'[i].again = scans[i].again
             /\ scans'[i].must = scans[i].must \ {gone}
  <2>1. ASSUME NEW r \in Scan
        PROVE  LET r2 == [r EXCEPT !.must = @ \ {gone}]
               IN  /\ r2 \in Scan
                   /\ r2.seen = r.seen /\ r2.cut = r.cut /\ r2.again = r.again
                   /\ r2.must = r.must \ {gone}
    <3>1. r.must \ {gone} \in SUBSET RID
      BY DEF Scan
    <3> QED
      BY <3>1 DEF Scan
  <2>2. scans[i] \in Scan
    BY DEF HeapInvariant, TypeOK, Scan
  <2>3. scans'[i] = [scans[i] EXCEPT !.must = @ \ {gone}]
    BY <1>1
  <2> QED
    BY <2>1, <2>2, <2>3
<1>5. scans' \in [Iter -> Scan]
  BY <1>1, <1>4
<1>6. StoredReadable'
  <2> SUFFICES ASSUME NEW rid \in DOMAIN stored'
               PROVE  /\ disk'[rid[1]] # RawPage
                      /\ rid[2] \in LiveSlots(disk'[rid[1]])
                      /\ disk'[rid[1]].slots[rid[2]] = stored'[rid]
    BY DEF StoredReadable, LiveSlots
  <2>1. /\ rid[1] \in PageId /\ rid = <<rid[1], rid[2]>> /\ disk[rid[1]] # RawPage
        /\ rid[2] \in LiveSlots(disk[rid[1]]) /\ disk[rid[1]].slots[rid[2]] = stored'[rid] /\ rid # gone
    BY <1>1, StoredPlaces
  <2>2. CASE rid[1] = p
    <3>1. rid[2] # slot
      BY <2>1, <2>2
    <3> QED
      BY <1>2, <2>1, <2>2, <3>1
  <2>3. CASE rid[1] # p
    BY <1>2, <2>1, <2>3
  <2> QED
    BY <2>2, <2>3
<1>7. ScansSound'
  <2> SUFFICES ASSUME NEW i \in Iter
               PROVE  LET it == iters[i]
                          must == scans'[i].must
                      IN  /\ must \subseteq DOMAIN stored' /\ scans'[i].again = {}
                          /\ it = AtEnd => scans'[i].cut \/ must \subseteq scans'[i].seen
                          /\ it # AtEnd =>
                                /\ \E k \in 1 .. Len(Path(first)') : it.page = Path(first)'[k]
                                /\ disk'[it.page] # RawPage /\ it.slot \in LiveSlots(it.cached)
                                /\ it.cached.next \in {NoPage, disk'[it.page].next}
                                /\ \A rid \in scans'[i].seen : Passed(it, rid)
                                /\ \A rid \in must : rid[1] = it.page =>
                                      rid[2] \in LiveSlots(it.cached) /\ it.cached.slots[rid[2]] = stored'[rid]
                                /\ \A rid \in must \ scans'[i].seen :
                                      \/ rid[1] = it.page /\ rid[2] > it.slot
                                      \/ rid[1] > it.page /\ it.cached.next # NoPage
    <3>1. iters' = iters
      BY <1>1
    <3> QED
      BY <3>1 DEF ScansSound
  <2> DEFINE it == iters[i]
             must == scans[i].must
  <2>1. /\ must \subseteq DOMAIN stored /\ scans[i].again = {}
        /\ it = AtEnd => scans[i].cut \/ must \subseteq scans[i].seen
        /\ it # AtEnd =>
              /\ \E k \in 1 .. Len(Path(first)) : it.page = Path(first)[k]
              /\ disk[it.page] # RawPage /\ it.slot \in LiveSlots(it.cached)
              /\ it.cached.next \in {NoPage, disk[it.page].next}
              /\ \A rid \in scans[i].seen : Passed(it, rid)
              /\ \A rid \in must : rid[1] = it.page =>
                    rid[2] \in LiveSlots(it.cached) /\ it.cached.slots[rid[2]] = stored[rid]
              /\ \A rid \in must \ scans[i].seen :
                    \/ rid[1] = it.page /\ rid[2] > it.slot
                    \/ rid[1] > it.page /\ it.cached.next # NoPage
    BY DEF HeapInvariant, ScansSound
  <2>2. it # AtEnd => it.page \in PageId
    BY DEF HeapInvariant, TypeOK
  <2> HIDE DEF it, must
  <2>3. /\ scans'[i].must = must \ {gone} /\ scans'[i].seen = scans[i].seen
        /\ scans'[i].cut = scans[i].cut /\ scans'[i].again = scans[i].again
    BY <1>4 DEF must
  <2>4. must \ {gone} \subseteq DOMAIN stored' /\ \A rid \in must \ {gone} : stored'[rid] = stored[rid]
    BY <1>1, <2>1
  <2>5. it # AtEnd => disk'[it.page] # RawPage /\ disk'[it.page].next = disk[it.page].next
    BY <1>2, <2>1, <2>2
  <2>6. it # AtEnd =>
              /\ \E k \in 1 .. Len(Path(first)') : it.page = Path(first)'[k]
              /\ disk'[it.page] # RawPage /\ it.slot \in LiveSlots(it.cached)
              /\ it.cached.next \in {NoPage, disk'[it.page].next}
    BY <1>2, <2>1, <2>5
  <2>7. it # AtEnd => \A rid \in must \ {gone} : rid[1] = it.page =>
                    rid[2] \in LiveSlots(it.cached) /\ it.cached.slots[rid[2]] = stored'[rid]
    BY <2>1, <2>4
  <2>8. it # AtEnd => \A rid \in (must \ {gone}) \ scans[i].seen :
                    \/ rid[1] = it.page /\ rid[2] > it.slot
                    \/ rid[1] > it.page /\ it.cached.next # NoPage
    BY <2>1
  <2>9. it = AtEnd => scans[i].cut \/ must \ {gone} \subseteq scans[i].seen
    BY <2>1
  <2> QED
    BY <2>1, <2>3, <2>4, <2>6, <2>7, <2>8, <2>9 DEF it
<1> QED
  BY <1>1, <1>2, <1>3, <1>5, <1>6, <1>7

LEMMA DeleteTupleStep ==
    ASSUME HeapInvariant, NEW h \in Heap, NEW p \in PageId, NEW slot, DeleteTuple(h, p, slot)
    PROVE  HeapInvariant'
<1> DEFINE gone == <<p, slot>>
<1>1. /\ Deletes(h, p, slot) /\ heaps' = [heaps EXCEPT ![h].tuples = @ - 1]
      /\ outdated' = outdated \cup (Heap \ {h}) /\ UNCHANGED failures
  BY DEF DeleteTuple
<1>2. /\ disk' \in Disk /\ PagesChained' /\ Path(first)' = Path(first)
      /\ gone \in LiveIn(disk) /\ LiveIn(disk') = LiveIn(disk) \ {gone}
      /\ heaps[h].open /\ UNCHANGED <<page_count, first, iters>>
      /\ DOMAIN stored' \subseteq RID /\ \A rid \in DOMAIN stored' : stored'[rid] \in Tuple
      /\ scans' \in [Iter -> Scan]
      /\ StoredReadable' /\ ScansSound'
  BY <1>1, DeletesFacts
<1>3. heaps[h] \in [open : {TRUE}, pages : Nat, tuples : Int]
  <2>1. heaps[h] \in {Closed} \cup [open : {TRUE}, pages : Nat, tuples : Int]
    BY DEF HeapInvariant, TypeOK
  <2>2. heaps[h] # Closed
    BY <1>2 DEF Closed
  <2> QED
    BY <2>1, <2>2
<1>4. /\ heaps' \in [Heap -> {Closed} \cup [open : {TRUE}, pages : Nat, tuples : Int]]
      /\ heaps'[h].open /\ heaps'[h].pages = heaps[h].pages /\ heaps'[h].tuples = heaps[h].tuples - 1
      /\ \A g \in Heap : g # h => heaps'[g] = heaps[g]
  <2>1. [heaps[h] EXCEPT !.tuples = @ - 1] \in [open : {TRUE}, pages : Nat, tuples : Int]
    <3>1. ASSUME NEW r \in [open : {TRUE}, pages : Nat, tuples : Int]
          PROVE  [r EXCEPT !.tuples = @ - 1] \in [open : {TRUE}, pages : Nat, tuples : Int]
      <4>1. r.tuples - 1 \in Int
        OBVIOUS
      <4> QED
        BY <4>1
    <3> QED
      BY <1>3, <3>1
  <2>2. heaps' = [heaps EXCEPT ![h] = [heaps[h] EXCEPT !.tuples = @ - 1]]
    BY <1>1
  <2> QED
    BY <1>3, <2>1, <2>2 DEF HeapInvariant, TypeOK
<1>5. TypeOK'
  <2>1. outdated' \subseteq Heap
    BY <1>1 DEF HeapInvariant, TypeOK
  <2> QED
    BY <1>1, <1>2, <1>4, <2>1 DEF HeapInvariant, TypeOK, Disk, Scan
<1>6. CountsExact'
  <2> SUFFICES ASSUME NEW g \in Heap \ outdated', heaps'[g].open
               PROVE  heaps'[g].pages = Len(Path(first)) /\ heaps'[g].tuples = Cardinality(LiveIn(disk'))
    BY <1>2, LiveInIs DEF CountsExact
  <2>1. g = h /\ h \notin outdated
    BY <1>1
  <2>2. heaps[h].pages = Len(Path(first)) /\ heaps[h].tuples = Cardinality(LiveIn(disk))
    BY <1>2, <2>1, LiveInIs DEF HeapInvariant, CountsExact
  <2>3. Cardinality(LiveIn(disk')) = Cardinality(LiveIn(disk)) - 1
    <3>1. IsFiniteSet(LiveIn(disk)) /\ gone \in LiveIn(disk) /\ LiveIn(disk') = LiveIn(disk) \ {gone}
      BY <1>2, LiveInFinite
    <3>2. Cardinality(LiveIn(disk) \ {gone}) = IF gone \in LiveIn(disk) THEN Cardinality(LiveIn(disk)) - 1
                                                                      ELSE Cardinality(LiveIn(disk))
      BY <3>1, FS_RemoveElement, Zenon
    <3> QED
      BY <3>1, <3>2
  <2> QED
    BY <1>4, <2>1, <2>2, <2>3
<1>7. \A g \in Heap : heaps'[g].open => first' # NoPage
  BY <1>2, <1>4 DEF HeapInvariant
<1> QED
  BY <1>2, <1>5, <1>6, <1>7 DEF HeapInvariant

LEMMA DeleteTupleFailsStep ==
    ASSUME HeapInvariant, NEW h \in Heap, NEW p \in PageId, NEW slot, DeleteTupleFails(h, p, slot)
    PROVE  HeapInvariant'
<1>1. Deletes(h, p, slot) /\ Failure /\ outdated' = Heap /\ UNCHANGED heaps
  BY DEF DeleteTupleFails, Doubt
<1>2. /\ disk' \in Disk /\ PagesChained'
      /\ UNCHANGED <<page_count, first, iters>>
      /\ DOMAIN stored' \subseteq RID /\ \A rid \in DOMAIN stored' : stored'[rid] \in Tuple
      /\ scans' \in [Iter -> Scan]
      /\ StoredReadable' /\ ScansSound'
  BY <1>1, DeletesFacts
<1>3. TypeOK'
  <2>1. failures' \in 0 .. MaxFailures
    BY <1>1, HeapAssumption DEF Failure, HeapInvariant, TypeOK
  <2> QED
    BY <1>1, <1>2, <2>1 DEF HeapInvariant, TypeOK, Disk, Scan
<1>4. CountsExact'
  BY <1>1 DEF CountsExact
<1>5. \A g \in Heap : heaps'[g].open => first' # NoPage
  BY <1>1, <1>2 DEF HeapInvariant
<1> QED
  BY <1>2, <1>3, <1>4, <1>5 DEF HeapInvariant

-----------------------------------------------------------------------------
(* Iterators. *)

Position == {AtEnd} \cup [page : PageId, slot : Nat, cached : HeapPage]

\* ScansSound, of an iterator at it whose history is scan.
ScanAhead(it, scan) ==
    /\ scan.must \subseteq DOMAIN stored /\ scan.again = {}
    /\ it = AtEnd => scan.cut \/ scan.must \subseteq scan.seen
    /\ it # AtEnd =>
          /\ \E k \in 1 .. Len(Path(first)) : it.page = Path(first)[k]
          /\ disk[it.page] # RawPage /\ it.slot \in LiveSlots(it.cached)
          /\ it.cached.next \in {NoPage, disk[it.page].next}
          /\ \A rid \in scan.seen : Passed(it, rid)
          /\ \A rid \in scan.must : rid[1] = it.page =>
                rid[2] \in LiveSlots(it.cached) /\ it.cached.slots[rid[2]] = stored[rid]
          /\ \A rid \in scan.must \ scan.seen :
                \/ rid[1] = it.page /\ rid[2] > it.slot
                \/ rid[1] > it.page /\ it.cached.next # NoPage

LEMMA ScansAhead == ScansSound <=> \A i \in Iter : ScanAhead(iters[i], scans[i])
  BY DEF ScansSound, ScanAhead

\* One iterator moves, and nothing else.
LEMMA ScanMoved ==
    ASSUME HeapInvariant, UNCHANGED <<disk, page_count, first, heaps, stored, outdated>>,
           failures' \in 0 .. MaxFailures,
           NEW i \in Iter, NEW it \in Position, NEW scan \in Scan, ScanAhead(it, scan),
           iters' = [iters EXCEPT ![i] = it], scans' = [scans EXCEPT ![i] = scan]
    PROVE  HeapInvariant'
<1>1. PagesChained' /\ Path(first)' = Path(first)
  <2>1. Chained(disk', page_count', first', Path(first))
    BY HeapFacts
  <2> QED
    BY <2>1, ChainedNext
<1>2. TypeOK'
  BY DEF HeapInvariant, TypeOK, Position, Scan
<1>3. StoredReadable'
  BY DEF HeapInvariant, StoredReadable, LiveSlots
<1>4. ScansSound'
  <2>1. ASSUME NEW j \in Iter
        PROVE  ScanAhead(iters'[j], scans'[j])
    <3>1. CASE j = i
      <4>1. iters'[j] = it /\ scans'[j] = scan
        BY <3>1 DEF HeapInvariant, TypeOK
      <4> QED
        BY <4>1
    <3>2. CASE j # i
      <4>1. iters'[j] = iters[j] /\ scans'[j] = scans[j]
        BY <3>2 DEF HeapInvariant, TypeOK
      <4> QED
        BY <4>1, ScansAhead DEF HeapInvariant
    <3> QED
      BY <3>1, <3>2
  <2>2. disk' = disk /\ stored' = stored
    OBVIOUS
  <2> QED
    BY <1>1, <2>1, <2>2 DEF ScansSound, ScanAhead
<1>5. CountsExact'
  BY <1>1, LiveInIs DEF HeapInvariant, CountsExact
<1>6. \A g \in Heap : heaps'[g].open => first' # NoPage
  BY DEF HeapInvariant
<1> QED
  BY <1>1, <1>2, <1>3, <1>4, <1>5, <1>6 DEF HeapInvariant

\* A scan that returns what it has not returned before.
LEMMA OneMoreReturned ==
    ASSUME NEW scan \in Scan, scan.again = {}, NEW rid \in RID, rid \notin scan.seen
    PROVE  LET scan2 == Returns(scan, rid)
           IN  /\ scan2 \in Scan /\ scan2.must = scan.must
               /\ scan2.seen = scan.seen \cup {rid} /\ scan2.again = {}
<1>1. /\ scan.seen \cup {rid} \in SUBSET RID
      /\ scan.again \cup ({rid} \cap scan.seen) = {}
  BY DEF Scan
<1> QED
  BY <1>1 DEF Scan, Returns

\* The list of the heap, from its page k on.
LEMMA PathFrom ==
    ASSUME HeapInvariant, NEW k \in 1 .. Len(Path(first))
    PROVE  LET s == Path(first)
               t == Path(s[k])
           IN  /\ Len(t) = Len(s) - k + 1
               /\ \A j \in 1 .. Len(t) : k + j - 1 \in 1 .. Len(s) /\ t[j] = s[k + j - 1]
<1> DEFINE s == Path(first)
<1>1. IsList(disk, first, s) /\ Len(s) \in Nat
  BY HeapFacts DEF Chained
<1>2. Path(s[k]) = PathOf(disk, s[k])
  BY PathIs
<1> HIDE DEF s
<1>3. /\ PathOf(disk, s[k]) = SubSeq(s, k, Len(s))
      /\ Len(SubSeq(s, k, Len(s))) = Len(s) - k + 1
      /\ \A j \in 1 .. Len(SubSeq(s, k, Len(s))) : SubSeq(s, k, Len(s))[j] = s[k + j - 1]
  BY <1>1, ListSuffix DEF s
<1>4. k \in 1 .. Len(s)
  BY DEF s
<1>5. \A j \in 1 .. Len(s) - k + 1 : k + j - 1 \in 1 .. Len(s)
  BY <1>1, <1>4
<1> QED
  BY <1>2, <1>3, <1>5 DEF s

\* Where the j-th page of a list is in the part of it from page k on.
LEMMA IndexFrom ==
    ASSUME NEW n \in Nat, NEW k \in Nat, NEW j \in Nat, k <= j, j <= n
    PROVE  j - k + 1 \in 1 .. n - k + 1 /\ k + (j - k + 1) - 1 = j
  OBVIOUS

\* The iterator loads the first page from p on that has a tuple: what it owes
\* lies there or behind.
LEMMA StandsAhead ==
    ASSUME HeapInvariant, NEW k \in 1 .. Len(Path(first)), NEW scan \in Scan,
           scan.must \subseteq DOMAIN stored, scan.again = {},
           \A rid \in scan.seen : rid[1] < Path(first)[k],
           \A rid \in scan.must \ scan.seen : rid[1] >= Path(first)[k],
           NEW m \in 1 .. Len(Path(Path(first)[k])),
           disk[Path(Path(first)[k])[m]] # RawPage,
           LiveSlots(disk[Path(Path(first)[k])[m]]) # {},
           \A j \in 1 .. Len(Path(Path(first)[k])) :
              /\ disk[Path(Path(first)[k])[j]] # RawPage
              /\ LiveSlots(disk[Path(Path(first)[k])[j]]) # {}
              => m <= j
    PROVE  LET q == Path(Path(first)[k])[m]
               slot == Min(LiveSlots(disk[q]))
               it == [page |-> q, slot |-> slot, cached |-> disk[q]]
               scan2 == Returns(scan, <<q, slot>>)
           IN  it \in Position /\ scan2 \in Scan /\ ScanAhead(it, scan2)
<1> DEFINE s == Path(first)
           t == Path(s[k])
           q == t[m]
           slot == Min(LiveSlots(disk[q]))
           it == [page |-> q, slot |-> slot, cached |-> disk[q]]
           scan2 == Returns(scan, <<q, slot>>)
<1>1. /\ Len(t) = Len(s) - k + 1 /\ Len(s) \in Nat /\ k \in 1 .. Len(s)
      /\ \A j \in 1 .. Len(t) : k + j - 1 \in 1 .. Len(s) /\ t[j] = s[k + j - 1]
      /\ m \in 1 .. Len(t)
  BY PathFrom, HeapFacts
<1>2. /\ \A j, l \in 1 .. Len(s) : j < l => s[j] < s[l]
      /\ \A j \in 1 .. Len(s) - 1 : NextOf(disk, s[j]) = s[j + 1]
      /\ \A j \in 1 .. Len(s) : s[j] \in PageId
      /\ PageId \subseteq Nat /\ NoPage \notin PageId
  BY HeapFacts, HeapAssumption DEF Chained, IsList, PageId
<1>3. disk[q] # RawPage /\ LiveSlots(disk[q]) # {}
  OBVIOUS
<1>4. \A j \in 1 .. Len(t) : disk[t[j]] # RawPage /\ LiveSlots(disk[t[j]]) # {} => m <= j
  OBVIOUS
<1>5. \A rid \in scan.must \ scan.seen : rid[1] >= s[k]
  OBVIOUS
<1>15. \A rid \in scan.seen : rid[1] < s[k]
  OBVIOUS
<1>6. \A rid \in scan.must :
          /\ rid[1] \in PageId /\ rid[2] \in Nat /\ rid = <<rid[1], rid[2]>>
          /\ disk[rid[1]] # RawPage /\ rid[2] \in LiveSlots(disk[rid[1]])
          /\ disk[rid[1]].slots[rid[2]] = stored[rid]
          /\ \E j \in 1 .. Len(s) : rid[1] = s[j]
  BY StoredPlaces
<1> HIDE DEF s, t
<1>7. q = s[k + m - 1] /\ k + m - 1 \in 1 .. Len(s) /\ q \in PageId
  BY <1>1, <1>2
<1> HIDE DEF q
<1>8. disk[q] \in HeapPage
  BY <1>3, <1>7, HeapFacts
<1>9. /\ slot \in LiveSlots(disk[q]) /\ slot \in Nat
      /\ \A i \in LiveSlots(disk[q]) : slot <= i /\ i \in Nat
  <2>1. LiveSlots(disk[q]) \in SUBSET Nat
    BY <1>8, PageFields
  <2> QED
    BY <1>3, <2>1, MinIsLeast
<1> HIDE DEF slot
<1>10. /\ it \in Position /\ it # AtEnd
       /\ it.page = q /\ it.slot = slot /\ it.cached = disk[q]
  BY <1>7, <1>8, <1>9 DEF Position, AtEnd
<1>14. \A rid \in scan.seen : rid[1] < q /\ rid[1] \in Nat
  <2>1. \A rid \in scan.seen : rid[1] \in Nat
    BY <1>2 DEF Scan, RID
  <2>2. s[k] \in Nat /\ q \in Nat
    BY <1>1, <1>2, <1>7
  <2>3. s[k] = q \/ s[k] < q
    <3>1. k = k + m - 1 \/ k < k + m - 1
      BY <1>1
    <3> QED
      BY <1>1, <1>2, <1>7, <3>1
  <2> QED
    BY <1>15, <2>1, <2>2, <2>3
<1>11. /\ scan2 \in Scan /\ scan2.must = scan.must /\ scan2.seen = scan.seen \cup {<<q, slot>>}
       /\ scan2.again = {}
  <2>1. <<q, slot>> \in RID
    BY <1>7, <1>9 DEF RID
  <2>2. <<q, slot>> \notin scan.seen
    BY <1>7, <1>14
  <2> QED
    BY <2>1, <2>2, OneMoreReturned
<1> HIDE DEF it, scan2
<1>12. ASSUME NEW rid \in scan.must, rid \notin scan.seen, rid # <<q, slot>>
       PROVE  \/ rid[1] = q /\ rid[2] > slot
              \/ rid[1] > q /\ disk[q].next # NoPage
  <2>1. PICK j \in 1 .. Len(s) : rid[1] = s[j]
    BY <1>6
  <2>2. j >= k
    <3>1. ~(s[j] < s[k])
      <4>1. s[j] >= s[k]
        BY <1>5, <1>12, <2>1
      <4>2. s[j] \in Nat /\ s[k] \in Nat
        BY <1>1, <1>2
      <4> QED
        BY <4>1, <4>2
    <3> QED
      BY <1>1, <1>2, <3>1
  <2>3. j - k + 1 \in 1 .. Len(t) /\ t[j - k + 1] = s[j]
    <3>1. /\ Len(t) = Len(s) - k + 1 /\ Len(s) \in Nat /\ k \in Nat
          /\ j \in Nat /\ j <= Len(s) /\ k <= j
      BY <1>1, <2>2
    <3>2. j - k + 1 \in 1 .. Len(s) - k + 1 /\ k + (j - k + 1) - 1 = j
      BY <3>1, IndexFrom
    <3> QED
      BY <1>1, <3>1, <3>2
  <2>4. m <= j - k + 1
    <3>1. disk[s[j]] # RawPage /\ LiveSlots(disk[s[j]]) # {}
      BY <1>6, <2>1
    <3> QED
      BY <1>4, <2>3, <3>1
  <2>5. CASE k + m - 1 = j
    <3>1. rid[1] = q /\ rid[2] # slot
      BY <1>6, <1>7, <1>12, <2>1, <2>5
    <3> QED
      BY <1>6, <1>9, <3>1
  <2>6. CASE k + m - 1 # j
    <3>1. k + m - 1 < j /\ k + m - 1 \in 1 .. Len(s) - 1 /\ (k + m - 1) + 1 \in 1 .. Len(s)
      BY <1>1, <1>7, <2>4, <2>6
    <3>2. s[k + m - 1] < s[j]
      BY <1>2, <1>7, <3>1
    <3>3. NextOf(disk, q) \in PageId
      BY <1>2, <1>7, <3>1
    <3>4. disk[q].next # NoPage
      BY <1>2, <1>3, <3>3 DEF NextOf
    <3> QED
      BY <1>2, <1>7, <2>1, <3>2, <3>4
  <2> QED
    BY <2>5, <2>6
<1>13. ScanAhead(it, scan2)
  <2>1. \A rid \in scan2.must \ scan2.seen :
                \/ rid[1] = it.page /\ rid[2] > it.slot
                \/ rid[1] > it.page /\ it.cached.next # NoPage
    BY <1>10, <1>11, <1>12
  <2>2. \A rid \in scan2.must : rid[1] = it.page =>
                rid[2] \in LiveSlots(it.cached) /\ it.cached.slots[rid[2]] = stored[rid]
    BY <1>6, <1>10, <1>11
  <2>3. \E j \in 1 .. Len(Path(first)) : it.page = Path(first)[j]
    BY <1>7, <1>10 DEF s
  <2>4. \A rid \in scan2.seen : Passed(it, rid)
    BY <1>9, <1>10, <1>11, <1>14 DEF Passed
  <2> QED
    BY <1>3, <1>9, <1>10, <1>11, <2>1, <2>2, <2>3, <2>4 DEF ScanAhead
<1> QED
  BY <1>10, <1>11, <1>13 DEF it, scan2, slot, q, t, s

\* advanceToNextValid, onto a page of the heap or beyond the last one.
LEMMA MovesOnStep ==
    ASSUME HeapInvariant, UNCHANGED <<disk, page_count, first, heaps, stored, outdated>>,
           NEW i \in Iter, NEW p, NEW scan \in Scan, MovesOn(i, p, scan),
           scan.must \subseteq DOMAIN stored, scan.again = {},
           p # NoPage => \A rid \in scan.seen : rid[1] < p,
           p = NoPage \/ \E k \in 1 .. Len(Path(first)) : p = Path(first)[k],
           \A rid \in scan.must \ scan.seen : p # NoPage /\ rid[1] >= p
    PROVE  HeapInvariant'
<1> DEFINE path == Path(p)
           good == {k \in 1 .. Len(path) : disk[path[k]] # RawPage /\ LiveSlots(disk[path[k]]) # {}}
           q == path[Min(good)]
<1>1. \/ /\ good # {}
         /\ StandsOn(i, q, Min(LiveSlots(disk[q])), disk[q], scan)
         /\ UNCHANGED failures
      \/ good = {} /\ Ends(i, scan) /\ UNCHANGED failures
      \/ Failure /\ Ends(i, [scan EXCEPT !.cut = TRUE])
  BY DEF MovesOn
<1>2. failures' \in 0 .. MaxFailures
  BY <1>1, HeapAssumption DEF Failure, HeapInvariant, TypeOK
<1>3. CASE good # {} /\ StandsOn(i, q, Min(LiveSlots(disk[q])), disk[q], scan)
  <2> DEFINE m == Min(good)
             slot == Min(LiveSlots(disk[q]))
             it == [page |-> q, slot |-> slot, cached |-> disk[q]]
             scan2 == Returns(scan, <<q, slot>>)
  <2>1. p # NoPage
    <3>1. Path(NoPage) = <<>>
      BY PathIs, EmptyList
    <3>2. p = NoPage => good = {}
      BY <3>1
    <3> QED
      BY <1>3, <3>2
  <2>2. PICK k \in 1 .. Len(Path(first)) : p = Path(first)[k]
    BY <2>1
  <2>3. m \in good /\ \A j \in good : m <= j
    <3>1. good \in SUBSET Nat
      OBVIOUS
    <3> HIDE DEF good
    <3> QED
      BY <1>3, <3>1, MinIsLeast
  <2>4. it \in Position /\ scan2 \in Scan /\ ScanAhead(it, scan2)
    <3>1. /\ m \in 1 .. Len(path) /\ disk[path[m]] # RawPage /\ LiveSlots(disk[path[m]]) # {}
          /\ \A j \in 1 .. Len(path) : disk[path[j]] # RawPage /\ LiveSlots(disk[path[j]]) # {} => m <= j
      BY <2>3
    <3> HIDE DEF m
    <3>2. LET r == Path(Path(first)[k])[m]
              slot2 == Min(LiveSlots(disk[r]))
              it2 == [page |-> r, slot |-> slot2, cached |-> disk[r]]
              scan3 == Returns(scan, <<r, slot2>>)
          IN  it2 \in Position /\ scan3 \in Scan /\ ScanAhead(it2, scan3)
      BY <2>1, <2>2, <3>1, StandsAhead
    <3> QED
      BY <2>2, <3>2 DEF m
  <2>5. iters' = [iters EXCEPT ![i] = it] /\ scans' = [scans EXCEPT ![i] = scan2]
    BY <1>3 DEF StandsOn
  <2> HIDE DEF it, scan2
  <2> QED
    BY <1>2, <2>4, <2>5, ScanMoved
<1>4. CASE good = {} /\ Ends(i, scan)
  <2>1. scan.must \subseteq scan.seen
    <3> SUFFICES ASSUME NEW rid \in scan.must \ scan.seen
                 PROVE  FALSE
      OBVIOUS
    <3>1. p # NoPage /\ rid[1] >= p /\ rid \in DOMAIN stored
      OBVIOUS
    <3> DEFINE s == Path(first)
    <3>2. PICK k \in 1 .. Len(s) : p = s[k]
      BY <3>1
    <3>3. PICK j \in 1 .. Len(s) : rid[1] = s[j]
      BY <3>1, StoredPlaces
    <3>4. disk[rid[1]] # RawPage /\ LiveSlots(disk[rid[1]]) # {}
      BY <3>1, StoredPlaces
    <3>5. /\ Len(path) = Len(s) - k + 1
          /\ \A l \in 1 .. Len(path) : path[l] = s[k + l - 1]
      BY <3>2, PathFrom
    <3>6. /\ \A a, b \in 1 .. Len(s) : a < b => s[a] < s[b]
          /\ \A a \in 1 .. Len(s) : s[a] \in Nat
          /\ Len(s) \in Nat
      <4>1. IsList(disk, first, s) /\ Len(s) \in Nat /\ \A a \in 1 .. Len(s) : s[a] \in PageId
        BY HeapFacts DEF Chained
      <4> QED
        BY <4>1 DEF IsList, PageId
    <3> HIDE DEF s, path, good
    <3>7. s[j] >= s[k]
      BY <3>1, <3>2, <3>3
    <3>8. j >= k
      <4>1. s[j] \in Nat /\ s[k] \in Nat /\ ~(s[j] < s[k])
        BY <3>6, <3>7
      <4> QED
        BY <3>6, <4>1
    <3>9. j - k + 1 \in 1 .. Len(path) /\ path[j - k + 1] = s[j]
      <4>1. j - k + 1 \in 1 .. Len(path) /\ k + (j - k + 1) - 1 = j
        BY <3>5, <3>6, <3>8
      <4> QED
        BY <3>5, <4>1
    <3>10. j - k + 1 \in good
      BY <3>3, <3>4, <3>9 DEF good
    <3> QED
      BY <1>4, <3>10
  <2>2. AtEnd \in Position /\ ScanAhead(AtEnd, scan)
    BY <2>1 DEF Position, ScanAhead
  <2>3. iters' = [iters EXCEPT ![i] = AtEnd] /\ scans' = [scans EXCEPT ![i] = scan]
    BY <1>4 DEF Ends
  <2> QED
    BY <1>2, <2>2, <2>3, ScanMoved
<1>5. CASE Ends(i, [scan EXCEPT !.cut = TRUE])
  <2> DEFINE scan2 == [scan EXCEPT !.cut = TRUE]
  <2>1. scan2 \in Scan /\ scan2.must = scan.must /\ scan2.cut = TRUE /\ scan2.again = {}
    BY DEF Scan
  <2>2. iters' = [iters EXCEPT ![i] = AtEnd] /\ scans' = [scans EXCEPT ![i] = scan2]
    BY <1>5 DEF Ends
  <2> HIDE DEF scan2
  <2>3. AtEnd \in Position /\ ScanAhead(AtEnd, scan2)
    BY <2>1 DEF Position, ScanAhead
  <2> QED
    BY <1>2, <2>1, <2>2, <2>3, ScanMoved
<1> QED
  BY <1>1, <1>3, <1>4, <1>5

LEMMA BeginStep ==
    ASSUME HeapInvariant, NEW i \in Iter, Begin(i)
    PROVE  HeapInvariant'
<1> DEFINE s == Path(first)
           scan == [seen |-> {}, again |-> {}, must |-> DOMAIN stored, cut |-> FALSE]
<1>1. /\ first # NoPage /\ MovesOn(i, first, scan)
      /\ UNCHANGED <<disk, page_count, first, heaps, stored, outdated>>
  BY DEF Begin
<1>2. scan \in Scan /\ scan.must = DOMAIN stored /\ scan.seen = {} /\ scan.again = {}
  BY HeapFacts DEF Scan
<1>3. /\ \A j, k \in 1 .. Len(s) : j < k => s[j] < s[k]
      /\ \A j \in 1 .. Len(s) : s[j] \in Nat
      /\ Len(s) \in Nat /\ s \in Seq(PageId)
      /\ first = s[1] /\ 1 \in 1 .. Len(s)
  <2>1. /\ IsList(disk, first, s) /\ Len(s) \in Nat /\ s # <<>> /\ s \in Seq(PageId)
        /\ \A j \in 1 .. Len(s) : s[j] \in PageId
    BY <1>1, HeapFacts DEF Chained
  <2> HIDE DEF s
  <2>2. 1 \in 1 .. Len(s)
    BY <2>1
  <2> QED
    BY <2>1, <2>2 DEF IsList, PageId
<1>4. ASSUME NEW rid \in DOMAIN stored
      PROVE  rid[1] >= first
  <2>1. PICK j \in 1 .. Len(s) : rid[1] = s[j]
    BY StoredPlaces
  <2> HIDE DEF s
  <2>2. s[j] >= s[1]
    BY <1>3
  <2> QED
    BY <1>3, <2>1, <2>2
<1>5. \E k \in 1 .. Len(Path(first)) : first = Path(first)[k]
  BY <1>3
<1> HIDE DEF scan
<1>6. scan.must \subseteq DOMAIN stored /\ \A rid \in scan.must \ scan.seen : first # NoPage /\ rid[1] >= first
  BY <1>1, <1>2, <1>4
<1> QED
  BY <1>1, <1>2, <1>5, <1>6, MovesOnStep

LEMMA AdvanceStep ==
    ASSUME HeapInvariant, NEW i \in Iter, Advance(i)
    PROVE  HeapInvariant'
<1> DEFINE it == iters[i]
           scan == scans[i]
           s == Path(first)
<1>1. /\ it # AtEnd
      /\ \/ /\ Later(it) # {}
            /\ StandsOn(i, it.page, Min(Later(it)), it.cached, scan)
            /\ UNCHANGED failures
         \/ /\ Later(it) = {}
            /\ MovesOn(i, it.cached.next, scan)
      /\ UNCHANGED <<disk, page_count, first, heaps, stored, outdated>>
  BY DEF Advance
<1>2. it \in Position /\ scan \in Scan /\ ScanAhead(it, scan)
  BY ScansAhead DEF HeapInvariant, TypeOK, Position, Scan
<1>3. it.page \in PageId /\ it.slot \in Nat /\ it.cached \in HeapPage
  BY <1>1, <1>2 DEF Position
<1> HIDE DEF it, scan
<1>4. /\ scan.must \subseteq DOMAIN stored /\ scan.again = {}
      /\ \A rid \in scan.seen : Passed(it, rid)
      /\ \E k \in 1 .. Len(s) : it.page = s[k]
      /\ disk[it.page] # RawPage /\ it.slot \in LiveSlots(it.cached)
      /\ it.cached.next \in {NoPage, disk[it.page].next}
      /\ \A rid \in scan.must : rid[1] = it.page =>
            rid[2] \in LiveSlots(it.cached) /\ it.cached.slots[rid[2]] = stored[rid]
      /\ \A rid \in scan.must \ scan.seen :
            \/ rid[1] = it.page /\ rid[2] > it.slot
            \/ rid[1] > it.page /\ it.cached.next # NoPage
  BY <1>1, <1>2 DEF ScanAhead
<1>5. CASE Later(it) # {} /\ StandsOn(i, it.page, Min(Later(it)), it.cached, scan) /\ UNCHANGED failures
  <2> DEFINE slot == Min(Later(it))
             it2 == [page |-> it.page, slot |-> slot, cached |-> it.cached]
             scan2 == Returns(scan, <<it.page, slot>>)
  <2>1. Later(it) \in SUBSET Nat /\ \A n \in LiveSlots(it.cached) : n \in Nat
    BY <1>3, PageFields DEF Later
  <2>2. slot \in Later(it) /\ \A n \in Later(it) : slot <= n
    BY <1>5, <2>1, MinIsLeast
  <2> HIDE DEF slot
  <2>3. slot \in Nat /\ slot \in LiveSlots(it.cached)
    BY <2>1, <2>2 DEF Later
  <2>4. /\ it2 \in Position /\ it2 # AtEnd
        /\ it2.page = it.page /\ it2.slot = slot /\ it2.cached = it.cached
    BY <1>3, <2>3 DEF Position, AtEnd
  <2>11. slot > it.slot
    BY <2>2 DEF Later
  <2>10. \A rid \in scan.seen : Passed(it2, rid) /\ rid # <<it.page, slot>>
    <3>1. \A rid \in scan.seen : rid[1] \in Nat /\ rid[2] \in Nat
      BY <1>2 DEF Scan, RID, PageId
    <3>2. it.page \in Nat
      BY <1>3 DEF PageId
    <3> QED
      BY <1>3, <1>4, <2>3, <2>4, <2>11, <3>1, <3>2 DEF Passed
  <2>5. /\ scan2 \in Scan /\ scan2.must = scan.must /\ scan2.seen = scan.seen \cup {<<it.page, slot>>}
        /\ scan2.again = {}
    <3>1. <<it.page, slot>> \in RID
      BY <1>3, <2>3 DEF RID
    <3> QED
      BY <1>2, <1>4, <2>10, <3>1, OneMoreReturned
  <2>6. iters' = [iters EXCEPT ![i] = it2] /\ scans' = [scans EXCEPT ![i] = scan2]
    BY <1>5 DEF StandsOn, slot, it, scan
  <2> HIDE DEF it2, scan2
  <2>7. ASSUME NEW rid \in scan2.must \ scan2.seen
        PROVE  \/ rid[1] = it2.page /\ rid[2] > it2.slot
               \/ rid[1] > it2.page /\ it2.cached.next # NoPage
    <3>1. rid \in scan.must \ scan.seen /\ rid # <<it.page, slot>>
      BY <2>5
    <3>2. CASE rid[1] = it.page /\ rid[2] > it.slot
      <4>1. rid[2] \in LiveSlots(it.cached) /\ rid = <<rid[1], rid[2]>>
        BY <1>4, <3>1, <3>2, HeapFacts DEF RID
      <4>2. rid[2] \in Later(it) /\ rid[2] # slot
        BY <3>1, <3>2, <4>1 DEF Later
      <4>3. slot <= rid[2] /\ rid[2] \in Nat
        BY <2>1, <2>2, <4>1, <4>2
      <4> QED
        BY <2>3, <2>4, <3>2, <4>2, <4>3
    <3> QED
      BY <1>4, <2>4, <3>1, <3>2
  <2>12. \A rid \in scan2.seen : Passed(it2, rid)
    BY <2>3, <2>4, <2>5, <2>10 DEF Passed
  <2>8. ScanAhead(it2, scan2)
    BY <1>4, <2>3, <2>4, <2>5, <2>7, <2>12 DEF ScanAhead
  <2>9. failures' \in 0 .. MaxFailures
    BY <1>5 DEF HeapInvariant, TypeOK
  <2> QED
    BY <1>1, <2>4, <2>5, <2>6, <2>8, <2>9, ScanMoved
<1>6. CASE Later(it) = {} /\ MovesOn(i, it.cached.next, scan)
  <2> DEFINE p == it.cached.next
  <2>1. PICK k \in 1 .. Len(s) : it.page = s[k]
    BY <1>4
  <2>2. /\ \A a, b \in 1 .. Len(s) : a < b => s[a] < s[b]
        /\ \A a \in 1 .. Len(s) - 1 : NextOf(disk, s[a]) = s[a + 1]
        /\ NextOf(disk, s[Len(s)]) = NoPage
        /\ \A a \in 1 .. Len(s) : s[a] \in Nat
        /\ Len(s) \in Nat
    <3>1. IsList(disk, first, s) /\ Len(s) \in Nat /\ \A a \in 1 .. Len(s) : s[a] \in PageId
      BY HeapFacts DEF Chained
    <3>2. s # <<>>
      BY <2>1
    <3> HIDE DEF s
    <3> QED
      BY <3>1, <3>2 DEF IsList, PageId
  <2>3. NextOf(disk, s[k]) = disk[it.page].next
    BY <1>3, <1>4, <2>1, HeapAssumption DEF NextOf
  <2> HIDE DEF s
  <2>4. p # NoPage => k + 1 \in 1 .. Len(s) /\ p = s[k + 1]
    <3> SUFFICES ASSUME p # NoPage
                 PROVE  k + 1 \in 1 .. Len(s) /\ p = s[k + 1]
      OBVIOUS
    <3>1. NextOf(disk, s[k]) = p
      BY <1>4, <2>3
    <3>2. k # Len(s)
      BY <2>2, <3>1
    <3>3. k \in 1 .. Len(s) - 1 /\ k + 1 \in 1 .. Len(s)
      BY <2>2, <3>2
    <3> QED
      BY <2>2, <3>1, <3>3
  <2>5. ASSUME NEW rid \in scan.must \ scan.seen
        PROVE  p # NoPage /\ rid[1] >= p
    <3>1. rid[1] > it.page /\ p # NoPage
      <4>1. ~(rid[1] = it.page /\ rid[2] > it.slot)
        BY <1>4, <1>6 DEF Later
      <4> QED
        BY <1>4, <4>1
    <3>2. PICK j \in 1 .. Len(s) : rid[1] = s[j]
      BY <1>4, StoredPlaces DEF s
    <3>3. ~(j <= k)
      <4>1. s[k] \in Nat /\ s[j] \in Nat /\ s[j] > s[k]
        BY <2>1, <2>2, <3>1, <3>2
      <4>2. j # k /\ ~(j < k)
        BY <2>2, <4>1
      <4> QED
        BY <2>2, <4>2
    <3>4. j = k + 1 \/ k + 1 < j
      BY <2>2, <3>3
    <3>5. s[j] >= s[k + 1]
      BY <2>2, <2>4, <3>1, <3>4
    <3> QED
      BY <2>4, <3>1, <3>2, <3>5
  <2>6. p = NoPage \/ \E n \in 1 .. Len(Path(first)) : p = Path(first)[n]
    BY <2>4 DEF s
  <2>7. p # NoPage => \A rid \in scan.seen : rid[1] < p
    <3>1. \A rid \in scan.seen : rid[1] \in Nat /\ (rid[1] < it.page \/ rid[1] = it.page)
      BY <1>2, <1>4 DEF Scan, RID, PageId, Passed
    <3>2. p # NoPage => p \in Nat /\ it.page \in Nat /\ it.page < p
      BY <2>1, <2>2, <2>4
    <3> QED
      BY <3>1, <3>2
  <2> QED
    BY <1>1, <1>2, <1>4, <1>6, <2>5, <2>6, <2>7, MovesOnStep
<1> QED
  BY <1>1, <1>5, <1>6

-----------------------------------------------------------------------------
(* The theorems. *)

LEMMA InitSound ==
    ASSUME Init
    PROVE  HeapInvariant
<1>1. /\ disk = [p \in PageId |-> RawPage] /\ page_count = 0 /\ failures = 0 /\ first = NoPage
      /\ heaps = [h \in Heap |-> Closed] /\ iters = [i \in Iter |-> AtEnd]
      /\ DOMAIN stored = {} /\ outdated = {}
      /\ scans = [i \in Iter |-> [seen |-> {}, again |-> {}, must |-> {}, cut |-> FALSE]]
  BY DEF Init
<1>2. Path(first) = <<>>
  BY <1>1, PathIs, EmptyList
<1>3. IsList(disk, first, <<>>)
  BY <1>1 DEF IsList
<1>4. PagesChained
  <2>1. Chained(disk, page_count, first, <<>>)
    BY <1>1, <1>3 DEF Chained
  <2> QED
    BY <1>2, <2>1, ChainedIs
<1>5. TypeOK
  BY <1>1, HeapAssumption DEF TypeOK
<1>6. StoredReadable /\ ScansSound
  BY <1>1 DEF StoredReadable, ScansSound
<1>7. \A h \in Heap : ~heaps[h].open
  BY <1>1 DEF Closed
<1> QED
  BY <1>4, <1>5, <1>6, <1>7 DEF HeapInvariant, CountsExact

LEMMA StutterSound ==
    ASSUME HeapInvariant, UNCHANGED vars
    PROVE  HeapInvariant'
<1>1. UNCHANGED <<disk, page_count, failures, first, heaps, iters, stored, outdated, scans>>
  BY DEF vars, diskVars
<1>2. PagesChained' /\ Path(first)' = Path(first)
  <2>1. Chained(disk', page_count', first', Path(first))
    BY <1>1, HeapFacts
  <2> QED
    BY <2>1, ChainedNext
<1>3. TypeOK'
  BY <1>1 DEF HeapInvariant, TypeOK
<1>4. StoredReadable'
  BY <1>1 DEF HeapInvariant, StoredReadable, LiveSlots
<1>5. ScansSound'
  BY <1>1, <1>2 DEF HeapInvariant, ScansSound
<1>6. CountsExact'
  BY <1>1, <1>2, LiveInIs DEF HeapInvariant, CountsExact
<1>7. \A h \in Heap : heaps'[h].open => first' # NoPage
  BY <1>1 DEF HeapInvariant
<1> QED
  BY <1>2, <1>3, <1>4, <1>5, <1>6, <1>7 DEF HeapInvariant

LEMMA NextSound ==
    ASSUME HeapInvariant, Next
    PROVE  HeapInvariant'
<1>1. CASE CreateFails
  BY <1>1, CreateFailsStep
<1>2. ASSUME NEW h \in Heap, Create(h) \/ Open(h)
      PROVE  HeapInvariant'
  BY <1>2, CreateStep, OpenStep
<1>3. ASSUME NEW h \in Heap, NEW tuple \in Tuple, InsertTuple(h, tuple) \/ InsertTupleFails(h, tuple)
      PROVE  HeapInvariant'
  BY <1>3, InsertTupleStep, InsertTupleFailsStep
<1>4. ASSUME NEW h \in Heap, NEW tuple \in Tuple,
             InsertGrows(h, tuple) \/ InsertTooLarge(h, tuple) \/ InsertGrowFails(h, tuple)
      PROVE  HeapInvariant'
  BY <1>4, InsertGrowsStep, InsertTooLargeStep, InsertGrowFailsStep
<1>5. ASSUME NEW h \in Heap, NEW p \in PageId, NEW slot \in LiveSlots(disk[p]),
             DeleteTuple(h, p, slot) \/ DeleteTupleFails(h, p, slot)
      PROVE  HeapInvariant'
  BY <1>5, DeleteTupleStep, DeleteTupleFailsStep
<1>6. ASSUME NEW i \in Iter, Begin(i) \/ Advance(i)
      PROVE  HeapInvariant'
  BY <1>6, BeginStep, AdvanceStep
<1> QED
  BY <1>1, <1>2, <1>3, <1>4, <1>5, <1>6, Zenon DEF Next

\* Whatever the executors do through their own TableHeap objects, in whatever
\* order and with whichever disk calls failing, the pages stay chained in the
\* order of allocation, and every open iterator still has ahead of it what it
\* owes its caller.
THEOREM HeapSound == Spec => []HeapInvariant
<1>1. HeapInvariant /\ [Next]_vars => HeapInvariant'
  BY NextSound, StutterSound
<1> QED
  BY <1>1, InitSound, PTL DEF Spec

\* readTuple finds every acknowledged tuple until deleteTuple takes it: no
\* insert through another object reuses its slot, and no failed growth or
\* failed write loses it.
THEOREM StoredReadableAlways == Spec => []StoredReadable
<1>1. HeapInvariant => StoredReadable
  BY DEF HeapInvariant
<1> QED
  BY <1>1, HeapSound, PTL

\* The chain that insertTuple and bootstrapMetadata walk visits no page twice,
\* misses no page with a tuple and ends, at the one raw page at most that a
\* failed growth has linked; prev leads back along it.
THEOREM ChainSoundAlways == Spec => []ChainSound
<1>1. ASSUME HeapInvariant
      PROVE  ChainSound
  <2> DEFINE s == Path(first)
             linked == {s[k] : k \in 1 .. Len(s)}
  <2>1. /\ Chained(disk, page_count, first, s) /\ s \in Seq(PageId) /\ Len(s) \in Nat
        /\ \A k \in 1 .. Len(s) : s[k] \in PageId
    BY <1>1, HeapFacts
  <2>2. /\ \A j, k \in 1 .. Len(s) : j < k => s[j] < s[k]
        /\ \A k \in 1 .. Len(s) - 1 : NextOf(disk, s[k]) = s[k + 1]
        /\ \A k \in 1 .. Len(s) : disk[s[k]] # RawPage =>
              disk[s[k]].prev = IF k = 1 THEN NoPage ELSE s[k - 1]
    BY <2>1 DEF Chained, IsList
  <2>3. \A rid \in DOMAIN stored : rid[1] \in linked
    BY <1>1, StoredPlaces
  <2> HIDE DEF s
  <2>4. Cardinality(linked) = Len(s)
    <3> DEFINE f == [k \in 1 .. Len(s) |-> s[k]]
    <3>1. \A j, k \in 1 .. Len(s) : s[j] = s[k] => j = k
      <4> SUFFICES ASSUME NEW j \in 1 .. Len(s), NEW k \in 1 .. Len(s), s[j] = s[k], j # k
                   PROVE  FALSE
        OBVIOUS
      <4>1. s[j] \in Nat /\ s[k] \in Nat
        BY <2>1 DEF PageId
      <4>2. s[j] < s[k] \/ s[k] < s[j]
        BY <2>1, <2>2
      <4> QED
        BY <4>1, <4>2
    <3>2. f \in Surjection(1 .. Len(s), linked) /\ f \in Injection(1 .. Len(s), linked)
      <4>1. f \in [1 .. Len(s) -> linked] /\ \A k \in 1 .. Len(s) : f[k] = s[k]
        OBVIOUS
      <4>2. \A x \in linked : \E k \in 1 .. Len(s) : f[k] = x
        OBVIOUS
      <4>3. \A j, k \in 1 .. Len(s) : f[j] = f[k] => j = k
        BY <3>1, <4>1
      <4> HIDE DEF f, linked
      <4> QED
        BY <4>1, <4>2, <4>3 DEF Surjection, Injection, IsInjective
    <3>3. IsFiniteSet(1 .. Len(s)) /\ Cardinality(1 .. Len(s)) = Len(s)
      <4>1. ASSUME NEW n \in Nat
            PROVE  IsFiniteSet(1 .. n) /\ Cardinality(1 .. n) = n
        <5>1. IsFiniteSet(1 .. n) /\ Cardinality(1 .. n) = IF 1 > n THEN 0 ELSE n - 1 + 1
          BY FS_Interval
        <5> QED
          BY <5>1
      <4>2. Len(s) \in Nat
        BY <2>1
      <4> QED
        BY <4>1, <4>2
    <3> HIDE DEF f, linked
    <3> QED
      BY <3>2, <3>3, FS_Surjection
  <2>5. \A k \in 1 .. Len(s) : disk[s[k]] = RawPage => k = Len(s)
    <3> SUFFICES ASSUME NEW k \in 1 .. Len(s), disk[s[k]] = RawPage, k # Len(s)
                 PROVE  FALSE
      OBVIOUS
    <3>1. k \in 1 .. Len(s) - 1 /\ k + 1 \in 1 .. Len(s)
      BY <2>1
    <3>2. s[k + 1] = NoPage
      BY <2>2, <3>1 DEF NextOf
    <3> QED
      BY <2>1, <3>1, <3>2, HeapAssumption
  <2> QED
    BY <2>2, <2>3, <2>4, <2>5 DEF ChainSound, s
<1> QED
  BY <1>1, HeapSound, PTL

\* A scan returns each tuple that stays while it runs, from its copy of a page
\* as well as from pages that change before it reaches them, and no place
\* twice; only a failed read ends it early.
THEOREM ScanCompleteAlways == Spec => []ScanComplete
<1>1. HeapInvariant => ScanComplete
  <2> SUFFICES ASSUME HeapInvariant, NEW i \in Iter
               PROVE  /\ scans[i].again = {}
                      /\ IF iters[i] = AtEnd THEN scans[i].cut \/ scans[i].must \subseteq scans[i].seen
                         ELSE LET it == iters[i]
                              IN  <<it.page, it.slot>> \in scans[i].must =>
                                     it.cached.slots[it.slot] = stored[<<it.page, it.slot>>]
    BY DEF ScanComplete
  <2> DEFINE it == iters[i]
  <2>1. /\ scans[i].again = {}
        /\ it = AtEnd => scans[i].cut \/ scans[i].must \subseteq scans[i].seen
    BY DEF HeapInvariant, ScansSound
  <2>2. it # AtEnd => \A rid \in scans[i].must : rid[1] = it.page =>
            it.cached.slots[rid[2]] = stored[rid]
    BY DEF HeapInvariant, ScansSound
  <2> QED
    BY <2>1, <2>2
<1> QED
  BY <1>1, HeapSound, PTL

\* getPageCount and getTupleCount agree with the file for an object that made
\* all the changes since its bootstrapMetadata.
THEOREM CountsExactAlways == Spec => []CountsExact
<1>1. HeapInvariant => CountsExact
  BY DEF HeapInvariant
<1> QED
  BY <1>1, HeapSound, PTL
=============================================================================
