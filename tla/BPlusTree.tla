----------------------------- MODULE BPlusTree -----------------------------
(***************************************************************************)
(* The B+ tree index: BPlusTree over BTreeLeafPage and BTreeInternalPage   *)
(* (src/src/index).  The tree is used by one thread at a time.  insert and *)
(* remove are one step each up to the first call of insertIntoParent or    *)
(* handleUnderflow; every level these two climb is a step of its own, with *)
(* the call that is still to be made in the variable call.  A call that    *)
(* changes nothing (a duplicate key, a missing key) is a stuttering step;  *)
(* getValue, begin and the iterator are operators.                         *)
(*                                                                         *)
(* A node holds keys and vals.  In a leaf, vals[i] is the RID of keys[i].  *)
(* In an internal page vals are the children and keys[i] separates         *)
(* vals[i] from vals[i + 1]; the unused key of entry 0 is left out.  Pages *)
(* can be fetched and allocated; a page that a merge or a collapse leaves  *)
(* behind is leaked in the code, and its id may be used again here, where  *)
(* ids are finite.                                                         *)
(***************************************************************************)
EXTENDS Integers, Sequences, FiniteSets, SequencesExt

CONSTANTS
    Key,            \* a set of integers
    RID,
    RIDsOf,         \* the record ids callers insert under each key
    MaxPages,       \* bound on the pages a tree has at one time
    LeafMax,        \* BTreeLeafPage::kMaxEntries
    InternalMax,    \* BTreeInternalPage::kMaxEntries
    NoPage,         \* kInvalidPageId
    NoNode          \* the content of a page the tree does not use

ASSUME TreeAssumption ==
    /\ Key \subseteq Int
    /\ RIDsOf \in [Key -> SUBSET RID]
    /\ MaxPages \in Nat
    /\ LeafMax \in Nat /\ LeafMax >= 2
    /\ InternalMax \in Nat /\ InternalMax >= 4

VARIABLES root_page_id, pages, call

vars == <<root_page_id, pages, call>>

-----------------------------------------------------------------------------
PageId == 1 .. MaxPages

Leaf ==
    [type : {"leaf"}, parent : PageId \cup {NoPage}, prev : PageId \cup {NoPage},
     next : PageId \cup {NoPage}, keys : Seq(Key), vals : Seq(RID)]

Internal ==
    [type : {"internal"}, parent : PageId \cup {NoPage}, keys : Seq(Key), vals : Seq(PageId)]

\* The pending call of a private member function.
Returned == [fn |-> "none"]
InsertIntoParentCall(old, key, new) ==
    [fn |-> "insertIntoParent", old |-> old, key |-> key, new |-> new]
HandleUnderflowCall(p) == [fn |-> "handleUnderflow", page |-> p]

\* insert has returned an error after it had split pages.
Failed == [fn |-> "failed"]

IsLeaf(n) == n.type = "leaf"
Size(n) == Len(n.vals)
MaxSize(n) == IF IsLeaf(n) THEN LeafMax ELSE InternalMax
MinSize(n) == IF IsLeaf(n) THEN LeafMax \div 2 ELSE (InternalMax + 1) \div 2

IsFull(n) == Size(n) >= MaxSize(n)

\* Mutant of Underflow: off by one.
UnderflowLate(n) == Size(n) + 1 < MinSize(n)

Underflow(n) == Size(n) < MinSize(n)

TypeOK ==
    /\ root_page_id \in PageId \cup {NoPage}
    /\ \A p \in PageId : pages[p] # NoNode =>
          /\ pages[p] \in Leaf \cup Internal
          /\ Size(pages[p]) <= MaxSize(pages[p])
          /\ Len(pages[p].keys) = IF IsLeaf(pages[p]) THEN Size(pages[p]) ELSE Size(pages[p]) - 1
    /\ \/ call \in {Returned, Failed}
       \/ \E old, new \in PageId, k \in Key : call = InsertIntoParentCall(old, k, new)
       \/ \E p \in PageId : call = HandleUnderflowCall(p)

(***************************************************************************)
(* Operations on one page.                                                 *)
(***************************************************************************)

\* The number of keys below k: where binary search puts k.
LowerBound(n, k) == Cardinality({i \in 1 .. Len(n.keys) : n.keys[i] < k})

\* BTreeInternalPage::lookup: the child to the left of the first key above k.
Lookup(n, k) == n.vals[1 + Cardinality({i \in 1 .. Len(n.keys) : n.keys[i] <= k})]

\* BTreeLeafPage::insert
InsertedEntry(n, k, r) ==
    LET pos == LowerBound(n, k) + 1
    IN  [n EXCEPT !.keys = InsertAt(@, pos, k), !.vals = InsertAt(@, pos, r)]

\* BTreeInternalPage::insert: the new child goes to the right of its key.
InsertedChild(n, k, child) ==
    LET pos == LowerBound(n, k) + 1
    IN  [n EXCEPT !.keys = InsertAt(@, pos, k), !.vals = InsertAt(@, pos + 1, child)]

\* moveHalfTo: what stays.
LowerHalf(n) ==
    LET half == Size(n) \div 2
    IN  [n EXCEPT !.keys = SubSeq(@, 1, IF IsLeaf(n) THEN half ELSE half - 1),
                  !.vals = SubSeq(@, 1, half)]

\* Mutant of UpperHalf: a new leaf starts without its right neighbour.
UpperHalfUnlinked(n) ==
    LET half == Size(n) \div 2
        upper == [n EXCEPT !.keys = SubSeq(@, half + 1, Len(@)),
                           !.vals = SubSeq(@, half + 1, Len(@))]
    IN  IF IsLeaf(n) THEN [upper EXCEPT !.next = NoPage] ELSE upper

\* moveHalfTo: what goes to the new page.
UpperHalf(n) ==
    LET half == Size(n) \div 2
    IN  [n EXCEPT !.keys = SubSeq(@, half + 1, Len(@)),
                  !.vals = SubSeq(@, half + 1, Len(@))]

\* The key moveHalfTo of an internal page promotes.
Median(n) == n.keys[Size(n) \div 2]

-----------------------------------------------------------------------------
Init ==
    /\ root_page_id = NoPage
    /\ pages = [p \in PageId |-> NoNode]
    /\ call = Returned

\* BufferPoolManager::newPageGuard
Unused == {p \in PageId : pages[p] = NoNode}
NewPageId == CHOOSE p \in Unused : \A q \in Unused : p <= q

\* The leaf that the descent from the root reaches for k.
LeafFor(k) ==
    LET at[depth \in 0 .. MaxPages] ==
            IF depth = 0 THEN root_page_id
            ELSE LET p == at[depth - 1]
                 IN  IF IsLeaf(pages[p]) THEN p ELSE Lookup(pages[p], k)
    IN  at[MaxPages]

HasKey(n, k) == \E i \in 1 .. Len(n.keys) : n.keys[i] = k

\* The first insert makes the root, a leaf.
InsertFirst(k, r) ==
    /\ call = Returned
    /\ root_page_id = NoPage
    /\ Unused # {}
    /\ root_page_id' = NewPageId
    /\ pages' = [pages EXCEPT ![NewPageId] =
                    [type |-> "leaf", parent |-> NoPage, prev |-> NoPage, next |-> NoPage,
                     keys |-> <<k>>, vals |-> <<r>>]]
    /\ UNCHANGED call

InsertIntoLeaf(k, r) ==
    /\ call = Returned
    /\ root_page_id # NoPage
    /\ LET p == LeafFor(k)
       IN  /\ ~HasKey(pages[p], k)
           /\ ~IsFull(pages[p])
           /\ pages' = [pages EXCEPT ![p] = InsertedEntry(@, k, r)]
    /\ UNCHANGED <<root_page_id, call>>

\* The pages once the leaf next, if there is one, has p to its left.
Relinked(next, p) ==
    IF next = NoPage THEN pages ELSE [pages EXCEPT ![next].prev = p]

SplitLeaf(k, r) ==
    /\ call = Returned
    /\ root_page_id # NoPage
    /\ Unused # {}
    /\ LET p == LeafFor(k)
           new == NewPageId
           left == [LowerHalf(pages[p]) EXCEPT !.next = new]
           right == [UpperHalf(pages[p]) EXCEPT !.prev = p]
           goesLeft == k < right.keys[1]
           right2 == IF goesLeft THEN right ELSE InsertedEntry(right, k, r)
       IN  /\ ~HasKey(pages[p], k)
           /\ IsFull(pages[p])
           /\ pages' = [Relinked(right.next, new) EXCEPT
                           ![p] = IF goesLeft THEN InsertedEntry(left, k, r) ELSE left,
                           ![new] = right2]
           /\ call' = InsertIntoParentCall(p, right2.keys[1], new)
    /\ UNCHANGED root_page_id

(***************************************************************************)
(* insertIntoParent                                                        *)
(***************************************************************************)
\* Mutant of Reparented: the children keep their parent.
ReparentedNot(ps, cs, p) == ps

\* Pages ps with the children cs moved under p.
Reparented(ps, cs, p) ==
    [q \in PageId |-> IF q \in cs THEN [ps[q] EXCEPT !.parent = p] ELSE ps[q]]

NewRoot ==
    /\ call.fn = "insertIntoParent"
    /\ pages[call.old].parent = NoPage
    /\ Unused # {}
    /\ LET root == [type |-> "internal", parent |-> NoPage, keys |-> <<call.key>>,
                    vals |-> <<call.old, call.new>>]
       IN  pages' = Reparented([pages EXCEPT ![NewPageId] = root],
                               {call.old, call.new}, NewPageId)
    /\ root_page_id' = NewPageId
    /\ call' = Returned

InsertIntoParent ==
    /\ call.fn = "insertIntoParent"
    /\ pages[call.old].parent # NoPage
    /\ ~IsFull(pages[pages[call.old].parent])
    /\ pages' = [pages EXCEPT ![pages[call.old].parent] = InsertedChild(@, call.key, call.new)]
    /\ call' = Returned
    /\ UNCHANGED root_page_id

\* A full parent is split, and its own parent gets the median key.
SplitInternal ==
    /\ call.fn = "insertIntoParent"
    /\ pages[call.old].parent # NoPage
    /\ IsFull(pages[pages[call.old].parent])
    /\ Unused # {}
    /\ LET p == pages[call.old].parent
           goesLeft == call.key < Median(pages[p])
           right == IF goesLeft THEN UpperHalf(pages[p])
                    ELSE InsertedChild(UpperHalf(pages[p]), call.key, call.new)
           left == IF goesLeft THEN InsertedChild(LowerHalf(pages[p]), call.key, call.new)
                   ELSE LowerHalf(pages[p])
       IN  /\ pages' = Reparented([pages EXCEPT ![p] = left, ![NewPageId] = right],
                                  ToSet(right.vals), NewPageId)
           /\ call' = InsertIntoParentCall(p, Median(pages[p]), NewPageId)
    /\ UNCHANGED root_page_id

\* newPageGuard fails for a new root or for the second half of a full parent:
\* insert returns the error, and what it split further down stays split.  The
\* model follows such a tree only for its readers.
ParentFails ==
    /\ call.fn = "insertIntoParent"
    /\ pages[call.old].parent # NoPage => IsFull(pages[pages[call.old].parent])
    /\ call' = Failed
    /\ UNCHANGED <<root_page_id, pages>>

(***************************************************************************)
(* remove and handleUnderflow                                              *)
(***************************************************************************)
\* Mutant of Without: the keys move up, the record ids do not.
WithoutKeyOnly(n, k) ==
    LET i == LowerBound(n, k) + 1
    IN  [n EXCEPT !.keys = RemoveAt(@, i), !.vals = Front(@)]

\* BTreeLeafPage::remove
Without(n, k) ==
    LET i == LowerBound(n, k) + 1
    IN  [n EXCEPT !.keys = RemoveAt(@, i), !.vals = RemoveAt(@, i)]

RemoveKey(k) ==
    /\ call = Returned
    /\ root_page_id # NoPage
    /\ LET p == LeafFor(k)
           n == Without(pages[p], k)
           emptyRoot == p = root_page_id /\ Size(n) = 0
       IN  /\ HasKey(pages[p], k)
           /\ pages' = [pages EXCEPT ![p] = IF emptyRoot THEN NoNode ELSE n]
           /\ root_page_id' = IF emptyRoot THEN NoPage ELSE root_page_id
           /\ call' = IF Underflow(n) /\ p # root_page_id
                      THEN HandleUnderflowCall(p) ELSE Returned

\* A root with one child left gives way to it.
CollapseRoot ==
    /\ call = HandleUnderflowCall(root_page_id)
    /\ LET child == pages[root_page_id].vals[1]
       IN  /\ root_page_id' = child
           /\ pages' = [pages EXCEPT ![child].parent = NoPage, ![root_page_id] = NoNode]
    /\ call' = Returned

\* The place of page p among the children of its parent.
ChildIndex(p) ==
    LET siblings == pages[pages[p].parent].vals
    IN  CHOOSE i \in 1 .. Len(siblings) : siblings[i] = p

HasLeft(p) == ChildIndex(p) > 1
HasRight(p) == ChildIndex(p) < Size(pages[pages[p].parent])
LeftOf(p) == pages[pages[p].parent].vals[ChildIndex(p) - 1]
RightOf(p) == pages[pages[p].parent].vals[ChildIndex(p) + 1]

CanLend(p) == Size(pages[p]) > MinSize(pages[p])

Underflows(p) == call = HandleUnderflowCall(p) /\ p # root_page_id

\* A child that moves to an internal page p gets p for its parent.
Adopted(ps, n, val, p) == IF IsLeaf(n) THEN ps ELSE Reparented(ps, {val}, p)

\* moveLastToFrontOf: the last entry of the left sibling becomes the first of
\* p, in an internal page with the key that separated the two.
BorrowLeft(p) ==
    /\ Underflows(p)
    /\ HasLeft(p) /\ CanLend(LeftOf(p))
    /\ LET parent == pages[p].parent
           sep == ChildIndex(p) - 1
           n == pages[p]
           sibling == pages[LeftOf(p)]
           key == IF IsLeaf(n) THEN Last(sibling.keys) ELSE pages[parent].keys[sep]
       IN  pages' = Adopted([pages EXCEPT
                        ![p].keys = <<key>> \o @,
                        ![p].vals = <<Last(sibling.vals)>> \o @,
                        ![LeftOf(p)].keys = Front(@),
                        ![LeftOf(p)].vals = Front(@),
                        ![parent].keys[sep] = Last(sibling.keys)],
                     n, Last(sibling.vals), p)
    /\ call' = Returned
    /\ UNCHANGED root_page_id

\* Mutant of RightSeparator: the separator becomes the key that has moved.
RightSeparatorStale(sibling) == sibling.keys[1]

\* The key that separates p from its right sibling once the sibling has lent
\* its first entry.
RightSeparator(sibling) == sibling.keys[IF IsLeaf(sibling) THEN 2 ELSE 1]

\* moveFirstToEndOf, if the left sibling cannot lend.
BorrowRight(p) ==
    /\ Underflows(p)
    /\ ~(HasLeft(p) /\ CanLend(LeftOf(p)))
    /\ HasRight(p) /\ CanLend(RightOf(p))
    /\ LET parent == pages[p].parent
           sep == ChildIndex(p)
           n == pages[p]
           sibling == pages[RightOf(p)]
           key == IF IsLeaf(n) THEN Head(sibling.keys) ELSE pages[parent].keys[sep]
       IN  pages' = Adopted([pages EXCEPT
                        ![p].keys = Append(@, key),
                        ![p].vals = Append(@, Head(sibling.vals)),
                        ![RightOf(p)].keys = Tail(@),
                        ![RightOf(p)].vals = Tail(@),
                        ![parent].keys[sep] = RightSeparator(sibling)],
                     n, Head(sibling.vals), p)
    /\ call' = Returned
    /\ UNCHANGED root_page_id

\* BTreeLeafPage::moveAllTo; the left leaf takes over the next pointer.
MergedLeaves(l, r) ==
    [l EXCEPT !.keys = @ \o r.keys, !.vals = @ \o r.vals, !.next = r.next]

\* BTreeInternalPage::moveAllTo; the separator comes down between the two.
MergedInternals(l, r, sepKey) ==
    [l EXCEPT !.keys = @ \o <<sepKey>> \o r.keys, !.vals = @ \o r.vals]

\* The pages once the right page is merged into the left one, before the
\* parent is changed: leaves are linked, children moved.
Joined(left, right, sepKey) ==
    LET l == pages[left]
        r == pages[right]
    IN  IF IsLeaf(l)
        THEN [Relinked(r.next, left) EXCEPT ![left] = MergedLeaves(l, r), ![right] = NoNode]
        ELSE Reparented([pages EXCEPT ![left] = MergedInternals(l, r, sepKey), ![right] = NoNode],
                        ToSet(r.vals), left)

Merge(p) ==
    /\ Underflows(p)
    /\ ~(HasLeft(p) /\ CanLend(LeftOf(p)))
    /\ ~(HasRight(p) /\ CanLend(RightOf(p)))
    /\ LET parent == pages[p].parent
           sep == IF HasLeft(p) THEN ChildIndex(p) - 1 ELSE ChildIndex(p)
           left == pages[parent].vals[sep]
           right == pages[parent].vals[sep + 1]
           n == [pages[parent] EXCEPT !.keys = RemoveAt(@, sep), !.vals = RemoveAt(@, sep + 1)]
       IN  /\ pages' = [Joined(left, right, pages[parent].keys[sep]) EXCEPT ![parent] = n]
           /\ call' = IF \/ parent = root_page_id /\ Size(n) = 1
                         \/ parent # root_page_id /\ Underflow(n)
                      THEN HandleUnderflowCall(parent) ELSE Returned
    /\ UNCHANGED root_page_id

HandleUnderflow ==
    \/ CollapseRoot
    \/ \E p \in PageId : BorrowLeft(p) \/ BorrowRight(p) \/ Merge(p)

Insert(k, r) == InsertFirst(k, r) \/ InsertIntoLeaf(k, r) \/ SplitLeaf(k, r)

Next ==
    \/ \E k \in Key : RemoveKey(k) \/ \E r \in RIDsOf[k] : Insert(k, r)
    \/ NewRoot \/ InsertIntoParent \/ SplitInternal \/ ParentFails
    \/ HandleUnderflow

Spec == Init /\ [][Next]_vars

-----------------------------------------------------------------------------
(***************************************************************************)
(* What callers read.                                                      *)
(***************************************************************************)
\* getValue; NoPage stands for std::nullopt.
GetValue(k) ==
    IF root_page_id = NoPage \/ ~HasKey(pages[LeafFor(k)], k) THEN NoPage
    ELSE LET n == pages[LeafFor(k)] IN n.vals[LowerBound(n, k) + 1]

\* BPlusTreeIterator: the leaf loaded i leaves after leaf p.
Advanced(p, i) ==
    LET leaf[j \in 0 .. MaxPages] ==
            IF j = 0 THEN p
            ELSE LET q == leaf[j - 1] IN IF q = NoPage THEN NoPage ELSE pages[q].next
    IN  leaf[i]

\* The keys an iterator from begin(k) returns: the leaf for k from the first
\* key that is not below k, then the leaves along the next pointers.
Scan(k) ==
    LET first == LeafFor(k)
        keysOf(p) == IF p = NoPage THEN <<>> ELSE pages[p].keys
        rest == [i \in 1 .. MaxPages |-> keysOf(Advanced(first, i))]
    IN  IF root_page_id = NoPage THEN <<>>
        ELSE SubSeq(keysOf(first), LowerBound(pages[first], k) + 1, Len(keysOf(first)))
                \o FlattenSeq(rest)

-----------------------------------------------------------------------------
(***************************************************************************)
(* Properties                                                              *)
(***************************************************************************)
Used == {p \in PageId : pages[p] # NoNode}
Leaves == {p \in Used : IsLeaf(pages[p])}

\* The entries of all leaves.
Contents ==
    LET leaves == Leaves
        leafOf(k) == CHOOSE p \in leaves : HasKey(pages[p], k)
    IN  [k \in UNION {ToSet(pages[p].keys) : p \in leaves} |->
            LET n == pages[leafOf(k)] IN n.vals[LowerBound(n, k) + 1]]

\* When insert or remove has returned, the descent from the root finds every
\* key stored in any leaf, with its record id, and no other: no split, loan or
\* merge on any level leaves a key on the wrong side of a separator.
KeysFound ==
    call = Returned =>
        LET stored == Contents
        IN  \A k \in Key : GetValue(k) = IF k \in DOMAIN stored THEN stored[k] ELSE NoPage

\* A range scan returns every stored key from its lower bound on, once and in
\* order: the chain of leaves follows the tree through splits and merges.  A
\* scan of the whole index does so even when an insert has failed after
\* splitting pages, whose upper halves no parent lists.
ScanInOrder ==
    call \in {Returned, Failed} =>
        LET stored == DOMAIN Contents
        IN  \A k \in (IF call = Returned THEN Key ELSE {Min(Key)}) :
                LET scan == Scan(k)
                IN  /\ ToSet(scan) = {j \in stored : j >= k}
                    /\ \A i \in 2 .. Len(scan) : scan[i - 1] < scan[i]

\* When insert or remove has returned, the pointers agree: the parent of a
\* page is the page that lists it, only the root has none, neighbours in the
\* chain of leaves point at each other, and no page is left that the root does
\* not lead to.
PointersAgree ==
    call = Returned =>
        /\ \A p \in Used :
              /\ pages[p].parent = NoPage <=> p = root_page_id
              /\ \A q \in Used : (~IsLeaf(pages[q]) /\ p \in ToSet(pages[q].vals))
                                    <=> pages[p].parent = q
        /\ \A p \in Leaves, q \in PageId : pages[p].next = q <=> (q \in Leaves /\ pages[q].prev = p)

\* When insert or remove has returned, every page but the root holds at least
\* minSize() entries, and an internal root at least two; a split that climbs
\* several levels never overfills a page on its way.
HalfFull ==
    /\ TypeOK
    /\ call = Returned => \A p \in Used :
          IF p # root_page_id THEN Size(pages[p]) >= MinSize(pages[p])
          ELSE IsLeaf(pages[p]) \/ Size(pages[p]) >= 2

\* Every step is an insert or a remove of one key of the abstract map, or
\* rearranges pages and leaves the map as it is.
OrderedIndex == INSTANCE OrderedIndex WITH index <- Contents
ImplementsIndex == OrderedIndex!Spec
=============================================================================
