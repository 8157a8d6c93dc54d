------------------------------ MODULE BPlusTree ------------------------------
(***************************************************************************)
(* BPlusTree (index/b_plus_tree.cpp) with every public call -- GetValue,  *)
(* Insert, Remove -- as one atomic step: the behaviour of the tree when   *)
(* calls do not overlap.  The recursive helpers of the code               *)
(* (InsertIntoParent, CoalesceOrRedistribute / Coalesce) are RECURSIVE    *)
(* operators threading a record                                           *)
(*     st = [pg |-> store, root |-> root_page_id_, catalog |-> header     *)
(*           record, deleted |-> the transaction's deleted page set]      *)
(* through the call tree in the order the code performs its writes.  The  *)
(* latches and pins of the code have no effect on a call that runs alone  *)
(* and are modelled in the concurrent module.                             *)
(*                                                                         *)
(* State: `pages`, the buffer pool's view of the index pages (a function  *)
(* from allocated page ids to pages, see BPlusTreePage); `root`,          *)
(* root_page_id_; `catalog`, the root page id recorded for this index in  *)
(* the header page (NoRecord before the first InsertRecord); `out`, the   *)
(* result of the last call.                                               *)
(*                                                                         *)
(* NewPage hands out the smallest page id not in use.  The disk manager   *)
(* hands out fresh ids; only their distinctness matters to the tree.      *)
(* PageIds bounds the pool: an Insert is taken only when there are enough *)
(* free ids for a split at every level and a new root (the code asserts   *)
(* on an out-of-memory NewPage).                                          *)
(***************************************************************************)
EXTENDS BPlusTreePage, FiniteSets, FiniteSetsExt, Functions, TLC

SX == INSTANCE SequencesExt

CONSTANTS Keys, Vals, PageIds, NULL, NoRecord

ASSUME Keys \subseteq Nat \ {0} /\ ZeroKey = 0
ASSUME PageIds \subseteq Nat \ {0} /\ INVALID \notin PageIds

VARIABLES pages, root, catalog, out

vars == <<pages, root, catalog, out>>

Init ==
    /\ pages = <<>>
    /\ root = INVALID
    /\ catalog = NoRecord
    /\ out = [op |-> "none", key |-> NULL, ok |-> FALSE, val |-> NULL]

FreeId(pg) == Min(PageIds \ DOMAIN pg)

\* The header page (page/header_page.h, not part of this source tree):
\* InsertRecord refuses a name that already has a record, UpdateRecord
\* refuses a name that has none.
InsertRecord(cat, id) == IF cat = NoRecord THEN id ELSE cat
UpdateRecord(cat, id) == IF cat = NoRecord THEN cat ELSE id

\* UpdateRootPageId(insert_record): record the new root id in the header
\* page, with InsertRecord when asked to, with UpdateRecord otherwise.
UpdateRootPageId(cat, insert, id) ==
    IF insert THEN InsertRecord(cat, id) ELSE UpdateRecord(cat, id)

\* FindLeafPage: descend from the root, through ValueAt(0) for leftMost,
\* through Lookup(key) otherwise.
RECURSIVE FindLeaf(_, _, _, _)
FindLeaf(pg, id, k, leftMost) ==
    IF pg[id].leaf THEN id
    ELSE FindLeaf(pg, IF leftMost THEN ValueAt(pg[id], 0) ELSE InternalLookup(pg[id], k),
                  k, leftMost)

RECURSIVE Height(_, _)
Height(pg, id) == IF pg[id].leaf THEN 1 ELSE 1 + Height(pg, pg[id].vals[1])

-----------------------------------------------------------------------------
(* Insertion.                                                              *)

\* Split: a new page of the same kind with the node's parent, then
\* MoveHalfTo into it.  The new page's id is FreeId(st.pg).
Split(st, id) ==
    LET q   == FreeId(st.pg)
        n   == st.pg[id]
        pg2 == st.pg @@ (q :> IF n.leaf THEN LeafInit(n.parent) ELSE InternalInit(n.parent))
    IN  [st EXCEPT !.pg = IF n.leaf THEN LeafMoveHalfTo(pg2, id, q)
                          ELSE InternalMoveHalfTo(pg2, id, q)]

\* InsertIntoParent: a split root gets a new root above it (root id and
\* header record updated); otherwise the separator goes into the parent
\* after old_node, and a parent that overflows is split in turn.
RECURSIVE InsertIntoParent(_, _, _, _)
InsertIntoParent(st, old, key, new) ==
    IF IsRootPage(st.pg[old])
    THEN LET r   == FreeId(st.pg)
             pg2 == st.pg @@ (r :> PopulateNewRoot(old, key, new))
         IN  [st EXCEPT !.pg = SetParentOf(pg2, {old, new}, r), !.root = r,
                        !.catalog = UpdateRootPageId(@, FALSE, r)]
    ELSE LET pid == st.pg[old].parent
             pg2 == SetParentOf(st.pg, {new}, pid)
             pg3 == Upd(pg2, pid, InsertNodeAfter(pg2[pid], old, key, new))
             st3 == [st EXCEPT !.pg = pg3]
         IN  IF GetSize(pg3[pid]) > InternalMax
             THEN LET q == FreeId(pg3)
                      st4 == Split(st3, pid)
                  IN  InsertIntoParent(st4, pid, st4.pg[q].keys[1], q)
             ELSE st3

\* Mutant of InsertIntoLeaf: the leaf is split one pair too late.
InsertIntoLeafLateSplit(st, leaf, k, v) ==
    LET st1 == [st EXCEPT !.pg = Upd(@, leaf, LeafInsert(@[leaf], k, v))]
    IN  IF GetSize(st1.pg[leaf]) > LeafMax + 1
        THEN LET q == FreeId(st1.pg)
                 st2 == Split(st1, leaf)
             IN  InsertIntoParent(st2, leaf, st2.pg[q].keys[1], q)
        ELSE st1

\* Mutant of InsertIntoLeaf: the split leaf's own first key is pushed up.
InsertIntoLeafWrongSeparator(st, leaf, k, v) ==
    LET st1 == [st EXCEPT !.pg = Upd(@, leaf, LeafInsert(@[leaf], k, v))]
    IN  IF GetSize(st1.pg[leaf]) > LeafMax
        THEN LET q == FreeId(st1.pg)
                 st2 == Split(st1, leaf)
             IN  InsertIntoParent(st2, leaf, st2.pg[leaf].keys[1], q)
        ELSE st1

\* InsertIntoLeaf after the duplicate check: insert, and split an
\* overflowing leaf, pushing the new leaf's first key into the parent.
InsertIntoLeaf(st, leaf, k, v) ==
    LET st1 == [st EXCEPT !.pg = Upd(@, leaf, LeafInsert(@[leaf], k, v))]
    IN  IF GetSize(st1.pg[leaf]) > LeafMax
        THEN LET q == FreeId(st1.pg)
                 st2 == Split(st1, leaf)
             IN  InsertIntoParent(st2, leaf, st2.pg[q].keys[1], q)
        ELSE st1

Current == [pg |-> pages, root |-> root, catalog |-> catalog, deleted |-> {}]

Commit(st) ==
    /\ pages' = Restrict(st.pg, DOMAIN st.pg \ st.deleted)
    /\ root' = st.root
    /\ catalog' = st.catalog

\* StartNewTree: a new root leaf holding the pair; the root id is put in
\* the header with InsertRecord.
StartNewTree(k, v) ==
    LET id == FreeId(pages)
    IN  /\ pages' = pages @@ (id :> [LeafInit(INVALID) EXCEPT !.keys = <<k>>, !.vals = <<v>>])
        /\ root' = id
        /\ catalog' = UpdateRootPageId(catalog, TRUE, id)

\* Insert(key, value): start a tree when empty; otherwise fail on a
\* duplicate key and insert into the leaf.
Insert(k, v) ==
    \/ /\ root = INVALID
       /\ PageIds \ DOMAIN pages # {}
       /\ StartNewTree(k, v)
       /\ out' = [op |-> "Insert", key |-> k, ok |-> TRUE, val |-> NULL]
    \/ /\ root # INVALID
       /\ Cardinality(PageIds \ DOMAIN pages) > Height(pages, root)
       /\ LET leaf == FindLeaf(pages, root, k, FALSE)
          IN  IF LeafLookup(pages[leaf], k)
              THEN /\ out' = [op |-> "Insert", key |-> k, ok |-> FALSE, val |-> NULL]
                   /\ UNCHANGED <<pages, root, catalog>>
              ELSE /\ out' = [op |-> "Insert", key |-> k, ok |-> TRUE, val |-> NULL]
                   /\ Commit(InsertIntoLeaf(Current, leaf, k, v))

\* Insert on the state record: the tree a call leaves behind, used to build
\* the trees that the concurrent model starts from.
InsertKey(st, k, v) ==
    IF st.root = INVALID
    THEN LET id == FreeId(st.pg)
         IN  [st EXCEPT !.pg = @ @@ (id :> [LeafInit(INVALID) EXCEPT !.keys = <<k>>, !.vals = <<v>>]),
                        !.root = id, !.catalog = UpdateRootPageId(@, TRUE, id)]
    ELSE LET leaf == FindLeaf(st.pg, st.root, k, FALSE)
         IN  IF LeafLookup(st.pg[leaf], k) THEN st ELSE InsertIntoLeaf(st, leaf, k, v)

RECURSIVE Load(_, _)
Load(st, ks) == IF ks = <<>> THEN st ELSE Load(InsertKey(st, Head(ks), CHOOSE v \in Vals : TRUE), Tail(ks))

\* The tree built by inserting the keys of ks one call at a time.
Loaded(ks) == Load([pg |-> <<>>, root |-> INVALID, catalog |-> NoRecord, deleted |-> {}], ks)

-----------------------------------------------------------------------------
(* Deletion.                                                               *)

\* Mutant of AdjustRoot: the only child is read from the key slot
\* (KeyAt(0) for ValueAt(0)).
AdjustRootKeyAsChild(st, id) ==
    LET n == st.pg[id]
    IN  IF GetSize(n) = 1
        THEN LET child == n.keys[1]
                 pg2 == Upd(st.pg, id, [n EXCEPT !.keys = <<>>, !.vals = <<>>])
             IN  [st EXCEPT !.pg = SetParentOf(pg2, {child}, INVALID), !.root = child,
                            !.catalog = UpdateRootPageId(@, FALSE, child), !.deleted = @ \cup {id}]
        ELSE IF n.leaf
        THEN [st EXCEPT !.root = INVALID, !.catalog = UpdateRootPageId(@, FALSE, INVALID),
                        !.deleted = @ \cup {id}]
        ELSE st

\* Mutant of AdjustRoot: the new root keeps its parent page id.
AdjustRootKeepParent(st, id) ==
    LET n == st.pg[id]
    IN  IF GetSize(n) = 1
        THEN [st EXCEPT !.pg = Upd(@, id, [n EXCEPT !.keys = <<>>, !.vals = <<>>]),
                        !.root = n.vals[1], !.catalog = UpdateRootPageId(@, FALSE, n.vals[1]),
                        !.deleted = @ \cup {id}]
        ELSE IF n.leaf
        THEN [st EXCEPT !.root = INVALID, !.catalog = UpdateRootPageId(@, FALSE, INVALID),
                        !.deleted = @ \cup {id}]
        ELSE st

\* AdjustRoot: a root with one entry is replaced by its only child, an
\* empty root leaf empties the tree; the old root is marked deleted.
AdjustRoot(st, id) ==
    LET n == st.pg[id]
    IN  IF GetSize(n) = 1
        THEN LET child == n.vals[1]
                 pg2 == Upd(st.pg, id, [n EXCEPT !.keys = <<>>, !.vals = <<>>])
             IN  [st EXCEPT !.pg = SetParentOf(pg2, {child}, INVALID), !.root = child,
                            !.catalog = UpdateRootPageId(@, FALSE, child), !.deleted = @ \cup {id}]
        ELSE IF n.leaf
        THEN [st EXCEPT !.root = INVALID, !.catalog = UpdateRootPageId(@, FALSE, INVALID),
                        !.deleted = @ \cup {id}]
        ELSE st

\* Redistribute: borrow the sibling's first pair when the node is its
\* parent's first child (index 0), the sibling's last pair otherwise.
Redistribute(st, sid, id, index) ==
    [st EXCEPT !.pg =
        IF index = 0
        THEN IF @[id].leaf THEN LeafMoveFirstToEndOf(@, sid, id)
             ELSE InternalMoveFirstToEndOf(@, sid, id)
        ELSE IF @[id].leaf THEN LeafMoveLastToFrontOf(@, sid, id, index)
             ELSE InternalMoveLastToFrontOf(@, sid, id, index)]

\* FindLeftSibling: the left sibling, the right one for a first child.
Sibling(pg, id) ==
    LET par   == pg[pg[id].parent]
        index == ValueIndex(par, id)
    IN  par.vals[(IF index = 0 THEN 1 ELSE index - 1) + 1]

\* Coalesce up to its recursive call: node moves everything into
\* neighbor_node, is marked deleted and its entry leaves the parent.  The
\* result names the parent as the next page to rebalance when it is left
\* at or below its minimum size, INVALID otherwise.
Coalesce(st, nb, nd, pid, index) ==
    LET pg1 == IF st.pg[nd].leaf THEN LeafMoveAllTo(st.pg, nd, nb)
               ELSE InternalMoveAllTo(st.pg, nd, nb, index)
        pg2 == Upd(pg1, pid, InternalRemove(pg1[pid], index))
    IN  [st |-> [st EXCEPT !.pg = pg2, !.deleted = @ \cup {nd}],
         up |-> IF GetSize(pg2[pid]) <= GetMinSize(pg2[pid]) THEN pid ELSE INVALID]

\* Mutant of RebalanceOnce: merges when both pages hold one entry more
\* than fits.
RebalanceOnceOverfull(st, id) ==
    LET n     == st.pg[id]
        par   == st.pg[n.parent]
        index == ValueIndex(par, id)
        sid   == Sibling(st.pg, id)
        nd    == IF index = 0 THEN sid ELSE id
    IN  IF GetSize(n) + GetSize(st.pg[sid]) <= GetMaxSize(n) + 1
        THEN Coalesce(st, IF index = 0 THEN id ELSE sid, nd, n.parent, ValueIndex(par, nd))
        ELSE [st |-> Redistribute(st, sid, id, index), up |-> INVALID]

\* CoalesceOrRedistribute below the root, with its sibling latched: merge
\* when both pages fit in one, the later page into the earlier (swap for
\* a right sibling); else borrow one entry.  Same result shape as Coalesce.
RebalanceOnce(st, id) ==
    LET n     == st.pg[id]
        pid   == n.parent
        par   == st.pg[pid]
        index == ValueIndex(par, id)
        sid   == Sibling(st.pg, id)
        right == index = 0
    IN  IF GetSize(n) + GetSize(st.pg[sid]) <= GetMaxSize(n)
        THEN LET nb == IF right THEN id ELSE sid
                 nd == IF right THEN sid ELSE id
             IN  Coalesce(st, nb, nd, pid, ValueIndex(par, nd))
        ELSE [st |-> Redistribute(st, sid, id, index), up |-> INVALID]

\* CoalesceOrRedistribute: the root is adjusted; any other page is
\* rebalanced against its sibling, and a parent left underfull by a merge
\* is rebalanced in turn (Coalesce's recursive call).
RECURSIVE CoalesceOrRedistribute(_, _)
CoalesceOrRedistribute(st, id) ==
    IF IsRootPage(st.pg[id]) THEN AdjustRoot(st, id)
    ELSE LET r == RebalanceOnce(st, id)
         IN  IF r.up = INVALID THEN r.st ELSE CoalesceOrRedistribute(r.st, r.up)

\* Remove(key) on the state record: on a non-empty tree, delete from the
\* leaf and rebalance it when it falls below its minimum size; pages
\* marked deleted are dropped from the pool when the transaction's pages
\* are released.
RemoveKey(st, k) ==
    IF st.root = INVALID THEN st
    ELSE LET leaf == FindLeaf(st.pg, st.root, k, FALSE)
             p    == LeafRemoveAndDeleteRecord(st.pg[leaf], k)
             st1  == [st EXCEPT !.pg = Upd(@, leaf, p)]
             st2  == IF GetSize(p) < GetMinSize(p) THEN CoalesceOrRedistribute(st1, leaf) ELSE st1
         IN  [st2 EXCEPT !.pg = Restrict(@, DOMAIN @ \ st2.deleted), !.deleted = {}]

Remove(k) ==
    /\ out' = [op |-> "Remove", key |-> k, ok |-> FALSE, val |-> NULL]
    /\ Commit(RemoveKey(Current, k))

RECURSIVE Unload(_, _)
Unload(st, ks) == IF ks = <<>> THEN st ELSE Unload(RemoveKey(st, Head(ks)), Tail(ks))

\* The tree left by inserting the keys of ins and then removing those of
\* rem, one call at a time.
Built(ins, rem) == Unload(Loaded(ins), rem)

\* GetValue(key): the value under the key in its leaf, if any.
GetValue(k) ==
    /\ out' = IF root # INVALID /\ LeafLookup(pages[FindLeaf(pages, root, k, FALSE)], k)
              THEN [op |-> "GetValue", key |-> k, ok |-> TRUE,
                    val |-> LeafValue(pages[FindLeaf(pages, root, k, FALSE)], k)]
              ELSE [op |-> "GetValue", key |-> k, ok |-> FALSE, val |-> NULL]
    /\ UNCHANGED <<pages, root, catalog>>

Next ==
    \E k \in Keys :
        \/ \E v \in Vals : Insert(k, v)
        \/ Remove(k)
        \/ GetValue(k)

Spec == Init /\ [][Next]_vars

-----------------------------------------------------------------------------
(* The tree as the properties read it.                                     *)

\* Page ids in the subtree of id, following only children that exist.
RECURSIVE Below(_, _, _)
Below(pg, id, fuel) ==
    {id} \cup IF fuel = 0 \/ pg[id].leaf THEN {}
              ELSE UNION {Below(pg, c, fuel - 1) : c \in SX!ToSet(pg[id].vals) \cap DOMAIN pg}

Reachable == IF root \in DOMAIN pages THEN Below(pages, root, Cardinality(PageIds)) ELSE {}

Leaves == {id \in Reachable : pages[id].leaf}

\* Leaves of the subtree of id from left to right.
RECURSIVE LeafSeq(_, _)
LeafSeq(id, fuel) ==
    IF pages[id].leaf \/ fuel = 0 THEN <<id>>
    ELSE SX!FlattenSeq([i \in DOMAIN pages[id].vals |->
                        IF pages[id].vals[i] \in DOMAIN pages
                        THEN LeafSeq(pages[id].vals[i], fuel - 1) ELSE <<>>])

\* Leaves met following next_page_id_ from id.
RECURSIVE Chain(_, _)
Chain(id, fuel) ==
    IF id \notin DOMAIN pages \/ fuel = 0 THEN <<>>
    ELSE <<id>> \o Chain(pages[id].next, fuel - 1)

\* Depths (counted in pages) of the leaves of the subtree of id.
RECURSIVE LeafDepths(_, _)
LeafDepths(id, fuel) ==
    IF pages[id].leaf \/ fuel = 0 THEN {1}
    ELSE {d + 1 : d \in UNION {LeafDepths(c, fuel - 1) :
                                c \in SX!ToSet(pages[id].vals) \cap DOMAIN pages}}

\* The key/value pairs stored in the allocated leaf pages (a leaf left
\* unreachable but allocated would keep its pairs visible here).
TreeContents ==
    LET pairs == UNION {{<<pages[l].keys[i], pages[l].vals[i]>> : i \in DOMAIN pages[l].keys} :
                        l \in {id \in DOMAIN pages : pages[id].leaf}}
    IN  [k \in {pr[1] : pr \in pairs} |-> (CHOOSE pr \in pairs : pr[1] = k)[2]]

Increasing(s) == \A i \in 1..Len(s) - 1 : s[i] < s[i + 1]

\* Every key of the subtree of id lies in [lo, hi), where each separator
\* on the path from the root narrows the range of the child below it.
RECURSIVE OrderedWithin(_, _, _, _)
OrderedWithin(id, lo, hi, fuel) ==
    LET p == pages[id]
    IN  IF p.leaf THEN Increasing(p.keys) /\ \A i \in DOMAIN p.keys : lo <= p.keys[i] /\ p.keys[i] < hi
        ELSE /\ Increasing(SubSeq(p.keys, 2, Len(p.keys)))
             /\ fuel > 0
             /\ \A i \in DOMAIN p.vals : p.vals[i] \in DOMAIN pages =>
                   OrderedWithin(p.vals[i],
                                 IF i > 1 /\ p.keys[i] > lo THEN p.keys[i] ELSE lo,
                                 IF i < Len(p.vals) /\ p.keys[i + 1] < hi THEN p.keys[i + 1] ELSE hi,
                                 fuel - 1)

-----------------------------------------------------------------------------
(* The code's own consistency check (Check, isBalanced, isPageCorr), which *)
(* the tests run after their calls.  Pins are not modelled, so its third  *)
(* part, CheckAllUnpined, is left out.                                    *)

\* KeyAt(i) of a page; an index outside the array reads the zeroed key
\* (only an empty leaf does, and its size check has already failed).
KeyAt(p, i) == IF i \in 0..GetSize(p) - 1 THEN p.keys[i + 1] ELSE ZeroKey

\* isBalanced(pid): 0 for a leaf; for an internal page, one more than the
\* value of its first child when every child has that value and it is
\* not negative, else -1.
RECURSIVE IsBalancedAt(_, _)
IsBalancedAt(pg, pid) ==
    IF pg[pid].leaf THEN 0
    ELSE LET c == [i \in DOMAIN pg[pid].vals |-> IsBalancedAt(pg, pg[pid].vals[i])]
         IN  IF c[1] >= 0 /\ \A i \in DOMAIN c : c[i] = c[1] THEN c[1] + 1 ELSE -1

\* isPageCorr(pid, out): the page's size is within [min, max], a leaf's
\* keys do not fall, and for an internal page every child is correct
\* (child 0 is visited in the loop over 1..size-1, so only when size >= 2),
\* separators 1.. rise, and separator i lies above the last key `out`
\* reports for child i-1 and at or below the first key it reports for
\* child i.  `out` is the page's KeyAt(0) and KeyAt(size-1) -- for an
\* internal page slot 0 holds no separator, only what the moves left there.
RECURSIVE PageCorr(_, _)
PageCorr(pg, pid) ==
    LET p    == pg[pid]
        n    == GetSize(p)
        rep  == [lo |-> KeyAt(p, 0), hi |-> KeyAt(p, n - 1)]
        size == GetMinSize(p) <= n /\ n <= GetMaxSize(p)
    IN  IF p.leaf
        THEN [ok |-> size /\ \A i \in 1..n - 1 : KeyAt(p, i - 1) <= KeyAt(p, i)] @@ rep
        ELSE LET c == [i \in 0..n - 1 |-> PageCorr(pg, ValueAt(p, i))]
             IN  [ok |-> /\ size
                         /\ \A i \in (IF n >= 2 THEN 0 ELSE 1)..n - 1 : c[i].ok
                         /\ \A i \in 1..n - 1 :
                               /\ KeyAt(p, i) > c[i - 1].hi
                               /\ KeyAt(p, i) <= c[i].lo
                               /\ i = 1 \/ KeyAt(p, i - 1) < KeyAt(p, i)] @@ rep

\* Check(true): isPageCorr and isBalanced of the root; an empty tree passes.
Check(pg, rt) ==
    rt # INVALID => PageCorr(pg, rt).ok /\ IsBalancedAt(pg, rt) >= 0

-----------------------------------------------------------------------------
(* Properties.                                                             *)

PageRec == [leaf : BOOLEAN, keys : Seq(Keys \cup {ZeroKey}),
            vals : Seq(Vals \cup PageIds), parent : PageIds \cup {INVALID},
            next : PageIds \cup {INVALID}]

TypeOK ==
    /\ DOMAIN pages \subseteq PageIds
    /\ \A id \in DOMAIN pages : pages[id] \in PageRec
    /\ root \in PageIds \cup {INVALID}
    /\ catalog \in PageIds \cup {INVALID, NoRecord}

\* The pages form one balanced tree rooted at root_page_id_ (spec sec. 3
\* and the isBalanced check of the code): the tree is empty exactly when
\* no page is allocated; every allocated page is reachable from the root
\* (merges, root collapses and splits neither leak nor orphan a page);
\* every child entry names an allocated page whose parent_page_id_ is
\* the page holding the entry -- splits, merges and redistributions
\* re-parent moved children one by one -- and all leaves lie at the same
\* depth.
TreeShape ==
    /\ (root = INVALID) <=> (DOMAIN pages = {})
    /\ root # INVALID =>
         /\ root \in DOMAIN pages
         /\ pages[root].parent = INVALID
         /\ Reachable = DOMAIN pages
         /\ \A id \in DOMAIN pages : ~pages[id].leaf =>
               \A i \in DOMAIN pages[id].vals :
                   /\ pages[id].vals[i] \in DOMAIN pages
                   /\ pages[pages[id].vals[i]].parent = id
         /\ Cardinality(LeafDepths(root, Cardinality(PageIds))) = 1

\* Search order (spec sec. 8, isPageCorr): keys rise strictly inside every
\* page (an internal page from index 1 on), and every key below child i of
\* an internal page lies in [key_i, key_i+1).  Redistribution rewrites a
\* separator in the parent and an internal page moves the key it keeps in
\* slot 0 to its sibling, so a stale separator shows up here.
SearchOrder ==
    root \in DOMAIN pages =>
        OrderedWithin(root, ZeroKey, Max(Keys) + 1, Cardinality(PageIds))

\* Occupancy (spec secs. 3 and 8): every page of the tree holds between
\* its minimum (root leaf 1, root internal 2, else max/2) and its maximum
\* number of entries once a call has returned: splits, merges and the
\* borrowing of one entry keep every page in range.
Occupancy ==
    \A id \in Reachable :
        GetMinSize(pages[id]) <= GetSize(pages[id]) /\ GetSize(pages[id]) <= GetMaxSize(pages[id])

\* The leaf chain (spec sec. 8): next_page_id_ links, followed from the
\* leftmost leaf, visit every leaf exactly once in left-to-right order and
\* end at INVALID; splits and merges relink it.
LeafChain ==
    root \in DOMAIN pages =>
        LET ls == LeafSeq(root, Cardinality(PageIds))
        IN  /\ Chain(ls[1], Cardinality(PageIds) + 1) = ls
            /\ pages[SX!Last(ls)].next = INVALID

\* The repository's own consistency check passes after every call, the
\* way the tests assert it.  Beyond the search order it compares each
\* separator of an internal page with KeyAt(0) of the child to its right,
\* a slot that holds no separator of its own: it passes only because
\* MoveHalfTo, MoveAllTo and the borrows leave in that slot exactly the
\* key the parent uses for the page.
CheckPasses == Check(pages, root)

\* The tree implements a map from unique keys to values: every Insert,
\* Remove and GetValue step is a step of IndexSpec on the pairs held in
\* the reachable leaves, with the same result (spec sec. 8 round trip and
\* failed-insert properties).
Index == INSTANCE IndexSpec WITH kv <- TreeContents
IndexRefinement == Index!Spec

\* The header page names the live root (spec sec. 4.4, root-id
\* persistence: insert the record the first time, update thereafter):
\* whenever the tree has a root, the record stored for the index is it.
CatalogTracksRoot == root # INVALID => catalog = root

=============================================================================
