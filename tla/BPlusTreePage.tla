---------------------------- MODULE BPlusTreePage ----------------------------
(***************************************************************************)
(* The node layouts of the index (page/b_plus_tree_page.cpp,              *)
(* page/b_plus_tree_leaf_page.cpp, page/b_plus_tree_internal_page.cpp)    *)
(* as operators without state.                                            *)
(*                                                                         *)
(* A page is a record: leaf (the type tag), keys and vals (the `array` of *)
(* MappingType pairs, its length is the header's size), parent            *)
(* (parent_page_id_) and next (next_page_id_, leaves only).  An internal  *)
(* page keeps its child page ids in vals and, like the code, keeps        *)
(* whatever key sits in slot 0.  A store `pg` is a function from the ids  *)
(* of the allocated pages to pages; operators that the code runs on       *)
(* several pages (a move between siblings that also rewrites the parent   *)
(* separator or the children's parent ids) take and return a store.      *)
(*                                                                         *)
(* Array indices of the code are 0-based: code index i is position i + 1. *)
(* The capacities are the constants LeafMax and InternalMax (the code     *)
(* derives them from PAGE_SIZE and the entry width).                      *)
(***************************************************************************)
EXTENDS Integers, Sequences
LOCAL INSTANCE SequencesExt

CONSTANTS LeafMax, InternalMax, INVALID, ZeroKey

ASSUME LeafMax \in Nat \ {0, 1} /\ InternalMax \in Nat \ {0, 1, 2}

\* b_plus_tree_page.cpp: IsLeafPage, IsRootPage, GetSize, GetMaxSize.
IsRootPage(p) == p.parent = INVALID
GetSize(p) == Len(p.keys)
GetMaxSize(p) == IF p.leaf THEN LeafMax ELSE InternalMax

\* GetMinSize: 1 for a root leaf, 2 for a root internal page, max/2 else.
GetMinSize(p) ==
    IF IsRootPage(p) THEN (IF p.leaf THEN 1 ELSE 2)
    ELSE GetMaxSize(p) \div 2

\* Mutant of IsSafe: a leaf at its minimum size counts as safe for a delete.
IsSafeLeafAtMin(p, op) ==
    IF op = "INSERT" THEN GetSize(p) < GetMaxSize(p)
    ELSE IF op = "DELETE"
         THEN IF p.leaf THEN GetSize(p) >= GetMinSize(p)
              ELSE GetSize(p) > GetMinSize(p) + 1
    ELSE FALSE

\* Mutant of IsSafe: an internal page one above its minimum size counts as
\* safe for a delete, though Coalesce rebalances it at size <= min.
IsSafeInternalAtMin(p, op) ==
    IF op = "INSERT" THEN GetSize(p) < GetMaxSize(p)
    ELSE IF op = "DELETE"
         THEN IF p.leaf THEN GetSize(p) >= GetMinSize(p) + 1
              ELSE GetSize(p) > GetMinSize(p)
    ELSE FALSE

\* IsSafe(op): an insert cannot split the page, a delete cannot make it
\* rebalance (leaves: size >= min + 1, internal pages: size > min + 1).
IsSafe(p, op) ==
    IF op = "INSERT" THEN GetSize(p) < GetMaxSize(p)
    ELSE IF op = "DELETE"
         THEN IF p.leaf THEN GetSize(p) >= GetMinSize(p) + 1
              ELSE GetSize(p) > GetMinSize(p) + 1
    ELSE FALSE

\* Init of either page kind on a page the buffer pool handed out zeroed.
LeafInit(parent) ==
    [leaf |-> TRUE, keys |-> <<>>, vals |-> <<>>, parent |-> parent, next |-> INVALID]
InternalInit(parent) ==
    [leaf |-> FALSE, keys |-> <<>>, vals |-> <<>>, parent |-> parent, next |-> INVALID]

\* (internal page) ValueIndex: 0-based index of the child, -1 when it is not there.
ValueIndex(p, v) ==
    IF \E i \in DOMAIN p.vals : p.vals[i] = v
    THEN (CHOOSE i \in DOMAIN p.vals : p.vals[i] = v) - 1
    ELSE -1

Upd(pg, id, p) == [pg EXCEPT ![id] = p]

\* The children named in `ids` get `par` as their parent page id.
SetParentOf(pg, ids, par) ==
    [i \in DOMAIN pg |-> IF i \in ids THEN [pg[i] EXCEPT !.parent = par] ELSE pg[i]]

-----------------------------------------------------------------------------
(* Leaf pages.                                                             *)

\* KeyIndex: binary search for the first index whose key is >= k.
RECURSIVE KeyIndexSearch(_, _, _, _)
KeyIndexSearch(keys, k, l, r) ==
    IF l > r THEN r + 1
    ELSE LET m == (l + r) \div 2
         IN  IF keys[m + 1] >= k THEN KeyIndexSearch(keys, k, l, m - 1)
             ELSE KeyIndexSearch(keys, k, m + 1, r)

KeyIndex(keys, k) == KeyIndexSearch(keys, k, 0, Len(keys) - 1)

\* Lookup: true iff the key at KeyIndex is k.
LeafLookup(p, k) ==
    LET i == KeyIndex(p.keys, k) IN i < GetSize(p) /\ p.keys[i + 1] = k

LeafValue(p, k) == p.vals[KeyIndex(p.keys, k) + 1]

\* Insert: shift right from KeyIndex and store the pair there.
LeafInsert(p, k, v) ==
    LET i == KeyIndex(p.keys, k) + 1
    IN  [p EXCEPT !.keys = InsertAt(@, i, k), !.vals = InsertAt(@, i, v)]

\* RemoveAndDeleteRecord: no change unless the key is present.
LeafRemoveAndDeleteRecord(p, k) ==
    IF ~LeafLookup(p, k) THEN p
    ELSE LET i == KeyIndex(p.keys, k) + 1
         IN  [p EXCEPT !.keys = RemoveAt(@, i), !.vals = RemoveAt(@, i)]

\* MoveHalfTo on a leaf holding max + 1 pairs: pairs max'..max (0-based,
\* max' = (max + 1) / 2) are copied to the recipient, which is then given
\* size max' -- not the number of pairs copied -- and the chain becomes
\* this -> recipient -> old next.
LeafMoveHalfTo(pg, id, rid) ==
    LET p  == pg[id]
        ri == (GetMaxSize(p) + 1) \div 2
        copied(s) == SubSeq(s, ri + 1, GetMaxSize(p) + 1)
        r  == [pg[rid] EXCEPT !.keys = SubSeq(copied(p.keys), 1, ri),
                              !.vals = SubSeq(copied(p.vals), 1, ri),
                              !.next = p.next]
    IN  [pg EXCEPT ![rid] = r,
                   ![id]  = [p EXCEPT !.keys = SubSeq(@, 1, ri),
                                      !.vals = SubSeq(@, 1, ri), !.next = rid]]

\* Mutant of LeafMoveAllTo: the recipient keeps its own next link.
LeafMoveAllToNoRelink(pg, id, rid) ==
    LET p == pg[id]
    IN  [pg EXCEPT ![rid] = [@ EXCEPT !.keys = @ \o p.keys, !.vals = @ \o p.vals],
                   ![id]  = [p EXCEPT !.keys = <<>>, !.vals = <<>>]]

\* MoveAllTo: append every pair to the recipient, which takes over the
\* next link; this page is left empty.
LeafMoveAllTo(pg, id, rid) ==
    LET p == pg[id]
    IN  [pg EXCEPT ![rid] = [@ EXCEPT !.keys = @ \o p.keys, !.vals = @ \o p.vals,
                                      !.next = p.next],
                   ![id]  = [p EXCEPT !.keys = <<>>, !.vals = <<>>]]

\* Mutant of LeafMoveFirstToEndOf: the pair leaves this page but is not
\* copied to the recipient.
LeafMoveFirstToEndOfDrop(pg, id, rid) ==
    LET p   == pg[id]
        par == pg[p.parent]
        p2  == [p EXCEPT !.keys = Tail(@), !.vals = Tail(@)]
    IN  [pg EXCEPT ![id] = p2,
                   ![p.parent] = [par EXCEPT !.keys[ValueIndex(par, id) + 1] = p2.keys[1]]]

\* MoveFirstToEndOf + CopyLastFrom: the first pair goes to the end of the
\* recipient, and the parent's key for this page becomes its new first key.
LeafMoveFirstToEndOf(pg, id, rid) ==
    LET p   == pg[id]
        par == pg[p.parent]
        p2  == [p EXCEPT !.keys = Tail(@), !.vals = Tail(@)]
        pi  == ValueIndex(par, id) + 1
    IN  [pg EXCEPT ![id] = p2,
                   ![rid] = [@ EXCEPT !.keys = Append(@, Head(p.keys)),
                                      !.vals = Append(@, Head(p.vals))],
                   ![p.parent] = [par EXCEPT !.keys[pi] = p2.keys[1]]]

\* Mutant of LeafMoveLastToFrontOf: the parent's separator is not rewritten.
LeafMoveLastToFrontOfNoSeparator(pg, id, rid, parentIndex) ==
    LET p == pg[id]
    IN  [pg EXCEPT ![id] = [p EXCEPT !.keys = Front(@), !.vals = Front(@)],
                   ![rid] = [@ EXCEPT !.keys = <<Last(p.keys)>> \o @,
                                      !.vals = <<Last(p.vals)>> \o @]]

\* MoveLastToFrontOf + CopyFirstFrom: the last pair goes to the front of
\* the recipient, and the parent's key at parentIndex becomes that key.
LeafMoveLastToFrontOf(pg, id, rid, parentIndex) ==
    LET p == pg[id]
        r == pg[rid]
    IN  [pg EXCEPT ![id] = [p EXCEPT !.keys = Front(@), !.vals = Front(@)],
                   ![rid] = [r EXCEPT !.keys = <<Last(p.keys)>> \o @,
                                      !.vals = <<Last(p.vals)>> \o @],
                   ![r.parent] = [@ EXCEPT !.keys[parentIndex + 1] = Last(p.keys)]]

-----------------------------------------------------------------------------
(* Internal pages.                                                         *)

\* Lookup: binary search over keys 1..size-1 for the last key <= k.
RECURSIVE LookupSearch(_, _, _, _)
LookupSearch(keys, k, l, r) ==
    IF l > r THEN l
    ELSE LET m == (l + r) \div 2
         IN  IF keys[m + 1] <= k THEN LookupSearch(keys, k, m + 1, r)
             ELSE LookupSearch(keys, k, l, m - 1)

InternalLookup(p, k) == p.vals[LookupSearch(p.keys, k, 1, GetSize(p) - 1)]

\* ValueAt(i): the child page id in slot i (slots count from 0).
ValueAt(p, i) == p.vals[i + 1]

\* PopulateNewRoot: slot 0 keeps the zeroed key of a fresh page.
PopulateNewRoot(oldv, k, newv) ==
    [InternalInit(INVALID) EXCEPT !.keys = <<ZeroKey, k>>, !.vals = <<oldv, newv>>]

\* InsertNodeAfter: the pair goes right after the entry of old_value.
InsertNodeAfter(p, oldv, k, newv) ==
    LET i == ValueIndex(p, oldv) + 2
    IN  [p EXCEPT !.keys = InsertAt(@, i, k), !.vals = InsertAt(@, i, newv)]

\* MoveHalfTo: entries (max+1)/2 .. max go to the recipient with their
\* key in slot 0, and each moved child is re-parented to the recipient.
InternalMoveHalfTo(pg, id, rid) ==
    LET p  == pg[id]
        ri == (GetMaxSize(p) + 1) \div 2
        moved == SubSeq(p.vals, ri + 1, GetMaxSize(p) + 1)
        pg2 == [pg EXCEPT
                  ![rid] = [@ EXCEPT !.keys = SubSeq(p.keys, ri + 1, GetMaxSize(p) + 1),
                                     !.vals = moved],
                  ![id]  = [p EXCEPT !.keys = SubSeq(@, 1, ri), !.vals = SubSeq(@, 1, ri)]]
    IN  SetParentOf(pg2, ToSet(moved), rid)

\* Remove(index): delete the entry, shifting the rest left.
InternalRemove(p, index) ==
    [p EXCEPT !.keys = RemoveAt(@, index + 1), !.vals = RemoveAt(@, index + 1)]

\* MoveAllTo: slot 0 takes the parent's separator for this page, then
\* every entry is appended to the recipient and re-parented to it.
InternalMoveAllTo(pg, id, rid, indexInParent) ==
    LET p   == pg[id]
        sep == pg[p.parent].keys[indexInParent + 1]
        ks  == [p.keys EXCEPT ![1] = sep]
        pg2 == [pg EXCEPT ![rid] = [@ EXCEPT !.keys = @ \o ks, !.vals = @ \o p.vals],
                          ![id]  = [p EXCEPT !.keys = <<>>, !.vals = <<>>]]
    IN  SetParentOf(pg2, ToSet(p.vals), rid)

\* Mutant of InternalMoveFirstToEndOf: the moved child keeps its parent id.
InternalMoveFirstToEndOfNoReparent(pg, id, rid) ==
    LET p   == pg[id]
        p2  == [p EXCEPT !.keys = Tail(@), !.vals = Tail(@)]
        pg2 == [pg EXCEPT ![id] = p2,
                          ![rid] = [@ EXCEPT !.keys = Append(@, Head(p.keys)),
                                             !.vals = Append(@, Head(p.vals))]]
    IN  [pg2 EXCEPT ![p.parent] = [@ EXCEPT !.keys[ValueIndex(pg[p.parent], id) + 1] = p2.keys[1]]]

\* MoveFirstToEndOf + CopyLastFrom: the entry in slot 0 (with the key
\* stored there) goes to the end of the recipient, its child is
\* re-parented, and the parent's key for this page becomes the new slot-0
\* key.
InternalMoveFirstToEndOf(pg, id, rid) ==
    LET p   == pg[id]
        par == pg[p.parent]
        p2  == [p EXCEPT !.keys = Tail(@), !.vals = Tail(@)]
        pi  == ValueIndex(par, id) + 1
        pg2 == [pg EXCEPT ![id] = p2,
                          ![rid] = [@ EXCEPT !.keys = Append(@, Head(p.keys)),
                                             !.vals = Append(@, Head(p.vals))]]
        pg3 == SetParentOf(pg2, {Head(p.vals)}, rid)
    IN  [pg3 EXCEPT ![p.parent] = [@ EXCEPT !.keys[pi] = p2.keys[1]]]

\* Mutant of InternalMoveLastToFrontOf: the parent's separator is not
\* rewritten.
InternalMoveLastToFrontOfNoSeparator(pg, id, rid, parentIndex) ==
    LET p   == pg[id]
        pg2 == [pg EXCEPT ![id] = [p EXCEPT !.keys = Front(@), !.vals = Front(@)],
                          ![rid] = [@ EXCEPT !.keys = <<Last(p.keys)>> \o @,
                                             !.vals = <<Last(p.vals)>> \o @]]
    IN  SetParentOf(pg2, {Last(p.vals)}, rid)

\* MoveLastToFrontOf + CopyFirstFrom: the last entry goes to slot 0 of the
\* recipient, its child is re-parented, and the parent's key at
\* parent_index becomes the moved key.
InternalMoveLastToFrontOf(pg, id, rid, parentIndex) ==
    LET p   == pg[id]
        pg2 == [pg EXCEPT ![id] = [p EXCEPT !.keys = Front(@), !.vals = Front(@)],
                          ![rid] = [@ EXCEPT !.keys = <<Last(p.keys)>> \o @,
                                             !.vals = <<Last(p.vals)>> \o @]]
        pg3 == SetParentOf(pg2, {Last(p.vals)}, rid)
    IN  [pg3 EXCEPT ![pg[rid].parent] = [@ EXCEPT !.keys[parentIndex + 1] = Last(p.keys)]]

=============================================================================
