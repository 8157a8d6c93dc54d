----------------------------- MODULE MC_BPlusTree -----------------------------
(* Instantiates BPlusTree for TLC: small keys, one value, a pool of page  *)
(* ids large enough that no Insert is refused for lack of pages.          *)
EXTENDS BPlusTree

\* Eight keys grow the tree to height 3 (LeafMax = InternalMax = 3).
MCKeys == 1..8
MCPageIds == 1..16
MCInvalid == -1

\* The even-capacity run: leaves of LeafMax = InternalMax = 4 (the
\* parity of 4-, 16- and 32-byte keys) fill and split with five keys.
MCSplitKeys == 1..5

(* The wide run starts from the tree the code builds when the keys of     *)
(* MCWideKeys are inserted in ascending order (height 3, five leaves) and *)
(* explores the trees of height 3 reachable from it, where internal pages *)
(* borrow from and merge with their siblings.                             *)
MCWideKeys == 1..10
MCWidePageIds == 1..12

WideStart == Loaded([i \in 1..10 |-> i])

WideInit ==
    /\ pages = WideStart.pg
    /\ root = WideStart.root
    /\ catalog = WideStart.catalog
    /\ out = [op |-> "none", key |-> NULL, ok |-> FALSE, val |-> NULL]

WideSpec == WideInit /\ [][Next]_vars

\* The wide run stays among trees of height 3.
HeightThree == root # INVALID /\ Height(pages, root) = 3

\* Leaves out of the view the result of the last call, which no step reads.
TreeView == <<pages, root, catalog>>
=============================================================================
