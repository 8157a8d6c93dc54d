--------------------------- MODULE MC_BPlusTreeLatch ---------------------------
(* Instantiates BPlusTreeLatch for TLC, with capacity 3 (LeafMax =        *)
(* InternalMax = 3).  The four-key tree is a root over the leaves [1,2]  *)
(* and [3,4]; removing 2 leaves [1] beside [3,4], where one more Remove   *)
(* merges the leaves and collapses the root.                              *)
EXTENDS BPlusTreeLatch, TLC

MCKeys == 1..4
MCPageIds == 1..8
MCInvalid == -1

\* The empty and the four-key tree (the null-dereference run, two
\* threads of two calls each).
MCStarts == {Tree!Built(<<>>, <<>>), Tree!Built(<<1, 2, 3, 4>>, <<>>)}

\* The linearizability run: six keys, from the tree of 1..5 (leaves [1,2]
\* and [3,4,5]), where an Insert splits the leaf another call is heading
\* for, and Removes merge or borrow.
MCLinKeys == 1..6
MCLinStarts == {Tree!Built(<<1, 2, 3, 4, 5>>, <<>>)}

\* The deep tree: a tree of height 3 (eight keys), where a call holds a
\* safe internal page without the root-id lock, so another call can
\* reach that page and wait on its latch.
MCDeepKeys == 1..9
MCDeepPageIds == 1..12
MCDeepStarts == {Tree!Built(<<1, 2, 3, 4, 5, 6, 7, 8>>, <<>>)}

\* The safety run: three threads of one call each, from the empty, the
\* four-key and the deep tree;
\* two keys beyond the deep tree's, so two Inserts can head for the same
\* leaf while one of them splits it.
MCSafetyKeys == 1..10
MCSafetyStarts == MCStarts \cup MCDeepStarts

\* The liveness run: one call per thread, from the deep tree and from
\* trees where that call starts a tree, splits the root leaf, merges
\* leaves and collapses the root, or empties the tree.
MCLiveStarts ==
    MCDeepStarts \cup {Tree!Built(<<>>, <<>>), Tree!Built(<<1>>, <<>>),
                       Tree!Built(<<1, 2, 3>>, <<>>),
                       Tree!Built(<<1, 2, 3, 4>>, <<2>>)}

\* The delete run: the leaves [1], [3], [5], [7] and [9, 10] under the
\* internal pages [1 | 3] and [5 | 7 | 9].  The second is safe for a
\* delete, so a Remove under it releases the root; a Remove of 1 or 3
\* keeps the root, and its merge leaves [1 | 3] at its minimum, which
\* Coalesce rebalances by latching [5 | 7 | 9] as the sibling -- while
\* the other Remove may hold it and be merging the leaves below it.
MCDeleteStarts == {Tree!Built(<<1, 2, 3, 4, 5, 6, 7, 8, 9, 10>>, <<2, 4, 6, 8>>)}

\* Threads run the same code, so a permutation of them maps a behaviour
\* to a behaviour (used by a safety run only).
ThreadSymmetry == Permutations(Threads)
====
