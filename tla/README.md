# TLA+ models of the scu_db storage core

This directory holds TLA+ models of the storage core in
`src/scu_database_solution/src`, and the TLC configurations that check them:

- the LRU victim selector of the buffer pool;
- the B+ tree index, including its page layouts;
- concurrent calls of the B+ tree: latch crabbing and the root-id lock;
- the extendible hash table that serves as the buffer pool's page table.

Every module is translated from the C++ source. The three spec-only modules
say what a component promises: `LRUSpec`, `HashSpec` and `IndexSpec`, from
`spec.md` sections 4.1, 4.2 and 4.4. The header-page operations and the
operations of the extendible hash are also modelled from the spec, because
their code is not in the source tree (only the hash's class declaration is). `PROJECT.json` maps each
definition to the lines it models, lists every run and mutant, and lists the
hazards of the code.

## The system and how its parts interact

| Part | Source | Role |
|---|---|---|
| LRU replacer | `buffer/lru_replacer.cpp` | Tracks unpinned frames. `Victim` returns the least recently inserted one. |
| Extendible hash | `include/hash/extendible_hash.h` (declaration only) | The page table of the buffer pool. |
| Tree pages | `page/b_plus_tree_page.cpp`, `b_plus_tree_leaf_page.cpp`, `b_plus_tree_internal_page.cpp` | Node layouts: sorted arrays of pairs with size, capacity and parent id; leaves also keep a next link. They provide the split, merge and borrow primitives. |
| B+ tree | `index/b_plus_tree.cpp` | `GetValue`, `Insert`, `Remove` and `Begin` over pages fetched from the buffer pool. Structural changes are split/InsertIntoParent and CoalesceOrRedistribute/Coalesce/AdjustRoot. Concurrent calls use latch crabbing and a root-id lock. |
| Header page, buffer pool, disk manager, index iterator | not in the source tree | External collaborators (spec section 6). |

The tree reaches every page through the buffer pool, which uses the LRU
replacer to pick frames to evict. The tree records its root page id in the
header page through `UpdateRootPageId`: `InsertRecord` when starting a new
tree, `UpdateRecord` on every other root change.

## Modules

### `LRUSpec` and `LRUReplacer`

`LRUSpec` is the contract of spec section 4.1: a sequence of values, most
recent first.
- `Insert` moves a value to the front.
- `Victim` pops the back.
- `Erase` removes a value wherever it is.

`LRUReplacer` is the code's data structure:
- `next` and `prev` are the pointer fields of the nodes; a node is named by
  its value;
- `HEAD` and `TAIL` are the two sentinels;
- `map` is the set of keys of the `unordered_map`;
- `ret` is the result of the last call.

Each public method takes `latch` for its whole body, so `Insert`, `Victim`
and `Erase` are one atomic action each. Every pointer write of the method is
in its action. `Insert` unlinks a tracked node first and then reads
`head->next`, as the code does. `Size` only reads state and is not an action.
`ListOrder` walks `next` from `HEAD`. The refinement
`INSTANCE LRUSpec WITH order <- ListOrder` shows that the list implements the
recency order.

### `BPlusTreePage`

This module holds the three page files as operators without state.
- A page is a record `[leaf, keys, vals, parent, next]`. `Len(keys)` is the
  header's `size_`.
- An internal page keeps its child ids in `vals` and keeps whatever key
  sits in slot 0, as the code does.
- Operators that the code runs on several pages take and return a store
  (page id -> page). These are the moves between siblings, which also rewrite
  a separator in the parent or the parent ids of moved children.
- Every operator includes the `Copy*From` half of its method, and the parent
  separator and parent-id updates that method makes.
- `KeyIndex` (leaf) and `Lookup` (internal) are the code's binary searches,
  written as `RECURSIVE` operators.

`LeafMoveHalfTo` keeps the code's behaviour exactly: it copies
`max + 1 - (max+1)/2` pairs but gives the new page size `(max+1)/2`.

### `BPlusTree`

This module models the tree with each public call as one atomic step. It is
the behaviour of the tree when calls do not overlap.
- **State.** `pages` is the allocated pages; `root` is `root_page_id_`;
  `catalog` is the root id recorded in the header page (`NoRecord` before the
  first `InsertRecord`); `out` is the result of the last call, including its
  key.
- **Recursive helpers.** `InsertIntoParent` and `CoalesceOrRedistribute`
  are `RECURSIVE` operators. They thread a record through the call tree, in
  the order the code writes: `[pg, root, catalog, deleted]`.
  - `RebalanceOnce` is one level of `CoalesceOrRedistribute`: it finds the
    sibling (`Sibling`, from `FindLeftSibling`), then merges (`Coalesce`) or
    borrows (`Redistribute`).
  - It returns the parent as the next page to rebalance when a merge leaves
    the parent at or below its minimum. That is Coalesce's recursive call.
  - The concurrent module takes the same levels one at a time, because each
    level waits for a sibling latch.
- **Operators on the state record.** `InsertKey` and `RemoveKey` are whole
  calls on the record. `Load` and `Unload` apply them to a sequence of keys,
  as `InsertFromFile` and `RemoveFromFile` do. `Built(ins, rem)` is the tree
  that those calls leave. The concurrent runs start from such trees, so
  every start state is reachable by the code.
- **Commit.** `Commit` is `FreePagesInTransaction`: it frees the pages in
  the transaction's deleted set.
- **Actions.**
  - `Insert(k, v)` has two disjuncts: the empty-tree path (`StartNewTree`),
    and the lookup/duplicate/insert/split path (`InsertIntoLeaf`).
  - `Remove(k)` deletes the key and rebalances when the leaf falls below its
    minimum.
  - `GetValue(k)` returns the value under the key.
- **The code's own check.** `Check`, `isPageCorr` and `isBalanced` (the
  consistency check the tests run after their calls) are the operators
  `Check`, `PageCorr` and `IsBalancedAt`. The last two are `RECURSIVE`, one
  level per call of the code:
  - `IsBalancedAt` returns a leaf's height 0, and one more than its
    children's common height, or -1 when they differ.
  - `PageCorr` returns whether the subtree is right, with the page's first
    and last key, the code's `out` pair. It visits child 0 only when the page
    has a second child, as the code's loop does.
  - They compare a separator with the slot-0 key of the child to its right,
    so they also check what the moves write into the internal sentinel slot.
  Pins are left out, and so is `CheckAllUnpined`.
- **Header page.** `UpdateRootPageId(insert_record)` calls `InsertRecord` or
  `UpdateRecord`, as the code does. `InsertRecord` refuses a name that already has a record,
  and `UpdateRecord` refuses a name that has none. Both are modelled from the
  spec (`spec_modelled`), because `header_page.cpp` is not in the source
  tree.
- **Page ids.** `FreeId` stands for `NewPage`: it returns the smallest free
  id of `PageIds`. An `Insert` is only taken when the pool has a free id for
  a split at every level plus a new root. The code asserts on an
  out-of-memory `NewPage`, and that path is not modelled.
- **Latches and pins.** They have no effect on a call that runs alone, so
  they are left out of this module.

`IndexSpec` is the contract of spec section 4.4: a map from keys to values,
where every result names its key. `TreeContents` reads the pairs in the
allocated leaf pages. `TreeShape` makes every allocated page reachable
from the root, so this is the same set.
`Index == INSTANCE IndexSpec WITH kv <- TreeContents` is checked as a
property: every call of the code is a call of the map, with the same result.

### `BPlusTreeLatch` and `MC_BPlusTreeLatch`

Threads (model values) run `GetValue`, `Insert`, `Remove`, `Begin()` and
`Begin(key)` at once on one tree (the calls of a run are the constant
`CallOps`; `Begin` and `BeginAt` in the model). The tree state is the same as in `BPlusTree`, whose operators
this module instantiates (`Tree == INSTANCE BPlusTree`).

**Steps.** A thread's step runs from one blocking point of the code to the
next. The blocking points are:
- taking the root-id lock (`Insert`, `FindLeafPage`);
- latching a page on the way down (`Crab`, which is
  `CrabingProtocalFetchPage`);
- latching the sibling in `FindLeftSibling` (`Rebalance`).

What a thread does between two blocking points touches only pages it holds
latched, or pages no other thread can reach yet. So it is one step.
`NoForeignWrite` checks this.

**Per-thread state.**
- `pc`, `op` and `key` are the current call.
- `cur` is the page to latch next, or the page being rebalanced.
- `held` is the transaction's page set. `deleted` is its deleted page set.
- `rootLock[t]` is the mode (`"S"` or `"X"`) in which the thread holds the
  root-id lock.
- `calls` counts the calls made, up to `MaxCalls`.
- `crashed` records a null dereference, which ends the process.
- `pos` is the index in its leaf `cur` at which the iterator that `Begin`
  returned starts.

**Actions.**
- `Call` starts a call.
- `Insert` takes the root-id lock exclusively and tests `IsEmpty`. An empty
  tree keeps the lock for `StartNewTree`. Otherwise the lock is dropped
  before `FindLeafPage` takes it again.
- `Remove` tests `IsEmpty` with no lock.
- `FindLeafPage` takes the root-id lock in the call's mode, or returns
  `nullptr` on an empty tree. The Insert and Remove callers dereference it.
- `Crab` latches `cur`. When the call reads, or the page is `IsSafe` for the
  operation, it releases the ancestors and the root-id lock. It then descends
  (`NextPage`: `ValueAt(0)` for `Begin()`, `Lookup` otherwise), or at a leaf
  does the call's work (`AtLeaf`).
- At the leaf, `Begin` (`ToIterator`) unlocks the root-id lock and hands the
  leaf, still latched and pinned, to the iterator at index 0 or at
  `KeyIndex(key)`. `Begin` passes no transaction, so every step of its
  descent releases just the parent, which is what the model does for reads.
  On an empty tree `FindLeafPage` returns `nullptr` and `Begin` an iterator
  on no leaf: the call ends at once.
- `IteratorEnd` is the iterator's destruction: it unlatches and unpins the
  leaf. The iterator is not in the source tree, so this step is modelled
  from spec section 4.4, and its walk along the leaves is left out.
- `Rebalance` runs one level of `CoalesceOrRedistribute` after latching the
  sibling. At the root it runs `AdjustRoot`.
- `ReleaseAll` is `FreePagesInTransaction`. It unlocks everything and
  deletes the deleted set.

`LockRootPageId`, `TryUnlockRootPageId` and the page latches are in headers
that are not in the source tree. `LatchFree` and `RootLockFree` model them
from spec sections 4.4 and 6 as reader-writer locks.

**Instances (`MC_BPlusTreeLatch`).**
- `MCStarts`: the empty tree and the four-key tree (keys 1..4), for the
  null-dereference run.
- `MCSafetyStarts`: those two trees and the deep tree, for the safety run.
- `MCLinStarts`: the tree of 1..5, with leaves [1,2] and [3,4,5], on keys
  1..6.
- `MCDeepStarts`: the height-3 tree of 1..8, on keys 1..9 and 12 page ids.
- `MCLiveStarts`: the deep tree, plus trees where one call starts a tree,
  splits the root leaf, merges and collapses the root, or empties the tree.
- `MCDeleteStarts`: the height-3 tree with leaves [1], [3], [5], [7] and
  [9,10] under [1 | 3] and [5 | 7 | 9]. A Remove under the full internal
  page releases the root, so two Removes rebalance at once, and the
  Remove that merges [1] or [3] then latches [5 | 7 | 9] as the sibling
  of its parent while the other Remove may hold it.
- `ThreadSymmetry` permutes threads in the safety run, which checks no
  liveness.

### `MC_BPlusTree`

Model values and bounds for TLC.
- `MCInvalid == -1`, because a cfg cannot hold negative numbers.
- The key and page-id sets of each run.
- `WideSpec` starts from the tree that the model's own insert operators
  build from keys 1..10 inserted in ascending order, so it is a reachable
  state of the code. Its `HeightThree` constraint keeps the run among trees
  of height 3.
- `TreeView` leaves `out` out of the fingerprint. No step reads `out`, and
  the wide run checks only invariants, so merging states that differ only in
  `out` changes nothing. The `tree_seq` and `tree_wide` runs check only
  invariants, so they use this view. `tree_leafborrow` checks the
  refinement, whose steps compare `out` before and after, so it keeps the
  full state.
- The refinement is checked on trees of height 2 (`tree_leafborrow`: eight
  keys under leaves of five). The leaf pairs move only in leaf operations,
  and all of them (split, merge and borrow from either side) are reached
  at height 2. Internal splits and merges move no pairs. Their structure
  is checked at height 3 by `tree_seq` and `tree_wide`.

### `HashSpec`, `ExtendibleHash` and `MC_ExtendibleHash`

`include/hash/extendible_hash.h` declares the class and its members; the
method bodies are not in the source tree. So the state is the declared
members and the operations follow spec section 4.2 (they are marked
`spec_modelled` in `PROJECT.json`).

| Variable | Member |
|---|---|
| `globalDepth` | `globalDepth` |
| `buckets` | `buckets`, the directory: slot `i + 1` is the bucket id of index `i` |
| `bucket` | the `Bucket` objects by id: `localDepth` and `keymap` |
| `bucketNum` | `bucketNum`, the number of distinct buckets |
| `ret` | the last call, its key and its result |

Every public method holds the table latch for its whole body, so `Find`,
`Insert` and `Remove` are one step each. `HashKey` is the identity (as
`std::hash` of an integer is) and `GetIndex` takes the low `globalDepth`
bits. `Insert` is the recursive `InsertInto`: overwrite a present key, or
add to a bucket with room, or `Split` the bucket and retry. `Split` raises
the local depth, doubles the directory when the depth passes the global
depth, and moves the entries and directory slots with the new bit set to a
new bucket. `Remove` never merges buckets.

`HashSpec` is the contract: a map with `Find`, `Insert` (overwrite) and
`Remove` (true iff the key was there). `ExtendibleHash` refines it under
the mapping "the pairs of all buckets" (`HashRefinement`).

`MC_ExtendibleHash` takes the keys 0, 1, 2, 4 and 8 with buckets of two
pairs. 0, 4 and 8 agree in their two low bits, so the Insert of the third
of them splits one bucket three times, with every entry on one side the
first two times, and doubles the directory to global depth 3.

## Properties

Each property has a comment before it in its module.

- **`ListWellFormed`** (LRU). The list walked from `head` ends at `tail` and
  holds exactly the mapped values, once each, and every `prev` mirrors a
  `next`.
- **`LRURefinement`** (LRU). Every step is a step of `LRUSpec`: `Victim`
  returns the least recently inserted value.
- **`TreeShape`**. The tree is empty exactly when no page is allocated.
  Every page is reachable from the root. Every child entry names a live page
  whose parent id is the page holding the entry. All leaves are at one depth.
  These are the code's own `isBalanced` and the header rules of spec section 3.
- **`SearchOrder`**. Keys rise inside every page, and every key below child
  *i* lies in [key_i, key_{i+1}). This is the code's `isPageCorr`.
- **`CheckPasses`**. The code's `Check(true)` (`isPageCorr` and
  `isBalanced`) returns true in every reachable state. It differs from
  `SearchOrder` in one way: it reads the internal pages' slot-0 keys, which
  the code's moves rewrite.
- **`QuiescentCheck`** (latch). Whenever every thread is idle, `Check`
  passes. This is spec section 8's concurrency scenario: the tests run the
  check after concurrent calls. A call that works on a leaf it reached
  without latches can put a key into the wrong leaf.
- **`Occupancy`**. Every page holds between its minimum and maximum number
  of entries after each call (spec sections 3 and 8).
- **`LeafChain`**. Following `next_page_id_` from the leftmost leaf visits
  the leaves in tree order and ends at `INVALID` (spec section 8).
- **`IndexRefinement`**. The tree behaves as a map (spec section 8:
  round-trip, idempotent failed insert).
- **`CatalogTracksRoot`**. The header record names the current root whenever
  the tree has one (spec section 4.4, root-id persistence).
- **`NoForeignWrite`** (latch; action property). No step changes the keys,
  values, type or sibling link of a page that another thread holds latched,
  and no step deletes such a page.
- **`RootChangedUnderLock`** (latch; action property). `root_page_id_`
  changes only in a step of the thread that holds the root-id lock
  exclusively.
- **`RebalanceParentHeld`** (latch). A page being rebalanced is held by its
  thread, and so is its parent. `CoalesceOrRedistribute` and
  `FindLeftSibling` fetch the parent by its id without latching it, and a
  concurrent split rewrites child parent ids without latching the children
  (`internal_page.cpp:209`). This property is what makes that safe.
- **`Linearizable`** (latch). From the start tree, every step is a step of
  `IndexSpec` on the pairs of the live leaves (`IndexSpec!Continue`). The
  step that reads or changes a call's leaf is the call itself, with the
  result the call returns.
- **`IteratorYieldsKeysFrom`** (latch). While a `Begin` iterator is alive,
  the keys from its index in its leaf, and then along `next_page_id_`, are
  exactly the tree's keys (those at or above the key, for `Begin(key)`), in
  ascending order. This is spec section 4.4's iteration. Other threads'
  calls go on beside the iterator, but every write to its leaf (an insert,
  a remove, a split, or a merge or borrow that needs it as the sibling)
  waits for the iterator's latch; no split, merge or borrow runs beside a
  live iterator in `latch_live`. The property shows that the latch is
  what keeps the iterator valid, and covers `KeyIndex` returning the
  leaf's size, where iteration starts in the next leaf.
- **`CallsReturn`** (latch; liveness). A thread inside a call is back at
  idle later, unless the process has died. In `latch_deletes` two Removes
  rebalance at once; if a Remove let its parent go while its leaf was still
  unsafe, the two would latch each other's leaf as the sibling and wait
  forever (the `CrabNoSafeCheck` mutant gives exactly that cycle).
- **`NoNullLeaf`** (latch). No call dereferences `FindLeafPage`'s `nullptr`.
- **`DirectoryConsistent`** (hash). A bucket of local depth *d* is named
  by exactly the directory slots that agree with one of them in their low
  *d* bits, holds only keys whose hash agrees in those bits, and every
  allocated bucket is named by some slot. `Find` and `Remove` look in one
  bucket only, so this is what makes them right.
- **`HashRefinement`** (hash). Every call is a step of `HashSpec` on the
  pairs of all buckets, with the same result.
- **`TypeOK`**. A type invariant for the LRU, tree and hash modules. The
  hash's includes that no bucket holds more than `BucketSize` pairs. The
  latch module checks none: its own variables are the model's bookkeeping
  of threads (pc, calls), and the tree's types are checked in the tree
  runs.

## Runs

| Run | Config | Bounds | Result | What it shows |
|---|---|---|---|---|
| `lru` | `LRUReplacer.cfg` | 3 values | pass, 2112 states | The list and map stay consistent and `Victim` is true LRU, over every sequence of calls. |
| `tree_seq` | `BPlusTree_seq.cfg` | keys 1..8, leaf and internal max 3, 16 page ids | pass, 5890 states (VIEW), about 10 s | Splits up to a new root at height 3, merges of leaves and internal pages, root collapse, emptying and restarting the tree. All the structural invariants hold, and so does the code's `Check`. |
| `tree_leafborrow` | `BPlusTree_leafborrow.cfg` | keys 1..8, leaf max 5 | pass, 14805 states, about 20 s | Every call, with leaf splits, merges, borrows, root growth and collapse, is a step of `IndexSpec` with the same result, and the search order holds. With capacity 3 an underfull leaf (size 0) always merges. Capacity 5 is the smallest odd capacity at which a leaf borrows (size 1 beside a full sibling of 5), from both sides. |
| `tree_wide` | `BPlusTree_wide.cfg` | keys 1..10, 12 page ids, height 3 | pass, 1998 states | `CheckPasses` too. Internal pages borrow from and merge with their siblings, the only place `Internal*MoveFirstToEndOf`, `MoveLastToFrontOf` and `MoveAllTo` run on internal pages. With 8 keys no internal page ever has 3 children under a height-3 root, because each separator range then holds 2 keys. |
| `latch_safety` | `BPlusTreeLatch.cfg` | 3 threads × 1 call, keys 1..10, 12 page ids, from the empty, the four-key or the height-3 tree, thread symmetry | pass, 1104853 states, about 55 s | `RebalanceParentHeld`, `QuiescentCheck`, `NoForeignWrite` and `RootChangedUnderLock`, with starts, splits, merges, root collapse and emptying interleaved. On the height-3 tree, calls hold safe internal pages without the root-id lock and wait on each other's latches. Keys 9 and 10 are both absent from that tree, so two Inserts can head for the same leaf while one of them splits it. |
| `latch_lin` | `BPlusTreeLatch_lin.cfg` | 2 threads × 2 calls, keys 1..6, from the tree of 1..5 | pass, 910616 states, about 50 s | `Linearizable`: a leaf split or merge, and a root collapse, under a call that is heading for that leaf. At leaf capacity 3 an underfull leaf always merges and the run stays at height 2, so nothing borrows here; borrows are refined by `tree_leafborrow`. |
| `latch_live` | `BPlusTreeLatch_live.cfg` | 2 threads × 1 call, keys 1..9, 12 page ids, `MCLiveStarts` | pass, 117049 states, about 18 s | `IteratorYieldsKeysFrom`, and `CallsReturn` under `FairSpec`, with `Begin()` and `Begin(key)` among the calls. |
| `latch_deletes` | `BPlusTreeLatch_deletes.cfg` | 2 threads × 1 call (`Begin` included), keys 1..10, `MCDeleteStarts` | pass, 51831 states, about 12 s | Two Removes rebalance at once, and one waits in `FindLeftSibling` on the internal page the other holds. `RebalanceParentHeld` holds, and `CallsReturn` holds under `FairSpec`: no latch cycle. |
| `hash` | `ExtendibleHash.cfg` | keys 0, 1, 2, 4, 8; two values; buckets of 2 | pass, 6457 states, about 20 s | `TypeOK`, `DirectoryConsistent` and `HashRefinement` over every sequence of calls, through repeated splits and directory doubling up to global depth 3. |
| `latch_null` | `BPlusTreeLatch_null.cfg` | 2 threads × 2 calls, keys 1..4, from the empty or the four-key tree | **violation** of `NoNullLeaf` | See finding 3. |
| `tree_evensplit` | `BPlusTree_evensplit.cfg` | keys 1..5, leaf and internal max 4 | **violation** of `IndexRefinement` | See finding 1. |
| `tree_catalog` | `BPlusTree_catalog.cfg` | as `tree_seq` | **violation** of `CatalogTracksRoot` | See finding 2. |

Why these bounds are enough:
- The capacities of 3 and 5 are the smallest odd capacities at which every
  split, merge and borrow branch happens.
- The real leaf capacities are odd for the 8-byte and 64-byte keys the tests
  use. All real internal capacities are even. With capacity 3 an internal
  page splits 2+2, which is the same code path: `MoveHalfTo` of internal
  pages computes both halves correctly.
- One value suffices in the tree because no code path compares values. The
  hash run has two, so that an overwriting `Insert` is visible.
- The hash keys are the smallest set where one `Insert` must split more
  than once (three keys agreeing in two low bits, with buckets of two), and
  1 and 2 give buckets split on bits 0 and 1 beside them.
- Deadlock checking is on in every run. The sequential tree is never stuck,
  because `GetValue` is always enabled. In the concurrent model, `Done`
  stutters once every thread has made its calls or the process has died.
  Any other state with no step is a deadlock that TLC reports.
- Latch waits need a tree of height 3. In a tree of height 2, a thread that
  holds a page across steps also holds the root-id lock, so other threads
  wait on the lock instead. `latch_safety`, `latch_live` and `latch_deletes`
  start from such a tree.
- The linearizability run needs a full leaf beside a key that can still be
  inserted. Otherwise no concurrent split moves a key away from a waiting
  reader. `MCLinStarts` provides it.
- `Rebalance` waits for a sibling latch in two ways, and both happen. A
  leaf's sibling can be held by an iterator, the only holder of a leaf
  across steps besides a rebalancing thread (`latch_live`, with `Begin`).
  An internal page's sibling can be held by another Remove that released
  the root above it (`latch_deletes`). A rebalancing leaf's sibling is
  never held by another Remove: that Remove would need the parent, which
  the rebalancing thread holds exclusively.
- With one call per thread, two rebalances overlap only from a tree like
  `MCDeleteStarts`, where a leaf at its minimum lies under a full internal
  page; `latch_deletes` starts there.
- At internal capacity 3 the non-root minimum is 1, and the tree
  invariants (`Occupancy`, `TreeShape`) hold with either of Coalesce's
  triggers, `size <= min` (the code, line 362) or `size < min` (the spec).
  What the `<=` decides is which pages a Remove must keep latched:
  `IsSafe(DELETE)` must count an internal page of size `min + 1` unsafe.
  `RebalanceParentHeld` in `latch_deletes` checks that agreement.

Each property of a passing run has a mutant in `PROJECT.json`. A mutant is
an operator defined before the code operator it replaces, and stands for a
plausible bug: a dropped re-parenting, a missed separator rewrite, an
off-by-one in a capacity test, reading `KeyAt(0)` for `ValueAt(0)`. TLC
finds each property violated under its run's cfg once the mutant is in place.

**Fairness.** `FairSpec` assumes weak fairness for each thread's steps
inside a call (`Busy(t)`). The operating system runs every runnable thread,
and a thread that waits on a latch is owed progress only once the latch
stays free, which is weak fairness. `Call` is not fair: a thread need not
make another call. `IteratorEnd` is a step of `Busy(t)`, so the fairness
also assumes that an iterator is eventually destroyed. That is the
caller's code, not the index's. Without it, a writer that needs the
iterator's leaf waits forever.

TLC evaluates `ENABLED` of these steps very slowly, because they contain
the recursive split and merge operators. So `ThreadFair(t)` writes
`WF_vars(Busy(t))` out as `<>[]Runnable(t) => []<><<Moves(t)>>_vars`:
- `Runnable(t)` lists the blocking conditions of the code as a state
  predicate;
- `Moves(t)` is any step of the thread inside a call.

Each disjunct of `Runnable(t)` is the guard of one step of `Busy(t)`
(its `pc` and the lock or latch it waits on), read off the actions. With
`WF_vars(Busy(t))` written directly, even the small `latch_deletes` run
takes over a minute, and a run that must find a liveness violation at
the end of the search takes several.

The sequential modules need no fairness. Their calls are atomic, and the
recursions are bounded by the height of the tree.

## Findings

1. **Leaf split drops a pair when the leaf capacity is even** (code bug,
   `page/b_plus_tree_leaf_page.cpp:151`). `MoveHalfTo` copies pairs
   `(max+1)/2 .. max` to the new leaf, but sets the new leaf's size to
   `(max+1)/2`. When `max` is even it copies one pair more than that, so the
   last pair is lost.
   - The leaf capacity is `(4096-24)/(N+8) - 1` for `GenericKey<N>`: 338,
     168 and 100 for N = 4, 16 and 32. The tests use N = 8 (253, odd) and
     never see the bug.
   - `tree_evensplit` finds a trace: inserts that all return true, after
     which key 5 is no longer in the tree. Spec section 8 describes this very
     scenario (capacity 4, insert 1..5) as keeping all five keys.
   - Internal pages compute the recipient size correctly (`total -
     recipient_index`).
2. **The header record is inserted again on a restarted tree**
   (spec/code divergence, `index/b_plus_tree.cpp:108`). `StartNewTree`
   always calls `UpdateRootPageId(true)`. When `Remove` empties the tree,
   `AdjustRoot` records `INVALID`. The next `Insert` starts a new tree and
   its `InsertRecord` fails, because the name is already present. The header
   then says `INVALID` while a root exists. Spec section 4.4 says the record
   is inserted the first time and updated thereafter.

3. **A call can dereference `nullptr` when a concurrent Remove empties the
   tree** (code bug, `index/b_plus_tree.cpp:131` and `:254`).
   - `Insert` tests `IsEmpty` under the root-id lock, but releases the lock
     before `InsertIntoLeaf`'s `FindLeafPage` takes it again.
   - `Remove` tests `IsEmpty` with no lock at all.
   - If the tree is emptied in between, `FindLeafPage` returns `nullptr`,
     and `leafPage->Lookup` or `CurPage->RemoveAndDeleteRecord` dereferences
     it.
   - `latch_null`'s shortest trace starts from the empty tree. One thread
     inserts and then removes key 1, while the other thread's Insert of key
     1 sits between its `IsEmpty` check and `FindLeafPage`.
   - Spec section 5 says any interleaving of calls is equivalent to a serial
     order.

Also observed and checked:
- `Coalesce` rebalances a parent at `size <= min`, where the spec says
  `< min`. The runs show this keeps every page within bounds: `Occupancy`
  holds in `tree_seq` and `tree_wide`.
- `MoveAllTo` of an internal page pulls the parent's separator into slot 0,
  while `MoveFirstToEndOf` appends the slot-0 key as it stands. That is only
  right because slot 0 of every non-leftmost internal page holds its
  separator in every reachable state. Replacing `MoveAllTo` by a version that
  keeps slot 0 changes no reachable state of `tree_wide`.

## What is not modelled, and the plan

- **The iterator, and GetValue without a transaction.** The index iterator
  is not in the source tree. How it latches the next leaf while it walks is
  unknown, so only its release of the leaf `Begin` gave it is modelled. It
  releases that leaf before its thread calls again: a thread that wrote to
  the leaf its own live iterator holds would wait on itself. `GetValue` is
  modelled with a transaction. It holds one page at a time, as it does
  without one (`Begin` is modelled that way).
- **LRU `Size`.** `Size` only reads `map.size()` under the lock. It is
  not an action: `ListWellFormed` already equates the map's size with the
  length of the list.
- **Extendible hash, beyond the contract.** Only the declaration is in the
  source tree, so the model follows spec section 4.2 and cannot be checked
  against method bodies. The per-bucket latches the `Bucket` struct
  declares are not modelled: with the table latch held for every call, as
  the spec allows, they never contend. `GetGlobalDepth`, `GetLocalDepth`
  and `GetNumBuckets` only read.
- **Buffer pool, disk manager, header page, iterator.** These are not in
  the source tree. The header page appears only as its two record
  operations. Pin counts and out-of-memory on `NewPage` are not modelled.
  Spec section 6 gives the buffer pool only as a contract. A model of it
  composed with the tree would need an implementation (frames, a flush
  policy) that the repository does not contain. A failed `NewPage` in
  `Split` or `InsertIntoParent` never returns to a caller: the assert
  aborts, or a release build dereferences null in the next statement. What
  survives depends on which frames the pool had flushed.
- **Debug and test helpers.** `ToString` only formats and is left out.
  `InsertFromFile` and `RemoveFromFile` appear as `Load` and `Unload`, and
  `Check`, `isBalanced` and `isPageCorr` as the operators of the same
  names.
- **More threads under fairness.** Liveness with three threads did not
  finish. On the height-3 tree alone, TLC explored 2.6 million states in
  about 5.5 minutes, and the liveness check then ran past 10 minutes. The
  liveness runs use two threads; `latch_safety` uses three.
