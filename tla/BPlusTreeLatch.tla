---------------------------- MODULE BPlusTreeLatch ----------------------------
(***************************************************************************)
(* Concurrent calls of BPlusTree (index/b_plus_tree.cpp): several threads  *)
(* run GetValue, Insert, Remove and Begin at once, serialised only by    *)
(* the root-id lock (LockRootPageId / TryUnlockRootPageId, shared for     *)
(* the reads GetValue and Begin, exclusive otherwise) and by page latches *)
(* taken in latch-crabbing order (CrabingProtocalFetchPage).  Begin       *)
(* returns with its leaf still latched: the iterator holds it.            *)
(*                                                                         *)
(* A thread's step runs from one blocking point of the code to the next:  *)
(* taking the root-id lock, latching a page on the way down, latching the *)
(* sibling in FindLeftSibling.  What a thread does between two such       *)
(* points touches only pages it holds latched (or pages no other thread   *)
(* can reach yet), so it is one step; the properties below check that.    *)
(* The tree itself is changed by the operators of BPlusTree, instantiated *)
(* on the same state.                                                     *)
(*                                                                         *)
(* Per thread: pc, op and key of the current call, cur (the page to latch *)
(* next, or the page being rebalanced), held (the transaction's page set, *)
(* latched in the call's mode) and deleted (its deleted page set), calls  *)
(* (calls made, bounded by MaxCalls), pos (the index an iterator starts *)
(* at in its leaf cur).  rootLock[t] is the mode in which t *)
(* holds the root-id lock.  out is the result of the last call to take   *)
(* effect.  crashed records a null page dereference, which ends the       *)
(* process.  The calls start from a tree of Starts, each one built by     *)
(* calls made one at a time (BPlusTree's Built).                          *)
(***************************************************************************)
EXTENDS BPlusTreePage, FiniteSets, Functions

CONSTANTS Keys, Vals, PageIds, NULL, NoRecord, Threads, MaxCalls, Starts,
          CallOps  \* the calls the threads of a run make

VARIABLES pages, root, catalog, out, rootLock,
          pc, op, key, cur, held, deleted, calls, crashed, pos

vars == <<pages, root, catalog, out, rootLock, pc, op, key, cur, held, deleted, calls, crashed, pos>>

Tree == INSTANCE BPlusTree

\* Begin is Begin(), BeginAt is Begin(key).
Ops == {"GetValue", "Insert", "Remove", "Begin", "BeginAt"}
Reads == {"GetValue", "Begin", "BeginAt"}

\* The latch mode and the OpType of a call: READ for GetValue and for
\* Begin's FindLeafPage, whose op is left at its default.
Mode(t) == IF op[t] \in Reads THEN "S" ELSE "X"
OpType(t) == CASE op[t] \in Reads    -> "READ"
               [] op[t] = "Insert" -> "INSERT"
               [] op[t] = "Remove" -> "DELETE"

\* The child FindLeafPage goes to: ValueAt(0) when leftMost (Begin()),
\* else Lookup(key).
NextPage(t, p) == IF op[t] = "Begin" THEN ValueAt(p, 0) ELSE InternalLookup(p, key[t])

Val == CHOOSE v \in Vals : TRUE

\* Page::RLatch/WLatch and the root-id lock: shared with shared only.
LatchFree(t, id) ==
    \A u \in Threads \ {t} : id \in held[u] => Mode(u) = "S" /\ Mode(t) = "S"
RootLockFree(t, m) ==
    \A u \in Threads \ {t} : rootLock[u] # "none" => m = "S" /\ rootLock[u] = "S"

Result(o, k, ok, v) == [op |-> o, key |-> k, ok |-> ok, val |-> v]

State(t) == [pg |-> pages, root |-> root, catalog |-> catalog, deleted |-> deleted[t]]

\* Mutant of ReleaseAll: FreePagesInTransaction without its
\* TryUnlockRootPageId.
ReleaseAllKeepsRootLock(t, st) ==
    /\ pages' = Restrict(st.pg, DOMAIN st.pg \ st.deleted)
    /\ root' = st.root
    /\ catalog' = st.catalog
    /\ UNCHANGED rootLock
    /\ held' = [held EXCEPT ![t] = {}]
    /\ deleted' = [deleted EXCEPT ![t] = {}]
    /\ pc' = [pc EXCEPT ![t] = "idle"]
    /\ cur' = [cur EXCEPT ![t] = INVALID]
    /\ UNCHANGED pos

\* FreePagesInTransaction: unlock the root-id lock and every page of the
\* page set, delete the pages marked deleted, and return to the caller.
ReleaseAll(t, st) ==
    /\ pages' = Restrict(st.pg, DOMAIN st.pg \ st.deleted)
    /\ root' = st.root
    /\ catalog' = st.catalog
    /\ rootLock' = [rootLock EXCEPT ![t] = "none"]
    /\ held' = [held EXCEPT ![t] = {}]
    /\ deleted' = [deleted EXCEPT ![t] = {}]
    /\ pc' = [pc EXCEPT ![t] = "idle"]
    /\ cur' = [cur EXCEPT ![t] = INVALID]
    /\ UNCHANGED pos

Init ==
    /\ \E st \in Starts :
         /\ pages = st.pg
         /\ root = st.root
         /\ catalog = st.catalog
    /\ out = Result("none", NULL, FALSE, NULL)
    /\ rootLock = [t \in Threads |-> "none"]
    /\ pc = [t \in Threads |-> "idle"]
    /\ op = [t \in Threads |-> "GetValue"]
    /\ key = [t \in Threads |-> CHOOSE k \in Keys : TRUE]
    /\ cur = [t \in Threads |-> INVALID]
    /\ held = [t \in Threads |-> {}]
    /\ deleted = [t \in Threads |-> {}]
    /\ calls = [t \in Threads |-> 0]
    /\ crashed = FALSE
    /\ pos = [t \in Threads |-> 0]

-----------------------------------------------------------------------------
(* The steps of a thread.                                                  *)

\* A thread calls GetValue, Insert, Remove or Begin(key) on some key, or
\* Begin().
Call(t) ==
    /\ ~crashed
    /\ pc[t] = "idle"
    /\ calls[t] < MaxCalls
    /\ \E o \in CallOps, k \in Keys :
         /\ o = "Begin" => k = CHOOSE x \in Keys : TRUE  \* its key is never read
         /\ op' = [op EXCEPT ![t] = o]
         /\ key' = [key EXCEPT ![t] = k]
         /\ pc' = [pc EXCEPT ![t] = IF o \in Reads THEN "FindLeafPage" ELSE o]
    /\ calls' = [calls EXCEPT ![t] = @ + 1]
    /\ UNCHANGED <<pages, root, catalog, out, rootLock, cur, held, deleted, crashed, pos>>

\* Insert: take the root-id lock exclusively and test IsEmpty; a
\* non-empty tree unlocks at once and goes on to InsertIntoLeaf, whose
\* FindLeafPage takes the lock again.
Insert(t) ==
    /\ ~crashed
    /\ pc[t] = "Insert"
    /\ RootLockFree(t, "X")
    /\ IF root = INVALID
       THEN /\ rootLock' = [rootLock EXCEPT ![t] = "X"]
            /\ pc' = [pc EXCEPT ![t] = "StartNewTree"]
       ELSE /\ pc' = [pc EXCEPT ![t] = "FindLeafPage"]
            /\ UNCHANGED rootLock
    /\ UNCHANGED <<pages, root, catalog, out, op, key, cur, held, deleted, calls, crashed, pos>>

\* StartNewTree under the root-id lock, then TryUnlockRootPageId.
StartNewTree(t) ==
    /\ ~crashed
    /\ pc[t] = "StartNewTree"
    /\ Tree!StartNewTree(key[t], Val)
    /\ out' = Result("Insert", key[t], TRUE, NULL)
    /\ rootLock' = [rootLock EXCEPT ![t] = "none"]
    /\ pc' = [pc EXCEPT ![t] = "idle"]
    /\ UNCHANGED <<op, key, cur, held, deleted, calls, crashed, pos>>

\* Remove: IsEmpty is read without the root-id lock; an empty tree
\* returns, any other goes on to FindLeafPage.
Remove(t) ==
    /\ ~crashed
    /\ pc[t] = "Remove"
    /\ IF root = INVALID
       THEN /\ out' = Result("Remove", key[t], FALSE, NULL)
            /\ pc' = [pc EXCEPT ![t] = "idle"]
       ELSE /\ pc' = [pc EXCEPT ![t] = "FindLeafPage"]
            /\ UNCHANGED out
    /\ UNCHANGED <<pages, root, catalog, rootLock, op, key, cur, held, deleted, calls, crashed, pos>>

\* Mutant of FindLeafPage: GetValue on an empty tree returns without
\* TryUnlockRootPageId.
FindLeafPageKeepsLock(t) ==
    /\ ~crashed
    /\ pc[t] = "FindLeafPage"
    /\ RootLockFree(t, Mode(t))
    /\ IF root = INVALID
       THEN IF op[t] \in Reads
            THEN /\ out' = IF op[t] = "GetValue" THEN Result("GetValue", key[t], FALSE, NULL) ELSE out
                 /\ pc' = [pc EXCEPT ![t] = "idle"]
                 /\ rootLock' = [rootLock EXCEPT ![t] = Mode(t)]
                 /\ UNCHANGED <<cur, crashed>>
            ELSE /\ crashed' = TRUE
                 /\ pc' = [pc EXCEPT ![t] = "NullLeaf"]
                 /\ UNCHANGED <<out, rootLock, cur>>
       ELSE /\ rootLock' = [rootLock EXCEPT ![t] = Mode(t)]
            /\ cur' = [cur EXCEPT ![t] = root]
            /\ pc' = [pc EXCEPT ![t] = "Crab"]
            /\ UNCHANGED <<out, crashed>>
    /\ UNCHANGED <<pages, root, catalog, op, key, held, deleted, calls, pos>>

\* FindLeafPage: take the root-id lock in the call's mode.  On an empty
\* tree it unlocks and returns nullptr: GetValue returns false and Begin
\* an iterator on no leaf, while
\* InsertIntoLeaf (leafPage->Lookup) and Remove (RemoveAndDeleteRecord)
\* dereference it.  Otherwise the root page is fetched next.
FindLeafPage(t) ==
    /\ ~crashed
    /\ pc[t] = "FindLeafPage"
    /\ RootLockFree(t, Mode(t))
    /\ IF root = INVALID
       THEN IF op[t] \in Reads
            THEN /\ out' = IF op[t] = "GetValue" THEN Result("GetValue", key[t], FALSE, NULL) ELSE out
                 /\ pc' = [pc EXCEPT ![t] = "idle"]
                 /\ UNCHANGED <<rootLock, cur, crashed>>
            ELSE /\ crashed' = TRUE
                 /\ pc' = [pc EXCEPT ![t] = "NullLeaf"]
                 /\ UNCHANGED <<out, rootLock, cur>>
       ELSE /\ rootLock' = [rootLock EXCEPT ![t] = Mode(t)]
            /\ cur' = [cur EXCEPT ![t] = root]
            /\ pc' = [pc EXCEPT ![t] = "Crab"]
            /\ UNCHANGED <<out, crashed>>
    /\ UNCHANGED <<pages, root, catalog, op, key, held, deleted, calls, pos>>

\* Mutant of ToIterator: the leaf is handed over unlatched (only pinned).
ToIteratorUnlatched(t, id, h) ==
    /\ pos' = [pos EXCEPT ![t] = IF op[t] = "Begin" THEN 0 ELSE KeyIndex(pages[id].keys, key[t])]
    /\ held' = [held EXCEPT ![t] = {}]
    /\ rootLock' = [rootLock EXCEPT ![t] = "none"]
    /\ pc' = [pc EXCEPT ![t] = "Iterating"]
    /\ UNCHANGED <<pages, root, catalog, out, deleted, cur>>

\* Begin() / Begin(key) once FindLeafPage has returned the leaf id, latched
\* (pages h): TryUnlockRootPageId, and the iterator takes the leaf, still
\* latched and pinned, at index 0 or at KeyIndex(key).
ToIterator(t, id, h) ==
    /\ pos' = [pos EXCEPT ![t] = IF op[t] = "Begin" THEN 0 ELSE KeyIndex(pages[id].keys, key[t])]
    /\ held' = [held EXCEPT ![t] = h]
    /\ rootLock' = [rootLock EXCEPT ![t] = "none"]
    /\ pc' = [pc EXCEPT ![t] = "Iterating"]
    /\ UNCHANGED <<pages, root, catalog, out, deleted, cur>>

\* The call's work on the leaf it has latched, holding the pages h and the
\* root-id lock in mode rl.
AtLeaf(t, id, h, rl) ==
    LET k == key[t]
        p == pages[id]
    IN  CASE op[t] \in {"Begin", "BeginAt"} -> ToIterator(t, id, h)
          [] op[t] = "GetValue" ->
               \* GetValue: Lookup, then FreePagesInTransaction.
               /\ out' = IF LeafLookup(p, k) THEN Result("GetValue", k, TRUE, LeafValue(p, k))
                         ELSE Result("GetValue", k, FALSE, NULL)
               /\ ReleaseAll(t, State(t))
          [] op[t] = "Insert" ->
               \* InsertIntoLeaf: a duplicate fails, else insert and split.
               /\ out' = Result("Insert", k, ~LeafLookup(p, k), NULL)
               /\ ReleaseAll(t, IF LeafLookup(p, k) THEN State(t)
                                ELSE Tree!InsertIntoLeaf(State(t), id, k, Val))
          [] op[t] = "Remove" ->
               \* Remove: RemoveAndDeleteRecord; an underfull leaf is
               \* rebalanced before the pages are released.
               LET p2 == LeafRemoveAndDeleteRecord(p, k)
               IN  /\ out' = Result("Remove", k, FALSE, NULL)
                   /\ IF GetSize(p2) < GetMinSize(p2)
                      THEN /\ pages' = Upd(pages, id, p2)
                           /\ held' = [held EXCEPT ![t] = h]
                           /\ rootLock' = [rootLock EXCEPT ![t] = rl]
                           /\ pc' = [pc EXCEPT ![t] = "Rebalance"]
                           /\ UNCHANGED <<root, catalog, deleted, cur, pos>>
                      ELSE /\ ReleaseAll(t, [State(t) EXCEPT !.pg = Upd(@, id, p2)])

\* Mutant of Crab: an exclusive call releases its ancestors whatever
\* IsSafe says of the new page; a freed page is never fetched.
CrabNoSafeCheck(t) ==
    LET id  == cur[t]
        p   == pages[id]
        rel == held[t] # {}
        h   == (IF rel THEN {} ELSE held[t]) \cup {id}
        rl  == IF rel THEN "none" ELSE rootLock[t]
    IN  /\ ~crashed
        /\ pc[t] = "Crab"
        /\ id \in DOMAIN pages
        /\ LatchFree(t, id)
        /\ IF p.leaf
           THEN AtLeaf(t, id, h, rl)
           ELSE /\ held' = [held EXCEPT ![t] = h]
                /\ rootLock' = [rootLock EXCEPT ![t] = rl]
                /\ cur' = [cur EXCEPT ![t] = NextPage(t, p)]
                /\ UNCHANGED <<pages, root, catalog, out, pc, deleted, pos>>
        /\ UNCHANGED <<op, key, calls, crashed>>

\* Mutant of Crab: a read call unlocks a page before it latches the child
\* (no crabbing on the way down); a freed page is never fetched.
CrabUnlatchedDescent(t) ==
    LET id  == cur[t]
        p   == pages[id]
        rel == held[t] # {} /\ (Mode(t) = "S" \/ IsSafe(p, OpType(t)))
        h   == (IF rel THEN {} ELSE held[t]) \cup {id}
        rl  == IF rel THEN "none" ELSE rootLock[t]
    IN  /\ ~crashed
        /\ pc[t] = "Crab"
        /\ id \in DOMAIN pages
        /\ LatchFree(t, id)
        /\ IF p.leaf
           THEN AtLeaf(t, id, h, rl)
           ELSE /\ held' = [held EXCEPT ![t] = IF Mode(t) = "S" THEN {} ELSE h]
                /\ rootLock' = [rootLock EXCEPT ![t] = IF Mode(t) = "S" THEN "none" ELSE rl]
                /\ cur' = [cur EXCEPT ![t] = NextPage(t, p)]
                /\ UNCHANGED <<pages, root, catalog, out, pc, deleted, pos>>
        /\ UNCHANGED <<op, key, calls, crashed>>

\* Mutant of Crab: the page is fetched without taking its latch; a freed
\* page is never fetched.
CrabNoLatch(t) ==
    LET id  == cur[t]
        p   == pages[id]
        rel == held[t] # {} /\ (Mode(t) = "S" \/ IsSafe(p, OpType(t)))
        h   == (IF rel THEN {} ELSE held[t]) \cup {id}
        rl  == IF rel THEN "none" ELSE rootLock[t]
    IN  /\ ~crashed
        /\ pc[t] = "Crab"
        /\ id \in DOMAIN pages
        /\ IF p.leaf
           THEN AtLeaf(t, id, h, rl)
           ELSE /\ held' = [held EXCEPT ![t] = h]
                /\ rootLock' = [rootLock EXCEPT ![t] = rl]
                /\ cur' = [cur EXCEPT ![t] = NextPage(t, p)]
                /\ UNCHANGED <<pages, root, catalog, out, pc, deleted, pos>>
        /\ UNCHANGED <<op, key, calls, crashed>>

\* CrabingProtocalFetchPage on the way down (FindLeafPage's loop): latch
\* cur; below the root, release the root-id lock and every page held when
\* the call only reads or the new page is safe for the operation; then go
\* to the child that Lookup names, or work on the leaf.
Crab(t) ==
    LET id  == cur[t]
        p   == pages[id]
        rel == held[t] # {} /\ (Mode(t) = "S" \/ IsSafe(p, OpType(t)))
        h   == (IF rel THEN {} ELSE held[t]) \cup {id}
        rl  == IF rel THEN "none" ELSE rootLock[t]
    IN  /\ ~crashed
        /\ pc[t] = "Crab"
        /\ LatchFree(t, id)
        /\ IF p.leaf
           THEN AtLeaf(t, id, h, rl)
           ELSE /\ held' = [held EXCEPT ![t] = h]
                /\ rootLock' = [rootLock EXCEPT ![t] = rl]
                /\ cur' = [cur EXCEPT ![t] = NextPage(t, p)]
                /\ UNCHANGED <<pages, root, catalog, out, pc, deleted, pos>>
        /\ UNCHANGED <<op, key, calls, crashed>>

\* CoalesceOrRedistribute on cur, an underfull page whose latch, and its
\* parent's, the thread holds: the root is adjusted (AdjustRoot) and the
\* call ends; any other page first latches its sibling (FindLeftSibling,
\* a blocking point), then merges or borrows; a parent left underfull by
\* a merge is rebalanced next (Coalesce's recursion).  Remove then frees
\* the page set, deleting the pages marked deleted.
Rebalance(t) ==
    LET id == cur[t]
    IN  /\ ~crashed
        /\ pc[t] = "Rebalance"
        /\ IF IsRootPage(pages[id])
           THEN /\ ReleaseAll(t, Tree!AdjustRoot(State(t), id))
           ELSE LET sid == Tree!Sibling(pages, id)
                    r   == Tree!RebalanceOnce(State(t), id)
                IN  /\ LatchFree(t, sid)
                    /\ IF r.up = INVALID
                       THEN /\ ReleaseAll(t, r.st)
                       ELSE /\ pages' = r.st.pg
                            /\ deleted' = [deleted EXCEPT ![t] = r.st.deleted]
                            /\ held' = [held EXCEPT ![t] = @ \cup {sid}]
                            /\ cur' = [cur EXCEPT ![t] = r.up]
                            /\ UNCHANGED <<root, catalog, rootLock, pc, pos>>
        /\ UNCHANGED <<out, op, key, calls, crashed>>

\* The iterator is used and destroyed: it unlatches and unpins the leaf
\* it holds.  (IndexIterator is not in the source tree; how it walks the
\* leaves is left out, and it gives the leaf back before its thread calls
\* again.)
IteratorEnd(t) ==
    /\ ~crashed
    /\ pc[t] = "Iterating"
    /\ held' = [held EXCEPT ![t] = {}]
    /\ cur' = [cur EXCEPT ![t] = INVALID]
    /\ pc' = [pc EXCEPT ![t] = "idle"]
    /\ UNCHANGED <<pages, root, catalog, out, rootLock, op, key, deleted, calls, crashed, pos>>

\* Every thread has made its calls, or the process has died.
Done ==
    /\ crashed \/ \A t \in Threads : pc[t] = "idle" /\ calls[t] = MaxCalls
    /\ UNCHANGED vars

Busy(t) ==
    \/ Insert(t)
    \/ StartNewTree(t)
    \/ Remove(t)
    \/ FindLeafPage(t)
    \/ Crab(t)
    \/ Rebalance(t)
    \/ IteratorEnd(t)

Next ==
    \/ \E t \in Threads : Call(t)
    \/ \E t \in Threads : Insert(t)
    \/ \E t \in Threads : StartNewTree(t)
    \/ \E t \in Threads : Remove(t)
    \/ \E t \in Threads : FindLeafPage(t)
    \/ \E t \in Threads : Crab(t)
    \/ \E t \in Threads : Rebalance(t)
    \/ \E t \in Threads : IteratorEnd(t)
    \/ Done

Spec == Init /\ [][Next]_vars

\* A thread can take its next step: it is inside a call and the lock or
\* latch that step waits on is free (the blocking points of the steps
\* above).  This is ENABLED <<Busy(t)>>_vars, written as a state predicate.
Runnable(t) ==
    /\ ~crashed
    /\ \/ pc[t] \in {"StartNewTree", "Remove", "Iterating"}
       \/ pc[t] = "Insert" /\ RootLockFree(t, "X")
       \/ pc[t] = "FindLeafPage" /\ RootLockFree(t, Mode(t))
       \/ pc[t] = "Crab" /\ LatchFree(t, cur[t])
       \/ /\ pc[t] = "Rebalance"
          /\ IsRootPage(pages[cur[t]]) \/ LatchFree(t, Tree!Sibling(pages, cur[t]))

\* A step of Busy(t): a step of t from inside a call (Call starts from
\* idle, and every step of t changes its pc, cur or held).
Moves(t) == pc[t] \notin {"idle", "NullLeaf"} /\ <<pc[t], cur[t], held[t]>> # <<pc'[t], cur'[t], held'[t]>>

\* The operating system runs every runnable thread: a thread whose next
\* step stays enabled takes it (weak fairness of Busy(t), with its
\* enabledness spelled out by Runnable).  A latch wait is a disabled step,
\* so a waiter is owed progress only once the latch stays free.
ThreadFair(t) == <>[]Runnable(t) => []<><<Moves(t)>>_vars

FairSpec == Spec /\ \A t \in Threads : ThreadFair(t)

-----------------------------------------------------------------------------
(* Properties.                                                             *)

\* The thread that takes a step: every step changes its pc, cur or held.
Stepped(t) == <<pc[t], cur[t], held[t]>> # <<pc'[t], cur'[t], held'[t]>>

\* What a latch protects: everything of a page but its parent id.
Content(p) == <<p.leaf, p.keys, p.vals, p.next>>

\* Pages deleted by a call that has not released them yet.
Dying == UNION {deleted[t] : t \in Threads}

\* The pairs in the leaves that are not about to be deleted.
Contents ==
    LET live  == {id \in DOMAIN pages \ Dying : pages[id].leaf}
        pairs == UNION {{<<pages[l].keys[i], pages[l].vals[i]>> : i \in DOMAIN pages[l].keys} : l \in live}
    IN  [k \in {pr[1] : pr \in pairs} |-> (CHOOSE pr \in pairs : pr[1] = k)[2]]

\* Latch crabbing protects what it latches: no step changes the keys,
\* values, type or sibling link of a page that another thread holds
\* latched, nor deletes it.  This fails if a parent is released before
\* its child is known to be safe (IsSafe), or if the merge partner is
\* used without the latch of FindLeftSibling.
NoForeignWrite ==
    [][\A u \in Threads :
          ~Stepped(u) =>
              \A id \in held[u] : id \in DOMAIN pages' /\ Content(pages'[id]) = Content(pages[id])]_vars

\* root_page_id_ changes (a new root, a collapsed root, an emptied tree)
\* only in a step of the thread that holds the root-id lock exclusively,
\* so a FindLeafPage that holds the lock never starts from a stale root.
\* The lock is kept exactly while the pages latched so far are unsafe.
RootChangedUnderLock ==
    [][root' # root => \E t \in Threads : Stepped(t) /\ rootLock[t] = "X"]_vars

\* A page being rebalanced is latched by its thread, and so is the parent
\* that CoalesceOrRedistribute and FindLeftSibling fetch without a latch:
\* its parent_page_id_, which a concurrent split or merge of the parent
\* rewrites (MoveHalfTo / MoveAllTo re-parent children they do not
\* latch), still names a page the thread holds.
RebalanceParentHeld ==
    \A t \in Threads :
        pc[t] = "Rebalance" =>
            /\ cur[t] \in held[t]
            /\ ~IsRootPage(pages[cur[t]]) => pages[cur[t]].parent \in held[t]

\* The concurrent index is linearizable: from the tree it starts with,
\* every step is a step of the atomic map of IndexSpec on the pairs of the
\* live leaves, the step at
\* which a call reads or changes its leaf being the call itself, with the
\* result the call returns.
Atomic == INSTANCE IndexSpec WITH kv <- Contents
Linearizable == Atomic!Continue

\* Spec sec. 8's concurrency scenario: once concurrent calls have all
\* returned, the tree passes the code's own Check (order, sizes, balance)
\* that the tests run afterwards -- however the calls' latched steps
\* interleaved.
QuiescentCheck ==
    (\A t \in Threads : pc[t] = "idle") => Tree!Check(pages, root)

\* The keys of the leaf chain from page id on (next_page_id_ links).
RECURSIVE ChainKeys(_, _)
ChainKeys(pg, id) == IF id = INVALID THEN <<>> ELSE pg[id].keys \o ChainKeys(pg, pg[id].next)

\* What t's iterator yields, from its index in its leaf along the chain.
IterationKeys(t) ==
    LET p == pages[cur[t]] IN SubSeq(p.keys, pos[t] + 1, Len(p.keys)) \o ChainKeys(pages, p.next)

\* Spec sec. 4.4's iteration: the iterator Begin() / Begin(key) returns
\* yields, from its leaf and index along next_page_id_, exactly the keys
\* of the tree (those at or above key, for Begin(key)) in ascending order,
\* for as long as it lives, while other threads call.  It holds because
\* the iterator keeps its leaf latched: a write to that leaf (an insert,
\* a remove, a split, or a merge or borrow that takes it as the sibling)
\* waits for the iterator, and would otherwise shift the keys under its
\* index.
IteratorYieldsKeysFrom ==
    \A t \in Threads :
        pc[t] = "Iterating" =>
            LET ks == IterationKeys(t)
            IN  /\ \A i \in 1..Len(ks) - 1 : ks[i] < ks[i + 1]
                /\ Range(ks) = {k \in DOMAIN Contents : op[t] = "Begin" \/ k >= key[t]}

\* Every call returns: a thread that has started a call is back at idle
\* later, unless the process has died.  Fails if two calls wait on each
\* other's latches -- FindLeftSibling latches a sibling while holding the
\* underfull page, so two Removes rebalancing neighbouring leaves would,
\* were the parent latch not held by one of them -- or if a lock is never
\* released.
CallsReturn ==
    \A t \in Threads : pc[t] # "idle" ~> (pc[t] = "idle" \/ crashed)

\* A call never dereferences the nullptr that FindLeafPage returns for an
\* empty tree: Insert tests IsEmpty (under the lock it then drops) and
\* Remove tests it (without the lock) before FindLeafPage runs.
NoNullLeaf == ~crashed

====
