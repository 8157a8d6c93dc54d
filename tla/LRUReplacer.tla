----------------------------- MODULE LRUReplacer -----------------------------
(***************************************************************************)
(* LRUReplacer<T> (buffer/lru_replacer.cpp).  The candidates live in a     *)
(* doubly linked list between two sentinel nodes `head` and `tail`, the    *)
(* most recently inserted right after `head`, and in `map`, an             *)
(* unordered_map from a value to its list node.  A node is identified by  *)
(* the value it holds (map has at most one node per value), so the list   *)
(* is the pair of pointer functions next/prev over Values \cup {HEAD,      *)
(* TAIL}.  Pointers of a node that has left the list are not cleared by   *)
(* the code and are not cleared here.                                     *)
(*                                                                         *)
(* Every public method takes `latch` (a std::mutex) for its whole body,    *)
(* so each is one atomic action; Size only reads and is not an action.     *)
(***************************************************************************)
EXTENDS FiniteSets, Naturals, Sequences

CONSTANTS Values, HEAD, TAIL, NULL

ASSUME {HEAD, TAIL, NULL} \cap Values = {}

VARIABLES next, prev, map, ret

vars == <<next, prev, map, ret>>

Nodes == Values \cup {HEAD, TAIL}

NoResult == [op |-> "none", ok |-> FALSE, val |-> NULL]

\* Constructor: head->next = tail, tail->prev = head, empty map.
Init ==
    /\ next = [n \in Nodes |-> IF n = HEAD THEN TAIL ELSE NULL]
    /\ prev = [n \in Nodes |-> IF n = TAIL THEN HEAD ELSE NULL]
    /\ map = {}
    /\ ret = NoResult

\* Mutant of Insert: the node of a value already tracked is not unlinked
\* before it is relinked after head.
InsertNoUnlink(v) ==
    LET sec == next[HEAD]
    IN  /\ next' = [next EXCEPT ![v] = sec, ![HEAD] = v]
        /\ prev' = [prev EXCEPT ![sec] = v, ![v] = HEAD]
        /\ map' = map \cup {v}
        /\ UNCHANGED ret

\* Insert(value): unlink the value's node if it is tracked, then read
\* head->next (after the unlink) and link the node in front of it.
Insert(v) ==
    LET nx == IF v \in map THEN [next EXCEPT ![prev[v]] = next[v]] ELSE next
        pv == IF v \in map THEN [prev EXCEPT ![next[v]] = prev[v]] ELSE prev
        sec == nx[HEAD]
    IN  /\ next' = [nx EXCEPT ![v] = sec, ![HEAD] = v]
        /\ prev' = [pv EXCEPT ![sec] = v, ![v] = HEAD]
        /\ map' = map \cup {v}
        /\ UNCHANGED ret

\* Mutant of Victim: the empty-map check is dropped, so the node before
\* tail is popped even when it is the head sentinel.
VictimNoEmptyCheck ==
    LET last == prev[TAIL]
    IN  /\ prev' = [prev EXCEPT ![TAIL] = prev[last]]
        /\ next' = [next EXCEPT ![prev[last]] = TAIL]
        /\ map' = map \ {last}
        /\ ret' = [op |-> "Victim", ok |-> TRUE, val |-> last]

\* Mutant of Victim: pops the node after head (the most recent one).
VictimFromFront ==
    \/ /\ map = {}
       /\ ret' = [op |-> "Victim", ok |-> FALSE, val |-> NULL]
       /\ UNCHANGED <<next, prev, map>>
    \/ /\ map # {}
       /\ LET first == next[HEAD]
          IN  /\ next' = [next EXCEPT ![HEAD] = next[first]]
              /\ prev' = [prev EXCEPT ![next[first]] = HEAD]
              /\ map' = map \ {first}
              /\ ret' = [op |-> "Victim", ok |-> TRUE, val |-> first]

\* Victim(value): false on an empty map; otherwise unlink tail->prev,
\* return its value and erase it from the map.
Victim ==
    \/ /\ map = {}
       /\ ret' = [op |-> "Victim", ok |-> FALSE, val |-> NULL]
       /\ UNCHANGED <<next, prev, map>>
    \/ /\ map # {}
       /\ LET last == prev[TAIL]
          IN  /\ prev' = [prev EXCEPT ![TAIL] = prev[last]]
              /\ next' = [next EXCEPT ![prev[last]] = TAIL]
              /\ map' = map \ {last}
              /\ ret' = [op |-> "Victim", ok |-> TRUE, val |-> last]

\* Erase(value): unlink the node if the value is tracked; the result is
\* whether map.erase removed an entry.
Erase(v) ==
    /\ next' = IF v \in map THEN [next EXCEPT ![prev[v]] = next[v]] ELSE next
    /\ prev' = IF v \in map THEN [prev EXCEPT ![next[v]] = prev[v]] ELSE prev
    /\ map' = map \ {v}
    /\ ret' = [op |-> "Erase", ok |-> v \in map, val |-> v]

Next ==
    \/ \E v \in Values : Insert(v)
    \/ Victim
    \/ \E v \in Values : Erase(v)

Spec == Init /\ [][Next]_vars

-----------------------------------------------------------------------------
(* The list as the code would traverse it: values met following next from *)
(* head, cut off after |Values| + 1 steps so that a cycle stays finite.    *)
RECURSIVE Walk(_, _)
Walk(n, fuel) ==
    IF fuel = 0 \/ next[n] \notin Values THEN <<>>
    ELSE <<next[n]>> \o Walk(next[n], fuel - 1)

ListOrder == Walk(HEAD, Cardinality(Values) + 1)

TypeOK ==
    /\ next \in [Nodes -> Nodes \cup {NULL}]
    /\ prev \in [Nodes -> Nodes \cup {NULL}]
    /\ map \subseteq Values
    /\ ret.op \in {"none", "Victim", "Erase"}
    /\ ret.val \in Values \cup {NULL}

\* The linked list and the map describe the same set of candidates: the
\* walk from head ends at tail, meets every mapped value exactly once and
\* nothing else, and every prev pointer on the way mirrors a next pointer.
\* Insert of an already tracked value and Victim/Erase relink four pointers
\* each; a wrong one shows up here only after later operations.
ListWellFormed ==
    LET l == ListOrder
        n == Len(l)
    IN  /\ n = Cardinality(map)
        /\ {l[i] : i \in 1..n} = map
        /\ (IF n = 0 THEN next[HEAD] ELSE next[l[n]]) = TAIL
        /\ prev[TAIL] = (IF n = 0 THEN HEAD ELSE l[n])
        /\ \A i \in 1..n : prev[l[i]] = (IF i = 1 THEN HEAD ELSE l[i - 1])

\* The pointer structure implements the recency order of the abstract
\* selector: every Insert/Victim/Erase step of the code is a step of
\* LRUSpec on the list read from head, with the same results; in
\* particular Victim returns the least recently inserted value.
Abs == INSTANCE LRUSpec WITH order <- ListOrder
LRURefinement == Abs!Spec

=============================================================================
