------------------------------- MODULE LRUSpec -------------------------------
(***************************************************************************)
(* What the victim selector promises (spec section 4.1), independent of    *)
(* how it stores its candidates: an ordered sequence of tracked frames,    *)
(* most recently inserted first.  Insert moves a value to the front,       *)
(* Victim pops the back, Erase drops a value wherever it is.               *)
(***************************************************************************)
EXTENDS Sequences, SequencesExt

CONSTANTS Values, NULL

VARIABLES order, ret

vars == <<order, ret>>

NoResult == [op |-> "none", ok |-> FALSE, val |-> NULL]

Init ==
    /\ order = <<>>
    /\ ret = NoResult

\* Re-insertion moves the value to the most-recent end.
Insert(v) ==
    /\ order' = <<v>> \o Remove(order, v)
    /\ UNCHANGED ret

\* An empty selector reports failure; otherwise the least recent leaves.
Victim ==
    \/ /\ order = <<>>
       /\ ret' = [op |-> "Victim", ok |-> FALSE, val |-> NULL]
       /\ UNCHANGED order
    \/ /\ order # <<>>
       /\ ret' = [op |-> "Victim", ok |-> TRUE, val |-> Last(order)]
       /\ order' = Front(order)

Erase(v) ==
    /\ order' = Remove(order, v)
    /\ ret' = [op |-> "Erase", ok |-> v \in ToSet(order), val |-> v]

Next ==
    \/ \E v \in Values : Insert(v)
    \/ Victim
    \/ \E v \in Values : Erase(v)

Spec == Init /\ [][Next]_vars

=============================================================================
