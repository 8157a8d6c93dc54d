------------------------------- MODULE HashSpec -------------------------------
(***************************************************************************)
(* The contract of the page table (spec section 4.2, PageDirectory): a     *)
(* map from keys to values.  Find returns the mapped value, Insert adds a  *)
(* pair or overwrites the value of a key already present, Remove erases a  *)
(* key and says whether it was there.  ret is the last call with its key *)
(* and its result (for Insert, which returns nothing, the value stored).  *)
(***************************************************************************)
EXTENDS TLC

CONSTANTS Keys, Vals, NotFound

VARIABLES table, ret

vars == <<table, ret>>

Init ==
    /\ table = <<>>
    /\ ret = [op |-> "none", key |-> NotFound, res |-> NotFound]

Find(k) ==
    /\ ret' = [op |-> "Find", key |-> k, res |-> IF k \in DOMAIN table THEN table[k] ELSE NotFound]
    /\ UNCHANGED table

Insert(k, v) ==
    /\ table' = (k :> v) @@ table
    /\ ret' = [op |-> "Insert", key |-> k, res |-> v]

Remove(k) ==
    /\ table' = [x \in DOMAIN table \ {k} |-> table[x]]
    /\ ret' = [op |-> "Remove", key |-> k, res |-> k \in DOMAIN table]

Next ==
    \E k \in Keys :
        \/ Find(k)
        \/ \E v \in Vals : Insert(k, v)
        \/ Remove(k)

Spec == Init /\ [][Next]_vars
====
