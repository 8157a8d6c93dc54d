------------------------------ MODULE IndexSpec ------------------------------
(***************************************************************************)
(* What the index promises to its callers (spec sections 4.4 and 8): a    *)
(* map from unique keys to values.  Insert of a present key fails without *)
(* effect, Remove of an absent key is a no-op, GetValue returns the value *)
(* stored under the key.  `out` is the result of the last call.           *)
(***************************************************************************)
EXTENDS Functions, TLC

CONSTANTS Keys, Vals, NULL

VARIABLES kv, out

vars == <<kv, out>>

NoOut == [op |-> "none", key |-> NULL, ok |-> FALSE, val |-> NULL]

Init ==
    /\ kv = <<>>
    /\ out = NoOut

\* The call a step answers (stated first so that TLC discards the steps of
\* other calls before building the result).
Called(op, k) == out'.op = op /\ out'.key = k

Insert(k, v) ==
    /\ Called("Insert", k)
    /\ out' = [op |-> "Insert", key |-> k, ok |-> k \notin DOMAIN kv, val |-> NULL]
    /\ kv' = IF k \in DOMAIN kv THEN kv ELSE kv @@ (k :> v)

Remove(k) ==
    /\ Called("Remove", k)
    /\ out' = [op |-> "Remove", key |-> k, ok |-> FALSE, val |-> NULL]
    /\ kv' = Restrict(kv, DOMAIN kv \ {k})

GetValue(k) ==
    /\ Called("GetValue", k)
    /\ out' = IF k \in DOMAIN kv
              THEN [op |-> "GetValue", key |-> k, ok |-> TRUE, val |-> kv[k]]
              ELSE [op |-> "GetValue", key |-> k, ok |-> FALSE, val |-> NULL]
    /\ UNCHANGED kv

Next ==
    \E k \in Keys :
        \/ \E v \in Vals : Insert(k, v)
        \/ Remove(k)
        \/ GetValue(k)

Spec == Init /\ [][Next]_vars

\* The map's steps from whatever pairs it already holds.
Continue == [][Next]_vars

=============================================================================
