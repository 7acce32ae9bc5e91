--------------------------- MODULE MCTabletStore ---------------------------
(* Instances of TabletStore for TLC. *)
EXTENDS TabletStore

CONSTANTS k1, k2, v1, v2

Put(k, v)     == [op |-> "PUT", key |-> k, old |-> None, new |-> v]
Cput(k, u, v) == [op |-> "CPUT", key |-> k, old |-> u, new |-> v]
Delete(k)     == [op |-> "DELETE", key |-> k, old |-> None, new |-> None]

MCKey   == {k1, k2}
MCValue == {v1, v2}
Writes  == {Put(k1, v1), Put(k2, v1), Delete(k1)}
Swaps   == {Put(k1, v1), Cput(k1, v1, v2)}
Rivals  == Swaps \cup {Put(k1, v2)}

(* Nothing is claimed once a window was hit: those states are not          *)
(* extended.  Otherwise commands, checkpoints and crashes add up to four   *)
(* at most.                                                                *)
Bounded == /\ spoiled = {}
           /\ Len(hist) + Cardinality(pending) + begun + crashes <= 4
=============================================================================
