---------------------------- MODULE MCRocksStore ----------------------------
(* Two goroutines, one key and two values: two callers are what the lazy *)
(* initialisation races on, and two values tell a lost write from the    *)
(* value before it.                                                       *)
EXTENDS RocksStore, TLC

CONSTANTS g1, g2, k1, v1, v2, NoVal, NoReq

MCCallers == {g1, g2}
MCKeys == {k1}
MCVals == {v1, v2}

(* The goroutines are interchangeable.                                   *)
CallerSymmetry == Permutations(MCCallers)

=============================================================================
