---------------------------- MODULE MCResultQueue ----------------------------
(* Two RPC goroutines push one result each while the callback goroutine  *)
(* drains: a push racing a Remove needs one pusher, a push racing a push *)
(* needs two.                                                             *)
EXTENDS ResultQueue, TLC

CONSTANTS p1, p2, NilPtr

MCPushers == {p1, p2}

(* The RPC goroutines are interchangeable.                               *)
PusherSymmetry == Permutations(MCPushers)

=============================================================================
