\* PushResultToQueue and doCallback share the container/list without a lock.
CONSTANTS
    p1 = p1
    p2 = p2
    NilPtr = NilPtr
    Pushers <- MCPushers
    Nil <- NilPtr

SYMMETRY PusherSymmetry

SPECIFICATION Spec

\* When every result is handled the callback goroutine blocks on the
\* channel for good: the program stops there by design.
CHECK_DEADLOCK FALSE

INVARIANT NoResultLost
