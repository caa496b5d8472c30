------------------------------ MODULE KVStore ------------------------------
(***************************************************************************)
(* What a block store promises its callers (the BlockStore interface the  *)
(* nodes keep blocks in): a map from keys to values.  A caller's request  *)
(* is pending from its call until it returns; while pending it takes     *)
(* effect once, atomically, or fails without effect.  A get returns the   *)
(* value the key holds when it takes effect; a has returns only whether  *)
(* the key is held.  A process that ends aborts every pending request    *)
(* and leaves the map as it was: no write that returned is lost, and no  *)
(* write that failed appears.                                            *)
(***************************************************************************)
CONSTANTS
    Clients,    \* the goroutines calling the store
    Keys,
    Vals,
    Absent,     \* the value of a key the store does not hold
    NoRequest   \* no request pending

ASSUME Absent \notin Vals

Requests == [op : {"put", "delete", "get", "has"}, key : Keys, val : Vals]

VARIABLES
    kv,         \* the map
    pending,    \* each client's request in flight
    answer      \* the value each client's last get returned

vars == <<kv, pending, answer>>

TypeOK ==
    /\ kv \in [Keys -> Vals \cup {Absent}]
    /\ pending \in [Clients -> Requests \cup {NoRequest}]
    /\ answer \in [Clients -> Vals \cup {Absent}]

Init ==
    /\ kv = [k \in Keys |-> Absent]
    /\ pending = [c \in Clients |-> NoRequest]
    /\ answer = [c \in Clients |-> Absent]

(* The map after request r took effect.                                  *)
Effect(r) ==
    CASE r.op = "put"    -> [kv EXCEPT ![r.key] = r.val]
      [] r.op = "delete" -> [kv EXCEPT ![r.key] = Absent]
      [] r.op \in {"get", "has"} -> kv

Invoke(c, r) ==
    /\ pending[c] = NoRequest
    /\ pending' = [pending EXCEPT ![c] = r]
    /\ UNCHANGED <<kv, answer>>

Respond(c) ==
    /\ pending[c] # NoRequest
    /\ kv' = Effect(pending[c])
    /\ pending' = [pending EXCEPT ![c] = NoRequest]
    /\ answer' = IF pending[c].op = "get"
                 THEN [answer EXCEPT ![c] = kv[pending[c].key]] ELSE answer

Fail(c) ==
    /\ pending[c] # NoRequest
    /\ pending' = [pending EXCEPT ![c] = NoRequest]
    /\ UNCHANGED <<kv, answer>>

Abort ==
    /\ pending' = [c \in Clients |-> NoRequest]
    /\ UNCHANGED <<kv, answer>>

Next ==
    \/ \E c \in Clients : \/ \E r \in Requests : Invoke(c, r)
                          \/ Respond(c) \/ Fail(c)
    \/ Abort

Spec == Init /\ [][Next]_vars

=============================================================================
