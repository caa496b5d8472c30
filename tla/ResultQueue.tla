----------------------------- MODULE ResultQueue -----------------------------
(***************************************************************************)
(* The queued path for validation results in validate.go, at the level of *)
(* the memory the goroutines share.  PushResultToQueue runs on the RPC     *)
(* goroutine of each validator's callback: it PushBacks the result on     *)
(* v.resultQueue, a container/list.List, then sends on resultChannel       *)
(* (buffer 1).  initCallbackTask receives from the channel and runs        *)
(* doCallback, which loops while Len() > 0: Front, handle the result,      *)
(* Remove.  No lock protects the list.                                     *)
(*                                                                         *)
(* The list is Go's doubly linked ring with a sentinel root: New sets      *)
(* root.next = root.prev = root.  insert(e, at) runs e.prev = at;          *)
(* e.next = at.next; e.prev.next = e; e.next.prev = e; e.list = l; l.len++.*)
(* remove(e) runs e.prev.next = e.next; e.next.prev = e.prev; clears e's   *)
(* links and list; l.len--.  Front is nil when len = 0, else root.next.    *)
(* Remove(e) acts only if e.list == l.  Each Go statement is one step      *)
(* here, and len++ / len-- are a load and a store.  Interleaving these     *)
(* steps is one schedule of the data race the build can run: every word    *)
(* store is atomic on the targets the scheduler is built for.              *)
(***************************************************************************)
EXTENDS Integers, FiniteSets

CONSTANTS
    Pushers,    \* RPC goroutines, each pushing one result; its element is named after it
    Nil         \* the nil pointer

Root == "root"
Elems == Pushers \cup {Root}
Ptr == Elems \cup {Nil}

PushPcs == {"call", "link", "prevNext", "nextPrev", "setList", "loadLen",
            "storeLen", "send", "done", "panicked"}
ConsPcs == {"recv", "len", "front", "handle", "remove", "unlinkPrev",
            "unlinkNext", "clear", "loadLen", "storeLen", "crashed"}

VARIABLES
    next, prev,   \* the element links, root's included
    owner,        \* e.list: "l" when e is in the list, else Nil
    len,          \* l.len
    chan,         \* tokens in resultChannel (capacity 1)
    ppc, at, tmp, \* each pusher's pc, its insert point, its loaded len
    cpc, elem, ctmp, \* the consumer's pc, its element, its loaded len
    handled       \* results handleValidateResult was called with

vars == <<next, prev, owner, len, chan, ppc, at, tmp, cpc, elem, ctmp, handled>>

TypeOK ==
    /\ next \in [Elems -> Ptr] /\ prev \in [Elems -> Ptr]
    /\ owner \in [Elems -> {"l", Nil}]
    /\ len \in Int /\ chan \in 0..1
    /\ ppc \in [Pushers -> PushPcs] /\ at \in [Pushers -> Ptr]
    /\ tmp \in [Pushers -> Int]
    /\ cpc \in ConsPcs /\ elem \in Ptr /\ ctmp \in Int
    /\ handled \subseteq Pushers

(* list.New() and NewValidate: an empty ring, an empty channel, and the   *)
(* callback goroutine blocked on the channel.                             *)
Init ==
    /\ next = [e \in Elems |-> IF e = Root THEN Root ELSE Nil]
    /\ prev = next
    /\ owner = [e \in Elems |-> Nil]
    /\ len = 0 /\ chan = 0
    /\ ppc = [p \in Pushers |-> "call"] /\ at = [p \in Pushers |-> Nil]
    /\ tmp = [p \in Pushers |-> 0]
    /\ cpc = "recv" /\ elem = Nil /\ ctmp = 0
    /\ handled = {}

consVars == <<cpc, elem, ctmp, handled>>
pushVars == <<ppc, at, tmp>>

Goto(p, pc) == ppc' = [ppc EXCEPT ![p] = pc]

-----------------------------------------------------------------------------
(* PushResultToQueue(p): PushBack evaluates its insert point l.root.prev. *)
PushCall(p) ==
    /\ ppc[p] = "call" /\ Goto(p, "link")
    /\ at' = [at EXCEPT ![p] = prev[Root]]
    /\ UNCHANGED <<next, prev, owner, len, chan, tmp, consVars>>

(* e.prev = at; e.next = at.next: the new element is still private.  An  *)
(* insert point whose links a Remove cleared is a nil dereference: the    *)
(* RPC goroutine panics.                                                  *)
PushLink(p) ==
    /\ ppc[p] = "link"
    /\ \/ /\ at[p] # Nil /\ Goto(p, "prevNext")
          /\ prev' = [prev EXCEPT ![p] = at[p]]
          /\ next' = [next EXCEPT ![p] = next[at[p]]]
       \/ /\ at[p] = Nil /\ Goto(p, "panicked")
          /\ UNCHANGED <<next, prev>>
    /\ UNCHANGED <<owner, len, chan, at, tmp, consVars>>

(* e.prev.next = e: the element becomes reachable from the ring.          *)
PushPrevNext(p) ==
    /\ ppc[p] = "prevNext" /\ Goto(p, "nextPrev")
    /\ next' = [next EXCEPT ![prev[p]] = p]
    /\ UNCHANGED <<prev, owner, len, chan, at, tmp, consVars>>

(* e.next.prev = e, a nil dereference if e.next is nil.                  *)
PushNextPrev(p) ==
    /\ ppc[p] = "nextPrev"
    /\ \/ /\ next[p] # Nil /\ Goto(p, "setList")
          /\ prev' = [prev EXCEPT ![next[p]] = p]
       \/ /\ next[p] = Nil /\ Goto(p, "panicked")
          /\ UNCHANGED prev
    /\ UNCHANGED <<next, owner, len, chan, at, tmp, consVars>>

(* e.list = l                                                             *)
PushSetList(p) ==
    /\ ppc[p] = "setList" /\ Goto(p, "loadLen")
    /\ owner' = [owner EXCEPT ![p] = "l"]
    /\ UNCHANGED <<next, prev, len, chan, at, tmp, consVars>>

(* l.len++, a load and a store.                                           *)
PushLoadLen(p) ==
    /\ ppc[p] = "loadLen" /\ Goto(p, "storeLen")
    /\ tmp' = [tmp EXCEPT ![p] = len]
    /\ UNCHANGED <<next, prev, owner, len, chan, at, consVars>>

PushStoreLen(p) ==
    /\ ppc[p] = "storeLen" /\ Goto(p, "send")
    /\ len' = tmp[p] + 1
    /\ UNCHANGED <<next, prev, owner, chan, at, tmp, consVars>>

(* v.resultChannel <- true: blocks while the buffer holds a token.        *)
PushSend(p) ==
    /\ ppc[p] = "send" /\ chan = 0 /\ Goto(p, "done")
    /\ chan' = 1
    /\ UNCHANGED <<next, prev, owner, len, at, tmp, consVars>>

-----------------------------------------------------------------------------
GoC(pc) == cpc' = pc

(* initCallbackTask: receive a token, then run doCallback.               *)
ConsRecv ==
    /\ cpc = "recv" /\ chan = 1 /\ chan' = 0 /\ GoC("len")
    /\ UNCHANGED <<next, prev, owner, len, elem, ctmp, handled, pushVars>>

(* for v.resultQueue.Len() > 0                                            *)
ConsLen ==
    /\ cpc = "len" /\ GoC(IF len > 0 THEN "front" ELSE "recv")
    /\ UNCHANGED <<next, prev, owner, len, chan, elem, ctmp, handled, pushVars>>

(* element := Front(); if element == nil return.  Front reads len again   *)
(* and returns root.next, the sentinel itself when the ring is empty.    *)
ConsFront ==
    /\ cpc = "front"
    /\ \/ /\ len = 0 \/ next[Root] = Nil
          /\ GoC("recv") /\ UNCHANGED elem
       \/ /\ len # 0 /\ next[Root] # Nil
          /\ GoC("handle") /\ elem' = next[Root]
    /\ UNCHANGED <<next, prev, owner, len, chan, ctmp, handled, pushVars>>

(* the type assertion to api.ValidateResults: the sentinel's Value is nil, the *)
(* assertion fails and the handler is skipped.                            *)
ConsHandle ==
    /\ cpc = "handle" /\ GoC("remove")
    /\ handled' = IF elem \in Pushers THEN handled \cup {elem} ELSE handled
    /\ UNCHANGED <<next, prev, owner, len, chan, elem, ctmp, pushVars>>

(* Remove(element): a no-op unless element.list == l, back to the loop.   *)
ConsRemove ==
    /\ cpc = "remove" /\ GoC(IF owner[elem] = "l" THEN "unlinkPrev" ELSE "len")
    /\ UNCHANGED <<next, prev, owner, len, chan, elem, ctmp, handled, pushVars>>

(* e.prev.next = e.next; a nil dereference panics the callback goroutine, *)
(* which ends the process.                                                *)
ConsUnlinkPrev ==
    /\ cpc = "unlinkPrev"
    /\ \/ /\ prev[elem] # Nil /\ GoC("unlinkNext")
          /\ next' = [next EXCEPT ![prev[elem]] = next[elem]]
       \/ /\ prev[elem] = Nil /\ GoC("crashed") /\ UNCHANGED next
    /\ UNCHANGED <<prev, owner, len, chan, elem, ctmp, handled, pushVars>>

(* e.next.prev = e.prev                                                   *)
ConsUnlinkNext ==
    /\ cpc = "unlinkNext"
    /\ \/ /\ next[elem] # Nil /\ GoC("clear")
          /\ prev' = [prev EXCEPT ![next[elem]] = prev[elem]]
       \/ /\ next[elem] = Nil /\ GoC("crashed") /\ UNCHANGED prev
    /\ UNCHANGED <<next, owner, len, chan, elem, ctmp, handled, pushVars>>

(* e.next = nil; e.prev = nil; e.list = nil                               *)
ConsClear ==
    /\ cpc = "clear" /\ GoC("loadLen")
    /\ next' = [next EXCEPT ![elem] = Nil]
    /\ prev' = [prev EXCEPT ![elem] = Nil]
    /\ owner' = [owner EXCEPT ![elem] = Nil]
    /\ UNCHANGED <<len, chan, elem, ctmp, handled, pushVars>>

(* l.len--, a load and a store; then the loop condition again.            *)
ConsLoadLen ==
    /\ cpc = "loadLen" /\ GoC("storeLen") /\ ctmp' = len
    /\ UNCHANGED <<next, prev, owner, len, chan, elem, handled, pushVars>>

ConsStoreLen ==
    /\ cpc = "storeLen" /\ GoC("len") /\ len' = ctmp - 1
    /\ UNCHANGED <<next, prev, owner, chan, elem, ctmp, handled, pushVars>>

Push(p) ==
    \/ PushCall(p) \/ PushLink(p) \/ PushPrevNext(p) \/ PushNextPrev(p)
    \/ PushSetList(p) \/ PushLoadLen(p) \/ PushStoreLen(p) \/ PushSend(p)

Consume ==
    \/ ConsRecv \/ ConsLen \/ ConsFront \/ ConsHandle \/ ConsRemove
    \/ ConsUnlinkPrev \/ ConsUnlinkNext \/ ConsClear \/ ConsLoadLen
    \/ ConsStoreLen

Next == (\E p \in Pushers : Push(p)) \/ Consume

Spec == Init /\ [][Next]_vars

-----------------------------------------------------------------------------
(* The results reachable from root by next links, as Front and the loop  *)
(* of doCallback would visit them.                                        *)
InList ==
    LET RECURSIVE Walk(_, _)
        Walk(e, n) == IF n = 0 \/ e \in {Root, Nil} THEN {}
                      ELSE {e} \cup Walk(next[e], n - 1)
    IN  Walk(next[Root], Cardinality(Pushers))

(* No result is lost: once PushResultToQueue has returned, its result has *)
(* been handled by doCallback or is still reachable in resultQueue, so a  *)
(* later doCallback handles it.                                           *)
NoResultLost ==
    \A p \in Pushers : ppc[p] = "done" => p \in handled \cup InList

=============================================================================
