------------------------------ MODULE Validate ------------------------------
(***************************************************************************)
(* The scheduler's validation round engine (node/scheduler/validate).     *)
(*                                                                         *)
(* A round is started by the cron job or by the admin call ValidateStart. *)
(* startValidate bumps the round id in the cache db, times out every      *)
(* device still on the "verifying" list (one goroutine per device, which  *)
(* reads v.preRoundId only when it runs), clears the list, partitions the *)
(* online nodes over the elected validators and starts one goroutine per  *)
(* validator that inserts the result rows, adds the devices to the        *)
(* verifying list and calls ValidateBlocks on the validator.  Validators  *)
(* answer through ValidateBlockResult, which pushes the answer on an      *)
(* in-memory queue drained by a single consumer goroutine that checks the *)
(* round id, writes the row, removes the device from the verifying list   *)
(* and, when that list is empty, sets the state back to NotStarted.       *)
(*                                                                         *)
(* The cache db (round counter, verifying list, validator list) and the   *)
(* persistent db (validate_result rows) survive a scheduler restart; the  *)
(* Validate object, its goroutines and the result queue do not.           *)
(***************************************************************************)
EXTENDS Naturals, Sequences, FiniteSets

CONSTANTS
    Edges,          \* registered edge nodes (model values)
    Candidates,     \* registered candidate nodes (model values)
    MaxRound,       \* bound on the round id counter in the cache db
    ReportKinds,    \* what a validator may report for one audited device
    StoreOutcomes,  \* what storing one target may come to (TargetOutcomes)
    AdminStart,     \* whether the admin call ValidateStart is exercised
    Churn,          \* whether nodes may disconnect after connecting
    TimelyTasks     \* goroutines of a round finish within the cron interval

ASSUME Edges \cap Candidates = {}
ASSUME MaxRound \in Nat \ {0}
ASSUME {AdminStart, Churn, TimelyTasks} \subseteq BOOLEAN

Nodes == Edges \cup Candidates
Rounds == 1..MaxRound

(* validate_result.status; "none" is the absence of a row.               *)
Terminal == {"success", "fail", "timeout", "cancel", "other"}
RowStatus == {"none", "created"} \cup Terminal

(* The branches of handleValidateResult, by what the report contains:    *)
(* is_cancel, is_timeout, no cids or random_count 0, GetBlocksFID error, *)
(* an empty fid map with no error, fewer cids than random_count, a cid   *)
(* mismatch, or all compared cids equal.                                 *)
AllReportKinds == {"cancel", "timeout", "empty", "queryErr", "noFids",
                   "shortCids", "mismatch", "match"}
ASSUME ReportKinds \subseteq AllReportKinds

(* What assemblyValidateReqAndStore does with one target: skip it (no    *)
(* cids, count or fid lookup error), store it fully, fail to add it to   *)
(* the verifying list, or fail to insert its row.                        *)
TargetOutcomes == {"skip", "ok", "noVerify", "noRow"}
ASSUME "ok" \in StoreOutcomes /\ StoreOutcomes \subseteq TargetOutcomes

VARIABLES
    enable,         \* Validate.enable
    vstate,         \* Validate.validateState
    preRoundId,     \* Validate.preRoundId
    curRoundId,     \* Validate.curRoundId
    roundCounter,   \* round id counter in the cache db
    verifying,      \* verifying list in the cache db
    validators,     \* validator list in the cache db (set by election)
    online,         \* nodes with a live session in the node manager
    results,        \* validate_result rows: round -> device -> status
    cronOn,         \* crontab running
    cronPending,    \* a ValidateStart goroutine will restart the crontab
    execPending,    \* startValidate calls past the preflight, before execute
    timeoutTasks,   \* checkValidateTimeOut goroutines not yet run (devices)
    dispatch,       \* execute goroutines not yet run: validator -> targets
    requests,       \* ReqValidate entries accepted by a validator
    queue,          \* resultQueue
    consumer        \* the callback goroutine inside handleValidateResult

vars == <<enable, vstate, preRoundId, curRoundId, roundCounter, verifying,
          validators, online, results, cronOn, cronPending, execPending,
          timeoutTasks, dispatch, requests, queue, consumer>>

Report == [round : 0..MaxRound, dev : Nodes, kind : AllReportKinds]
Idle == [pc |-> "idle"]

TypeOK ==
    /\ enable \in BOOLEAN
    /\ vstate \in {"NotStarted", "Starting"}
    /\ roundCounter \in 0..MaxRound
    /\ preRoundId \in 0..MaxRound /\ curRoundId \in 0..MaxRound
    /\ verifying \subseteq Nodes
    /\ validators \subseteq Candidates
    /\ online \subseteq Nodes
    /\ results \in [Rounds -> [Nodes -> RowStatus]]
    /\ cronOn \in BOOLEAN /\ cronPending \in BOOLEAN
    /\ execPending \in 0..MaxRound
    /\ timeoutTasks \subseteq Nodes
    /\ dispatch \subseteq [v : Candidates, targets : SUBSET Nodes]
    /\ requests \subseteq [round : 0..MaxRound, dev : Nodes]
    /\ queue \in Seq(Report)
    /\ \/ consumer = Idle
       \/ consumer \in [pc : {"write", "defer"}, rep : Report,
                        status : Terminal \cup {"panic"}]

-----------------------------------------------------------------------------
(* The status handleValidateResult writes for a report that passed the   *)
(* round check, or "panic" for the two inputs it dereferences badly:     *)
(* err.Error() on a nil error, and Cids[index] past the end of Cids.     *)
StatusOf(kind) ==
    CASE kind = "cancel"    -> "cancel"
      [] kind = "timeout"   -> "timeout"
      [] kind = "empty"     -> "fail"
      [] kind = "queryErr"  -> "other"
      [] kind = "noFids"    -> "panic"
      [] kind = "shortCids" -> "panic"
      [] kind = "mismatch"  -> "fail"
      [] kind = "match"     -> "success"

(* UpdateFailValidateResultInfo / UpdateSuccessValidateResultInfo are not *)
(* in this source tree; the store's validate_result UPDATE that is, the   *)
(* final-status branch of SetValidateResultInfo, runs UPDATE ... WHERE    *)
(* device_id AND round_id: no row, no effect, and otherwise the status is *)
(* overwritten whatever it was.                                           *)
UpdateRow(rs, r, d, status) ==
    IF r \in Rounds /\ rs[r][d] # "none"
    THEN [rs EXCEPT ![r][d] = status]
    ELSE rs

(* The state of the cache db, persistent db and connected validators    *)
(* survives a restart; everything the Validate object holds does not.    *)
Init ==
    /\ enable = FALSE
    /\ vstate = "NotStarted"
    /\ preRoundId = 0 /\ curRoundId = 0 /\ roundCounter = 0
    /\ verifying = {}
    /\ validators = {}
    /\ online = {}
    /\ results = [r \in Rounds |-> [d \in Nodes |-> "none"]]
    /\ cronOn = TRUE /\ cronPending = FALSE
    /\ execPending = 0
    /\ timeoutTasks = {}
    /\ dispatch = {}
    /\ requests = {}
    /\ queue = <<>>
    /\ consumer = Idle

-----------------------------------------------------------------------------
(* startValidate up to the enable check: GetPreviousAndCurrentRoundId,   *)
(* a new seed, and checkValidateTimeOut, which spawns one goroutine per  *)
(* device still on the verifying list.                                   *)
Preflight ==
    /\ roundCounter < MaxRound
    /\ roundCounter' = roundCounter + 1
    /\ preRoundId' = roundCounter
    /\ curRoundId' = roundCounter + 1
    /\ timeoutTasks' = timeoutTasks \cup verifying
    /\ execPending' = execPending + 1

(* The cron job; with TimelyTasks the goroutines of the previous call    *)
(* have finished, since they take far less than the cron interval.       *)
CronTick ==
    /\ cronOn
    /\ TimelyTasks => /\ execPending = 0 /\ timeoutTasks = {}
                      /\ dispatch = {}
    /\ Preflight
    /\ UNCHANGED <<enable, vstate, verifying, validators, online, results,
                   cronOn, cronPending, dispatch, requests, queue, consumer>>

(* StartValidateOnceTask: refused while validateState is Starting;       *)
(* otherwise schedule the crontab restart, enable, stop the crontab and  *)
(* run startValidate.                                                    *)
ValidateStart ==
    /\ AdminStart
    /\ vstate # "Starting"
    /\ enable' = TRUE
    /\ cronOn' = FALSE
    /\ cronPending' = TRUE
    /\ Preflight
    /\ UNCHANGED <<vstate, verifying, validators, online, results, dispatch,
                   requests, queue, consumer>>

(* The goroutine sleeping one interval before crontab.Start().           *)
CronRestart ==
    /\ cronPending
    /\ cronOn' = TRUE
    /\ cronPending' = FALSE
    /\ UNCHANGED <<enable, vstate, preRoundId, curRoundId, roundCounter,
                   verifying, validators, online, results, execPending,
                   timeoutTasks, dispatch, requests, queue, consumer>>

(* ValidateSwitch.                                                       *)
EnableValidate(b) ==
    /\ enable' = b
    /\ UNCHANGED <<vstate, preRoundId, curRoundId, roundCounter, verifying,
                   validators, online, results, cronOn, cronPending,
                   execPending, timeoutTasks, dispatch, requests, queue,
                   consumer>>

(* One checkValidateTimeOut goroutine: UpdateFailValidateResult with the *)
(* value of v.preRoundId at the time it runs.                            *)
TimeoutTask(d) ==
    /\ d \in timeoutTasks
    /\ timeoutTasks' = timeoutTasks \ {d}
    /\ results' = UpdateRow(results, preRoundId, d, "timeout")
    /\ UNCHANGED <<enable, vstate, preRoundId, curRoundId, roundCounter,
                   verifying, validators, online, cronOn, cronPending,
                   execPending, dispatch, requests, queue, consumer>>

(* validateMapping: each online edge goes to a random validator, each    *)
(* online candidate too unless it drew itself.  plan[n] is the draw.     *)
Assigned(plan, v) ==
    {n \in DOMAIN plan : plan[n] = v /\ ~(n \in Candidates /\ n = v)}

(* The rest of startValidate: the enable check and execute.  An empty    *)
(* validator list returns nil with the state left at Starting; an empty  *)
(* mapping is an error, after which startValidate resets the state.      *)
Execute ==
    /\ execPending > 0
    /\ execPending' = execPending - 1
    /\ IF ~enable
       THEN /\ vstate' = "NotStarted"
            /\ UNCHANGED <<verifying, dispatch>>
       ELSE /\ verifying' = {}
            /\ IF validators = {}
               THEN /\ vstate' = "Starting"
                    /\ UNCHANGED dispatch
               ELSE \E plan \in [online -> validators] :
                      LET used == {v \in validators : Assigned(plan, v) # {}}
                      IN  IF used = {}
                          THEN /\ vstate' = "NotStarted"
                               /\ UNCHANGED dispatch
                          ELSE /\ vstate' = "Starting"
                               /\ dispatch' = dispatch \cup
                                    {[v |-> v, targets |-> Assigned(plan, v)]
                                       : v \in used}
    /\ UNCHANGED <<enable, preRoundId, curRoundId, roundCounter, validators,
                   online, results, cronOn, cronPending, timeoutTasks,
                   requests, queue, consumer>>

(* One execute goroutine: assemblyValidateReqAndStore with the value of  *)
(* v.curRoundId when it runs, then ValidateBlocks if the validator is    *)
(* still online.  A target whose verifying-list add failed, or whose row *)
(* insert failed (the row already exists, or a db error), still has its  *)
(* request in the batch.                                                 *)
Dispatch(t) ==
    /\ t \in dispatch
    /\ dispatch' = dispatch \ {t}
    /\ \E out \in [t.targets -> StoreOutcomes], rpcOk \in BOOLEAN :
         LET r     == curRoundId
             sent  == {d \in t.targets : out[d] # "skip"}
             added == {d \in t.targets : out[d] \in {"ok", "noRow"}}
             rows  == {d \in t.targets : out[d] = "ok"
                                          /\ r \in Rounds
                                          /\ results[r][d] = "none"}
         IN  /\ verifying' = verifying \cup added
             /\ results' = [rr \in Rounds |-> [d \in Nodes |->
                              IF rr = r /\ d \in rows THEN "created"
                              ELSE results[rr][d]]]
             /\ requests' = IF t.v \in online /\ rpcOk
                            THEN requests \cup {[round |-> r, dev |-> d]
                                                  : d \in sent}
                            ELSE requests
    /\ UNCHANGED <<enable, vstate, preRoundId, curRoundId, roundCounter,
                   validators, online, cronOn, cronPending, execPending,
                   timeoutTasks, queue, consumer>>

(* A validator posts its result for one device: ValidateBlockResult and  *)
(* PushResultToQueue.                                                    *)
PushResult(q) ==
    /\ q \in requests
    /\ requests' = requests \ {q}
    /\ \E k \in ReportKinds :
         queue' = Append(queue, [round |-> q.round, dev |-> q.dev, kind |-> k])
    /\ UNCHANGED <<enable, vstate, preRoundId, curRoundId, roundCounter,
                   verifying, validators, online, results, cronOn,
                   cronPending, execPending, timeoutTasks, dispatch,
                   consumer>>

(* Mutant: the row is written even on the branch that panics.           *)
ConsumerWriteIgnoresPanic ==
    /\ consumer.pc = "write"
    /\ results' = UpdateRow(results, consumer.rep.round, consumer.rep.dev,
                            consumer.status)
    /\ consumer' = [consumer EXCEPT !.pc = "defer"]
    /\ UNCHANGED <<enable, vstate, preRoundId, curRoundId, roundCounter,
                   verifying, validators, online, cronOn, cronPending,
                   execPending, timeoutTasks, dispatch, requests, queue>>

(* handleValidateResult up to the first defer: a report for another      *)
(* round is rejected and dequeued without touching the verifying list.   *)
ConsumerCheck ==
    /\ consumer = Idle
    /\ queue # <<>>
    /\ LET rep == Head(queue) IN
         IF rep.round # curRoundId
         THEN /\ queue' = Tail(queue)
              /\ UNCHANGED consumer
         ELSE /\ consumer' = [pc |-> "write", rep |-> rep,
                              status |-> StatusOf(rep.kind)]
              /\ UNCHANGED queue
    /\ UNCHANGED <<enable, vstate, preRoundId, curRoundId, roundCounter,
                   verifying, validators, online, results, cronOn,
                   cronPending, execPending, timeoutTasks, dispatch,
                   requests>>

(* The row update of the chosen branch; a panic skips it and unwinds     *)
(* through the deferred calls.                                           *)
ConsumerWrite ==
    /\ consumer.pc = "write"
    /\ results' = IF consumer.status = "panic" THEN results
                  ELSE UpdateRow(results, consumer.rep.round,
                                 consumer.rep.dev, consumer.status)
    /\ consumer' = [consumer EXCEPT !.pc = "defer"]
    /\ UNCHANGED <<enable, vstate, preRoundId, curRoundId, roundCounter,
                   verifying, validators, online, cronOn, cronPending,
                   execPending, timeoutTasks, dispatch, requests, queue>>

(* The in-memory state lost when the scheduler process exits; the        *)
(* validators keep the requests they accepted.                           *)
Restarted ==
    /\ enable' = FALSE
    /\ vstate' = "NotStarted"
    /\ preRoundId' = 0 /\ curRoundId' = 0
    /\ online' = {}
    /\ cronOn' = TRUE /\ cronPending' = FALSE
    /\ execPending' = 0
    /\ timeoutTasks' = {}
    /\ dispatch' = {}
    /\ queue' = <<>>
    /\ consumer' = Idle

(* The deferred calls, RemoveNodeWithVerifyingList then                *)
(* CountVerifyingNode, after which doCallback dequeues the element.  A   *)
(* panic is not recovered on the callback goroutine: the process exits   *)
(* once the deferred calls have run.                                     *)
ConsumerDefer ==
    /\ consumer.pc = "defer"
    /\ verifying' = verifying \ {consumer.rep.dev}
    /\ IF consumer.status = "panic"
       THEN Restarted
       ELSE /\ vstate' = IF verifying' = {} THEN "NotStarted" ELSE vstate
            /\ queue' = Tail(queue)
            /\ consumer' = Idle
            /\ UNCHANGED <<enable, preRoundId, curRoundId, online, cronOn,
                           cronPending, execPending, timeoutTasks, dispatch>>
    /\ UNCHANGED <<roundCounter, validators, results, requests>>

(* Election (not under src/): a non-empty set of online candidates, or   *)
(* none if no candidate is online, written with a TTL.                   *)
Elect ==
    /\ \E vs \in SUBSET (online \cap Candidates) :
         /\ (vs = {}) <=> (online \cap Candidates = {})
         /\ validators' = vs
    /\ UNCHANGED <<enable, vstate, preRoundId, curRoundId, roundCounter,
                   verifying, online, results, cronOn, cronPending,
                   execPending, timeoutTasks, dispatch, requests, queue,
                   consumer>>

(* The validator list's TTL expires.                                     *)
ValidatorsExpire ==
    /\ validators # {}
    /\ validators' = {}
    /\ UNCHANGED <<enable, vstate, preRoundId, curRoundId, roundCounter,
                   verifying, online, results, cronOn, cronPending,
                   execPending, timeoutTasks, dispatch, requests, queue,
                   consumer>>

(* EdgeNodeConnect / CandidateNodeConnect install a session.             *)
NodeConnect(n) ==
    /\ n \notin online
    /\ online' = online \cup {n}
    /\ UNCHANGED <<enable, vstate, preRoundId, curRoundId, roundCounter,
                   verifying, validators, results, cronOn, cronPending,
                   execPending, timeoutTasks, dispatch, requests, queue,
                   consumer>>

(* The node manager drops a session (not under src/).                    *)
NodeDisconnect(n) ==
    /\ Churn
    /\ n \in online
    /\ online' = online \ {n}
    /\ UNCHANGED <<enable, vstate, preRoundId, curRoundId, roundCounter,
                   verifying, validators, results, cronOn, cronPending,
                   execPending, timeoutTasks, dispatch, requests, queue,
                   consumer>>

ConsumerStep == ConsumerCheck \/ ConsumerWrite \/ ConsumerDefer

Next ==
    \/ CronTick
    \/ ValidateStart
    \/ CronRestart
    \/ \E b \in BOOLEAN : EnableValidate(b)
    \/ \E d \in Nodes : TimeoutTask(d)
    \/ Execute
    \/ \E t \in dispatch : Dispatch(t)
    \/ \E q \in requests : PushResult(q)
    \/ ConsumerStep
    \/ Elect
    \/ ValidatorsExpire
    \/ \E n \in Nodes : NodeConnect(n) \/ NodeDisconnect(n)

Spec == Init /\ [][Next]_vars

-----------------------------------------------------------------------------
(***************************************************************************)
(* Properties                                                              *)
(***************************************************************************)

(* A validate_result row reaches a terminal status exactly once (spec    *)
(* section 3): once written by handleValidateResult or by the timeout of *)
(* checkValidateTimeOut, no later step changes it.                       *)
TerminalOnce ==
    [][\A r \in Rounds, d \in Nodes :
         results[r][d] \in Terminal => results'[r][d] = results[r][d]]_results

(* The dead-man's switch loses no row: a row still "created" is either   *)
(* of the newest round with its device on the verifying list (the next   *)
(* preflight times it out), or of the previous round with a timeout      *)
(* goroutine pending that will update it, or being written right now by  *)
(* the callback goroutine.  Otherwise nothing times it out: it stays    *)
(* "created" unless the device's answer still arrives.                   *)
NoOrphanCreated ==
    \A r \in Rounds, d \in Nodes :
        results[r][d] = "created" =>
            \/ r = roundCounter /\ d \in verifying
            \/ r = preRoundId /\ preRoundId > 0 /\ d \in timeoutTasks
            \/ /\ consumer.pc = "write" /\ consumer.status # "panic"
               /\ consumer.rep.round = r /\ consumer.rep.dev = d

(* ValidateStart is refused while the current round is in progress: it  *)
(* never starts a round while a device of the current round is still     *)
(* awaited on the verifying list (spec section 4.E, manual trigger).     *)
AwaitedDevices ==
    {d \in verifying : curRoundId \in Rounds
                       /\ results[curRoundId][d] = "created"}

NoStartWhileAwaiting == [][ValidateStart => AwaitedDevices = {}]_vars

=============================================================================
