# TLA+ models of the Titan scheduler

These modules model the scheduler of the Titan network (`src/`). They cover the
engine that audits edge and candidate nodes in rounds, the scoring of each
audit, node registration, connection, authentication and quit across schedulers
that share one database, and the carfile tables of the SQL store. Every action is translated from the Go source. `PROJECT.json` maps each
definition to the lines it models.

## The system

The source under `src/` is one scheduler process plus its stores:

| Part | Source | What it holds / does |
|---|---|---|
| Validation engine | `node/scheduler/validate/validate.go` | Starts rounds from a cron job (every 5 min) or the admin call `ValidateStart`. It assigns online nodes to elected validators, sends `ValidateBlocks`, and scores the results that come back. |
| Scheduler RPC | `unnamed/part_001` | Node connect, `AuthNodeNew`/`AuthNodeVerify`, `ValidateBlockResult` (feeds the engine's queue), `ValidateSwitch`, `ValidateStart`, `NodeQuit`, `nodeExitedCallback`. |
| Persistent store (SQL) | `unnamed/part_000` | The older `sqlDB` store: node, register, data, cache, block_info and device_blocks tables. |
| Cache db (Redis) | `unnamed/part_003` | Round-id counter, verifying list (a set of devices), validator list with TTL, caching-task keys. |
| API types | `api/api_scheduler.go` | `CacheStatus`, result records. |
| Scheduler daemon | `cmd/titan-scheduler/main.go` | The `run` command, which starts the stores and the scheduler, and `get-api-key`, which signs an admin-side token. |
| API declarations | `api/api_scheduler.go` | The `api.Scheduler` interface. Each method's `//perm` tag is the permission the RPC layer requires. |
| Node block store | `node/builder_candidate.go` | A node's rocksdb block store, opened lazily on first use, plus fx wiring and type declarations. |
| Other | `unnamed/part_002` | A second copy of the wiring. |

The source tree mixes two versions. `part_001` is newer: it calls
`persistent.GetNodeAllocateInfo`, `LoadCarfileRecordsWithNodes` and
`s.validate.ValidateResult`, none of which is under `src/`. `validate.go` calls
`InsertValidateResultInfo`, `UpdateFailValidateResultInfo` and
`UpdateSuccessValidateResultInfo`, which are not under `src/` either. Where a
callee is missing, its effect is taken from `spec.md` and the definition is
marked `spec_modelled` (for example `Elect`). `UpdateRow` is taken from the one validate_result UPDATE that is under `src/`: the final-status branch of `sqlDB.SetValidateResultInfo` in `part_000`, an `UPDATE ... WHERE device_id AND round_id`. Results reach the engine
through `validate.go`'s `PushResultToQueue`.

The election manager, the node manager (sessions, keepalive) and the replica
manager are not under `src/`. The model describes their effect on the engine
from `spec.md`: `Elect`, `ValidatorsExpire` and `NodeDisconnect` are marked
`spec_modelled` in the map.

### How the engine works (and where it is hard)

- `startValidate` (cron or manual) runs three steps:
  - It increments the round counter in Redis and stores `preRoundId`/`curRoundId` in the object.
  - It spawns one goroutine per device still on the verifying list. Each goroutine UPDATEs that device's row with status TimeOut, using `v.preRoundId` **as read when the goroutine runs**.
  - If validation is enabled it calls `execute`.
- `execute` sets `validateState = Starting`, clears the verifying list and reads the validators. It then maps each online node to a random validator; a candidate that draws itself is dropped. Finally it spawns one goroutine per validator. Each goroutine builds the requests (with `v.curRoundId` read late), adds the devices to the verifying list, INSERTs Create rows and calls `ValidateBlocks`.
- Validators answer through `ValidateBlockResult`. The answer goes on an unlocked `container/list`, and a token goes on a channel with buffer 1. One callback goroutine drains the list with `handleValidateResult`:
  - A report for another round is dropped.
  - Otherwise the handler scores the report and writes the row. Two deferred calls then run in LIFO order: removing the device from the verifying list, then counting the list, with `NotStarted` when it is empty.
  - A panic is not recovered, so the process exits after the defers.
- Redis and SQL survive a restart. The `Validate` object does not, and the scheduler starts it with `enable = false`.

## Modules

| Module | Models | State ↔ code |
|---|---|---|
| `Validate` | the whole engine, with the stores it touches | `enable`, `vstate` (`validateState`), `preRoundId`, `curRoundId` are the object's fields. `roundCounter`, `verifying`, `validators` are Redis. `results[r][d]` is `validate_result.status`, with `"none"` meaning no row. `online` is the node manager's sessions. `timeoutTasks`, `dispatch`, `execPending` are the goroutines spawned but not yet run. `requests` are requests a validator accepted. `queue` is `resultQueue`. `consumer` is the callback goroutine's position inside `handleValidateResult`. |
| `ValidateScore` | the scoring in `handleValidateResult` | `Score(rep, ctx)` is the branch chain and the fid loop. `ScoreLoop` is `RECURSIVE`. `GetRandNum`, `CompareCid` are the helpers. The RNG is any sequence of draws. Cids are strings with a hash function: two encodings of one hash compare equal, and an unparsable string never does. |
| `NodeRegistry` | registration, connect, `SetNodeInfo`, `SetAllNodeOffline`, restart, `NodeQuit`, auth | `registered` is the register table. `sessions[s]` is scheduler `s`'s node manager. `nodeRow` is the node table row (exists, `is_online`, `server_name`). `saving` holds the connect handlers between `GetNodeInfo` and the INSERT/UPDATE of `SetNodeInfo`. `replicas` and `curRel` are the replica rows and `cur_reliability`. `tokens` are the JWTs issued: holder, signing key (a device secret or the `APISecret`) and `Allow`. |
| `CarfileStore` | `SetBlockInfo`, `SetBlockInfos`, `DeleteBlockInfo`, `SetCacheInfo`/`GetCacheInfo`, `SetDataInfo`/`GetDataInfo` | `tables` are the committed block_info and device_blocks rows with the AUTO_INCREMENT counter. `tx[c]` is one transactional call: its statements, how many have executed, and whether it is open, leaked after a recovered panic, done or aborted. Its statements reach `tables` together at `Commit`. `cacheRow`/`dataRow` are the cache_info and data_info rows, and `cacheCall`/`dataCall` are the read-then-write calls between their read and their write. |
| `RocksStore` | the rocksdb block store (`getRocksDB`, `openRocksDB`, `newOptions`, `Put`/`Delete`/`Get`/`Has`/`GetSize`/`GetReader`) | `db`, `opts` are the package variables `db`, `writeOptions`/`readOptions`. `lock` is the db directory's LOCK held by the process. `mem` is what the open db serves, and `disk` is what was synced. `call[c]` is goroutine `c`'s call and its position: check, open, options, exec. `answer[c]` is what `c` read from the bytes its last `Get`/`GetReader` returned. `lastExit` is why the process last ended. |
| `KVStore` | what a block store promises | `kv` is the map, and `pending[c]` is the request of a call in progress. `answer[c]` is the value `c`'s last get returned. A request takes effect once or fails without effect, and a get returns the value the key holds. An abort (the process ending) drops every pending request and changes nothing. |
| `ResultQueue` | the queued result path: `PushResultToQueue`, `initCallbackTask`, `doCallback` | `next`, `prev`, `owner`, `len` are the fields of the `container/list` ring (the sentinel `root` included) that the goroutines share without a lock. `chan` is the token in `resultChannel`. `ppc`, `at`, `tmp` are each RPC goroutine's position in `PushBack` (one step per Go statement of `insert`, and `len++` as a load and a store), its insert point and its loaded `len`. `cpc`, `elem`, `ctmp` are the callback goroutine's. `handled` are the results the handler was called with. A nil dereference panics the goroutine. |
| `MCValidate`, `MCValidateScore`, `MCNodeRegistry`, `MCCarfileStore`, `MCRocksStore`, `MCResultQueue` | instances for TLC | model values, report kinds, store outcomes, symmetry |

The actions of `Validate` each cover a whole handler or goroutine, in the
code's order:
- `CronTick` and `ValidateStart` run the preflight of `startValidate`. `ValidateStart` also sets `enable` and stops the crontab. `CronRestart` is the goroutine that restarts the crontab.
- `Execute` is the rest of `startValidate` plus `execute`. Its branches are disabled, no validators, empty mapping, and dispatch.
- `TimeoutTask(d)` is one timeout goroutine. `Dispatch(t)` is one `execute` goroutine, and `StoreOutcomes` are the results of `assemblyValidateReqAndStore` for one target: skip, ok, verifying-add failed, insert failed.
- `PushResult` is `ValidateBlockResult` plus `PushResultToQueue`.
- The consumer is split into three steps because cron steps interleave with it:
  - `ConsumerCheck` is the round check and dequeueing a stale report.
  - `ConsumerWrite` UPDATEs the round's row of the device (`UpdateRow`, the `Update*ValidateResultInfo` calls).
  - `ConsumerDefer` runs both defers, then either dequeues or, after a panic, performs `Restarted`.

In `NodeRegistry`:
- `AllocateNodes` binds a device. `EdgeNodeConnect`/`CandidateNodeConnect` need a token granting `write` (the `//perm:write` tag). They check the registration and install the session. `SetNodeInfoRead`/`SetNodeInfoWrite` are the two halves of `SetNodeInfo`. The `GetNodeInfo` query, the INSERT and the UPDATE may each fail; the connect then returns the error with its session still installed.
- `NodeOffline` is the node manager ending a session, which marks the node offline (spec 4.C `OnDisconnect`; the node manager is not under `src/`). `Restart` is a scheduler start-up, which runs `SetAllNodeOffline` for its own `server_name`.
- `AuthNodeNew(a, d, perms)` signs the caller's perms when the caller sent d's secret. `KnownSecret` says who can: `AllocateNodes` returns every new secret to its caller, the admin, who hands each to that device's operator. `AuthNodeVerify` accepts a token signed with the `APISecret` or with a registered device's secret. `NodeQuit` needs `admin` and runs `nodeExitedCallback`.

`NodeRegistry` also models the daemon:
- `MethodPerm` is the `//perm` tags of the modelled methods.
- `GetAPIKey` is `get-api-key`. It signs a token allowing every permission of `api.AllPermissions` up to the one asked for.
- `Restart` is the `run` command. It starts with no sessions, `InitSQL` marks this server's rows offline, and the tokens are re-signed with the unchanged `APISecret`.

In `RocksStore`, each method is `Call`, then `GetRocksDB`. On first use it is followed by `OpenRocksDB` (which also assigns `db`) and then `NewOptions`. `Exec` is the rocksdb call. With nil options it panics, and the panic is either recovered or ends the process. Writes may fail. `Killed`, `PowerLoss` and the `log.Fatalln` of a failed `OpenDb` end the process (`Exit`). `Get` and `GetReader` return `slice.Data()` after the deferred `slice.Free()`: gorocksdb builds that slice over the C buffer without a copy, so the bytes the caller reads are those of a freed buffer (`ReadAfterFree`: the value, or another block's bytes). The refinement maps `kv` to `mem` and `answer` to `answer`. A call is pending while it is between its entry and its return.

In `CarfileStore`, `Begin`, `Exec` and `Commit` are `MustBegin`, one `MustExec` and `Commit`. `Exec` may panic (`Panic`). A recovered panic leaks the transaction with its locks. An unrecovered one ends the process, and the server aborts every open transaction. `LockedByOther` is the row lock of an UPDATE by id. A failed `Commit` rolls back.

## Runs

| Run | Expect | What it shows |
|---|---|---|
| `validate_types` | pass | `TypeOK`, through cron and manual rounds, node churn, every report kind and handler panics that restart the process. It is the run that fires every action of `Validate`; its mutant writes the row on the branch where `handleValidateResult` panics. |
| `score_checked` | pass | `AgreesWithSpecWhenChecked`: on well-formed reports with at least one checked draw, the loop writes the status of the spec's declarative scoring (`SpecScore`). |
| `terminal_overwrite` | violation | `TerminalOnce`: a final status is overwritten, either handled→timeout or timeout→fail. |
| `orphan_row` | violation | `NoOrphanCreated`: the stale deferred removal deletes the next round's verifying entry. The row stays Create until the device's answer arrives; if it never does, nothing times it out. |
| `start_in_progress` | violation | `NoStartWhileAwaiting`: overlapping starts reset the state flag, and a manual start proceeds while devices are awaited. |
| `peer_clobber` | violation | `NoPeerClobber`: a device is live on two schedulers (a reconnect elsewhere before the old session ended, or a connect whose `SetNodeInfo` failed with its session installed). Its row names the one that saved last, whose restart marks it offline while it is live on the other. Spec 4.C says the start-up reset cannot clobber peer state. |
| `stale_online` | violation | `OnlineRowHasSession`: a connect whose `SetNodeInfo` finishes after the session ended leaves the node online in the db. |
| `auth_escalation` | violation | `AdminOnlyForAdmin`: a node asks `AuthNodeNew` for every permission, then passes the `//perm:admin` check of `NodeQuit`. |
| `rocks_get_freed` | violation | `KVRefinement`: the rocksdb store does not implement `KVStore`. A `Get` returns bytes of a freed buffer, which need not be the stored block. With a copying read in place of `ReadAfterFree`, the refinement holds (158,559 states). That covers concurrent first calls, panics, `log.Fatal` exits, kills and power losses. |
| `rocks_init_race` | violation | `LazyInitSafe`: two goroutines make the first calls. One uses the db after `db = rdb` but before `newOptions`, and panics on nil options. Or both open the db, and the second `OpenDb` ends the process. |
| `queue_race` | violation | `NoResultLost`: two validator callbacks push concurrently. Both `PushBack`s read the same `root.prev`, and the second store to `root.next` unlinks the first element. A result whose push returned is never handled. |
| `tx_leak` | violation | `TransactionsEnd`: a `MustExec` panic that a caller recovers leaves the block-info transaction open for ever with its row locks, against spec §5's "short transactions only". |

The findings in `PROJECT.json` explain each violation against the code line
involved.

## Bounds

`MCValidate` uses two edges and one candidate, with the round counter capped at
`MaxRound = 2` (3 for `start_in_progress`).
- Two edges let two devices be audited and answered in different orders.
- One candidate is enough for a validator to exist, to draw itself, and to go offline.
- Two rounds are enough for a round to overtake a handler, and for a timeout of round 1 to race a report of round 1.

All the violations above appear within these bounds, in 8 to 12 steps.

The report kinds and store outcomes are chosen per run. `validate_types` uses
`match` and `noFids` (one recorded result and one panic) with stores that
succeed: 1,440,128 distinct states in about 20 s.

`MCValidateScore` uses cids of length at most 2, `random_count` at most 2, and
db fids 1..2. The cached max fid may be one past the db, and the cid strings
are `a`, `A`, `b` and `x` (`a` and `A` have the same hash, `x` does not parse).
These bounds contain every path of the loop:
- a skipped draw, then a compare;
- a mismatch after a match;
- an index past `Cids`;
- a fid past the map.

`MCNodeRegistry` uses one device, two schedulers and one carfile with
`Need = 1`. The properties are per device, and two schedulers are what a shared
`server_name`-scoped table needs. `NoPeerClobber` is violated in 9 states. It is
still violated (in 10 states) when `SetNodeInfo` is made unable to fail. The clients are the device's operator, the
admin and one other client. The admin's `APISecret` tokens are issued at start
(`authNew`).

`MCCarfileStore` uses one device, one cid and one fid, ids 0..1, and two
transactional calls that can start again after they end. It adds one cache
caller, one data caller and the status `done`, and stops starting calls once
the AUTO_INCREMENT id passes 1. Two calls are the least that can contend for a
row lock. The leak appears within 6 steps.

`MCRocksStore` uses two goroutines, one key and two values. Two goroutines are the fewest that race in `getRocksDB`. Two values tell a lost write from the value before it.

`MCResultQueue` uses two RPC goroutines, one result each, and the callback
goroutine. Two pushers are the fewest for a push to race a push, and the
second push can also race the removal of the first. The lost result appears
in 12 steps.

Symmetry (edges, schedulers, goroutines) is used only in safety runs.

## Fairness

Only `tx_leak` checks a liveness property. Its `FairSpec` gives each
transactional call weak fairness on `Exec` and `Commit`: the goroutine that
opened a transaction runs its next statement or its commit. Nothing is assumed
of the callers. The runs of the other modules check safety only, so they
assume no fairness.

With `TimelyTasks` the cron job waits until the previous round's goroutines
have run. They take milliseconds against a 5-minute interval. The manual start
is not bound by this, and the overlapping-start finding needs that.

## Not modelled

- **Store failures together with churn**: `StoreOutcomes` already models them (`StoreAny`), but those runs are too large. This needs a smaller instance or a model of one validator.
- **The unlocked `container/list` in `Validate`**: each list operation is atomic there. `ResultQueue` models the list at the level of its links, on its own.
- **Draining the queue, and the crontab coming back**: no run states them. With `PushResult` atomic and the callback goroutine weakly fair, draining held by the shape of the model. The crontab restart holds because `ValidateStart` always schedules it. Under the real, unsynchronised list the queue need not drain at all (`validate.go:387`), and `ResultQueue` reaches that through the races of `queue_race`.
- **Ownership-only registry properties**: "a live row this scheduler owns is online" and "a device-secret token is held by its device" restated the `WHERE server_name` clause and the `AuthNodeNew` secret check. They are replaced by `NoPeerClobber`, which the failing `SetNodeInfo` paths and a device live on two schedulers break.
- **The other outcomes of the list race**: `ResultQueue` also reaches a report handled twice (`Front` returns an element before `PushBack` set `e.list`, so `Remove` is a no-op), `len` left above the ring's size so that `doCallback` spins on the sentinel for ever and later pushes block on the full channel, and nil dereferences that panic a goroutine. They share the cause of `queue_race` and are listed as hazards. Each violation run states one property, and the run budget has no room for more runs of this module.
- **The scoring panic**: `ValidateScore` still yields `"panic"` for `RandomCount > len(Cids)` and for an empty fid map, and `Validate` turns it into a restart. Its run was retired for `queue_race` to stay within the run budget, and is kept as a hazard.
- **Native memory of the rocksdb reads**: `Has` and `GetSize` never free their slice. This is listed as a hazard; the model has no native heap.
- **Replica restore on quit**: `nodeExitedCallback` deletes the replica rows and only logs the hashes, as modelled. It neither decrements `cur_reliability` nor restores, unlike spec 4.F/4.G. This is plain from the code, so it is listed as a hazard rather than given a run.
- **Atomicity of the block-info transactions**: `CarfileStore` applies a transaction's statements at `Commit`, as the server does, so all-or-nothing holds by construction and is not stated. `tx_leak` relies on a caller recovering the panic. That is decided outside `src/` (go-jsonrpc-style servers recover handler panics; `main.go:82` re-raises one that reaches the CLI), and the unrecovered branch is modelled too.
- **Durability on its own**: `KVRefinement` covers it, but `rocks_get_freed` stops at the `Get` use-after-free first.
- **Replica manager, election internals, node manager, carfile manager**: not under `src/`. Their effect is modelled from the spec where the code depends on it.
- **Retired runs**: a round with no validators leaves `validateState` at Starting for ever (`validate.go:181`). A report whose draws all miss the db is scored success, while spec §8 says fail (`validate.go:475`). Both are modelled, but each was shown by its own run, and both are plain from the code. They are kept as hazards to stay within the run budget.
- **Where the project stops**: the hazards still without a property are each a violation of what the spec says: a round with no validators leaving `validateState` at Starting (`validate.go:181`), an audited device with no row or no dead-man entry after a store failure (`validate.go:317`), a failed quit callback that nothing retries (`part_001:494`), the `SetCacheInfo` insert race (`part_000:403`), the scoring panic, and the other outcomes of the list race. Each would need a violation run of its own, and the project keeps twelve runs. The parts that remain `partly` modelled (election, node manager, replica manager, the Redis and SQL stores beyond the tables above) have their code outside `src/`. Their effect is modelled from the spec only where the engine depends on it. `MCNodeRegistry` with two devices passes 8 million distinct states after six minutes with the queue still growing, so the registry runs keep one device. The properties are per device.
- **CLI flags, the UDP/HTTP servers, fx wiring, region, the remaining getters of the SQL and Redis stores**: pure I/O or reads with no state change.
