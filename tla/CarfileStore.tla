---------------------------- MODULE CarfileStore ----------------------------
(***************************************************************************)
(* The carfile tables of the scheduler's persistent store (persistent.    *)
(* sqlDB): block_info, device_blocks, cache_info and data_info, for one   *)
(* carfile and one cache of it.                                           *)
(*                                                                         *)
(* SetBlockInfo, SetBlockInfos and DeleteBlockInfo run their statements   *)
(* in a transaction (MustBegin, MustExec, Commit).  MustExec panics on a  *)
(* statement error: the transaction is then neither committed nor rolled  *)
(* back.  If the RPC framework recovers the panic, the transaction stays  *)
(* open on its connection.  If nothing recovers it, the process exits and *)
(* the server aborts the transaction.  SetCacheInfo and SetDataInfo read  *)
(* the row and then UPDATE or INSERT it, outside any transaction.         *)
(*                                                                         *)
(* The callers (the carfile manager) are not in this source tree, so any  *)
(* call may be made with any arguments from small sets, concurrently.     *)
(***************************************************************************)
EXTENDS Naturals, Sequences, SequencesExt, FiniteSets

CONSTANTS
    Devices,    \* device ids
    Cids,       \* block cids
    FidVals,    \* fid strings a node reports
    MaxId,      \* bound on the block_info ids a caller passes
    TxCalls,    \* call slots for the transactional functions
    CacheCalls, \* call slots for SetCacheInfo
    DataCalls,  \* call slots for SetDataInfo
    Needs,      \* need_reliability values a caller passes
    Statuses,   \* status values a caller passes (block, cache and data rows)
    MaxRows     \* no call begins once the AUTO_INCREMENT id passed this

NoFid == "none"                     \* fid == "": no device_blocks row
Infos == [id : 0..MaxId, cid : Cids, dev : Devices, status : Statuses]
Ops == {"update", "insert", "insertFid", "deleteFid"}
Stmts == [op : Ops, id : 0..MaxId, cid : Cids, dev : Devices,
          status : Statuses, fid : FidVals \cup {NoFid}]

(* The statement of one BlockInfo: UPDATE ... WHERE id, or INSERT.       *)
BlockStmt(info, isUpdate) ==
    [op |-> IF isUpdate THEN "update" ELSE "insert", id |-> info.id,
     cid |-> info.cid, dev |-> info.dev, status |-> info.status, fid |-> NoFid]

(* SetBlockInfo: the block_info statement, then INSERT INTO device_blocks *)
(* when fid != "".                                                       *)
SetBlockInfo(info, fid, isUpdate) ==
    <<BlockStmt(info, isUpdate)>> \o
    (IF fid # NoFid
     THEN <<[BlockStmt(info, FALSE) EXCEPT !.op = "insertFid", !.fid = fid]>>
     ELSE <<>>)

(* SetBlockInfos: one statement per info, an UPDATE when its ID != 0.    *)
SetBlockInfos(infos) == [i \in 1..Len(infos) |-> BlockStmt(infos[i], infos[i].id # 0)]

(* DeleteBlockInfo: DELETE FROM device_blocks WHERE cid AND device_id.   *)
DeleteBlockInfo(dev, cid) ==
    <<[op |-> "deleteFid", id |-> 0, cid |-> cid, dev |-> dev,
       status |-> CHOOSE st \in Statuses : TRUE, fid |-> NoFid]>>

(* Every call of the three functions the callers can make.               *)
Calls ==
    {SetBlockInfo(i, f, u) : i \in Infos, f \in FidVals \cup {NoFid}, u \in BOOLEAN}
    \cup {SetBlockInfos(s) : s \in {<<i>> : i \in Infos} \cup {<<i, j>> : i, j \in Infos}}
    \cup {DeleteBlockInfo(d, c) : d \in Devices, c \in Cids}

(* One statement on the committed tables.  block_info ids are           *)
(* AUTO_INCREMENT; an UPDATE of a missing id changes nothing.            *)
Apply(t, s) ==
    CASE s.op = "update" ->
           [t EXCEPT !.blocks = {IF b.id = s.id
                                 THEN [b EXCEPT !.status = s.status, !.dev = s.dev]
                                 ELSE b : b \in @}]
      [] s.op = "insert" ->
           [t EXCEPT !.blocks = @ \cup {[id |-> t.nextId, cid |-> s.cid,
                                         dev |-> s.dev, status |-> s.status]},
                     !.nextId = @ + 1]
      [] s.op = "insertFid" ->
           [t EXCEPT !.fids = @ \cup {[cid |-> s.cid, fid |-> s.fid, dev |-> s.dev]}]
      [] s.op = "deleteFid" ->
           [t EXCEPT !.fids = {r \in @ : r.cid # s.cid \/ r.dev # s.dev}]

-----------------------------------------------------------------------------
VARIABLES
    tables,     \* committed block_info rows, next AUTO_INCREMENT id, device_blocks rows
    tx,         \* each transactional call: its state, statements, statements executed
    cacheRow,   \* cache_info row of the (carfile, cache): exists, status, progress
    cacheCall,  \* each SetCacheInfo call: where it is, its status, the id it read
    dataRow,    \* data_info row of the carfile: exists, need_reliability, status
    dataCall    \* each SetDataInfo call: where it is, its arguments, what it read

vars == <<tables, tx, cacheRow, cacheCall, dataRow, dataCall>>

TxStates == {"idle", "open", "leaked", "done", "aborted"}
Live == {"open", "leaked"}    \* the transaction holds its connection and locks

TypeOK ==
    /\ tables.blocks \subseteq [id : Nat, cid : Cids, dev : Devices, status : Statuses]
    /\ tables.fids \subseteq [cid : Cids, fid : FidVals, dev : Devices]
    /\ tx \in [TxCalls -> [st : TxStates, stmts : Seq(Stmts), pc : Nat]]
    /\ cacheRow \in [exists : BOOLEAN, status : Statuses, progress : BOOLEAN]
    /\ cacheCall \in [CacheCalls -> [pc : {"idle", "write", "done"},
                                     status : Statuses, found : BOOLEAN]]
    /\ dataRow \in [exists : BOOLEAN, need : Needs \cup {0}, status : Statuses]
    /\ dataCall \in [DataCalls -> [pc : {"idle", "write", "done"}, need : Needs,
                                   status : Statuses, found : BOOLEAN]]

Init ==
    /\ tables = [blocks |-> {}, nextId |-> 1, fids |-> {}]
    /\ tx = [c \in TxCalls |-> [st |-> "idle", stmts |-> <<>>, pc |-> 0]]
    /\ cacheRow = [exists |-> FALSE, status |-> CHOOSE st \in Statuses : TRUE, progress |-> FALSE]
    /\ cacheCall = [k \in CacheCalls |-> [pc |-> "idle", status |-> CHOOSE st \in Statuses : TRUE, found |-> FALSE]]
    /\ dataRow = [exists |-> FALSE, need |-> 0, status |-> CHOOSE st \in Statuses : TRUE]
    /\ dataCall = [k \in DataCalls |-> [pc |-> "idle", need |-> CHOOSE n \in Needs : TRUE,
                                        status |-> CHOOSE st \in Statuses : TRUE,
                                        found |-> FALSE]]

-----------------------------------------------------------------------------
(* MustBegin: a new call on a free slot takes a connection and opens its *)
(* transaction.  A leaked transaction keeps its slot for ever.           *)
Begin(c) ==
    /\ tx[c].st \in {"idle", "done", "aborted"}
    /\ tables.nextId <= MaxRows
    /\ \E call \in Calls : tx' = [tx EXCEPT ![c] = [st |-> "open", stmts |-> call, pc |-> 0]]
    /\ UNCHANGED <<tables, cacheRow, cacheCall, dataRow, dataCall>>

(* An UPDATE ... WHERE id waits for the row lock another live            *)
(* transaction took with its own UPDATE of that id.                      *)
LockedByOther(c, s) ==
    /\ s.op = "update"
    /\ \E o \in TxCalls \ {c} :
         /\ tx[o].st \in Live
         /\ \E i \in 1..tx[o].pc : tx[o].stmts[i].op = "update" /\ tx[o].stmts[i].id = s.id

(* MustExec panics.  Recovered by the RPC framework, the transaction is  *)
(* left open with its locks; unrecovered, the process exits, and the     *)
(* server aborts every transaction of it.  The goroutines of the other   *)
(* calls end with the process.                                           *)
Panic(c) ==
    \/ /\ tx' = [tx EXCEPT ![c].st = "leaked"]
       /\ UNCHANGED <<cacheCall, dataCall>>
    \/ /\ tx' = [o \in TxCalls |->
                   IF tx[o].st \in Live THEN [tx[o] EXCEPT !.st = "aborted"] ELSE tx[o]]
       /\ cacheCall' = [k \in CacheCalls |->
                          IF cacheCall[k].pc = "write" THEN [cacheCall[k] EXCEPT !.pc = "done"]
                          ELSE cacheCall[k]]
       /\ dataCall' = [k \in DataCalls |->
                         IF dataCall[k].pc = "write" THEN [dataCall[k] EXCEPT !.pc = "done"]
                         ELSE dataCall[k]]

(* tx.MustExec of the next statement: it runs unless its row is locked   *)
(* by another live transaction; a statement error, or the lock wait      *)
(* timing out, panics.                                                    *)
Exec(c) ==
    /\ tx[c].st = "open" /\ tx[c].pc < Len(tx[c].stmts)
    /\ \/ /\ ~LockedByOther(c, tx[c].stmts[tx[c].pc + 1])
          /\ tx' = [tx EXCEPT ![c].pc = @ + 1]
          /\ UNCHANGED <<cacheCall, dataCall>>
       \/ Panic(c)
    /\ UNCHANGED <<tables, cacheRow, dataRow>>

(* tx.Commit: the executed statements become visible together; a commit  *)
(* error rolls the transaction back and is returned.                      *)
Commit(c) ==
    /\ tx[c].st = "open" /\ tx[c].pc = Len(tx[c].stmts)
    /\ tx' = [tx EXCEPT ![c].st = "done"]
    /\ \/ tables' = FoldLeft(Apply, tables, tx[c].stmts)
       \/ UNCHANGED tables
    /\ UNCHANGED <<cacheRow, cacheCall, dataRow, dataCall>>

(* GetCacheInfo, the first half of SetCacheInfo: a query error returns   *)
(* it; otherwise the call goes on with the row it found, or with none.   *)
CacheRead(k) ==
    /\ cacheCall[k].pc \in {"idle", "done"}
    /\ \E st \in Statuses, queryOk \in BOOLEAN :
         cacheCall' = [cacheCall EXCEPT ![k] =
                         IF queryOk THEN [pc |-> "write", status |-> st,
                                          found |-> cacheRow.exists]
                         ELSE [@ EXCEPT !.pc = "done"]]
    /\ UNCHANGED <<tables, tx, cacheRow, dataRow, dataCall>>

(* SetCacheInfo, second half: UPDATE done_size, done_blocks, reliability *)
(* and status of the row read, or INSERT only (carfile_id, cache_id,     *)
(* status), which fails on the key if a row appeared meanwhile.  The     *)
(* statement may also fail; the error is returned.                        *)
CacheWrite(k) ==
    /\ cacheCall[k].pc = "write"
    /\ cacheCall' = [cacheCall EXCEPT ![k].pc = "done"]
    /\ \E execOk \in BOOLEAN :
         cacheRow' =
           CASE ~execOk -> cacheRow
             [] cacheCall[k].found ->
                  [exists |-> TRUE, status |-> cacheCall[k].status, progress |-> TRUE]
             [] ~cacheRow.exists ->
                  [exists |-> TRUE, status |-> cacheCall[k].status, progress |-> FALSE]
             [] OTHER -> cacheRow
    /\ UNCHANGED <<tables, tx, dataRow, dataCall>>

(* GetDataInfo, the first half of SetDataInfo: "Not Found" sends the call *)
(* to the INSERT; any other error is returned.                           *)
DataRead(k) ==
    /\ dataCall[k].pc \in {"idle", "done"}
    /\ \E n \in Needs, st \in Statuses, queryOk \in BOOLEAN :
         dataCall' = [dataCall EXCEPT ![k] =
                        IF queryOk THEN [pc |-> "write", need |-> n, status |-> st,
                                         found |-> dataRow.exists]
                        ELSE [@ EXCEPT !.pc = "done"]]
    /\ UNCHANGED <<tables, tx, cacheRow, cacheCall, dataRow>>

(* SetDataInfo, second half: INSERT (cid, status, need_reliability, ...) *)
(* when the row was not found, failing on the cid key if it appeared     *)
(* meanwhile; otherwise UPDATE cache_ids, status, reliability, ... WHERE *)
(* cid, a list that leaves need_reliability out.                         *)
DataWrite(k) ==
    /\ dataCall[k].pc = "write"
    /\ dataCall' = [dataCall EXCEPT ![k].pc = "done"]
    /\ \E execOk \in BOOLEAN :
         dataRow' =
           CASE ~execOk -> dataRow
             [] dataCall[k].found -> [dataRow EXCEPT !.status = dataCall[k].status]
             [] ~dataRow.exists ->
                  [exists |-> TRUE, need |-> dataCall[k].need, status |-> dataCall[k].status]
             [] OTHER -> dataRow
    /\ UNCHANGED <<tables, tx, cacheRow, cacheCall>>

Next ==
    \/ \E c \in TxCalls : Begin(c) \/ Exec(c) \/ Commit(c)
    \/ \E k \in CacheCalls : CacheRead(k) \/ CacheWrite(k)
    \/ \E k \in DataCalls : DataRead(k) \/ DataWrite(k)

Spec == Init /\ [][Next]_vars

-----------------------------------------------------------------------------
(* The goroutine that opened a transaction runs its statements and its  *)
(* commit: MustExec and Commit are taken whenever they can be.  Nothing  *)
(* is assumed of the callers.                                            *)
FairSpec == Spec /\ \A c \in TxCalls : WF_vars(Exec(c)) /\ WF_vars(Commit(c))

(* The store uses "short transactions only (no long-held transactions)" *)
(* (spec section 5): every transaction SetBlockInfo, SetBlockInfos or   *)
(* DeleteBlockInfo opens with MustBegin ends, committed, rolled back or  *)
(* aborted with its process, and so releases its row locks.              *)
TransactionsEnd ==
    \A c \in TxCalls : tx[c].st = "open" ~> tx[c].st \in {"done", "aborted"}
=============================================================================
