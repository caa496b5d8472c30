--------------------------- MODULE MCCarfileStore ---------------------------
(* One device, one block cid, one fid, block_info ids 0..1 passed by the  *)
(* callers, two concurrent transactional calls (each may be started       *)
(* again after it ends), one SetCacheInfo and one SetDataInfo caller,     *)
(* two need_reliability values.                                           *)
EXTENDS CarfileStore

CONSTANTS d1, c1, t1, t2

MCDevices == {d1}
MCCids == {c1}
MCFidVals == {"f1"}
MCTxCalls == {t1, t2}
MCNeeds == {1, 2}
=============================================================================
