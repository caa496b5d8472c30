\* Two concurrent transactional calls beside one SetCacheInfo and one
\* SetDataInfo caller; MustExec may panic at any statement.
CONSTANTS
    d1 = d1
    c1 = c1
    t1 = t1
    t2 = t2
    Devices <- MCDevices
    Cids <- MCCids
    FidVals <- MCFidVals
    MaxId = 1
    TxCalls <- MCTxCalls
    CacheCalls = {1}
    DataCalls = {1}
    Needs <- MCNeeds
    MaxRows = 1
    Statuses = {"done"}

SPECIFICATION FairSpec

PROPERTY TransactionsEnd
