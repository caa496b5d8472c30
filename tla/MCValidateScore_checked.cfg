\* Every well-formed report with a checked draw is scored as the spec says.
\* One report per behaviour: after the handler has written its status the
\* behaviour ends, which is not a deadlock of the scheduler.
CONSTANTS
    CidStrings <- MCCidStrings
    HashOf <- MCHashOf
    BadCid = "bad"
    MaxCids = 2
    MaxCount = 2
    MaxFid = 2
SPECIFICATION Spec
INVARIANT AgreesWithSpecWhenChecked
CHECK_DEADLOCK FALSE
