SPECIFICATION FairSpec
CONSTANTS
    MaxTx = 2
    MaxEntries = 4
    RecordSize = 2
    MsgLens = {1, 5}
    BeginLen = 1
    CommitLen = 1
    MultiRow = TRUE
    Encodable = {TRUE, FALSE}
    MaxFaults = 2
INVARIANTS TypeOK LossAccounted NothingOvertaken StoredOnce ReceivedIsStored
PROPERTIES Published
CHECK_DEADLOCK FALSE
