SPECIFICATION Spec

CONSTANTS
    Jobs = {j1}
    Replicas = {r1}
    BatchSizes <- MCTwoBatches
    TotalFeatures = 3
    ReadCount = 2
    StreamCap = 3
    MaxCrashes = 1
    MaxErrors = 1
    MaxBreaks = 1
    MaxLost = 1

INVARIANTS
    TypeOK
    CountersMatchEvents
    ProgressWithinTotal
    SucceededWereStored
    AckedWereRecorded
    NoPartialSuccess

PROPERTIES
    KeepsTheLedger

CHECK_DEADLOCK FALSE
