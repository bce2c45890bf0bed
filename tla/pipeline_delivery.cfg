SPECIFICATION FairSpec

CONSTANTS
    Jobs = {j1}
    Replicas = {r1}
    BatchSizes <- MCTwoBatches
    TotalFeatures = 3
    ReadCount = 2
    StreamCap = 20
    MaxCrashes = 2
    MaxErrors = 0
    MaxBreaks = 1
    MaxLost = 0

PROPERTIES
    EveryEventIsRecorded
    JobsSettle

INVARIANTS
    ResultsAreComplete
