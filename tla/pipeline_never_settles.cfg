SPECIFICATION FairSpec

CONSTANTS
    Jobs = {j1}
    Replicas = {r1}
    BatchSizes <- MCOneBatch
    TotalFeatures = 1
    ReadCount = 2
    StreamCap = 20
    MaxCrashes = 1
    MaxErrors = 0
    MaxBreaks = 0
    MaxLost = 0

PROPERTIES
    FinishedImportsSettle
