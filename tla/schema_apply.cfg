SPECIFICATION Spec

CONSTANTS
    Processes <- MCProcesses
    Datasets <- MCDatasets
    Descriptions <- MCDescriptions
    Files <- MCFiles
    Commons <- MCCommons
    MaxApplies = 2

INVARIANTS
    TypeOK
    InstalledIsSound
    FunctionsHaveTables
    FinishedRunIsComplete
    ServedOperationsExist
    OrphanedLinksAreLate
