SPECIFICATION Spec
CONSTANTS
    r1 = r1
    r2 = r2
    Profiles <- MCProfiles
    Requests = {r1, r2}
    Workloads <- MCWorkloads
    Uuids <- MCUuids
    KnownCrs = {"EPSG:4326", "EPSG:25832", "EPSG:5972"}
    UpsertBatchSize = 2
    MaxFaults = 1
    MaxRetries = 1
CHECK_DEADLOCK FALSE
INVARIANTS
    TypeOK
    EveryFeatureIsCarried
    BadFeaturesHoldAllBack
    
    AnswersFollowTheDocument
    StoredAsUploaded
