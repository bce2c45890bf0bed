SPECIFICATION FairSpec
CONSTANTS
    h1 = h1
    h2 = h2
    Handlers = {h1, h2}
    Ttl = 2
    MaxWait = 1
    MaxUpload = 1
    UseGcjobs = TRUE
INVARIANTS
    TypeOK
    CacheIsRecent
    
PROPERTIES
    ApprovalsAge
    RequestsEnd
