SPECIFICATION FairSpec

CONSTANTS
    Ids <- MCIds
    TextOf <- MCTextOf
    UuidOf <- MCUuidOf
    Collections = {"spormidt", "bygning", "nullable"}
    Resolved <- MCResolved
    Offered <- MCOffered
    Lists <- MCLists
    Sessions = {s1, s2}
    MaxBatches = 2

INVARIANTS
    TypeOK
    
    ReadsCanBeWrittenBack
    BatchAnswersInOrder

PROPERTIES
    WritesAreAtomic
    BatchesEnd
