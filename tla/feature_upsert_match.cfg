SPECIFICATION Spec

CONSTANTS
    Ids <- MCIds
    TextOf <- MCTextOf
    UuidOf <- MCUuidOf
    Collections = {"bygning"}
    Resolved <- MCResolved
    Offered <- MCOffered
    Lists <- MCLists
    Sessions = {s1, s2}
    MaxBatches = 0

PROPERTIES
    UpsertReplacesMatch
