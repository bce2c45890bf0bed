SPECIFICATION Spec
CONSTANTS
    s1 = s1
    s2 = s2
    c1 = c1
    c2 = c2
    c3 = c3
    x1 = x1
    x2 = x2
    p = p
    q = q
    Surfaces = {s1, s2}
    Curves = {c1, c2}
    Shapes = {p, q}
    Roles <- MCRoles
    RoleOf <- MCRoleOf
    Alternatives <- MCApart
    WhenRoles <- MCWhen
    Bounds <- MCOneBound
    Required = TRUE
    Closed <- MCClosed
    Sessions = {x1}
    Simple = {}
    Territory <- MCEverything
    MaxItems = 3
INVARIANTS
    NoMissingMember
    NoOrphanLink
    StructureHolds
