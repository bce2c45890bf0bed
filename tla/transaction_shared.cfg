SPECIFICATION Spec
CONSTANTS
    s1 = s1
    s2 = s2
    c1 = c1
    c2 = c2
    c3 = c3
    x1 = x1
    x2 = x2
    p = p
    q = q
    Surfaces = {s1, s2}
    Curves = {c1, c2, c3}
    Shapes = {p, q}
    Roles <- MCSharedRoles
    RoleOf <- MCSharedRoleOf
    Alternatives <- MCShared
    WhenRoles <- MCNever
    Bounds <- MCSharedBounds
    Required = TRUE
    Closed <- MCClosed
    Sessions = {x1}
    Simple = {c3}
    Territory <- MCEverything
    MaxItems = 3
SYMMETRY MCSharedSymmetry
INVARIANTS
    BoundsHold
    FootprintsAreFresh
