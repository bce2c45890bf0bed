SPECIFICATION Spec
CONSTANTS
    s1 = s1
    s2 = s2
    c1 = c1
    c2 = c2
    c3 = c3
    x1 = x1
    x2 = x2
    p = p
    q = q
    Surfaces = {s1}
    Curves = {c1, c2}
    Shapes = {p}
    Roles <- MCRoles
    RoleOf <- MCRoleOf
    Alternatives <- MCApart
    WhenRoles <- MCWhen
    Bounds <- MCNoBounds
    Required = FALSE
    Closed <- MCClosed
    Sessions = {x1, x2}
    Simple = {}
    Territory <- MCEverything
    MaxItems = 1
SYMMETRY MCSessionSymmetry
INVARIANTS
    NoMissingMember
