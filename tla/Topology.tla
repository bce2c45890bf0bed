------------------------------- MODULE Topology -------------------------------
(***************************************************************************)
(* The contents of one generated dataset with a derived surface            *)
(* collection, and the checks that functions.py generates for it: which    *)
(* boundary curves a surface includes, how many surfaces own a curve,      *)
(* whether a surface's roles and linework are acceptable, and what its     *)
(* footprint is.  Geometry is abstract: a curve has a shape, the footprint *)
(* of a surface is the set of shapes it was built from.                    *)
(***************************************************************************)
EXTENDS Integers, FiniteSets

CONSTANTS
    Surfaces,      \* ids of the collection with the derived geometry
    Curves,        \* ids of the collections it links to
    Shapes,        \* geometries of a curve
    Roles,         \* relationship properties; each has its own target collection
    RoleOf,        \* the property that links to a curve's collection
    Alternatives,  \* derived.one_of: sets of roles that may bound together
    WhenRoles,     \* roles that count only while a field of the curve is true
    Bounds,        \* bounds of a role's target collection, 0 if not declared
    Required,      \* geometry.required of the surface collection
    Closed         \* linework that builds one acceptable area

Pairs == {<<s, c>> : s \in Surfaces, c \in Curves}
Features == Surfaces \cup Curves
Linework == SUBSET (Curves \X Shapes)

ASSUME TopologyAssumption ==
    /\ Surfaces \cap Curves = {}
    /\ Features \cap Pairs = {}
    /\ IsFiniteSet(Surfaces)
    /\ RoleOf \in [Curves -> Roles]
    /\ Alternatives \subseteq SUBSET Roles
    /\ WhenRoles \subseteq Roles
    /\ Bounds \in [Roles -> 0 .. 2]
    /\ Required \in BOOLEAN
    /\ Closed \subseteq Linework \ {{}}

\* Rows of the tables: one per surface and curve, and one association row per
\* link of a surface to a curve.
Keys == Features \cup Pairs

NoRow == [is |-> "none"]
LinkRow == [is |-> "link"]
CurveRow(shape, counts) == [is |-> "curve", shape |-> shape, counts |-> counts]
SurfaceRow(footprint) == [is |-> "surface", footprint |-> footprint]

\* "counts" is the field a role's "when" names; other collections have none.
FieldValues(c) == IF RoleOf[c] \in WhenRoles THEN BOOLEAN ELSE {TRUE}
CurveRows(c) ==
    {CurveRow(shape, counts) : shape \in Shapes, counts \in FieldValues(c)}
SurfaceRows == {SurfaceRow(footprint) : footprint \in Linework}
LinkRows == {LinkRow}

RowsOf(k) ==
    IF k \in Surfaces THEN SurfaceRows
    ELSE IF k \in Curves THEN CurveRows(k) ELSE LinkRows

Row == SurfaceRows \cup (UNION {CurveRows(c) : c \in Curves}) \cup LinkRows \cup {NoRow}

\* A value of all tables.
Database == {d \in [Keys -> Row] : \A k \in Keys : d[k] \in RowsOf(k) \cup {NoRow}}
EmptyDatabase == [k \in Keys |-> NoRow]

Exists(d, k) == d[k] # NoRow
Linked(d, s, c) == Exists(d, <<s, c>>)

Targets(d, s) == {c \in Curves : Linked(d, s, c)}
Sources(d, c) == {s \in Surfaces : Linked(d, s, c)}

-----------------------------------------------------------------------------
(* The derived boundary.                                                   *)

DerivedRoles == UNION Alternatives

\* A role with a condition joins the curve: without it, or with the field not
\* true, the link does not count.
Counts(d, c) ==
    /\ RoleOf[c] \in DerivedRoles
    /\ RoleOf[c] \in WhenRoles => Exists(d, c) /\ d[c].counts

Included(d, s) == {c \in Targets(d, s) : Counts(d, c)}
IncludedRoles(d, s) == {RoleOf[c] : c \in Included(d, s)}
LineworkOf(d, s) ==
    {<<c, d[c].shape>> : c \in {b \in Included(d, s) : Exists(d, b)}}

\* The surfaces for which a curve that exists is a boundary.
Owners(d, c) == {s \in Sources(d, c) : Counts(d, c)}

StructureIsValid(d, s) ==
    /\ Required => Included(d, s) # {}
    /\ \E roles \in Alternatives : IncludedRoles(d, s) \subseteq roles

BoundsAreKept(d, c) ==
    Bounds[RoleOf[c]] # 0 => Cardinality(Owners(d, c)) = Bounds[RoleOf[c]]

\* Nothing included is no footprint, and no fault.
GeometryIsValid(d, s) == Included(d, s) # {} => LineworkOf(d, s) \in Closed
=============================================================================
