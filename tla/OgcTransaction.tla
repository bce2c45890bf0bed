---------------------------- MODULE OgcTransaction ----------------------------
(***************************************************************************)
(* ogc.transaction and the direct writes ogc.feature_*, as database        *)
(* sessions of PostgreSQL under READ COMMITTED.  A session applies the     *)
(* items of its document one after the other, then checks the surfaces and *)
(* curves it may have affected and renews their footprints; any finding or *)
(* error rolls everything back.  Each statement sees what is committed     *)
(* when it starts and the session's own writes; a write waits for rows     *)
(* another session has written and not yet committed.                      *)
(***************************************************************************)
EXTENDS Topology

CONSTANTS
    Sessions,   \* database sessions
    Simple,     \* features of collections with feature_model simple
    Territory,  \* the features a session's documents name
    MaxItems    \* bound: items in a document

ASSUME SessionsAssumption ==
    /\ Simple \subseteq Features
    /\ Territory \in [Sessions -> SUBSET Features]
    /\ MaxItems \in Nat

VARIABLES
    db,  \* the committed rows
    tx   \* the transaction of each session

vars == <<db, tx>>

-----------------------------------------------------------------------------
(* Items of a document.                                                    *)

\* "named" are the link properties that occur in the feature, "links" the
\* curves they refer to.  A replace names every property.  The geometry of a
\* derived surface is never the client's.
Item(action, feature, row, named, links) ==
    [action |-> action, feature |-> feature, row |-> row,
     named |-> named, links |-> links]

CurveItems ==
    UNION {{Item(action, c, row, {}, {}) :
                action \in {"insert", "update", "upsert"}, row \in CurveRows(c)} :
           c \in Curves}
SurfaceItems ==
    UNION {{Item(action, s, SurfaceRow({}), named, links) :
                action \in {"insert", "update"}, s \in Surfaces,
                links \in SUBSET {c \in Curves : RoleOf[c] \in named}} :
           named \in SUBSET Roles}
SurfaceUpserts == {Item("upsert", s, SurfaceRow({}), {}, {}) : s \in Surfaces}
DeleteItems == {Item("delete", f, NoRow, {}, {}) : f \in Features}
Items == CurveItems \cup SurfaceItems \cup SurfaceUpserts \cup DeleteItems

\* Upserts exist only as direct writes, which name one simple feature.
ItemsFor(x) ==
    {i \in Items :
        /\ {i.feature} \cup i.links \subseteq Territory[x]
        /\ IF tx[x].direct THEN i.feature \in Simple ELSE i.action # "upsert"}

NoItem == Item("none", {}, NoRow, {}, {})
NoRows == [k \in {} |-> NoRow]

-----------------------------------------------------------------------------
(* Sessions.                                                               *)

Idle ==
    [pc |-> "idle", direct |-> FALSE, item |-> NoItem, left |-> 0,
     delta |-> NoRows,   \* rows written and not committed
     touched |-> {},     \* touched_features
     deleted |-> {},     \* those a delete touched
     dirty |-> {},       \* dirty_member_curves
     measured |-> NoRows] \* footprints of the dirty surfaces

Init == db = EmptyDatabase /\ tx = [x \in Sessions |-> Idle]

\* Writing over what is there.
Over(delta, d) == [k \in DOMAIN d \cup DOMAIN delta |->
                      IF k \in DOMAIN delta THEN delta[k] ELSE d[k]]

View(x) == Over(tx[x].delta, db)

\* No other session holds one of these rows.
Free(x, keys) ==
    \A y \in Sessions \ {x} : keys \cap DOMAIN tx[y].delta = {}

Write(x, delta) == Over(delta, tx[x].delta)

Step(x, from, to) ==
    /\ tx[x].pc = from
    /\ tx' = [tx EXCEPT ![x] = to]
    /\ UNCHANGED db

\* An exception inside the block, or a finding: back to the savepoint.
Rollback(x, from) == Step(x, from, Idle)

Begin(x) ==
    \E direct \in {d \in BOOLEAN : d => Simple # {}} :
        Step(x, "idle", [Idle EXCEPT !.pc = "items", !.direct = direct,
                                     !.left = IF direct THEN 1 ELSE MaxItems])

\* A deadlock, a timeout, a lost connection, a caller that rolls back.
Abort(x) == tx[x].pc # "idle" /\ Rollback(x, tx[x].pc)

-----------------------------------------------------------------------------
(* The items loop.                                                         *)

\* Mutant: the curves a feature links to before the write are not collected.
NoTargets(x, i) == {}

\* _targets_from_sources before an update, replace or delete.
TargetsBefore(x, i) ==
    IF i.action \in {"insert", "upsert"} THEN {} ELSE
        IF i.feature \in Surfaces THEN Targets(View(x), i.feature) ELSE {}

\* The curves of an item's links are looked up before anything is written.
TakeItem(x) ==
    /\ tx[x].left > 0
    /\ \E i \in ItemsFor(x) :
        IF \A c \in i.links : Exists(View(x), c)
        THEN Step(x, "items", [tx[x] EXCEPT !.pc = "write", !.item = i,
                                            !.left = @ - 1,
                                            !.dirty = @ \cup TargetsBefore(x, i)])
        ELSE Rollback(x, "items")

\* A direct write ends after its statement; it checks nothing.
AfterItem(x, delta) ==
    LET i == tx[x].item
    IN  [tx[x] EXCEPT
            !.pc = IF tx[x].direct THEN "commit" ELSE "items",
            !.item = NoItem,
            !.delta = delta,
            !.touched = @ \cup {i.feature},
            !.deleted = IF i.action = "delete" THEN @ \cup {i.feature} ELSE @,
            !.dirty = @ \cup ({i.feature} \cap Curves)
                        \cup IF i.action = "delete" \/ i.feature \notin Surfaces
                             THEN {} ELSE Targets(Over(delta, db), i.feature)]

\* The association rows a write clears: those of the properties it names.
Cleared(x, i) ==
    IF i.action # "update" THEN {} ELSE
        {<<i.feature, c>> : c \in {c \in Curves : /\ i.feature \in Surfaces
                                                  /\ Linked(View(x), i.feature, c)
                                                  /\ RoleOf[c] \in i.named}}
Added(i) == {<<i.feature, c>> : c \in i.links}

RowsWritten(x, i) ==
    [k \in {i.feature} \cup Cleared(x, i) \cup Added(i) |->
        IF k = i.feature THEN i.row
        ELSE IF k \in Added(i) THEN LinkRow ELSE NoRow]

\* An insert meets its id, or a link row that outlived a deleted surface; an
\* update does not find its feature.
WriteFails(x, i) ==
    \/ i.action = "update" /\ ~ Exists(View(x), i.feature)
    \/ i.action = "insert" /\ \E k \in {i.feature} \cup Added(i) : Exists(View(x), k)

WriteFeature(x) ==
    LET i == tx[x].item
        rows == RowsWritten(x, i)
    IN  /\ tx[x].pc = "write"
        /\ i.action # "delete"
        /\ Free(x, DOMAIN rows)
        /\ IF WriteFails(x, i)
           THEN Rollback(x, "write")
           ELSE Step(x, "write", AfterItem(x, Write(x, rows)))

\* Mutant: a deleted surface keeps its association rows.
KeepLinks(x) ==
    /\ tx[x].item.action = "delete"
    /\ Step(x, "write", [tx[x] EXCEPT !.pc = "remove"])

\* The first statement of a delete clears the association rows of the feature
\* that are there when it starts, ...
UnlinkFeature(x) ==
    LET i == tx[x].item
        links == {<<i.feature, c>> : c \in {c \in Curves :
                     /\ i.feature \in Surfaces
                     /\ Linked(View(x), i.feature, c)}}
    IN  /\ tx[x].pc = "write"
        /\ i.action = "delete"
        /\ Free(x, links)
        /\ Step(x, "write", [tx[x] EXCEPT !.pc = "remove",
                               !.delta = Write(x, [k \in links |-> NoRow])])

\* ... the second the feature itself.
RemoveFeature(x) ==
    LET f == tx[x].item.feature
    IN  /\ tx[x].pc = "remove"
        /\ Free(x, {f})
        /\ IF Exists(View(x), f)
           THEN Step(x, "remove", AfterItem(x, Write(x, [k \in {f} |-> NoRow])))
           ELSE Rollback(x, "remove")

\* A document without items skips the checks.
EndItems(x) ==
    /\ ~ tx[x].direct
    /\ Step(x, "items",
            [tx[x] EXCEPT !.pc = IF tx[x].touched = {} THEN "commit" ELSE "missing"])

-----------------------------------------------------------------------------
(* The structure and geometry phases; each check is a statement.           *)

\* Mutant: only what the document writes is checked, not what refers to it.
TouchedSurfaces(x) == tx[x].touched \cap Surfaces

\* Mutant: only what refers to a touched curve is checked.
ReferringSurfaces(x) == UNION {Sources(View(x), c) : c \in tx[x].touched \cap Curves}

\* dirty_surfaces: what was touched, and what links to a touched curve.
DirtySurfaces(x) ==
    (tx[x].touched \cap Surfaces)
        \cup (UNION {Sources(View(x), c) : c \in tx[x].touched \cap Curves})

\* The code collects the findings of all three structure checks for its report;
\* the first one already decides.
Check(x, from, to, passes) ==
    IF passes THEN Step(x, from, [tx[x] EXCEPT !.pc = to]) ELSE Rollback(x, from)

\* Mutant: nothing is found missing.
NoMissingCheck(x) == Check(x, "missing", "structure", TRUE)

CheckMissing(x) ==
    Check(x, "missing", "structure",
          \A c \in tx[x].deleted \cap Curves : Sources(View(x), c) = {})

CheckStructure(x) ==
    Check(x, "structure", "bounds",
          \A s \in DirtySurfaces(x) :
              Exists(View(x), s) => StructureIsValid(View(x), s))

CheckBounds(x) ==
    Check(x, "bounds", "geometry",
          \A c \in tx[x].dirty : Exists(View(x), c) => BoundsAreKept(View(x), c))

\* _apply_dirty_footprints measures every dirty surface when it starts ...
MeasureFootprints(x) ==
    LET present == {s \in DirtySurfaces(x) : Exists(View(x), s)}
    IN  IF \A s \in present : GeometryIsValid(View(x), s)
        THEN Step(x, "geometry",
                  [tx[x] EXCEPT !.pc = "refresh",
                                !.measured = [s \in present |->
                                                 SurfaceRow(LineworkOf(View(x), s))]])
        ELSE Rollback(x, "geometry")

\* Mutant: footprints are stored without waiting for their rows.
StoreWithoutWaiting(x) ==
    LET there == {s \in DOMAIN tx[x].measured : Exists(View(x), s)}
    IN  Step(x, "refresh",
             [tx[x] EXCEPT !.pc = "commit", !.measured = NoRows,
                           !.delta = Write(x, [s \in there |-> tx[x].measured[s]])])

\* ... and stores what it measured, once nobody else holds the surfaces.
StoreFootprints(x) ==
    LET there == {s \in DOMAIN tx[x].measured : Exists(View(x), s)}
    IN  /\ tx[x].pc = "refresh"
        /\ Free(x, there)
        /\ Step(x, "refresh",
                [tx[x] EXCEPT !.pc = "commit", !.measured = NoRows,
                              !.delta = Write(x, [s \in there |-> tx[x].measured[s]])])

Commit(x) ==
    /\ tx[x].pc = "commit"
    /\ db' = View(x)
    /\ tx' = [tx EXCEPT ![x] = Idle]

-----------------------------------------------------------------------------

Session(x) ==
    \/ Begin(x)
    \/ TakeItem(x)
    \/ WriteFeature(x)
    \/ UnlinkFeature(x)
    \/ RemoveFeature(x)
    \/ EndItems(x)
    \/ CheckMissing(x)
    \/ CheckStructure(x)
    \/ CheckBounds(x)
    \/ MeasureFootprints(x)
    \/ StoreFootprints(x)
    \/ Commit(x)
    \/ Abort(x)

Next == \E x \in Sessions : Session(x)

Spec == Init /\ [][Next]_vars

-----------------------------------------------------------------------------
(* Properties.                                                             *)

Pcs == {"idle", "items", "write", "remove", "missing", "structure", "bounds",
        "geometry", "refresh", "commit"}

\* Rows at some of the keys, each a row of its table.
Deltas(keys) ==
    {f \in UNION {[D -> Row] : D \in SUBSET keys} :
        \A k \in DOMAIN f : f[k] \in RowsOf(k) \cup {NoRow}}

Transactions(keys) ==
    [pc : Pcs, direct : BOOLEAN, item : Items \cup {NoItem}, left : Nat,
     delta : Deltas(keys), touched : SUBSET Features, deleted : SUBSET Features,
     dirty : SUBSET Curves, measured : Deltas(keys)]

\* The committed rows are rows of their tables, a write has an item, and no two
\* sessions have uncommitted versions of one row: a statement that waits for a
\* lock has not yet written (a footprint update waits as any other write does).
TypeOK ==
    /\ db \in Database
    /\ tx \in [Sessions -> Transactions(Keys)]
    /\ \A x \in Sessions :
        /\ tx[x].pc \in {"write", "remove"} => tx[x].item \in Items
        /\ \A y \in Sessions \ {x} : DOMAIN tx[x].delta \cap DOMAIN tx[y].delta = {}

\* No committed link refers to a curve that does not exist.
NoMissingMember == \A s \in Surfaces, c \in Curves : Linked(db, s, c) => Exists(db, c)

\* No association row outlives the surface it belongs to: "delete removes all
\* rows where this feature is the source" (the comment on ogc.transaction).
NoOrphanLink == \A s \in Surfaces, c \in Curves : Linked(db, s, c) => Exists(db, s)

\* Every curve of a bounded collection bounds as many surfaces as its
\* description declares (collection-descriptions.md:16).
BoundsHold == \A c \in Curves : Exists(db, c) => BoundsAreKept(db, c)

\* A surface has a boundary if it needs one, from roles that go together, and
\* changing a curve's condition never breaks that behind its back.
StructureHolds == \A s \in Surfaces : Exists(db, s) => StructureIsValid(db, s)

\* The stored footprint is the one its curves, as they are now, would give.
FootprintsAreFresh ==
    \A s \in Surfaces : Exists(db, s) =>
        /\ db[s].footprint = LineworkOf(db, s)
        /\ GeometryIsValid(db, s)
=============================================================================
