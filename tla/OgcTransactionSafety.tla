------------------------- MODULE OgcTransactionSafety -------------------------
(***************************************************************************)
(* Sessions whose documents name different features, one session among     *)
(* them, keep the topology: what is committed has no dangling link, every  *)
(* surface an acceptable boundary and a fresh footprint, every curve its   *)
(* bounds.  The argument is about what a session sees.  Whatever a         *)
(* document may have spoiled is among the dirty surfaces and curves until  *)
(* it is checked, everything else is as it was committed; and no link      *)
(* joins what two sessions work on, so nobody's commit changes what        *)
(* another session has seen.                                               *)
(***************************************************************************)
EXTENDS OgcTransactionProofs


\* The sessions' documents name different features: one session, or clients
\* that have divided the dataset among them.
DocumentsAreApart ==
    \A x \in Sessions : \A y \in Sessions \ {x} : Territory[x] \cap Territory[y] = {}

\* Surfaces are written in transactions only, ...
SurfacesAreChecked == Simple \cap Surfaces = {}
\* ... curves written directly bound no area, ...
NotesAreSimple == \A c \in Simple \cap Curves : RoleOf[c] \notin DerivedRoles
\* ... are in a collection without bounds, ...
SimpleIsUnbounded == \A c \in Simple \cap Curves : Bounds[RoleOf[c]] = 0
\* ... or there are none.
CurvesAreChecked == Simple \cap Curves = {}

Within(T) == T \cup {<<s, c>> : s \in Surfaces \cap T, c \in Curves \cap T}

\* No link leads into T or out of it.
Sealed(d, T) ==
    \A s \in Surfaces, c \in Curves : Linked(d, s, c) => (s \in T <=> c \in T)

\* A transaction stays within the features its documents name.
StaysWithin(t, T) ==
    /\ DOMAIN t.delta \subseteq Within(T)
    /\ t.touched \subseteq T
    /\ t.deleted \subseteq t.touched
    /\ t.pc \in {"write", "remove"} => {t.item.feature} \cup t.item.links \subseteq T
    /\ t.pc = "remove" => t.item.action = "delete"
    /\ DOMAIN t.measured \subseteq Surfaces \cap T
    /\ \A s \in DOMAIN t.measured : t.measured[s] # NoRow

ApartInv ==
    /\ TypeOK
    /\ \A x \in Sessions :
        Sealed(db, Territory[x]) /\ StaysWithin(tx[x], Territory[x])

-----------------------------------------------------------------------------
(* What holds of a transaction t that sees v, within its territory T.      *)

\* A surface that is gone has no association rows, and one that is about to go
\* has none left.
LinksHaveSurfaces(t, v, T) ==
    /\ \A s \in Surfaces \cap T, c \in Curves : Linked(v, s, c) => Exists(v, s)
    /\ t.pc = "remove" /\ t.item.feature \in Surfaces =>
          \A c \in Curves : ~ Linked(v, t.item.feature, c)

Unresolved == {"items", "write", "remove", "missing"}

\* A curve that is gone while surfaces link to it was deleted, and is looked at
\* before the transaction ends.
LinksHaveMembers(t, v, T) ==
    /\ \A s \in Surfaces, c \in Curves \cap T :
          Linked(v, s, c) => Exists(v, c) \/ (c \in t.deleted /\ t.pc \in Unresolved)
    /\ t.pc = "write" => \A c \in t.item.links : Exists(v, c)
    /\ t.direct => /\ t.deleted \cap Curves = {}
                   /\ t.pc \in {"write", "remove"} => t.item.feature \notin Curves

\* The dirty surfaces, and the one that has lost its links and not yet its row.
Suspects(t, v) ==
    {s \in Surfaces :
        \/ s \in t.touched
        \/ \E c \in t.touched \cap Curves : Linked(v, s, c)
        \/ t.pc = "remove" /\ s = t.item.feature}

DirectNotes(t) ==
    t.direct =>
        /\ t.pc \in {"items", "write", "remove", "commit"}
        /\ t.pc \in {"write", "remove"} =>
              /\ t.item.feature \in Curves
              /\ t.item.feature \in Simple

\* Until the check, only a suspect can have an unacceptable boundary.
BoundariesAreKnown(t, v, T) ==
    \A s \in Surfaces \cap T :
        Exists(v, s) =>
            \/ StructureIsValid(v, s)
            \/ ~ t.direct /\ t.pc \in Unchecked /\ s \in Suspects(t, v)

IsFresh(v, s) == v[s].footprint = LineworkOf(v, s) /\ GeometryIsValid(v, s)

Unmeasured == {"items", "write", "remove", "missing", "structure", "bounds", "geometry"}

\* Until they are measured, only a suspect can have an old footprint; what is
\* stored then is what its curves give.
FootprintsAreKnown(t, v, T) ==
    /\ \A s \in Surfaces \cap T :
          Exists(v, s) =>
              \/ IsFresh(v, s)
              \/ ~ t.direct /\ t.pc \in Unmeasured /\ s \in Suspects(t, v)
              \/ t.pc = "refresh" /\ s \in DOMAIN t.measured
    /\ t.pc = "refresh" =>
          \A s \in DOMAIN t.measured :
              /\ t.measured[s] = SurfaceRow(LineworkOf(v, s))
              /\ GeometryIsValid(v, s)

Uncounted == {"items", "write", "remove", "missing", "structure", "bounds"}

\* Until they are counted, only a dirty curve can have the wrong number of
\* owners; what a statement is about to unlink is dirty.
OwnersAreKnown(t, v, T) ==
    /\ \A c \in Curves \cap T :
          Exists(v, c) =>
              \/ BoundsAreKept(v, c)
              \/ ~ t.direct /\ t.pc \in Uncounted /\ c \in t.dirty
    /\ /\ t.pc = "write" /\ t.item.action \in {"update", "delete"}
       /\ t.item.feature \in Surfaces
       => Targets(v, t.item.feature) \subseteq t.dirty
    /\ t.pc = "items" /\ t.touched = {} => t.dirty = {}

\* All of it, each part where it applies.
Known(t, v, T) ==
    /\ LinksHaveSurfaces(t, v, T)
    /\ CurvesAreChecked => LinksHaveMembers(t, v, T)
    /\ SurfacesAreChecked => DirectNotes(t)
    /\ SurfacesAreChecked /\ NotesAreSimple =>
          BoundariesAreKnown(t, v, T) /\ FootprintsAreKnown(t, v, T)
    /\ SurfacesAreChecked /\ SimpleIsUnbounded => OwnersAreKnown(t, v, T)

\* An idle transaction sees the committed rows, and may name any of them.
KnownInv ==
    /\ ApartInv
    /\ Known(Idle, db, Features)
    /\ \A x \in Sessions : Known(tx[x], View(x), Territory[x])

-----------------------------------------------------------------------------
(* What a statement does, to the transaction t and to what it sees: "to"   *)
(* and w are the transaction and its view afterwards.                      *)

Restarts(to) ==
    /\ to.pc \in {"idle", "items"} /\ (to.pc = "idle" => ~ to.direct)
    /\ DOMAIN to.delta = {} /\ DOMAIN to.measured = {}
    /\ to.touched = {} /\ to.deleted = {} /\ to.dirty = {}

Keeps(t, to) ==
    /\ to.direct = t.direct
    /\ to.touched = t.touched /\ to.deleted = t.deleted

Takes(t, v, to) ==
    /\ t.pc = "items" /\ to.pc = "write"
    /\ to.item \in Items
    /\ t.direct => to.item.feature \in Simple
    /\ \A c \in to.item.links : Exists(v, c)
    /\ to.item.action \in {"update", "delete"} /\ to.item.feature \in Surfaces
       => Targets(v, to.item.feature) \subseteq to.dirty
    /\ t.dirty \subseteq to.dirty
    /\ Keeps(t, to) /\ to.measured = t.measured

\* The parts of a transaction after an item.
EndsItem(t, to) ==
    LET f == t.item.feature
    IN  /\ to.pc = IF t.direct THEN "commit" ELSE "items"
        /\ to.direct = t.direct
        /\ to.touched = t.touched \cup {f}
        /\ t.dirty \cup ({f} \cap Curves) \subseteq to.dirty
        /\ to.measured = t.measured

\* Only the row of f and links of f have changed.
OnlyOf(v, w, f) ==
    \A k \in Keys : w[k] # v[k] => k = f \/ \E c \in Curves : f \in Surfaces /\ k = <<f, c>>

Writes(t, v, to, w) ==
    LET i == t.item
        f == i.feature
    IN  /\ t.pc = "write" /\ i \in Items /\ i.action # "delete"
        /\ EndsItem(t, to) /\ to.deleted = t.deleted
        /\ OnlyOf(v, w, f) /\ Exists(w, f)
        /\ f \in Surfaces =>
              /\ Targets(w, f) \subseteq Targets(v, f) \cup i.links
              /\ i.action # "update" => Targets(v, f) \subseteq Targets(w, f)
              /\ Targets(w, f) \subseteq to.dirty

Unlinks(t, v, to, w) ==
    LET f == t.item.feature
    IN  /\ t.pc = "write" /\ to.pc = "remove"
        /\ t.item.action = "delete" /\ to.item = t.item
        /\ Keeps(t, to) /\ to.dirty = t.dirty /\ to.measured = t.measured
        /\ OnlyOf(v, w, f)
        /\ \A k \in Features : w[k] = v[k]
        /\ f \in Surfaces => Targets(w, f) = {}

Removes(t, v, to, w) ==
    LET f == t.item.feature
    IN  /\ t.pc = "remove" /\ f \in Features
        /\ EndsItem(t, to) /\ to.deleted = t.deleted \cup {f}
        /\ ~ Exists(w, f)
        /\ \A k \in Keys \ {f} : w[k] = v[k]

\* From one phase to the next, if the check it makes allows it.
Passes(t, v, pc) ==
    \/ /\ t.pc = "items" /\ ~ t.direct
       /\ pc = IF t.touched = {} THEN "commit" ELSE "missing"
    \/ /\ t.pc = "missing" /\ pc = "structure"
       /\ \A c \in t.deleted \cap Curves : Sources(v, c) = {}
    \/ /\ t.pc = "structure" /\ pc = "bounds"
       /\ \A s \in Suspects(t, v) : Exists(v, s) => StructureIsValid(v, s)
    \/ /\ t.pc = "bounds" /\ pc = "geometry"
       /\ \A c \in t.dirty : Exists(v, c) => BoundsAreKept(v, c)

Phases(t, v, to) ==
    /\ Keeps(t, to) /\ to.dirty = t.dirty /\ to.measured = t.measured
    /\ Passes(t, v, to.pc)

Measures(t, v, to) ==
    /\ t.pc = "geometry" /\ to.pc = "refresh"
    /\ Keeps(t, to) /\ to.dirty = t.dirty
    /\ DOMAIN to.measured = {s \in Suspects(t, v) : Exists(v, s)}
    /\ \A s \in DOMAIN to.measured :
          /\ to.measured[s] = SurfaceRow(LineworkOf(v, s))
          /\ GeometryIsValid(v, s)

Stores(t, v, to, w) ==
    /\ t.pc = "refresh" /\ to.pc = "commit"
    /\ Keeps(t, to) /\ to.dirty = t.dirty /\ DOMAIN to.measured = {}
    /\ \A k \in Keys : w[k] = IF k \in DOMAIN t.measured /\ Exists(v, k)
                              THEN t.measured[k] ELSE v[k]

\* Every statement but the commit.
Statement(t, v, to, w) ==
    \/ w = v /\ (Takes(t, v, to) \/ Phases(t, v, to) \/ Measures(t, v, to))
    \/ Writes(t, v, to, w)
    \/ Unlinks(t, v, to, w)
    \/ Removes(t, v, to, w)
    \/ Stores(t, v, to, w)

-----------------------------------------------------------------------------
(* A surface whose links and curves stay is as good as before, and so is a  *)
(* curve with the same surfaces linking to it.                             *)

SameBoundary(v, w, s) ==
    /\ Targets(v, s) = Targets(w, s)
    /\ \A c \in Targets(v, s) : RoleOf[c] \in DerivedRoles => v[c] = w[c]

LEMMA BoundaryStays ==
    ASSUME NEW v, NEW w, NEW s, SameBoundary(v, w, s)
    PROVE  /\ LineworkOf(v, s) = LineworkOf(w, s)
           /\ StructureIsValid(v, s) <=> StructureIsValid(w, s)
           /\ GeometryIsValid(v, s) <=> GeometryIsValid(w, s)
<1>1. \A c \in Targets(v, s) : Counts(v, c) <=> Counts(w, c)
  BY DEF SameBoundary, Counts, Exists
<1>2. Included(v, s) = Included(w, s)
  BY <1>1 DEF Included, SameBoundary
<1>3. \A c \in Included(v, s) : v[c] = w[c]
  BY DEF Included, Counts, SameBoundary
<1>4. {b \in Included(v, s) : Exists(v, b)} = {b \in Included(w, s) : Exists(w, b)}
  BY <1>2, <1>3 DEF Exists
<1>5. LineworkOf(v, s) = LineworkOf(w, s)
  BY <1>2, <1>3, <1>4 DEF LineworkOf
<1>6. IncludedRoles(v, s) = IncludedRoles(w, s)
  BY <1>2 DEF IncludedRoles
<1> QED
  BY <1>2, <1>5, <1>6 DEF StructureIsValid, GeometryIsValid

LEMMA SurfaceStays ==
    ASSUME NEW v, NEW w, NEW s, SameBoundary(v, w, s), v[s] = w[s]
    PROVE  /\ Exists(v, s) <=> Exists(w, s)
           /\ StructureIsValid(v, s) <=> StructureIsValid(w, s)
           /\ IsFresh(v, s) <=> IsFresh(w, s)
BY BoundaryStays DEF Exists, IsFresh

LEMMA OwnersStay ==
    ASSUME NEW v, NEW w, NEW c, Sources(v, c) = Sources(w, c), v[c] = w[c]
    PROVE  /\ Exists(v, c) <=> Exists(w, c)
           /\ BoundsAreKept(v, c) <=> BoundsAreKept(w, c)
<1>1. Counts(v, c) <=> Counts(w, c)
  BY DEF Counts, Exists
<1>2. Owners(v, c) = Owners(w, c)
  BY <1>1 DEF Owners
<1> QED
  BY <1>2 DEF BoundsAreKept, Exists

\* What a change of one feature and its links leaves alone.
LEMMA OtherLinksStay ==
    ASSUME NEW v, NEW w, NEW f \in Features, OnlyOf(v, w, f)
    PROVE  /\ \A k \in Features \ {f} : w[k] = v[k]
           /\ \A s \in Surfaces \ {f}, c \in Curves : Linked(w, s, c) <=> Linked(v, s, c)
           /\ \A s \in Surfaces \ {f} : Targets(w, s) = Targets(v, s)
<1>1. \A k \in Features \ {f} : w[k] = v[k]
  BY KeyFacts DEF OnlyOf, Features
<1>2. \A s \in Surfaces \ {f}, c \in Curves : w[<<s, c>>] = v[<<s, c>>]
  <2> SUFFICES ASSUME NEW s \in Surfaces \ {f}, NEW c \in Curves
               PROVE  w[<<s, c>>] = v[<<s, c>>]
    OBVIOUS
  <2>1. <<s, c>> \in Keys /\ <<s, c>> # f
    BY KeyFacts
  <2>2. \A b \in Curves : <<s, c>> # <<f, b>>
    OBVIOUS
  <2> QED
    BY <2>1, <2>2 DEF OnlyOf
<1>3. \A s \in Surfaces \ {f}, c \in Curves : Linked(w, s, c) <=> Linked(v, s, c)
  BY <1>2 DEF Linked, Exists
<1> QED
  BY <1>1, <1>3 DEF Targets

\* A direct write of a curve that bounds no area.
LEMMA NoteWritten ==
    ASSUME NEW v, NEW w, NEW f \in Curves, RoleOf[f] \notin DerivedRoles,
           OnlyOf(v, w, f), NEW s \in Surfaces
    PROVE  SameBoundary(v, w, s) /\ v[s] = w[s]
BY OtherLinksStay, TopologyAssumption DEF SameBoundary, Targets, Features

-----------------------------------------------------------------------------
(* Every statement keeps each part.                                         *)

LEMMA StoresFacts ==
    ASSUME NEW T \in SUBSET Features, NEW t, StaysWithin(t, T),
           NEW v, NEW to, NEW w, Stores(t, v, to, w)
    PROVE  /\ \A k \in Features : Exists(w, k) <=> Exists(v, k)
           /\ \A c \in Curves : w[c] = v[c]
           /\ \A s \in Surfaces, c \in Curves : Linked(w, s, c) <=> Linked(v, s, c)
           /\ \A s \in Surfaces : SameBoundary(v, w, s)
           /\ \A c \in Curves : Sources(v, c) = Sources(w, c)
<1>1. /\ DOMAIN t.measured \subseteq Surfaces
      /\ \A s \in DOMAIN t.measured : t.measured[s] # NoRow
  BY DEF StaysWithin
<1>2. \A k \in Keys : w[k] = IF k \in DOMAIN t.measured /\ Exists(v, k)
                             THEN t.measured[k] ELSE v[k]
  BY DEF Stores
<1>3. \A k \in Keys \ Surfaces : w[k] = v[k]
  BY <1>1, <1>2
<1>4. \A c \in Curves : w[c] = v[c]
  BY <1>3, KeyFacts, TopologyAssumption
<1>5. \A s \in Surfaces, c \in Curves : w[<<s, c>>] = v[<<s, c>>]
  BY <1>3, KeyFacts DEF Features
<1>6. \A k \in Features : Exists(w, k) <=> Exists(v, k)
  BY <1>1, <1>2, KeyFacts DEF Exists, Features
<1>7. \A s \in Surfaces, c \in Curves : Linked(w, s, c) <=> Linked(v, s, c)
  BY <1>5 DEF Linked, Exists
<1> QED
  BY <1>4, <1>6, <1>7 DEF SameBoundary, Targets, Sources

LEMMA RemovesFacts ==
    ASSUME NEW t, NEW v, NEW to, NEW w, Removes(t, v, to, w)
    PROVE  /\ OnlyOf(v, w, t.item.feature)
           /\ \A s \in Surfaces, c \in Curves : Linked(w, s, c) <=> Linked(v, s, c)
<1>1. \A s \in Surfaces, c \in Curves : w[<<s, c>>] = v[<<s, c>>]
  BY KeyFacts DEF Removes
<1> QED
  BY <1>1 DEF Removes, OnlyOf, Linked, Exists

LEMMA StatementKeepsSurfaces ==
    ASSUME NEW T \in SUBSET Features, NEW t, StaysWithin(t, T),
           NEW v, NEW to, NEW w, Statement(t, v, to, w),
           LinksHaveSurfaces(t, v, T)
    PROVE  LinksHaveSurfaces(to, w, T)
<1> DEFINE f == t.item.feature
<1>1. CASE w = v /\ (Takes(t, v, to) \/ Phases(t, v, to) \/ Measures(t, v, to))
  BY <1>1 DEF Takes, Passes, Phases, Measures, LinksHaveSurfaces
<1>2. CASE Writes(t, v, to, w)
  <2>1. f \in Features /\ OnlyOf(v, w, f) /\ Exists(w, f) /\ to.pc # "remove"
    BY <1>2, ItemFacts DEF Writes, EndsItem
  <2>2. \A s \in Surfaces \cap T, c \in Curves : Linked(w, s, c) => Exists(w, s)
    BY <2>1, OtherLinksStay DEF LinksHaveSurfaces, Exists, Features
  <2> QED
    BY <2>1, <2>2 DEF LinksHaveSurfaces
<1>3. CASE Unlinks(t, v, to, w)
  <2>1. f \in Features /\ OnlyOf(v, w, f) /\ to.item = t.item
    BY <1>3 DEF Unlinks, StaysWithin
  <2>2. f \in Surfaces => \A c \in Curves : ~ Linked(w, f, c)
    BY <1>3 DEF Unlinks, Targets
  <2>3. \A s \in Surfaces \cap T, c \in Curves : Linked(w, s, c) => Exists(w, s)
    BY <2>1, <2>2, OtherLinksStay DEF LinksHaveSurfaces, Exists, Features
  <2> QED
    BY <2>1, <2>2, <2>3 DEF LinksHaveSurfaces
<1>4. CASE Removes(t, v, to, w)
  <2>1. f \in Features /\ to.pc # "remove" /\ t.pc = "remove"
    BY <1>4 DEF Removes, EndsItem
  <2>2. \A k \in Features \ {f} : w[k] = v[k]
    BY <1>4 DEF Removes, Keys
  <2>3. \A s \in Surfaces \cap T, c \in Curves : Linked(w, s, c) => Exists(w, s)
    BY <1>4, <2>1, <2>2, RemovesFacts DEF LinksHaveSurfaces, Exists, Features
  <2> QED
    BY <2>1, <2>3 DEF LinksHaveSurfaces
<1>5. CASE Stores(t, v, to, w)
  BY <1>5, StoresFacts DEF LinksHaveSurfaces, Stores, Features
<1> QED
  BY <1>1, <1>2, <1>3, <1>4, <1>5 DEF Statement

LEMMA StatementKeepsMembers ==
    ASSUME NEW T \in SUBSET Features, NEW t, StaysWithin(t, T),
           NEW v, NEW to, NEW w, Statement(t, v, to, w),
           CurvesAreChecked,
           LinksHaveMembers(t, v, T)
    PROVE  LinksHaveMembers(to, w, T)
<1> DEFINE f == t.item.feature
<1>1. CASE w = v /\ Takes(t, v, to)
  BY <1>1 DEF Takes, Keeps, LinksHaveMembers, Unresolved, CurvesAreChecked
<1>2. CASE w = v /\ Phases(t, v, to)
  <2>1. /\ to.direct = t.direct /\ to.deleted = t.deleted /\ t.deleted \subseteq t.touched
        /\ to.pc \notin {"write", "remove"}
    BY <1>2 DEF Passes, Phases, Keeps, StaysWithin
  <2>2. \A s \in Surfaces, c \in Curves \cap T :
            Linked(w, s, c) => Exists(w, c) \/ (c \in to.deleted /\ to.pc \in Unresolved)
    <3> SUFFICES ASSUME NEW s \in Surfaces, NEW c \in Curves \cap T, Linked(v, s, c)
                 PROVE  Exists(v, c) \/ (c \in t.deleted /\ to.pc \in Unresolved)
      BY <1>2, <2>1
    <3>1. Exists(v, c) \/ (c \in t.deleted /\ t.pc \in Unresolved)
      BY DEF LinksHaveMembers
    <3> QED
      BY <1>2, <2>1, <3>1 DEF Passes, Phases, Unresolved, Sources
  <2> QED
    BY <1>2, <2>1, <2>2 DEF LinksHaveMembers
<1>3. CASE w = v /\ Measures(t, v, to)
  BY <1>3 DEF Measures, Keeps, LinksHaveMembers, Unresolved
<1>4. CASE Writes(t, v, to, w)
  <2>1. /\ f \in Features /\ OnlyOf(v, w, f) /\ Exists(w, f) /\ t.pc = "write"
        /\ to.direct = t.direct /\ to.deleted = t.deleted
        /\ to.pc = IF t.direct THEN "commit" ELSE "items"
        /\ f \in Surfaces => Targets(w, f) \subseteq Targets(v, f) \cup t.item.links
        /\ t.item.links \subseteq Curves
    BY <1>4, ItemFacts DEF Writes, EndsItem
  <2>2. \A c \in Curves : Exists(v, c) => Exists(w, c)
    BY <2>1, OtherLinksStay DEF Exists, Features
  <2>3. \A s \in Surfaces, c \in Curves :
            Linked(w, s, c) => Linked(v, s, c) \/ c \in t.item.links
    BY <2>1, OtherLinksStay DEF Targets
  <2>4. t.direct => t.deleted \cap Curves = {}
    BY DEF LinksHaveMembers
  <2>5. ASSUME NEW s \in Surfaces, NEW c \in Curves \cap T, Linked(w, s, c)
        PROVE  Exists(w, c) \/ (c \in to.deleted /\ to.pc \in Unresolved)
    <3>1. Exists(v, c) \/ c \in t.deleted
      BY <2>1, <2>3, <2>5 DEF LinksHaveMembers
    <3> QED
      BY <2>1, <2>2, <2>4, <3>1 DEF Unresolved
  <2> QED
    BY <2>1, <2>4, <2>5 DEF LinksHaveMembers
<1>5. CASE Unlinks(t, v, to, w)
  <2>1. /\ f \in Features /\ OnlyOf(v, w, f) /\ to.item = t.item /\ t.pc = "write"
        /\ to.direct = t.direct /\ to.deleted = t.deleted /\ to.pc = "remove"
        /\ f \in Surfaces => Targets(w, f) = {}
        /\ \A k \in Features : w[k] = v[k]
    BY <1>5 DEF Unlinks, Keeps, StaysWithin
  <2>2. \A s \in Surfaces, c \in Curves : Linked(w, s, c) => Linked(v, s, c)
    BY <2>1, OtherLinksStay DEF Targets
  <2> QED
    BY <2>1, <2>2 DEF LinksHaveMembers, Exists, Features, Unresolved
<1>6. CASE Removes(t, v, to, w)
  <2>1. /\ t.pc = "remove" /\ to.pc = IF t.direct THEN "commit" ELSE "items"
        /\ to.direct = t.direct /\ to.deleted = t.deleted \cup {f}
        /\ f \in Features
    BY <1>6 DEF Removes, EndsItem
  <2>2. \A c \in Curves \ {f} : w[c] = v[c]
    BY <1>6, KeyFacts DEF Removes
  <2>3. t.direct => t.deleted \cap Curves = {} /\ f \notin Curves
    BY <2>1 DEF LinksHaveMembers
  <2>4. ASSUME NEW s \in Surfaces, NEW c \in Curves \cap T, Linked(w, s, c)
        PROVE  Exists(w, c) \/ (c \in to.deleted /\ to.pc \in Unresolved)
    <3>1. Exists(v, c) \/ c \in t.deleted
      BY <1>6, <2>4, RemovesFacts DEF LinksHaveMembers
    <3> QED
      BY <2>1, <2>2, <2>3, <3>1 DEF Unresolved, Exists
  <2> QED
    BY <2>1, <2>3, <2>4 DEF LinksHaveMembers
<1>7. CASE Stores(t, v, to, w)
  BY <1>7, StoresFacts DEF LinksHaveMembers, Stores, Keeps, Features, Unresolved
<1> QED
  BY <1>1, <1>2, <1>3, <1>4, <1>5, <1>6, <1>7 DEF Statement

LEMMA StatementKeepsNotes ==
    ASSUME NEW T \in SUBSET Features, NEW t, StaysWithin(t, T),
           NEW v, NEW to, NEW w, Statement(t, v, to, w),
           SurfacesAreChecked, DirectNotes(t)
    PROVE  DirectNotes(to)
<1>1. CASE Takes(t, v, to)
  <2>1. to.item.feature \in Features
    BY <1>1, ItemFacts DEF Takes
  <2> QED
    BY <1>1, <2>1 DEF Takes, Keeps, DirectNotes, SurfacesAreChecked, Features
<1>2. CASE Phases(t, v, to) \/ Measures(t, v, to) \/ Stores(t, v, to, w)
  BY <1>2 DEF Passes, Phases, Measures, Stores, Keeps, DirectNotes
<1>3. CASE Writes(t, v, to, w) \/ Removes(t, v, to, w)
  BY <1>3 DEF Writes, Removes, EndsItem, DirectNotes
<1>4. CASE Unlinks(t, v, to, w)
  BY <1>4 DEF Unlinks, Keeps, DirectNotes
<1> QED
  BY <1>1, <1>2, <1>3, <1>4 DEF Statement

\* A write leaves alone every surface that is not suspect afterwards; a direct
\* one leaves alone all.
LEMMA WriteLeavesAlone ==
    ASSUME NEW T \in SUBSET Features, NEW t, StaysWithin(t, T),
           NEW v, NEW to, NEW w,
           Writes(t, v, to, w) \/ Unlinks(t, v, to, w) \/ Removes(t, v, to, w),
           NotesAreSimple, DirectNotes(t),
           NEW s \in Surfaces, to.direct \/ s \notin Suspects(to, w)
    PROVE  /\ SameBoundary(v, w, s) /\ v[s] = w[s]
           /\ t.direct \/ s \notin Suspects(t, v)
           /\ to.direct = t.direct
<1> DEFINE f == t.item.feature
<1>1. /\ f \in Features /\ OnlyOf(v, w, f)
      /\ to.direct = t.direct /\ t.pc \in {"write", "remove"}
      /\ t.touched \subseteq Features
  BY ItemFacts, RemovesFacts DEF Writes, Unlinks, Removes, EndsItem, Keeps, StaysWithin
<1>2. CASE t.direct
  <2>1. f \in Curves /\ RoleOf[f] \notin DerivedRoles
    BY <1>1, <1>2 DEF DirectNotes, NotesAreSimple
  <2>2. SameBoundary(v, w, s) /\ v[s] = w[s]
    BY <1>1, <2>1, NoteWritten
  <2> QED
    BY <1>1, <1>2, <2>2
<1>3. CASE ~ t.direct
  <2>1. \/ to.touched = t.touched \cup {f}
        \/ /\ to.touched = t.touched
           /\ to.pc = "remove" /\ to.item.feature = f
           /\ \A k \in Features : w[k] = v[k]
    BY DEF Writes, Unlinks, Removes, EndsItem, Keeps
  <2>2. s \notin Suspects(to, w) /\ f \in Features
    BY <1>1, <1>3
  <2>3. s # f
    BY <2>1, <2>2 DEF Suspects
  <2>4. /\ v[s] = w[s]
        /\ Targets(w, s) = Targets(v, s)
        /\ \A c \in Curves : Linked(w, s, c) <=> Linked(v, s, c)
    BY <1>1, <2>3, OtherLinksStay DEF Features
  <2>5. s \notin Suspects(t, v)
    BY <2>1, <2>2, <2>3, <2>4 DEF Suspects
  <2>6. ASSUME NEW c \in Targets(w, s) PROVE v[c] = w[c]
    <3>1. c \in Curves /\ Linked(w, s, c)
      BY <2>6 DEF Targets
    <3>2. c \notin to.touched
      BY <2>2, <3>1 DEF Suspects
    <3> QED
      BY <1>1, <2>1, <3>1, <3>2, OtherLinksStay DEF Features
  <2> QED
    BY <1>1, <2>4, <2>5, <2>6 DEF SameBoundary
<1> QED
  BY <1>2, <1>3

LEMMA SuspectsStay ==
    ASSUME NEW t, NEW to, NEW v, to.touched = t.touched,
           t.pc # "remove", to.pc # "remove"
    PROVE  Suspects(to, v) = Suspects(t, v)
BY DEF Suspects

LEMMA StatementKeepsBoundaries ==
    ASSUME NEW T \in SUBSET Features, NEW t, StaysWithin(t, T),
           NEW v, NEW to, NEW w, Statement(t, v, to, w),
           NotesAreSimple, DirectNotes(t), BoundariesAreKnown(t, v, T)
    PROVE  BoundariesAreKnown(to, w, T)
<1> SUFFICES ASSUME NEW s \in Surfaces \cap T, Exists(w, s), ~ StructureIsValid(w, s)
             PROVE  ~ to.direct /\ to.pc \in Unchecked /\ s \in Suspects(to, w)
  BY DEF BoundariesAreKnown
<1>1. CASE w = v /\ (Takes(t, v, to) \/ Phases(t, v, to) \/ Measures(t, v, to))
  <2>1. ~ t.direct /\ t.pc \in Unchecked /\ s \in Suspects(t, v)
    BY <1>1 DEF BoundariesAreKnown
  <2>2. /\ to.direct = t.direct /\ to.touched = t.touched
        /\ t.pc # "remove" /\ to.pc # "remove"
    BY <1>1 DEF Takes, Passes, Phases, Measures, Keeps
  <2>3. s \in Suspects(to, w)
    BY <1>1, <2>1, <2>2, SuspectsStay
  <2>4. t.pc = "items" => t.touched # {}
    BY <2>1 DEF Suspects
  <2>5. to.pc \in Unchecked
    BY <1>1, <2>1, <2>4 DEF Takes, Passes, Phases, Measures, Unchecked
  <2> QED
    BY <2>1, <2>2, <2>3, <2>5
<1>2. CASE Writes(t, v, to, w) \/ Unlinks(t, v, to, w) \/ Removes(t, v, to, w)
  <2>1. to.pc \in Unchecked \/ t.direct
    BY <1>2 DEF Writes, Unlinks, Removes, EndsItem, Unchecked
  <2>2. to.direct = t.direct
    BY <1>2 DEF Writes, Unlinks, Removes, EndsItem, Keeps
  <2>3. ASSUME to.direct \/ s \notin Suspects(to, w) PROVE FALSE
    <3>1. SameBoundary(v, w, s) /\ v[s] = w[s] /\ (t.direct \/ s \notin Suspects(t, v))
      BY <1>2, <2>2, <2>3, WriteLeavesAlone
    <3>2. Exists(v, s) /\ ~ StructureIsValid(v, s)
      BY <3>1, SurfaceStays
    <3> QED
      BY <3>1, <3>2 DEF BoundariesAreKnown
  <2> QED
    BY <2>1, <2>2, <2>3
<1>3. CASE Stores(t, v, to, w)
  <2>1. Exists(v, s) /\ ~ StructureIsValid(v, s) /\ t.pc = "refresh"
    BY <1>3, StoresFacts, BoundaryStays DEF Stores, Features
  <2> QED
    BY <2>1 DEF BoundariesAreKnown, Unchecked
<1> QED
  BY <1>1, <1>2, <1>3 DEF Statement

LEMMA StatementKeepsFootprints ==
    ASSUME NEW T \in SUBSET Features, NEW t, StaysWithin(t, T),
           NEW v, NEW to, NEW w, Statement(t, v, to, w),
           NotesAreSimple, DirectNotes(t), FootprintsAreKnown(t, v, T)
    PROVE  FootprintsAreKnown(to, w, T)
<1>1. CASE w = v /\ (Takes(t, v, to) \/ Phases(t, v, to))
  <2>1. /\ to.direct = t.direct /\ to.touched = t.touched
        /\ t.pc \notin {"remove", "refresh"} /\ to.pc \notin {"remove", "refresh"}
    BY <1>1 DEF Takes, Passes, Phases, Keeps
  <2>2. Suspects(to, v) = Suspects(t, v)
    BY <2>1, SuspectsStay
  <2>3. t.pc = "items" /\ Suspects(t, v) # {} => t.touched # {}
    BY DEF Suspects
  <2>4. t.pc \in Unmeasured /\ Suspects(t, v) # {} => to.pc \in Unmeasured
    BY <1>1, <2>3 DEF Takes, Passes, Phases, Unmeasured
  <2> QED
    BY <1>1, <2>1, <2>2, <2>4 DEF FootprintsAreKnown
<1>2. CASE w = v /\ Measures(t, v, to)
  <2>1. t.pc = "geometry" /\ to.pc = "refresh"
    BY <1>2 DEF Measures
  <2>2. \A s \in Surfaces \cap T :
            Exists(v, s) => IsFresh(v, s) \/ s \in Suspects(t, v)
    BY <2>1 DEF FootprintsAreKnown
  <2> QED
    BY <1>2, <2>1, <2>2 DEF FootprintsAreKnown, Measures
<1>3. CASE Writes(t, v, to, w) \/ Unlinks(t, v, to, w) \/ Removes(t, v, to, w)
  <2>1. /\ to.pc \in Unmeasured \/ t.direct
        /\ to.pc # "refresh" /\ t.pc # "refresh"
        /\ to.direct = t.direct
    BY <1>3 DEF Writes, Unlinks, Removes, EndsItem, Keeps, Unmeasured
  <2>2. ASSUME NEW s \in Surfaces \cap T, Exists(w, s), ~ IsFresh(w, s)
        PROVE  ~ to.direct /\ s \in Suspects(to, w)
    <3>1. CASE to.direct \/ s \notin Suspects(to, w)
      <4>1. /\ SameBoundary(v, w, s) /\ v[s] = w[s]
            /\ t.direct \/ s \notin Suspects(t, v)
        BY <1>3, <3>1, WriteLeavesAlone
      <4>2. Exists(v, s) /\ ~ IsFresh(v, s)
        BY <2>2, <4>1, SurfaceStays
      <4> QED
        BY <2>1, <4>1, <4>2 DEF FootprintsAreKnown
    <3> QED
      BY <3>1
  <2> QED
    BY <2>1, <2>2 DEF FootprintsAreKnown
<1>4. CASE Stores(t, v, to, w)
  <2>1. t.pc = "refresh" /\ to.pc = "commit"
    BY <1>4 DEF Stores
  <2>2. ASSUME NEW s \in Surfaces \cap T, Exists(w, s) PROVE IsFresh(w, s)
    <3>1. Exists(v, s) /\ s \in Keys
      BY <1>4, <2>2, StoresFacts, KeyFacts DEF Features
    <3>2. SameBoundary(v, w, s)
      BY <1>4, StoresFacts
    <3>3. CASE s \in DOMAIN t.measured
      <4>1. w[s] = SurfaceRow(LineworkOf(v, s)) /\ GeometryIsValid(v, s)
        BY <1>4, <2>1, <3>1, <3>3 DEF FootprintsAreKnown, Stores
      <4>2. w[s].footprint = LineworkOf(v, s)
        BY <4>1 DEF SurfaceRow
      <4> QED
        BY <3>2, <4>1, <4>2, BoundaryStays DEF IsFresh
    <3>4. CASE s \notin DOMAIN t.measured
      <4>1. w[s] = v[s]
        BY <1>4, <3>1, <3>4 DEF Stores
      <4>2. IsFresh(v, s)
        BY <2>1, <3>1, <3>4 DEF FootprintsAreKnown, Unmeasured
      <4> QED
        BY <3>2, <4>1, <4>2, SurfaceStays
    <3> QED
      BY <3>3, <3>4
  <2> QED
    BY <2>1, <2>2 DEF FootprintsAreKnown
<1> QED
  BY <1>1, <1>2, <1>3, <1>4 DEF Statement

LEMMA StatementKeepsOwners ==
    ASSUME NEW T \in SUBSET Features, NEW t, StaysWithin(t, T),
           NEW v, NEW to, NEW w, Statement(t, v, to, w),
           SimpleIsUnbounded, DirectNotes(t), OwnersAreKnown(t, v, T)
    PROVE  OwnersAreKnown(to, w, T)
<1> DEFINE f == t.item.feature
<1>1. CASE w = v /\ Takes(t, v, to)
  BY <1>1 DEF Takes, Keeps, OwnersAreKnown, Uncounted
<1>2. CASE w = v /\ Phases(t, v, to)
  <2>1. /\ to.direct = t.direct /\ to.dirty = t.dirty
        /\ to.pc \notin {"write", "items"}
    BY <1>2 DEF Passes, Phases, Keeps
  <2>2. ASSUME NEW c \in Curves \cap T, Exists(v, c), ~ BoundsAreKept(v, c)
        PROVE  ~ t.direct /\ to.pc \in Uncounted /\ c \in t.dirty
    <3>1. ~ t.direct /\ t.pc \in Uncounted /\ c \in t.dirty
      BY <2>2 DEF OwnersAreKnown
    <3>2. t.pc = "items" => t.touched # {}
      BY <3>1 DEF OwnersAreKnown
    <3> QED
      BY <1>2, <2>2, <3>1, <3>2 DEF Passes, Phases, Uncounted
  <2> QED
    BY <1>2, <2>1, <2>2 DEF OwnersAreKnown
<1>3. CASE w = v /\ Measures(t, v, to)
  BY <1>3 DEF Measures, Keeps, OwnersAreKnown, Uncounted
<1>4. CASE Writes(t, v, to, w) \/ Unlinks(t, v, to, w) \/ Removes(t, v, to, w)
  <2>1. /\ f \in Features /\ OnlyOf(v, w, f)
        /\ to.direct = t.direct /\ t.pc \in {"write", "remove"}
        /\ t.dirty \subseteq to.dirty
        /\ to.pc \in Uncounted \/ t.direct
        /\ to.pc # "write"
        /\ to.pc = "items" => to.touched # {}
    BY <1>4, ItemFacts, RemovesFacts
       DEF Writes, Unlinks, Removes, EndsItem, Keeps, StaysWithin, Uncounted
  <2>2. ASSUME NEW c \in Curves \cap T, Exists(w, c), ~ BoundsAreKept(w, c),
               t.direct \/ c \notin to.dirty
        PROVE  FALSE
    <3>1. CASE c = f /\ ~ Unlinks(t, v, to, w)
      <4>1. CASE t.direct
        BY <2>1, <2>2, <3>1, <4>1 DEF DirectNotes, SimpleIsUnbounded, BoundsAreKept
      <4>2. CASE Writes(t, v, to, w) /\ ~ t.direct
        BY <2>2, <3>1, <4>2 DEF Writes, EndsItem
      <4>3. CASE Removes(t, v, to, w)
        BY <2>2, <3>1, <4>3 DEF Removes
      <4> QED
        BY <1>4, <3>1, <4>1, <4>2, <4>3
    <3>2. CASE c # f \/ Unlinks(t, v, to, w)
      <4>1. w[c] = v[c]
        BY <2>1, <3>2, OtherLinksStay DEF Unlinks, Features
      <4>2. ASSUME f \in Surfaces PROVE Linked(w, f, c) <=> Linked(v, f, c)
        <5>1. ~ t.direct
          BY <2>1, <4>2, TopologyAssumption DEF DirectNotes
        <5>2. c \notin to.dirty /\ c \notin t.dirty
          BY <2>1, <2>2, <5>1
        <5>3. CASE Writes(t, v, to, w)
          <6>1. c \notin Targets(w, f)
            BY <4>2, <5>2, <5>3 DEF Writes
          <6>2. c \notin Targets(v, f)
            BY <4>2, <5>2, <5>3, <6>1 DEF Writes, OwnersAreKnown
          <6> QED
            BY <6>1, <6>2 DEF Targets
        <5>4. CASE Unlinks(t, v, to, w)
          BY <4>2, <5>2, <5>4 DEF Unlinks, OwnersAreKnown, Targets
        <5>5. CASE Removes(t, v, to, w)
          BY <4>2, <5>5, RemovesFacts
        <5> QED
          BY <1>4, <5>3, <5>4, <5>5
      <4>3. Sources(v, c) = Sources(w, c)
        BY <2>1, <4>2, OtherLinksStay DEF Sources
      <4>4. Exists(v, c) /\ ~ BoundsAreKept(v, c)
        BY <2>2, <4>1, <4>3, OwnersStay
      <4> QED
        BY <2>1, <2>2, <4>4 DEF OwnersAreKnown
    <3> QED
      BY <3>1, <3>2
  <2> QED
    BY <2>1, <2>2 DEF OwnersAreKnown
<1>5. CASE Stores(t, v, to, w)
  <2>1. t.pc = "refresh" /\ to.pc = "commit"
    BY <1>5 DEF Stores
  <2>2. ASSUME NEW c \in Curves \cap T, Exists(w, c) PROVE BoundsAreKept(w, c)
    <3>1. Sources(v, c) = Sources(w, c) /\ v[c] = w[c]
      BY <1>5, StoresFacts
    <3>2. Exists(v, c) /\ (BoundsAreKept(v, c) <=> BoundsAreKept(w, c))
      BY <2>2, <3>1, OwnersStay
    <3> QED
      BY <2>1, <3>2 DEF OwnersAreKnown, Uncounted
  <2> QED
    BY <2>1, <2>2 DEF OwnersAreKnown
<1> QED
  BY <1>1, <1>2, <1>3, <1>4, <1>5 DEF Statement

LEMMA StatementKeepsKnown ==
    ASSUME NEW T \in SUBSET Features, NEW t, StaysWithin(t, T),
           NEW v, NEW to, NEW w, Statement(t, v, to, w), Known(t, v, T)
    PROVE  Known(to, w, T)
BY StatementKeepsSurfaces, StatementKeepsMembers, StatementKeepsNotes,
   StatementKeepsBoundaries, StatementKeepsFootprints, StatementKeepsOwners
DEF Known

-----------------------------------------------------------------------------
(* Beginnings, ends, and what others commit.                               *)

LEMMA IdleFacts ==
    /\ Idle.pc = "idle" /\ Idle.direct = FALSE
    /\ DOMAIN Idle.delta = {} /\ DOMAIN Idle.measured = {}
    /\ Idle.touched = {} /\ Idle.deleted = {} /\ Idle.dirty = {}
BY NoRowsFacts DEF Idle

\* Of an idle transaction only the committed rows say something.
LEMMA KnownIdle ==
    ASSUME NEW d, NEW T
    PROVE  /\ LinksHaveSurfaces(Idle, d, T) <=>
                 \A s \in Surfaces \cap T, c \in Curves : Linked(d, s, c) => Exists(d, s)
           /\ LinksHaveMembers(Idle, d, T) <=>
                 \A s \in Surfaces, c \in Curves \cap T : Linked(d, s, c) => Exists(d, c)
           /\ DirectNotes(Idle)
           /\ BoundariesAreKnown(Idle, d, T) <=>
                 \A s \in Surfaces \cap T : Exists(d, s) => StructureIsValid(d, s)
           /\ FootprintsAreKnown(Idle, d, T) <=>
                 \A s \in Surfaces \cap T : Exists(d, s) => IsFresh(d, s)
           /\ OwnersAreKnown(Idle, d, T) <=>
                 \A c \in Curves \cap T : Exists(d, c) => BoundsAreKept(d, c)
<1>1. Suspects(Idle, d) = {}
  BY IdleFacts DEF Suspects
<1> QED
  BY <1>1, IdleFacts DEF LinksHaveSurfaces, LinksHaveMembers, DirectNotes,
     BoundariesAreKnown, FootprintsAreKnown, OwnersAreKnown,
     Unresolved, Unmeasured, Uncounted

LEMMA RestartIsKnown ==
    ASSUME NEW d, NEW T \in SUBSET Features, NEW to, Restarts(to),
           Known(Idle, d, Features)
    PROVE  Known(to, d, T)
<1>1. to.pc \notin {"write", "remove", "refresh"}
  BY DEF Restarts
<1> QED
  BY <1>1, KnownIdle DEF Known, Restarts, LinksHaveSurfaces, LinksHaveMembers,
     DirectNotes, BoundariesAreKnown, FootprintsAreKnown, OwnersAreKnown

LEMMA EndIsKnown ==
    ASSUME NEW v, NEW T, NEW t, Known(t, v, T), t.pc = "commit"
    PROVE  Known(Idle, v, T)
<1>1. "commit" \notin Unresolved \cup Unchecked \cup Unmeasured \cup Uncounted
  BY DEF Unresolved, Unchecked, Unmeasured, Uncounted
<1> QED
  BY <1>1, KnownIdle DEF Known, LinksHaveSurfaces, LinksHaveMembers,
     BoundariesAreKnown, FootprintsAreKnown, OwnersAreKnown

LEMMA KnownApart ==
    ASSUME NEW d, NEW T \in SUBSET Features,
           Known(Idle, d, T), Known(Idle, d, Features \ T)
    PROVE  Known(Idle, d, Features)
<1>1. /\ \A s \in Surfaces \cap Features : s \in Surfaces \cap T \/ s \in Surfaces \cap (Features \ T)
      /\ \A c \in Curves \cap Features : c \in Curves \cap T \/ c \in Curves \cap (Features \ T)
  OBVIOUS
<1> QED
  BY <1>1, KnownIdle DEF Known

LEMMA EmptyIsKnown == Known(Idle, EmptyDatabase, Features)
<1>1. \A k \in Keys : ~ Exists(EmptyDatabase, k)
  BY DEF EmptyDatabase, Exists
<1>2. /\ \A s \in Surfaces, c \in Curves : ~ Linked(EmptyDatabase, s, c)
      /\ \A s \in Surfaces : ~ Exists(EmptyDatabase, s)
      /\ \A c \in Curves : ~ Exists(EmptyDatabase, c)
  BY <1>1, KeyFacts DEF Linked
<1> QED
  BY <1>2, KnownIdle DEF Known

\* Two states of the tables that a session cannot tell apart.
Alike(v, w, T) ==
    /\ \A k \in Within(T) : v[k] = w[k]
    /\ Sealed(v, T) /\ Sealed(w, T)

LEMMA AlikeFacts ==
    ASSUME NEW T \in SUBSET Features, NEW v, NEW w, Alike(v, w, T)
    PROVE  /\ \A f \in T : v[f] = w[f]
           /\ \A s \in Surfaces \cap T, c \in Curves : Linked(v, s, c) <=> Linked(w, s, c)
           /\ \A s \in Surfaces, c \in Curves \cap T : Linked(v, s, c) <=> Linked(w, s, c)
           /\ \A s \in Surfaces \cap T :
                 Targets(v, s) = Targets(w, s) /\ SameBoundary(v, w, s)
           /\ \A c \in Curves \cap T : Sources(v, c) = Sources(w, c)
<1>1. \A f \in T : v[f] = w[f]
  BY DEF Alike, Within
<1>2. \A s \in Surfaces \cap T, c \in Curves \cap T : Linked(v, s, c) <=> Linked(w, s, c)
  BY DEF Alike, Within, Linked, Exists
<1>3. /\ \A s \in Surfaces \cap T, c \in Curves :
            Linked(v, s, c) \/ Linked(w, s, c) => c \in T
      /\ \A s \in Surfaces, c \in Curves \cap T :
            Linked(v, s, c) \/ Linked(w, s, c) => s \in T
  BY DEF Alike, Sealed
<1>4. \A s \in Surfaces \cap T, c \in Curves : Linked(v, s, c) <=> Linked(w, s, c)
  BY <1>2, <1>3
<1>5. \A s \in Surfaces, c \in Curves \cap T : Linked(v, s, c) <=> Linked(w, s, c)
  BY <1>2, <1>3
<1>6. \A s \in Surfaces \cap T : Targets(v, s) = Targets(w, s) /\ SameBoundary(v, w, s)
  BY <1>1, <1>3, <1>4 DEF Targets, SameBoundary
<1>7. \A c \in Curves \cap T : Sources(v, c) = Sources(w, c)
  BY <1>5 DEF Sources
<1> QED
  BY <1>1, <1>4, <1>5, <1>6, <1>7

LEMMA AlikeIsKnown ==
    ASSUME NEW T \in SUBSET Features, NEW t, StaysWithin(t, T),
           NEW v, NEW w, Alike(v, w, T), Known(t, v, T)
    PROVE  Known(t, w, T)
<1>1. /\ \A f \in T : v[f] = w[f]
      /\ \A s \in Surfaces \cap T, c \in Curves : Linked(v, s, c) <=> Linked(w, s, c)
      /\ \A s \in Surfaces, c \in Curves \cap T : Linked(v, s, c) <=> Linked(w, s, c)
      /\ \A s \in Surfaces \cap T : Targets(v, s) = Targets(w, s)
  BY AlikeFacts
<1>2. \A s \in Surfaces \cap T :
          /\ Exists(v, s) <=> Exists(w, s)
          /\ StructureIsValid(v, s) <=> StructureIsValid(w, s)
          /\ IsFresh(v, s) <=> IsFresh(w, s)
          /\ LineworkOf(v, s) = LineworkOf(w, s)
          /\ GeometryIsValid(v, s) <=> GeometryIsValid(w, s)
          /\ s \in Suspects(t, v) <=> s \in Suspects(t, w)
  <2> SUFFICES ASSUME NEW s \in Surfaces \cap T
               PROVE  /\ Exists(v, s) <=> Exists(w, s)
                      /\ StructureIsValid(v, s) <=> StructureIsValid(w, s)
                      /\ IsFresh(v, s) <=> IsFresh(w, s)
                      /\ LineworkOf(v, s) = LineworkOf(w, s)
                      /\ GeometryIsValid(v, s) <=> GeometryIsValid(w, s)
                      /\ s \in Suspects(t, v) <=> s \in Suspects(t, w)
    OBVIOUS
  <2>1. SameBoundary(v, w, s) /\ v[s] = w[s]
    BY AlikeFacts
  <2>2. s \in Suspects(t, v) <=> s \in Suspects(t, w)
    BY <1>1 DEF Suspects
  <2> QED
    BY <2>1, <2>2, BoundaryStays, SurfaceStays
<1>3. \A c \in Curves \cap T :
          /\ Exists(v, c) <=> Exists(w, c)
          /\ BoundsAreKept(v, c) <=> BoundsAreKept(w, c)
  BY <1>1, AlikeFacts, OwnersStay
<1>4. /\ t.pc \in {"write", "remove"} => t.item.feature \in T
      /\ t.pc = "write" => t.item.links \subseteq T
      /\ DOMAIN t.measured \subseteq Surfaces \cap T
  BY DEF StaysWithin
<1>5. LinksHaveSurfaces(t, v, T) => LinksHaveSurfaces(t, w, T)
  BY <1>1, <1>2, <1>4 DEF LinksHaveSurfaces
<1>6. LinksHaveMembers(t, v, T) => LinksHaveMembers(t, w, T)
  BY <1>1, <1>3, <1>4 DEF LinksHaveMembers, Exists
<1>7. BoundariesAreKnown(t, v, T) => BoundariesAreKnown(t, w, T)
  BY <1>2 DEF BoundariesAreKnown
<1>8. FootprintsAreKnown(t, v, T) => FootprintsAreKnown(t, w, T)
  BY <1>2, <1>4 DEF FootprintsAreKnown
<1>9. OwnersAreKnown(t, v, T) => OwnersAreKnown(t, w, T)
  BY <1>1, <1>3, <1>4 DEF OwnersAreKnown
<1> QED
  BY <1>5, <1>6, <1>7, <1>8, <1>9 DEF Known

-----------------------------------------------------------------------------
(* Documents that are kept apart: nobody leaves his territory.             *)

\* Writing twice.
LEMMA OverOver ==
    ASSUME NEW f \in Deltas(Keys), NEW g \in Deltas(Keys), NEW d \in Database
    PROVE  Over(Over(f, g), d) = Over(f, Over(g, d))
<1>1. /\ Over(f, g) \in Deltas(Keys)
      /\ DOMAIN Over(f, g) = DOMAIN f \cup DOMAIN g
      /\ \A k \in DOMAIN f : Over(f, g)[k] = f[k]
      /\ \A k \in DOMAIN g \ DOMAIN f : Over(f, g)[k] = g[k]
  BY OverDelta
<1>2. Over(g, d) \in Database
  BY OverDatabase
<1> DEFINE a == Over(Over(f, g), d)
           b == Over(f, Over(g, d))
<1>3. /\ a \in Database /\ b \in Database
      /\ \A k \in DOMAIN f \cup DOMAIN g : a[k] = Over(f, g)[k]
      /\ \A k \in Keys \ (DOMAIN f \cup DOMAIN g) : a[k] = d[k]
      /\ \A k \in DOMAIN f : b[k] = f[k]
      /\ \A k \in Keys \ DOMAIN f : b[k] = Over(g, d)[k]
  BY <1>1, <1>2, OverDatabase
<1>4. /\ \A k \in DOMAIN g : Over(g, d)[k] = g[k]
      /\ \A k \in Keys \ DOMAIN g : Over(g, d)[k] = d[k]
  BY OverDatabase
<1> HIDE DEF a, b
<1>5. \A k \in Keys : a[k] = b[k]
  BY <1>1, <1>3, <1>4
<1>6. a = b
  BY <1>3, <1>5 DEF Database
<1> QED
  BY <1>6 DEF a, b

\* What a session sees after it has written rows.
LEMMA ViewAfterWrite ==
    ASSUME TypeOK, NEW x \in Sessions, NEW rows \in Deltas(Keys)
    PROVE  LET w == Over(Write(x, rows), db)
           IN  /\ w \in Database
               /\ \A k \in DOMAIN rows : w[k] = rows[k]
               /\ \A k \in Keys \ DOMAIN rows : w[k] = View(x)[k]
<1>1. db \in Database /\ tx[x].delta \in Deltas(Keys) /\ View(x) \in Database
  BY TransactionFacts, ViewFacts
<1>2. Over(Write(x, rows), db) = Over(rows, View(x))
  BY <1>1, OverOver DEF Write, View
<1> QED
  BY <1>1, <1>2, OverDatabase

\* Committed or seen, no link joins two territories.
LEMMA ViewIsSealed ==
    ASSUME DocumentsAreApart, ApartInv, NEW x \in Sessions, NEW y \in Sessions
    PROVE  Sealed(View(x), Territory[y])
<1> SUFFICES ASSUME NEW s \in Surfaces, NEW c \in Curves, Linked(View(x), s, c)
             PROVE  s \in Territory[y] <=> c \in Territory[y]
  BY DEF Sealed
<1>1. TypeOK /\ <<s, c>> \in Keys /\ Territory[x] \subseteq Features
  BY KeyFacts, SessionsAssumption DEF ApartInv
<1>2. CASE <<s, c>> \in DOMAIN tx[x].delta
  <2>1. <<s, c>> \in Within(Territory[x])
    BY <1>2 DEF ApartInv, StaysWithin
  <2>2. s \in Territory[x] /\ c \in Territory[x]
    BY <1>1, <2>1, KeyFacts DEF Within
  <2> QED
    BY <2>2 DEF DocumentsAreApart
<1>3. CASE <<s, c>> \notin DOMAIN tx[x].delta
  <2>1. Linked(db, s, c)
    BY <1>1, <1>3, ViewFacts DEF Linked, Exists
  <2> QED
    BY <2>1 DEF ApartInv, Sealed
<1> QED
  BY <1>2, <1>3

\* What others see in their territories is not changed by a commit.
LEMMA CommitIsAlike ==
    ASSUME DocumentsAreApart, ApartInv, NEW x \in Sessions, NEW y \in Sessions \ {x}
    PROVE  Alike(View(y), Over(tx[y].delta, View(x)), Territory[y])
<1> DEFINE T == Territory[y]
           w == Over(tx[y].delta, View(x))
<1>1. /\ TypeOK /\ T \subseteq Features /\ Territory[x] \cap T = {}
      /\ tx[y].delta \in Deltas(Keys) /\ View(x) \in Database
  BY SessionsAssumption, ViewFacts DEF ApartInv, DocumentsAreApart
<1>2. Within(T) \subseteq Keys
  BY <1>1 DEF Within, Keys, Pairs
<1>3. \A k \in Within(T) : k \notin Within(Territory[x])
  BY <1>1, KeyFacts, SessionsAssumption DEF Within
<1>4. \A k \in Within(T) : View(x)[k] = db[k]
  BY <1>1, <1>2, <1>3, ViewFacts DEF ApartInv, StaysWithin
<1>5. \A k \in Within(T) : w[k] = View(y)[k]
  BY <1>1, <1>2, <1>4, OverDatabase, ViewFacts
<1>6. Sealed(View(y), T)
  BY ViewIsSealed
<1>7. Sealed(w, T)
  <2> SUFFICES ASSUME NEW s \in Surfaces, NEW c \in Curves, Linked(w, s, c)
               PROVE  s \in T <=> c \in T
    BY DEF Sealed
  <2>1. <<s, c>> \in Keys
    BY KeyFacts
  <2>2. Linked(View(y), s, c) \/ Linked(View(x), s, c)
    BY <1>1, <2>1, OverDatabase, ViewFacts DEF Linked, Exists
  <2> QED
    BY <1>6, <2>2, ViewIsSealed DEF Sealed
<1> QED
  BY <1>5, <1>6, <1>7 DEF Alike

\* Nor are the committed rows elsewhere.
LEMMA ElsewhereIsAlike ==
    ASSUME DocumentsAreApart, ApartInv, NEW x \in Sessions
    PROVE  Alike(db, View(x), Features \ Territory[x])
<1> DEFINE T == Features \ Territory[x]
<1>1. TypeOK /\ Territory[x] \subseteq Features
  BY SessionsAssumption DEF ApartInv
<1>2. Within(T) \subseteq Keys
  BY DEF Within, Keys, Pairs
<1>3. \A k \in Within(T) : k \notin Within(Territory[x])
  BY <1>1, KeyFacts DEF Within
<1>4. \A k \in Within(T) : db[k] = View(x)[k]
  BY <1>1, <1>2, <1>3, ViewFacts DEF ApartInv, StaysWithin
<1>5. Sealed(db, Territory[x]) /\ Sealed(View(x), Territory[x])
  BY ViewIsSealed DEF ApartInv
<1>6. Sealed(db, T) /\ Sealed(View(x), T)
  BY <1>5 DEF Sealed, Features
<1> QED
  BY <1>4, <1>6 DEF Alike

-----------------------------------------------------------------------------
(* Every action of a session is one of the statements, or starts over.      *)

Explained(x, to) ==
    /\ StaysWithin(to, Territory[x])
    /\ \/ Restarts(to)
       \/ Statement(tx[x], View(x), to, Over(to.delta, db))

LEMMA RollbackExplained ==
    ASSUME NEW x \in Sessions, NEW from, Rollback(x, from)
    PROVE  \E to : Step(x, from, to) /\ Explained(x, to)
BY IdleFacts DEF Rollback, Explained, Restarts, StaysWithin

LEMMA BeginExplained ==
    ASSUME NEW x \in Sessions, Begin(x)
    PROVE  \E to : Step(x, "idle", to) /\ Explained(x, to)
<1>1. PICK direct \in BOOLEAN :
          Step(x, "idle", [Idle EXCEPT !.pc = "items", !.direct = direct,
                                       !.left = IF direct THEN 1 ELSE MaxItems])
  BY DEF Begin
<1> DEFINE to == [Idle EXCEPT !.pc = "items", !.direct = direct,
                              !.left = IF direct THEN 1 ELSE MaxItems]
<1>2. /\ to.pc = "items"
      /\ DOMAIN to.delta = {} /\ DOMAIN to.measured = {}
      /\ to.touched = {} /\ to.deleted = {} /\ to.dirty = {}
  BY NoRowsFacts DEF Idle
<1>3. Step(x, "idle", to)
  BY <1>1
<1> HIDE DEF to
<1> QED
  BY <1>2, <1>3 DEF Explained, Restarts, StaysWithin

\* Where nothing is written, the view stays.
LEMMA ViewStays ==
    ASSUME NEW x \in Sessions, NEW to, to.delta = tx[x].delta
    PROVE  Over(to.delta, db) = View(x)
BY DEF View

LEMMA DirtySurfacesFacts ==
    ASSUME TypeOK, NEW x \in Sessions, tx[x].pc # "remove"
    PROVE  DirtySurfaces(x) = Suspects(tx[x], View(x))
<1>1. tx[x].touched \subseteq Features
  BY DEF TypeOK, Transactions
<1> QED
  BY <1>1 DEF DirtySurfaces, Suspects, Sources

LEMMA PhaseExplained ==
    ASSUME ApartInv, NEW x \in Sessions, NEW from, NEW pc,
           Step(x, from, [tx[x] EXCEPT !.pc = pc]), Passes(tx[x], View(x), pc)
    PROVE  \E to : Step(x, from, to) /\ Explained(x, to)
<1> DEFINE t == tx[x]
           to == [t EXCEPT !.pc = pc]
<1>1. t \in Transactions(Keys) /\ StaysWithin(t, Territory[x])
  BY DEF ApartInv, TypeOK
<1>2. /\ to.pc = pc /\ to.direct = t.direct /\ to.delta = t.delta
      /\ to.touched = t.touched /\ to.deleted = t.deleted
      /\ to.dirty = t.dirty /\ to.measured = t.measured
  BY <1>1 DEF Transactions
<1>3. Step(x, from, to)
  OBVIOUS
<1> HIDE DEF to
<1>4. Phases(t, View(x), to)
  BY <1>2 DEF Phases, Keeps
<1>5. StaysWithin(to, Territory[x])
  <2>1. pc \notin {"write", "remove"}
    BY DEF Passes
  <2> QED
    BY <1>1, <1>2, <2>1 DEF StaysWithin
<1> QED
  BY <1>2, <1>3, <1>4, <1>5, ViewStays DEF Explained, Statement

LEMMA TakeItemExplained ==
    ASSUME ApartInv, NEW x \in Sessions, TakeItem(x)
    PROVE  \E to : Step(x, "items", to) /\ Explained(x, to)
<1>1. PICK i \in ItemsFor(x) :
          \/ Rollback(x, "items")
          \/ /\ \A c \in i.links : Exists(View(x), c)
             /\ Step(x, "items", [tx[x] EXCEPT !.pc = "write", !.item = i,
                                               !.left = @ - 1,
                                               !.dirty = @ \cup TargetsBefore(x, i)])
  BY DEF TakeItem
<1>2. CASE Rollback(x, "items")
  BY <1>2, RollbackExplained
<1>3. CASE /\ \A c \in i.links : Exists(View(x), c)
           /\ Step(x, "items", [tx[x] EXCEPT !.pc = "write", !.item = i,
                                             !.left = @ - 1,
                                             !.dirty = @ \cup TargetsBefore(x, i)])
  <2> DEFINE t == tx[x]
             fewer == t.left - 1
             dirty == t.dirty \cup TargetsBefore(x, i)
             to == [t EXCEPT !.pc = "write", !.item = i, !.left = fewer, !.dirty = dirty]
  <2>1. t \in Transactions(Keys) /\ StaysWithin(t, Territory[x]) /\ t.pc = "items"
    BY <1>3 DEF ApartInv, TypeOK, Step
  <2>2. Step(x, "items", to)
    BY <1>3
  <2>3. /\ i \in Items /\ {i.feature} \cup i.links \subseteq Territory[x]
        /\ t.direct => i.feature \in Simple
    BY DEF ItemsFor
  <2>4. /\ t.dirty \subseteq dirty
        /\ i.action \in {"update", "delete"} /\ i.feature \in Surfaces
           => Targets(View(x), i.feature) \subseteq dirty
    BY DEF TargetsBefore
  <2> HIDE DEF fewer, dirty
  <2>5. /\ to.pc = "write" /\ to.item = i /\ to.direct = t.direct
        /\ to.delta = t.delta /\ to.touched = t.touched
        /\ to.deleted = t.deleted /\ to.dirty = dirty
        /\ to.measured = t.measured
    BY <2>1 DEF Transactions
  <2> HIDE DEF to
  <2>6. Takes(t, View(x), to)
    BY <1>3, <2>1, <2>3, <2>4, <2>5 DEF Takes, Keeps
  <2>7. StaysWithin(to, Territory[x])
    BY <2>1, <2>3, <2>5 DEF StaysWithin
  <2> QED
    BY <2>2, <2>5, <2>6, <2>7, ViewStays DEF Explained, Statement
<1> QED
  BY <1>1, <1>2, <1>3

LEMMA AfterItemRest ==
    ASSUME TypeOK, NEW x \in Sessions, NEW delta
    PROVE  LET t == tx[x]
               f == t.item.feature
               to == AfterItem(x, delta)
           IN  /\ to.deleted = IF t.item.action = "delete" THEN t.deleted \cup {f}
                               ELSE t.deleted
               /\ t.dirty \cup ({f} \cap Curves) \subseteq to.dirty
               /\ t.item.action # "delete" /\ f \in Surfaces =>
                     Targets(Over(delta, db), f) \subseteq to.dirty
<1>1. tx[x] \in Transactions(Keys)
  BY DEF TypeOK
<1> QED
  BY <1>1 DEF AfterItem, Transactions

LEMMA RowsExist == \A k \in Keys : NoRow \notin RowsOf(k)
<1>1. /\ \A footprint : SurfaceRow(footprint) # NoRow
      /\ \A shape, counts : CurveRow(shape, counts) # NoRow
      /\ LinkRow # NoRow
  <2>1. NoRow.is = "none" /\ LinkRow.is = "link"
    BY DEF NoRow, LinkRow
  <2>2. \A footprint : SurfaceRow(footprint).is = "surface"
    BY DEF SurfaceRow
  <2>3. \A shape, counts : CurveRow(shape, counts).is = "curve"
    BY DEF CurveRow
  <2> QED
    BY <2>1, <2>2, <2>3
<1> QED
  BY <1>1 DEF RowsOf, SurfaceRows, CurveRows, LinkRows

\* A transaction that has written rows of one item.
LEMMA AfterItemStaysWithin ==
    ASSUME ApartInv, NEW x \in Sessions, NEW rows \in Deltas(Keys),
           DOMAIN rows \subseteq Within(Territory[x]),
           tx[x].pc \in {"write", "remove"}
    PROVE  LET to == AfterItem(x, Write(x, rows))
           IN  StaysWithin(to, Territory[x]) /\ EndsItem(tx[x], to)
<1> DEFINE t == tx[x]
           delta == Write(x, rows)
           to == AfterItem(x, delta)
<1>1. TypeOK /\ StaysWithin(t, Territory[x])
  BY DEF ApartInv
<1>2. DOMAIN delta = DOMAIN rows \cup DOMAIN t.delta
  BY <1>1, TransactionFacts, OverDelta DEF Write
<1> HIDE DEF delta
<1>3. /\ to.pc = IF t.direct THEN "commit" ELSE "items"
      /\ to.direct = t.direct
      /\ to.delta = delta
      /\ to.touched = t.touched \cup {t.item.feature}
      /\ to.measured = t.measured
  BY <1>1, AfterItemParts
<1>4. /\ to.deleted \subseteq t.deleted \cup {t.item.feature}
      /\ t.dirty \cup ({t.item.feature} \cap Curves) \subseteq to.dirty
  BY <1>1, AfterItemRest
<1> HIDE DEF to
<1>5. StaysWithin(to, Territory[x])
  BY <1>1, <1>2, <1>3, <1>4 DEF StaysWithin
<1>6. EndsItem(t, to)
  BY <1>3, <1>4 DEF EndsItem
<1> QED
  BY <1>5, <1>6 DEF to, delta

LEMMA WriteFeatureExplained ==
    ASSUME DocumentsAreApart, ApartInv, NEW x \in Sessions, WriteFeature(x)
    PROVE  \E to : Step(x, "write", to) /\ Explained(x, to)
<1> DEFINE t == tx[x]
           i == t.item
           f == i.feature
           v == View(x)
           rows == RowsWritten(x, i)
           delta == Write(x, rows)
           to == AfterItem(x, delta)
           w == Over(delta, db)
<1>1. /\ TypeOK /\ StaysWithin(t, Territory[x]) /\ t.pc = "write"
      /\ i \in Items /\ i.action # "delete"
  BY DEF ApartInv, TypeOK, WriteFeature
<1>2. \/ Rollback(x, "write")
      \/ Step(x, "write", to)
  BY DEF WriteFeature
<1>3. CASE Rollback(x, "write")
  BY <1>3, RollbackExplained
<1>4. CASE Step(x, "write", to)
  <2>1. /\ rows \in Deltas(Keys)
        /\ DOMAIN rows = {f} \cup Cleared(x, i) \cup Added(i)
        /\ rows[f] = i.row
        /\ \A k \in Added(i) : k # f => rows[k] = LinkRow
        /\ \A k \in Cleared(x, i) \ Added(i) : k # f => rows[k] = NoRow
    BY <1>1, RowsWrittenType DEF RowsWritten
  <2>2. /\ f \in Features /\ i.links \subseteq Curves
        /\ i.links # {} => f \in Surfaces
        /\ i.row # NoRow
    <3>1. f \in Keys
      BY <1>1, ItemFacts DEF Keys
    <3> QED
      BY <1>1, <3>1, ItemFacts, RowsExist
  <2>3. \A k \in Cleared(x, i) :
            \E c \in Curves : f \in Surfaces /\ k = <<f, c>> /\ Linked(v, f, c)
    BY DEF Cleared
  <2>4. \A k \in Added(i) : \E c \in i.links : f \in Surfaces /\ k = <<f, c>>
    BY <2>2 DEF Added
  <2>5. f \in Territory[x] /\ i.links \subseteq Territory[x]
    BY <1>1 DEF StaysWithin
  <2>6. DOMAIN rows \subseteq Within(Territory[x])
    <3>1. Sealed(v, Territory[x])
      BY ViewIsSealed
    <3>2. \A k \in Cleared(x, i) : k \in Within(Territory[x])
      BY <2>3, <2>5, <3>1 DEF Sealed, Within
    <3>3. \A k \in Added(i) : k \in Within(Territory[x])
      BY <2>2, <2>4, <2>5 DEF Within
    <3> QED
      BY <2>1, <2>5, <3>2, <3>3 DEF Within
  <2> HIDE DEF rows
  <2>7. StaysWithin(to, Territory[x]) /\ EndsItem(t, to)
    BY <1>1, <2>1, <2>6, AfterItemStaysWithin
  <2>8. /\ w \in Database
        /\ \A k \in DOMAIN rows : w[k] = rows[k]
        /\ \A k \in Keys \ DOMAIN rows : w[k] = v[k]
    BY <1>1, <2>1, ViewAfterWrite
  <2>9. /\ to.delta = delta
        /\ to.deleted = t.deleted
        /\ f \in Surfaces => Targets(w, f) \subseteq to.dirty
    BY <1>1, AfterItemParts, AfterItemRest
  <2> HIDE DEF delta, to, w, v
  <2>10. OnlyOf(v, w, f)
    BY <2>1, <2>2, <2>3, <2>4, <2>8 DEF OnlyOf
  <2>11. Exists(w, f)
    BY <2>1, <2>2, <2>8 DEF Exists
  <2>12. ASSUME f \in Surfaces, NEW c \in Curves
         PROVE  Linked(w, f, c) <=>
                   c \in i.links \/ (Linked(v, f, c) /\ <<f, c>> \notin Cleared(x, i))
    <3>1. <<f, c>> \in Keys /\ <<f, c>> # f
      BY <2>12, KeyFacts DEF Features
    <3>2. <<f, c>> \in Added(i) <=> c \in i.links
      BY DEF Added
    <3>3. LinkRow # NoRow
      BY DEF LinkRow, NoRow
    <3> QED
      BY <2>1, <2>8, <3>1, <3>2, <3>3 DEF Linked, Exists
  <2>13. i.action # "update" => Cleared(x, i) = {}
    BY DEF Cleared
  <2>14. f \in Surfaces =>
            /\ Targets(w, f) \subseteq Targets(v, f) \cup i.links
            /\ i.action # "update" => Targets(v, f) \subseteq Targets(w, f)
    BY <2>12, <2>13 DEF Targets
  <2>15. Writes(t, v, to, w)
    BY <1>1, <2>7, <2>9, <2>10, <2>11, <2>14 DEF Writes
  <2>16. Statement(t, v, to, w)
    BY <2>15 DEF Statement
  <2>17. Explained(x, to)
    BY <2>7, <2>9, <2>16 DEF Explained, v, w
  <2> QED
    BY <1>4, <2>17
<1> QED
  BY <1>2, <1>3, <1>4

LEMMA UnlinkFeatureExplained ==
    ASSUME DocumentsAreApart, ApartInv, NEW x \in Sessions, UnlinkFeature(x)
    PROVE  \E to : Step(x, "write", to) /\ Explained(x, to)
<1> DEFINE t == tx[x]
           i == t.item
           f == i.feature
           v == View(x)
           links == {<<f, c>> : c \in {c \in Curves : f \in Surfaces /\ Linked(v, f, c)}}
           rows == [k \in links |-> NoRow]
           delta == Write(x, rows)
           to == [t EXCEPT !.pc = "remove", !.delta = delta]
           w == Over(delta, db)
<1>1. /\ TypeOK /\ t \in Transactions(Keys) /\ StaysWithin(t, Territory[x])
      /\ t.pc = "write" /\ i \in Items /\ i.action = "delete"
  BY DEF ApartInv, TypeOK, UnlinkFeature
<1>2. Step(x, "write", to)
  BY DEF UnlinkFeature
<1>3. /\ links \subseteq Keys
      /\ \A k \in links : \E c \in Curves : f \in Surfaces /\ k = <<f, c>> /\ Linked(v, f, c)
      /\ f \in Surfaces => \A c \in Curves : Linked(v, f, c) => <<f, c>> \in links
  BY KeyFacts
<1>4. rows \in Deltas(Keys) /\ DOMAIN rows = links /\ \A k \in links : rows[k] = NoRow
  BY <1>3, NoRowDelta
<1>5. links \subseteq Within(Territory[x])
  <2>1. Sealed(v, Territory[x]) /\ f \in Territory[x]
    BY <1>1, ViewIsSealed DEF StaysWithin
  <2> QED
    BY <1>3, <2>1 DEF Sealed, Within
<1> HIDE DEF rows, links
<1>6. /\ w \in Database
      /\ \A k \in links : w[k] = NoRow
      /\ \A k \in Keys \ links : w[k] = v[k]
  BY <1>1, <1>4, ViewAfterWrite
<1>7. DOMAIN delta = links \cup DOMAIN t.delta
  BY <1>1, <1>4, TransactionFacts, OverDelta DEF Write
<1> HIDE DEF delta
<1>8. /\ to.pc = "remove" /\ to.item = i /\ to.direct = t.direct
      /\ to.delta = delta /\ to.touched = t.touched /\ to.deleted = t.deleted
      /\ to.dirty = t.dirty /\ to.measured = t.measured
  BY <1>1 DEF Transactions
<1> HIDE DEF to, w, v
<1>9. StaysWithin(to, Territory[x])
  BY <1>1, <1>5, <1>7, <1>8 DEF StaysWithin
<1>10. OnlyOf(v, w, f)
  BY <1>3, <1>6 DEF OnlyOf
<1>11. \A k \in Features : w[k] = v[k]
  <2>1. \A k \in links : k \notin Features
    BY <1>3, KeyFacts
  <2> QED
    BY <1>6, <2>1 DEF Keys
<1>12. ASSUME f \in Surfaces PROVE Targets(w, f) = {}
  <2>1. \A c \in Curves : ~ Linked(w, f, c)
    BY <1>3, <1>6, <1>12, KeyFacts DEF Linked, Exists
  <2> QED
    BY <2>1 DEF Targets
<1>13. Unlinks(t, v, to, w)
  BY <1>1, <1>8, <1>10, <1>11, <1>12 DEF Unlinks, Keeps
<1>14. Statement(t, v, to, w)
  BY <1>13 DEF Statement
<1>15. Explained(x, to)
  BY <1>8, <1>9, <1>14 DEF Explained, v, w
<1> QED
  BY <1>2, <1>15

LEMMA RemoveFeatureExplained ==
    ASSUME ApartInv, NEW x \in Sessions, RemoveFeature(x)
    PROVE  \E to : Step(x, "remove", to) /\ Explained(x, to)
<1> DEFINE t == tx[x]
           f == t.item.feature
           v == View(x)
           rows == [k \in {f} |-> NoRow]
           delta == Write(x, rows)
           to == AfterItem(x, delta)
           w == Over(delta, db)
<1>1. /\ TypeOK /\ StaysWithin(t, Territory[x]) /\ t.pc = "remove"
      /\ t.item \in Items /\ f \in Territory[x] /\ t.item.action = "delete"
  BY DEF ApartInv, TypeOK, RemoveFeature, StaysWithin
<1>2. \/ Rollback(x, "remove")
      \/ Step(x, "remove", to)
  BY DEF RemoveFeature
<1>3. CASE Rollback(x, "remove")
  BY <1>3, RollbackExplained
<1>4. CASE Step(x, "remove", to)
  <2>1. f \in Features /\ {f} \in SUBSET Keys
    BY <1>1, ItemFacts DEF Keys
  <2>2. rows \in Deltas(Keys) /\ DOMAIN rows = {f} /\ rows[f] = NoRow
    BY <2>1, NoRowDelta
  <2>3. DOMAIN rows \subseteq Within(Territory[x])
    BY <1>1, <2>2 DEF Within
  <2> HIDE DEF rows
  <2>4. StaysWithin(to, Territory[x]) /\ EndsItem(t, to)
    BY <1>1, <2>2, <2>3, AfterItemStaysWithin
  <2>5. /\ w[f] = NoRow
        /\ \A k \in Keys \ {f} : w[k] = v[k]
    BY <1>1, <2>2, ViewAfterWrite
  <2>6. to.delta = delta /\ to.deleted = t.deleted \cup {f}
    BY <1>1, AfterItemParts, AfterItemRest
  <2> HIDE DEF delta, to, w, v
  <2>7. Removes(t, v, to, w)
    BY <1>1, <2>1, <2>4, <2>5, <2>6 DEF Removes, Exists
  <2>8. Statement(t, v, to, w)
    BY <2>7 DEF Statement
  <2>9. Explained(x, to)
    BY <2>4, <2>6, <2>8 DEF Explained, v, w
  <2> QED
    BY <1>4, <2>9
<1> QED
  BY <1>2, <1>3, <1>4

LEMMA EndItemsExplained ==
    ASSUME ApartInv, NEW x \in Sessions, EndItems(x)
    PROVE  \E to : Step(x, "items", to) /\ Explained(x, to)
<1> DEFINE pc == IF tx[x].touched = {} THEN "commit" ELSE "missing"
<1>1. /\ pc \notin {"write", "remove"}
      /\ Step(x, "items", [tx[x] EXCEPT !.pc = pc])
      /\ tx[x].pc = "items" /\ ~ tx[x].direct
  BY DEF EndItems, Step
<1> QED
  BY <1>1, PhaseExplained DEF Passes

LEMMA CheckExplained ==
    ASSUME ApartInv, NEW x \in Sessions,
           CheckMissing(x) \/ CheckStructure(x) \/ CheckBounds(x)
    PROVE  \E from, to : Step(x, from, to) /\ Explained(x, to)
<1>1. CASE \E from : Rollback(x, from)
  BY <1>1, RollbackExplained
<1>2. CASE /\ Step(x, "missing", [tx[x] EXCEPT !.pc = "structure"])
           /\ \A c \in tx[x].deleted \cap Curves : Sources(View(x), c) = {}
  <2>1. tx[x].pc = "missing"
    BY <1>2 DEF Step
  <2> QED
    BY <1>2, <2>1, PhaseExplained DEF Passes
<1>3. CASE /\ Step(x, "structure", [tx[x] EXCEPT !.pc = "bounds"])
           /\ \A s \in DirtySurfaces(x) :
                 Exists(View(x), s) => StructureIsValid(View(x), s)
  <2>1. tx[x].pc = "structure"
    BY <1>3 DEF Step
  <2>2. DirtySurfaces(x) = Suspects(tx[x], View(x))
    BY <2>1, DirtySurfacesFacts DEF ApartInv
  <2>3. Passes(tx[x], View(x), "bounds")
    BY <1>3, <2>1, <2>2 DEF Passes
  <2> QED
    BY <1>3, <2>3, PhaseExplained
<1>4. CASE /\ Step(x, "bounds", [tx[x] EXCEPT !.pc = "geometry"])
           /\ \A c \in tx[x].dirty : Exists(View(x), c) => BoundsAreKept(View(x), c)
  <2>1. tx[x].pc = "bounds"
    BY <1>4 DEF Step
  <2>2. Passes(tx[x], View(x), "geometry")
    BY <1>4, <2>1 DEF Passes
  <2> QED
    BY <1>4, <2>2, PhaseExplained
<1> QED
  BY <1>1, <1>2, <1>3, <1>4 DEF CheckMissing, CheckStructure, CheckBounds, Check

LEMMA MeasureFootprintsExplained ==
    ASSUME DocumentsAreApart, ApartInv, NEW x \in Sessions, MeasureFootprints(x)
    PROVE  \E to : Step(x, "geometry", to) /\ Explained(x, to)
<1> DEFINE t == tx[x]
           v == View(x)
           present == {s \in DirtySurfaces(x) : Exists(v, s)}
           rows == [s \in present |-> SurfaceRow(LineworkOf(v, s))]
           to == [t EXCEPT !.pc = "refresh", !.measured = rows]
<1>1. /\ t \in Transactions(Keys) /\ StaysWithin(t, Territory[x]) /\ TypeOK
  BY DEF ApartInv, TypeOK
<1>2. \/ Rollback(x, "geometry")
      \/ Step(x, "geometry", to) /\ \A s \in present : GeometryIsValid(v, s)
  BY DEF MeasureFootprints
<1>3. CASE Rollback(x, "geometry")
  BY <1>3, RollbackExplained
<1>4. CASE Step(x, "geometry", to) /\ \A s \in present : GeometryIsValid(v, s)
  <2>1. t.pc = "geometry"
    BY <1>4 DEF Step
  <2>2. DirtySurfaces(x) = Suspects(t, v)
    BY <1>1, <2>1, DirtySurfacesFacts
  <2>3. present \subseteq Surfaces \cap Territory[x]
    <3>1. Sealed(v, Territory[x])
      BY ViewIsSealed
    <3>2. \A s \in Suspects(t, v) : s \in Territory[x]
      BY <1>1, <2>1, <3>1 DEF Suspects, StaysWithin, Sealed
    <3> QED
      BY <2>2, <3>2 DEF Suspects
  <2>4. DOMAIN rows = present /\ \A s \in present : rows[s] = SurfaceRow(LineworkOf(v, s))
    OBVIOUS
  <2>5. \A s \in present : rows[s] # NoRow
    <3>1. \A footprint : SurfaceRow(footprint).is # NoRow.is
      BY DEF SurfaceRow, NoRow
    <3> QED
      BY <2>4, <3>1
  <2> HIDE DEF rows
  <2>6. /\ to.pc = "refresh" /\ to.direct = t.direct
        /\ to.delta = t.delta /\ to.touched = t.touched /\ to.deleted = t.deleted
        /\ to.dirty = t.dirty /\ to.measured = rows
    BY <1>1 DEF Transactions
  <2> HIDE DEF to
  <2>7. StaysWithin(to, Territory[x])
    BY <1>1, <2>3, <2>4, <2>5, <2>6 DEF StaysWithin
  <2>8. Measures(t, v, to)
    BY <1>4, <2>1, <2>2, <2>4, <2>6 DEF Measures, Keeps
  <2>9. Over(to.delta, db) = v
    BY <2>6, ViewStays
  <2>10. Statement(t, v, to, v)
    BY <2>8 DEF Statement
  <2> QED
    BY <1>4, <2>7, <2>9, <2>10 DEF Explained
<1> QED
  BY <1>2, <1>3, <1>4

LEMMA StoreFootprintsExplained ==
    ASSUME ApartInv, NEW x \in Sessions, StoreFootprints(x)
    PROVE  \E to : Step(x, "refresh", to) /\ Explained(x, to)
<1> DEFINE t == tx[x]
           v == View(x)
           there == {s \in DOMAIN t.measured : Exists(v, s)}
           rows == [s \in there |-> t.measured[s]]
           delta == Write(x, rows)
           to == [t EXCEPT !.pc = "commit", !.measured = NoRows, !.delta = delta]
           w == Over(delta, db)
<1>1. /\ TypeOK /\ t \in Transactions(Keys) /\ StaysWithin(t, Territory[x])
      /\ t.pc = "refresh" /\ Step(x, "refresh", to)
  BY DEF ApartInv, TypeOK, StoreFootprints
<1>2. there \subseteq Surfaces \cap Territory[x]
  BY <1>1 DEF StaysWithin
<1>3. rows \in Deltas(Keys) /\ DOMAIN rows = there /\ \A k \in there : rows[k] = t.measured[k]
  <2>1. there \in SUBSET Keys
    BY <1>2, KeyFacts
  <2>2. \A s \in there : rows[s] \in RowsOf(s) \cup {NoRow}
    BY <1>1, TransactionFacts, DeltaFacts
  <2>3. rows = [s \in there |-> rows[s]] /\ \A k \in there : rows[k] = t.measured[k]
    OBVIOUS
  <2> HIDE DEF rows, there
  <2> QED
    BY <2>1, <2>2, <2>3, IsDelta
<1> HIDE DEF rows
<1>4. /\ \A k \in there : w[k] = t.measured[k]
      /\ \A k \in Keys \ there : w[k] = v[k]
  BY <1>1, <1>3, ViewAfterWrite
<1>5. DOMAIN delta = there \cup DOMAIN t.delta
  <2> HIDE DEF there
  <2>1. delta = Over(rows, t.delta)
    BY DEF Write
  <2> QED
    BY <1>1, <1>3, <2>1, TransactionFacts, OverDelta
<1> HIDE DEF delta
<1>6. /\ to.pc = "commit" /\ to.direct = t.direct
      /\ to.delta = delta /\ to.touched = t.touched /\ to.deleted = t.deleted
      /\ to.dirty = t.dirty /\ DOMAIN to.measured = {}
  BY <1>1, NoRowsFacts DEF Transactions
<1> HIDE DEF to, w, v
<1>7. StaysWithin(to, Territory[x])
  BY <1>1, <1>2, <1>5, <1>6 DEF StaysWithin, Within
<1>8. Stores(t, v, to, w)
  BY <1>1, <1>4, <1>6 DEF Stores, Keeps
<1>9. Statement(t, v, to, w)
  BY <1>8 DEF Statement
<1>10. Explained(x, to)
  BY <1>6, <1>7, <1>9 DEF Explained, v, w
<1> QED
  BY <1>1, <1>10

LEMMA SessionExplained ==
    ASSUME DocumentsAreApart, ApartInv, NEW x \in Sessions, Session(x), ~ Commit(x)
    PROVE  \E from, to : Step(x, from, to) /\ Explained(x, to)
BY BeginExplained, TakeItemExplained, WriteFeatureExplained, UnlinkFeatureExplained,
   RemoveFeatureExplained, EndItemsExplained, CheckExplained,
   MeasureFootprintsExplained, StoreFootprintsExplained, RollbackExplained
DEF Session, Abort

-----------------------------------------------------------------------------
(* The steps of the system keep all of it.                                  *)

LEMMA NothingOver ==
    ASSUME NEW f \in Deltas(Keys), DOMAIN f = {}, NEW d \in Database
    PROVE  Over(f, d) = d
<1>1. Over(f, d) \in Database /\ \A k \in Keys : Over(f, d)[k] = d[k]
  BY OverDatabase
<1> QED
  BY <1>1 DEF Database

\* What holds everywhere holds in a part.
LEMMA KnownSmaller ==
    ASSUME NEW d, NEW T \in SUBSET Features, Known(Idle, d, Features)
    PROVE  Known(Idle, d, T)
BY KnownIdle DEF Known

LEMMA StatementIsKnown ==
    ASSUME DocumentsAreApart, KnownInv, TypeOK', NEW x \in Sessions,
           NEW from, NEW to, Step(x, from, to), Explained(x, to)
    PROVE  KnownInv'
<1>1. /\ ApartInv /\ TypeOK /\ Territory[x] \subseteq Features
      /\ db' = db /\ tx' = [tx EXCEPT ![x] = to]
      /\ \A y \in Sessions : tx'[y] = IF y = x THEN to ELSE tx[y]
  BY SessionsAssumption DEF KnownInv, ApartInv, TypeOK, Step
<1>2. StaysWithin(to, Territory[x])
  BY DEF Explained
<1>3. ApartInv'
  BY <1>1, <1>2 DEF ApartInv
<1>4. Known(Idle, db', Features)
  BY <1>1 DEF KnownInv
<1>5. Known(to, Over(to.delta, db), Territory[x])
  <2>1. CASE Restarts(to)
    <3>1. to.delta \in Deltas(Keys) /\ db \in Database
      BY <1>1 DEF TypeOK, Transactions
    <3>2. Over(to.delta, db) = db
      BY <2>1, <3>1, NothingOver DEF Restarts
    <3> QED
      BY <1>1, <2>1, <3>2, RestartIsKnown DEF KnownInv
  <2>2. CASE Statement(tx[x], View(x), to, Over(to.delta, db))
    <3>1. StaysWithin(tx[x], Territory[x]) /\ Known(tx[x], View(x), Territory[x])
      BY DEF KnownInv, ApartInv
    <3> QED
      BY <1>1, <2>2, <3>1, StatementKeepsKnown
  <2> QED
    BY <2>1, <2>2 DEF Explained
<1>6. \A y \in Sessions : View(y)' = IF y = x THEN Over(to.delta, db) ELSE View(y)
  BY <1>1 DEF View
<1>7. \A y \in Sessions : Known(tx[y], View(y), Territory[y])'
  <2> SUFFICES ASSUME NEW y \in Sessions
               PROVE  Known(tx'[y], View(y)', Territory[y])
    OBVIOUS
  <2> QED
    BY <1>1, <1>5, <1>6 DEF KnownInv
<1> QED
  BY <1>3, <1>4, <1>7 DEF KnownInv

LEMMA CommitIsKnown ==
    ASSUME DocumentsAreApart, KnownInv, TypeOK', NEW x \in Sessions, Commit(x)
    PROVE  KnownInv'
<1>1. /\ ApartInv /\ TypeOK /\ Territory \in [Sessions -> SUBSET Features]
      /\ tx[x].pc = "commit" /\ db' = View(x) /\ tx' = [tx EXCEPT ![x] = Idle]
      /\ \A y \in Sessions : tx'[y] = IF y = x THEN Idle ELSE tx[y]
  BY SessionsAssumption DEF KnownInv, ApartInv, TypeOK, Commit
<1>2. ApartInv'
  <2>1. \A y \in Sessions : Sealed(db', Territory[y])
    BY <1>1, ViewIsSealed
  <2>2. \A y \in Sessions : StaysWithin(tx'[y], Territory[y])
    BY <1>1, IdleFacts DEF ApartInv, StaysWithin
  <2> QED
    BY <2>1, <2>2 DEF ApartInv
<1>3. Known(Idle, db', Features)
  <2> DEFINE T == Features \ Territory[x]
  <2>1. Known(Idle, View(x), Territory[x])
    BY <1>1, EndIsKnown DEF KnownInv
  <2>2. Known(Idle, db, T)
    BY KnownSmaller DEF KnownInv
  <2>3. StaysWithin(Idle, T)
    BY IdleFacts DEF StaysWithin
  <2>4. Known(Idle, View(x), T)
    BY <1>1, <2>2, <2>3, ElsewhereIsAlike, AlikeIsKnown
  <2> QED
    BY <1>1, <2>1, <2>4, KnownApart
<1>4. \A y \in Sessions : Known(tx[y], View(y), Territory[y])'
  <2> SUFFICES ASSUME NEW y \in Sessions
               PROVE  Known(tx'[y], View(y)', Territory[y])
    OBVIOUS
  <2>1. View(y)' = Over(tx'[y].delta, db')
    BY DEF View
  <2>2. CASE y = x
    <3>1. Idle \in Transactions(Keys) /\ db' \in Database
      BY <1>1, ViewFacts, IdleType
    <3>2. View(y)' = db'
      BY <1>1, <2>1, <2>2, <3>1, IdleType, NoRowsFacts, NothingOver
    <3>3. Known(Idle, db', Territory[y])
      BY <1>1, <1>3, KnownSmaller
    <3> QED
      BY <1>1, <2>2, <3>2, <3>3
  <2>3. CASE y # x
    <3>1. Alike(View(y), Over(tx[y].delta, View(x)), Territory[y])
      BY <1>1, <2>3, CommitIsAlike
    <3>2. Known(tx[y], Over(tx[y].delta, View(x)), Territory[y])
      BY <1>1, <3>1, AlikeIsKnown DEF KnownInv, ApartInv
    <3> QED
      BY <1>1, <2>1, <2>3, <3>2
  <2> QED
    BY <2>2, <2>3
<1> QED
  BY <1>2, <1>3, <1>4 DEF KnownInv

\* KnownInv is inductive, with the types it needs.
LEMMA KnownIsInductive ==
    ASSUME DocumentsAreApart
    PROVE  /\ Init => KnownInv
           /\ KnownInv /\ [Next]_vars => KnownInv'
<1>1. ASSUME Init PROVE KnownInv
  <2>1. /\ db = EmptyDatabase /\ TypeOK
        /\ \A x \in Sessions : tx[x] = Idle
    BY <1>1, InitType DEF Init
  <2>2. \A s \in Surfaces, c \in Curves : ~ Linked(db, s, c)
    BY <2>1, KeyFacts DEF EmptyDatabase, Linked, Exists
  <2>3. ApartInv
    BY <2>1, <2>2, IdleFacts DEF ApartInv, Sealed, StaysWithin
  <2>4. Known(Idle, db, Features)
    BY <2>1, EmptyIsKnown
  <2>5. \A x \in Sessions : Known(tx[x], View(x), Territory[x])
    <3> SUFFICES ASSUME NEW x \in Sessions
                 PROVE  Known(tx[x], View(x), Territory[x])
      OBVIOUS
    <3>1. View(x) = db
      BY <2>1, IdleType, NoRowsFacts, NothingOver DEF View, TypeOK
    <3> QED
      BY <2>1, <2>4, <3>1, KnownSmaller, SessionsAssumption
  <2> QED
    BY <2>3, <2>4, <2>5 DEF KnownInv
<1>2. ASSUME KnownInv, Next PROVE KnownInv'
  <2>1. PICK x \in Sessions : Session(x)
    BY <1>2 DEF Next
  <2>2. ApartInv /\ TypeOK'
    BY <1>2, <2>1, SessionType DEF KnownInv, ApartInv
  <2>3. CASE Commit(x)
    BY <1>2, <2>2, <2>3, CommitIsKnown
  <2>4. CASE ~ Commit(x)
    <3>1. PICK from, to : Step(x, from, to) /\ Explained(x, to)
      BY <2>1, <2>2, <2>4, SessionExplained
    <3> QED
      BY <1>2, <2>2, <3>1, StatementIsKnown
  <2> QED
    BY <2>3, <2>4
<1>3. ASSUME KnownInv, UNCHANGED vars PROVE KnownInv'
  <2>1. db' = db /\ tx' = tx
    BY <1>3 DEF vars
  <2>2. \A x \in Sessions : View(x)' = View(x)
    BY <2>1 DEF View
  <2>3. ApartInv'
    BY <1>3, <2>1 DEF KnownInv, ApartInv, TypeOK
  <2> QED
    BY <1>3, <2>1, <2>2, <2>3 DEF KnownInv
<1> QED
  BY <1>1, <1>2, <1>3

\* What it says of the committed rows.
LEMMA KnownOfCommitted ==
    ASSUME KnownInv
    PROVE  /\ NoOrphanLink
           /\ CurvesAreChecked => NoMissingMember
           /\ SurfacesAreChecked /\ NotesAreSimple => StructureHolds /\ FootprintsAreFresh
           /\ SurfacesAreChecked /\ SimpleIsUnbounded => BoundsHold
<1>1. Known(Idle, db, Features)
  BY DEF KnownInv
<1>2. Surfaces \cap Features = Surfaces /\ Curves \cap Features = Curves
  BY DEF Features
<1> QED
  BY <1>1, <1>2, KnownIdle DEF Known, IsFresh, NoOrphanLink, NoMissingMember,
     StructureHolds, FootprintsAreFresh, BoundsHold

\* Sessions whose documents name different features leave no association row
\* behind when a surface goes, and never add one to a surface that is gone,
\* whatever is written directly.
THEOREM LinksKeepTheirSurfaces ==
    ASSUME DocumentsAreApart PROVE Spec => []NoOrphanLink
<1>1. KnownInv => NoOrphanLink
  BY KnownOfCommitted
<1> QED
  BY <1>1, KnownIsInductive, PTL DEF Spec

\* They never commit a link to a curve that does not exist, where curves are
\* written in transactions only: a deleted curve is looked for among the links
\* of every surface before the commit.
THEOREM LinksKeepTheirMembers ==
    ASSUME DocumentsAreApart, CurvesAreChecked PROVE Spec => []NoMissingMember
<1>1. KnownInv => NoMissingMember
  BY KnownOfCommitted
<1> QED
  BY <1>1, KnownIsInductive, PTL DEF Spec

\* Every committed surface has an acceptable boundary, conditions on fields of
\* its curves included: the dirty surfaces are all those a document can have
\* spoiled.  Surfaces, and the curves that bound them, are written in
\* transactions only.
THEOREM BoundariesAreKept ==
    ASSUME DocumentsAreApart, SurfacesAreChecked, NotesAreSimple
    PROVE  Spec => []StructureHolds
<1>1. KnownInv => StructureHolds
  BY KnownOfCommitted
<1> QED
  BY <1>1, KnownIsInductive, PTL DEF Spec

\* Every committed footprint is what the curves of its surface give now: what is
\* measured and stored last covers every surface whose linework a document has
\* changed.
THEOREM FootprintsAreRenewed ==
    ASSUME DocumentsAreApart, SurfacesAreChecked, NotesAreSimple
    PROVE  Spec => []FootprintsAreFresh
<1>1. KnownInv => FootprintsAreFresh
  BY KnownOfCommitted
<1> QED
  BY <1>1, KnownIsInductive, PTL DEF Spec

\* Every committed curve of a bounded collection bounds the declared number of
\* surfaces: the dirty curves include those a document has taken out of a
\* surface.  Neither surfaces nor curves of bounded collections are written
\* directly.
THEOREM CurvesKeepTheirBounds ==
    ASSUME DocumentsAreApart, SurfacesAreChecked, SimpleIsUnbounded
    PROVE  Spec => []BoundsHold
<1>1. KnownInv => BoundsHold
  BY KnownOfCommitted
<1> QED
  BY <1>1, KnownIsInductive, PTL DEF Spec
=============================================================================
