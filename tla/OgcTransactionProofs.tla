------------------------- MODULE OgcTransactionProofs -------------------------
(***************************************************************************)
(* Proofs about OgcTransaction: type correctness and the exclusion of      *)
(* writers of one row, and that concurrent sessions never commit a         *)
(* surface with an unacceptable boundary, whatever they interleave, where  *)
(* no boundary role depends on a field of the curve.                       *)
(***************************************************************************)
EXTENDS OgcTransaction, TLAPS

-----------------------------------------------------------------------------
(* Rows, items and what is written over what.                              *)

\* Every row is the row of some table.
LEMMA RowFacts == \A k \in Keys : RowsOf(k) \cup {NoRow} \subseteq Row
BY TopologyAssumption DEF Keys, Features, RowsOf, Row, SurfaceRows, LinkRows

LEMMA KeyFacts ==
    /\ Surfaces \subseteq Keys
    /\ Curves \subseteq Keys
    /\ \A s \in Surfaces, c \in Curves : <<s, c>> \in Keys
    /\ \A s \in Surfaces, c \in Curves : <<s, c>> \notin Features
BY TopologyAssumption DEF Keys, Features, Pairs

\* The rows of a key follow from what kind of key it is.
LEMMA RowsOfFacts ==
    /\ \A s \in Surfaces : RowsOf(s) = SurfaceRows
    /\ \A c \in Curves : RowsOf(c) = CurveRows(c)
    /\ \A s \in Surfaces, c \in Curves : RowsOf(<<s, c>>) = LinkRows
BY TopologyAssumption, KeyFacts DEF RowsOf, Features

\* An item writes a row of its feature, and only surfaces have links.
LEMMA ItemFacts ==
    \A i \in Items :
        /\ i.feature \in Features
        /\ i.links \subseteq Curves
        /\ i.links # {} => i.feature \in Surfaces
        /\ i.row \in RowsOf(i.feature) \cup {NoRow}
        /\ i.action # "delete" => i.row \in RowsOf(i.feature)
<1> SUFFICES ASSUME NEW i \in Items
    PROVE /\ i.feature \in Features
          /\ i.links \subseteq Curves
          /\ i.links # {} => i.feature \in Surfaces
          /\ i.row \in RowsOf(i.feature) \cup {NoRow}
          /\ i.action # "delete" => i.row \in RowsOf(i.feature)
    OBVIOUS
<1>1. CASE i \in CurveItems
  <2>1. PICK c \in Curves :
            i \in {Item(action, c, row, {}, {}) :
                      action \in {"insert", "update", "upsert"}, row \in CurveRows(c)}
    BY <1>1 DEF CurveItems
  <2> QED
    BY <2>1, RowsOfFacts DEF Item, Features
<1>2. CASE i \in SurfaceItems
  <2>1. PICK named \in SUBSET Roles :
            i \in {Item(action, s, SurfaceRow({}), named, links) :
                action \in {"insert", "update"}, s \in Surfaces,
                links \in SUBSET {c \in Curves : RoleOf[c] \in named}}
    BY <1>2 DEF SurfaceItems
  <2>2. {} \in Linework
    BY DEF Linework
  <2> QED
    BY <2>1, <2>2, RowsOfFacts DEF Item, Features, SurfaceRows
<1>3. CASE i \in SurfaceUpserts
  <2>1. {} \in Linework
    BY DEF Linework
  <2> QED
    BY <1>3, <2>1, RowsOfFacts DEF SurfaceUpserts, Item, Features, SurfaceRows
<1>4. CASE i \in DeleteItems
  BY <1>4 DEF DeleteItems, Item
<1> QED
  BY <1>1, <1>2, <1>3, <1>4 DEF Items

LEMMA DeltaFacts ==
    \A f \in Deltas(Keys) :
        /\ DOMAIN f \subseteq Keys
        /\ f \in [DOMAIN f -> Row]
        /\ \A k \in DOMAIN f : f[k] \in RowsOf(k) \cup {NoRow}
BY DEF Deltas

LEMMA NoRowsFacts == NoRows \in Deltas(Keys) /\ DOMAIN NoRows = {}
<1>1. NoRows \in [{} -> Row]
  BY DEF NoRows
<1>2. {} \in SUBSET Keys
  OBVIOUS
<1> QED
  BY <1>1, <1>2 DEF Deltas, NoRows

\* A function that gives every key in its domain a row of its table.
LEMMA IsDelta ==
    ASSUME NEW D \in SUBSET Keys, NEW f,
           f = [k \in D |-> f[k]],
           \A k \in D : f[k] \in RowsOf(k) \cup {NoRow}
    PROVE  f \in Deltas(Keys) /\ DOMAIN f = D
<1>1. f \in [D -> Row]
  BY RowFacts
<1> QED
  BY <1>1 DEF Deltas

LEMMA OverDelta ==
    ASSUME NEW f \in Deltas(Keys), NEW g \in Deltas(Keys)
    PROVE  /\ Over(f, g) \in Deltas(Keys)
           /\ DOMAIN Over(f, g) = DOMAIN f \cup DOMAIN g
           /\ \A k \in DOMAIN f : Over(f, g)[k] = f[k]
           /\ \A k \in DOMAIN g \ DOMAIN f : Over(f, g)[k] = g[k]
<1>1. DOMAIN f \cup DOMAIN g \in SUBSET Keys
  BY DeltaFacts
<1>2. \A k \in DOMAIN f \cup DOMAIN g : Over(f, g)[k] \in RowsOf(k) \cup {NoRow}
  BY DeltaFacts DEF Over
<1>3. Over(f, g) = [k \in DOMAIN f \cup DOMAIN g |-> Over(f, g)[k]]
  BY DEF Over
<1> QED
  BY <1>1, <1>2, <1>3, IsDelta DEF Over

LEMMA OverDatabase ==
    ASSUME NEW f \in Deltas(Keys), NEW d \in Database
    PROVE  /\ Over(f, d) \in Database
           /\ \A k \in DOMAIN f : Over(f, d)[k] = f[k]
           /\ \A k \in Keys \ DOMAIN f : Over(f, d)[k] = d[k]
<1>1. DOMAIN d = Keys /\ \A k \in Keys : d[k] \in RowsOf(k) \cup {NoRow}
  BY DEF Database
<1>2. DOMAIN d \cup DOMAIN f = Keys /\ DOMAIN f \cup DOMAIN d = Keys
  BY <1>1, DeltaFacts
<1>3. \A k \in Keys : Over(f, d)[k] \in RowsOf(k) \cup {NoRow}
  BY <1>1, <1>2, DeltaFacts DEF Over
<1>4. Over(f, d) \in [Keys -> Row]
  BY <1>2, <1>3, RowFacts DEF Over
<1> QED
  BY <1>1, <1>2, <1>3, <1>4 DEF Database, Over

-----------------------------------------------------------------------------
(* Type correctness.                                                       *)

LEMMA ViewFacts ==
    ASSUME TypeOK, NEW x \in Sessions
    PROVE  /\ tx[x].delta \in Deltas(Keys)
           /\ View(x) \in Database
           /\ \A k \in DOMAIN tx[x].delta : View(x)[k] = tx[x].delta[k]
           /\ \A k \in Keys \ DOMAIN tx[x].delta : View(x)[k] = db[k]
<1>1. tx[x].delta \in Deltas(Keys) /\ db \in Database
  BY DEF TypeOK, Transactions
<1> QED
  BY <1>1, OverDatabase DEF View

\* What a step that only changes the transaction of x has to show.
LEMMA StepType ==
    ASSUME TypeOK, NEW x \in Sessions, NEW from, NEW to \in Transactions(Keys),
           Step(x, from, to),
           to.pc \in {"write", "remove"} => to.item \in Items,
           Free(x, DOMAIN to.delta \ DOMAIN tx[x].delta)
    PROVE  TypeOK'
<1>1. /\ db' = db
      /\ tx' = [tx EXCEPT ![x] = to]
      /\ tx \in [Sessions -> Transactions(Keys)]
  BY DEF Step, TypeOK
<1>2. /\ tx'[x] = to
      /\ \A y \in Sessions \ {x} : tx'[y] = tx[y]
      /\ tx' \in [Sessions -> Transactions(Keys)]
  BY <1>1
<1>3. \A y \in Sessions \ {x} : DOMAIN to.delta \cap DOMAIN tx[y].delta = {}
  BY DEF TypeOK, Free
<1> QED
  BY <1>1, <1>2, <1>3 DEF TypeOK

LEMMA IdleType == Idle \in Transactions(Keys) /\ Idle.delta = NoRows /\ Idle.pc = "idle"
BY NoRowsFacts DEF Idle, Transactions, Pcs

LEMMA RollbackType ==
    ASSUME TypeOK, NEW x \in Sessions, NEW from, Rollback(x, from)
    PROVE  TypeOK'
<1>1. Free(x, DOMAIN Idle.delta \ DOMAIN tx[x].delta)
  BY IdleType, NoRowsFacts DEF Free
<1> QED
  BY <1>1, IdleType, StepType DEF Rollback

\* Going on to another phase, with nothing else changed.
LEMMA PhaseType ==
    ASSUME TypeOK, NEW x \in Sessions, NEW from,
           NEW pc \in Pcs \ {"write", "remove"},
           Step(x, from, [tx[x] EXCEPT !.pc = pc])
    PROVE  TypeOK'
<1> DEFINE to == [tx[x] EXCEPT !.pc = pc]
<1>1. tx[x] \in Transactions(Keys)
  BY DEF TypeOK
<1>2. to \in Transactions(Keys) /\ to.pc = pc /\ to.delta = tx[x].delta
  BY <1>1 DEF Transactions
<1>3. Step(x, from, to)
  OBVIOUS
<1> HIDE DEF to
<1>4. Free(x, DOMAIN to.delta \ DOMAIN tx[x].delta)
  BY <1>2 DEF Free
<1> QED
  BY <1>2, <1>3, <1>4, StepType

\* Writing rows of the right kind that no other session holds.
LEMMA WriteType ==
    ASSUME TypeOK, NEW x \in Sessions, NEW rows \in Deltas(Keys), Free(x, DOMAIN rows)
    PROVE  /\ Write(x, rows) \in Deltas(Keys)
           /\ DOMAIN Write(x, rows) = DOMAIN rows \cup DOMAIN tx[x].delta
           /\ Free(x, DOMAIN Write(x, rows) \ DOMAIN tx[x].delta)
<1>1. tx[x].delta \in Deltas(Keys)
  BY ViewFacts
<1>2. /\ Write(x, rows) \in Deltas(Keys)
      /\ DOMAIN Write(x, rows) = DOMAIN rows \cup DOMAIN tx[x].delta
  BY <1>1, OverDelta DEF Write
<1> QED
  BY <1>2 DEF Free

LEMMA TargetsFacts ==
    ASSUME NEW d, NEW s PROVE Targets(d, s) \in SUBSET Curves
BY DEF Targets

\* The state after an item has been written.
LEMMA AfterItemType ==
    ASSUME TypeOK, NEW x \in Sessions, tx[x].item \in Items, NEW delta \in Deltas(Keys)
    PROVE  /\ AfterItem(x, delta) \in Transactions(Keys)
           /\ AfterItem(x, delta).pc \notin {"write", "remove"}
           /\ AfterItem(x, delta).delta = delta
<1>1. tx[x] \in Transactions(Keys)
  BY DEF TypeOK
<1>2. tx[x].item.feature \in Features
  BY ItemFacts
<1>3. Targets(Over(delta, db), tx[x].item.feature) \subseteq Curves
  BY TargetsFacts
<1> QED
  BY <1>1, <1>2, <1>3 DEF AfterItem, Transactions, Pcs

\* Each statement of a session keeps the types.
LEMMA TakeItemType ==
    ASSUME TypeOK, NEW x \in Sessions, TakeItem(x)
    PROVE  TypeOK'
<1>1. tx[x] \in Transactions(Keys)
  BY DEF TypeOK
<1>2. PICK i \in ItemsFor(x) :
          \/ Rollback(x, "items")
          \/ Step(x, "items", [tx[x] EXCEPT !.pc = "write", !.item = i,
                                            !.left = @ - 1,
                                            !.dirty = @ \cup TargetsBefore(x, i)])
  BY DEF TakeItem
<1>3. i \in Items /\ tx[x].left > 0
  BY DEF ItemsFor, TakeItem
<1>4. TargetsBefore(x, i) \in SUBSET Curves
  BY TargetsFacts DEF TargetsBefore
<1> DEFINE fewer == tx[x].left - 1
<1>5. fewer \in Nat
  BY <1>1, <1>3 DEF Transactions
<1>6. CASE Rollback(x, "items")
  BY <1>6, RollbackType
<1>7. CASE Step(x, "items", [tx[x] EXCEPT !.pc = "write", !.item = i,
                                         !.left = @ - 1,
                                         !.dirty = @ \cup TargetsBefore(x, i)])
  <2> DEFINE to == [tx[x] EXCEPT !.pc = "write", !.item = i, !.left = fewer,
                                 !.dirty = @ \cup TargetsBefore(x, i)]
  <2>1. Step(x, "items", to)
    BY <1>7
  <2> HIDE DEF fewer
  <2>2. /\ to \in Transactions(Keys)
        /\ to.pc = "write"
        /\ to.item = i
        /\ to.delta = tx[x].delta
    BY <1>1, <1>3, <1>4, <1>5 DEF Transactions, Pcs
  <2> HIDE DEF to
  <2>3. Free(x, DOMAIN to.delta \ DOMAIN tx[x].delta)
    BY <2>2 DEF Free
  <2> QED
    BY <1>3, <2>1, <2>2, <2>3, StepType
<1> QED
  BY <1>2, <1>6, <1>7

\* The rows an item writes are rows of their tables.
LEMMA RowsWrittenType ==
    ASSUME NEW x \in Sessions, NEW i \in Items
    PROVE  /\ RowsWritten(x, i) \in Deltas(Keys)
           /\ DOMAIN RowsWritten(x, i) = {i.feature} \cup Cleared(x, i) \cup Added(i)
<1>1. Cleared(x, i) \cup Added(i) \subseteq Pairs
  <2>1. Cleared(x, i) \subseteq Pairs
    BY DEF Cleared, Pairs
  <2>2. Added(i) \subseteq Pairs
    BY ItemFacts DEF Added, Pairs
  <2> QED
    BY <2>1, <2>2
<1>2. i.feature \in Features /\ i.feature \notin Pairs
  BY ItemFacts, TopologyAssumption
<1> DEFINE keys == {i.feature} \cup Cleared(x, i) \cup Added(i)
<1>3. keys \in SUBSET Keys
  BY <1>1, <1>2 DEF Keys
<1>4. \A k \in Pairs : RowsOf(k) = LinkRows
  BY RowsOfFacts DEF Pairs
<1>5. LinkRow \in LinkRows
  BY DEF LinkRows
<1>6. \A k \in keys : RowsWritten(x, i)[k] \in RowsOf(k) \cup {NoRow}
  BY <1>1, <1>2, <1>4, <1>5, ItemFacts DEF RowsWritten
<1>7. RowsWritten(x, i) = [k \in keys |-> RowsWritten(x, i)[k]]
  BY DEF RowsWritten
<1> QED
  BY <1>3, <1>6, <1>7, IsDelta

LEMMA WriteFeatureType ==
    ASSUME TypeOK, NEW x \in Sessions, WriteFeature(x)
    PROVE  TypeOK'
<1> DEFINE i == tx[x].item
           delta == Write(x, RowsWritten(x, i))
<1>1. i \in Items
  BY DEF TypeOK, WriteFeature
<1>2. \/ Rollback(x, "write")
      \/ Free(x, DOMAIN RowsWritten(x, i)) /\ Step(x, "write", AfterItem(x, delta))
  BY DEF WriteFeature
<1>3. CASE Rollback(x, "write")
  BY <1>3, RollbackType
<1>4. CASE Free(x, DOMAIN RowsWritten(x, i)) /\ Step(x, "write", AfterItem(x, delta))
  <2>1. delta \in Deltas(Keys) /\ Free(x, DOMAIN delta \ DOMAIN tx[x].delta)
    BY <1>1, <1>4, RowsWrittenType, WriteType
  <2> HIDE DEF delta
  <2>2. /\ AfterItem(x, delta) \in Transactions(Keys)
        /\ AfterItem(x, delta).pc \notin {"write", "remove"}
        /\ AfterItem(x, delta).delta = delta
    BY <1>1, <2>1, AfterItemType
  <2> QED
    BY <1>4, <2>1, <2>2, StepType
<1> QED
  BY <1>2, <1>3, <1>4

\* Rows that a statement takes away.
LEMMA NoRowDelta ==
    ASSUME NEW keys \in SUBSET Keys
    PROVE  [k \in keys |-> NoRow] \in Deltas(Keys)
<1> DEFINE f == [k \in keys |-> NoRow]
<1>1. f = [k \in keys |-> f[k]] /\ \A k \in keys : f[k] = NoRow
  OBVIOUS
<1> HIDE DEF f
<1>2. f \in Deltas(Keys)
  BY <1>1, IsDelta
<1> QED
  BY <1>2 DEF f

LEMMA UnlinkFeatureType ==
    ASSUME TypeOK, NEW x \in Sessions, UnlinkFeature(x)
    PROVE  TypeOK'
<1> DEFINE i == tx[x].item
           links == {<<i.feature, c>> : c \in {c \in Curves :
                        i.feature \in Surfaces /\ Linked(View(x), i.feature, c)}}
           rows == [k \in links |-> NoRow]
           to == [tx[x] EXCEPT !.pc = "remove", !.delta = Write(x, rows)]
<1>1. tx[x] \in Transactions(Keys) /\ i \in Items
  BY DEF TypeOK, UnlinkFeature
<1>2. Free(x, links) /\ Step(x, "write", to)
  BY DEF UnlinkFeature
<1>3. links \in SUBSET Keys
  BY KeyFacts
<1>4. rows \in Deltas(Keys) /\ DOMAIN rows = links
  BY <1>3, NoRowDelta
<1> HIDE DEF rows, links
<1>5. Write(x, rows) \in Deltas(Keys) /\ Free(x, DOMAIN Write(x, rows) \ DOMAIN tx[x].delta)
  BY <1>2, <1>4, WriteType
<1>6. /\ to \in Transactions(Keys)
      /\ to.pc = "remove"
      /\ to.item = i
      /\ to.delta = Write(x, rows)
  BY <1>1, <1>5 DEF Transactions, Pcs
<1> HIDE DEF to
<1> QED
  BY <1>1, <1>2, <1>5, <1>6, StepType

LEMMA RemoveFeatureType ==
    ASSUME TypeOK, NEW x \in Sessions, RemoveFeature(x)
    PROVE  TypeOK'
<1> DEFINE f == tx[x].item.feature
           rows == [k \in {f} |-> NoRow]
           delta == Write(x, rows)
<1>1. tx[x].item \in Items
  BY DEF TypeOK, RemoveFeature
<1>2. \/ Rollback(x, "remove")
      \/ Free(x, {f}) /\ Step(x, "remove", AfterItem(x, delta))
  BY DEF RemoveFeature
<1>3. CASE Rollback(x, "remove")
  BY <1>3, RollbackType
<1>4. CASE Free(x, {f}) /\ Step(x, "remove", AfterItem(x, delta))
  <2>1. {f} \in SUBSET Keys
    BY <1>1, ItemFacts DEF Keys
  <2>2. rows \in Deltas(Keys) /\ DOMAIN rows = {f}
    BY <2>1, NoRowDelta
  <2>3. delta \in Deltas(Keys) /\ Free(x, DOMAIN delta \ DOMAIN tx[x].delta)
    BY <1>4, <2>2, WriteType
  <2> HIDE DEF delta
  <2>4. /\ AfterItem(x, delta) \in Transactions(Keys)
        /\ AfterItem(x, delta).pc \notin {"write", "remove"}
        /\ AfterItem(x, delta).delta = delta
    BY <1>1, <2>3, AfterItemType
  <2> QED
    BY <1>4, <2>3, <2>4, StepType
<1> QED
  BY <1>2, <1>3, <1>4

LEMMA CurveRowFacts ==
    ASSUME NEW c, NEW row \in CurveRows(c) PROVE row.shape \in Shapes
<1>1. PICK shape \in Shapes, counts \in FieldValues(c) : row = CurveRow(shape, counts)
  BY DEF CurveRows
<1>2. CurveRow(shape, counts).shape = shape
  BY DEF CurveRow
<1> QED
  BY <1>1, <1>2

\* The footprint that is measured is linework.
LEMMA LineworkFacts ==
    ASSUME NEW d \in Database, NEW s PROVE LineworkOf(d, s) \in Linework
<1>1. \A c \in Curves : Exists(d, c) => d[c].shape \in Shapes
  <2> SUFFICES ASSUME NEW c \in Curves, Exists(d, c) PROVE d[c].shape \in Shapes
    OBVIOUS
  <2>1. d[c] \in CurveRows(c)
    BY KeyFacts, RowsOfFacts DEF Database, Exists
  <2> QED
    BY <2>1, CurveRowFacts
<1>2. {b \in Included(d, s) : Exists(d, b)} \subseteq {c \in Curves : Exists(d, c)}
  BY DEF Included, Targets
<1>3. \A l \in LineworkOf(d, s) : l \in Curves \X Shapes
  BY <1>1, <1>2 DEF LineworkOf
<1> QED
  BY <1>3 DEF Linework

LEMMA MeasureFootprintsType ==
    ASSUME TypeOK, NEW x \in Sessions, MeasureFootprints(x)
    PROVE  TypeOK'
<1> DEFINE present == {s \in DirtySurfaces(x) : Exists(View(x), s)}
           rows == [s \in present |-> SurfaceRow(LineworkOf(View(x), s))]
           to == [tx[x] EXCEPT !.pc = "refresh", !.measured = rows]
<1>1. tx[x] \in Transactions(Keys) /\ View(x) \in Database
  BY ViewFacts DEF TypeOK
<1>2. \/ Rollback(x, "geometry")
      \/ Step(x, "geometry", to)
  BY DEF MeasureFootprints
<1>3. present \in SUBSET Surfaces
  BY DEF DirtySurfaces, Sources
<1>4. rows \in Deltas(Keys)
  <2>1. present \in SUBSET Keys
    BY <1>3, KeyFacts
  <2>2. \A s \in present : LineworkOf(View(x), s) \in Linework
    BY <1>1, LineworkFacts
  <2>3. \A s \in present : rows[s] \in RowsOf(s) \cup {NoRow}
    BY <1>3, <2>2, RowsOfFacts DEF SurfaceRows
  <2>4. rows = [s \in present |-> rows[s]]
    OBVIOUS
  <2> HIDE DEF rows, present
  <2> QED
    BY <2>1, <2>3, <2>4, IsDelta
<1>5. CASE Rollback(x, "geometry")
  BY <1>5, RollbackType
<1>6. CASE Step(x, "geometry", to)
  <2> HIDE DEF rows
  <2>1. to \in Transactions(Keys) /\ to.pc = "refresh" /\ to.delta = tx[x].delta
    BY <1>1, <1>4 DEF Transactions, Pcs
  <2> HIDE DEF to
  <2>2. Free(x, DOMAIN to.delta \ DOMAIN tx[x].delta)
    BY <2>1 DEF Free
  <2> QED
    BY <1>6, <2>1, <2>2, StepType
<1> QED
  BY <1>2, <1>5, <1>6

LEMMA StoreFootprintsType ==
    ASSUME TypeOK, NEW x \in Sessions, StoreFootprints(x)
    PROVE  TypeOK'
<1> DEFINE there == {s \in DOMAIN tx[x].measured : Exists(View(x), s)}
           rows == [s \in there |-> tx[x].measured[s]]
           to == [tx[x] EXCEPT !.pc = "commit", !.measured = NoRows,
                               !.delta = Write(x, rows)]
<1>1. tx[x] \in Transactions(Keys) /\ tx[x].measured \in Deltas(Keys)
  BY DEF TypeOK, Transactions
<1>2. Free(x, there) /\ Step(x, "refresh", to)
  BY DEF StoreFootprints
<1>3. rows \in Deltas(Keys) /\ DOMAIN rows = there
  <2>1. there \in SUBSET Keys
    BY <1>1, DeltaFacts
  <2>2. \A s \in there : rows[s] \in RowsOf(s) \cup {NoRow}
    BY <1>1, DeltaFacts
  <2>3. rows = [s \in there |-> rows[s]]
    OBVIOUS
  <2> HIDE DEF rows, there
  <2> QED
    BY <2>1, <2>2, <2>3, IsDelta
<1> HIDE DEF rows, there
<1>4. Write(x, rows) \in Deltas(Keys) /\ Free(x, DOMAIN Write(x, rows) \ DOMAIN tx[x].delta)
  BY <1>2, <1>3, WriteType
<1>5. to \in Transactions(Keys) /\ to.pc = "commit" /\ to.delta = Write(x, rows)
  BY <1>1, <1>4, NoRowsFacts DEF Transactions, Pcs
<1> HIDE DEF to
<1> QED
  BY <1>2, <1>4, <1>5, StepType

LEMMA CommitType ==
    ASSUME TypeOK, NEW x \in Sessions, Commit(x)
    PROVE  TypeOK'
<1>1. /\ db' = View(x)
      /\ tx' = [tx EXCEPT ![x] = Idle]
      /\ tx \in [Sessions -> Transactions(Keys)]
      /\ View(x) \in Database
  BY ViewFacts DEF Commit, TypeOK
<1>2. /\ tx'[x] = Idle
      /\ \A y \in Sessions \ {x} : tx'[y] = tx[y]
      /\ tx' \in [Sessions -> Transactions(Keys)]
  BY <1>1, IdleType
<1> QED
  BY <1>1, <1>2, IdleType, NoRowsFacts DEF TypeOK

LEMMA BeginType ==
    ASSUME TypeOK, NEW x \in Sessions, Begin(x)
    PROVE  TypeOK'
<1>1. PICK direct \in BOOLEAN :
          Step(x, "idle", [Idle EXCEPT !.pc = "items", !.direct = direct,
                                       !.left = IF direct THEN 1 ELSE MaxItems])
  BY DEF Begin
<1> DEFINE to == [Idle EXCEPT !.pc = "items", !.direct = direct,
                              !.left = IF direct THEN 1 ELSE MaxItems]
<1>2. to \in Transactions(Keys) /\ to.pc = "items" /\ to.delta = NoRows
  BY NoRowsFacts, SessionsAssumption DEF Idle, Transactions, Pcs
<1>3. Step(x, "idle", to)
  BY <1>1
<1> HIDE DEF to
<1>4. Free(x, DOMAIN to.delta \ DOMAIN tx[x].delta)
  BY <1>2, NoRowsFacts DEF Free
<1> QED
  BY <1>2, <1>3, <1>4, StepType

LEMMA SessionType ==
    ASSUME TypeOK, NEW x \in Sessions, Session(x)
    PROVE  TypeOK'
<1>1. {"missing", "structure", "bounds", "geometry", "refresh", "commit"}
          \subseteq Pcs \ {"write", "remove"}
  BY DEF Pcs
<1>2. CASE EndItems(x)
  <2>1. CASE tx[x].touched = {}
    BY <1>1, <1>2, <2>1, PhaseType DEF EndItems
  <2>2. CASE tx[x].touched # {}
    BY <1>1, <1>2, <2>2, PhaseType DEF EndItems
  <2> QED
    BY <2>1, <2>2
<1>3. CASE CheckMissing(x)
  BY <1>1, <1>3, PhaseType, RollbackType DEF CheckMissing, Check
<1>4. CASE CheckStructure(x)
  BY <1>1, <1>4, PhaseType, RollbackType DEF CheckStructure, Check
<1>5. CASE CheckBounds(x)
  BY <1>1, <1>5, PhaseType, RollbackType DEF CheckBounds, Check
<1>6. CASE Abort(x)
  BY <1>6, RollbackType DEF Abort
<1> QED
  BY <1>2, <1>3, <1>4, <1>5, <1>6, BeginType, TakeItemType, WriteFeatureType,
     UnlinkFeatureType, RemoveFeatureType, MeasureFootprintsType,
     StoreFootprintsType, CommitType
  DEF Session

LEMMA InitType == Init => TypeOK
<1> SUFFICES ASSUME Init PROVE TypeOK
  OBVIOUS
<1>1. EmptyDatabase \in Database
  BY RowFacts DEF EmptyDatabase, Database
<1>2. \A x \in Sessions : tx[x] = Idle
  BY DEF Init
<1>3. tx \in [Sessions -> Transactions(Keys)]
  BY IdleType DEF Init
<1> QED
  BY <1>1, <1>2, <1>3, IdleType, NoRowsFacts DEF Init, TypeOK

\* Whatever sessions do, committed rows are rows of their tables, and of one row
\* there is at most one uncommitted version: every statement of ogc.transaction
\* waits for the rows it writes, the footprint refresh included.
THEOREM TypeIsKept == Spec => []TypeOK
<1>1. TypeOK /\ [Next]_vars => TypeOK'
  <2> SUFFICES ASSUME TypeOK, [Next]_vars PROVE TypeOK'
    OBVIOUS
  <2>1. CASE Next
    BY <2>1, SessionType DEF Next
  <2>2. CASE UNCHANGED vars
    BY <2>2 DEF vars, TypeOK
  <2> QED
    BY <2>1, <2>2
<1> QED
  BY <1>1, InitType, PTL DEF Spec

-----------------------------------------------------------------------------
(* Acceptable boundaries.  Where no boundary role depends on a field of the *)
(* curve and surfaces are not written directly, a surface is as good as its *)
(* association rows, and these are only written together with the surface:  *)
(* whoever changes them holds its row until the end of the transaction.     *)

(* The inductive invariant: what holds of one transaction t over the       *)
(* committed rows d.                                                       *)

\* Who has written an association row has written its surface, or is about to.
HoldsSurfaces(t) ==
    \A s \in Surfaces, c \in Curves :
        <<s, c>> \in DOMAIN t.delta =>
            s \in DOMAIN t.delta \/ (t.pc = "remove" /\ t.item.feature = s)

Unchecked == {"idle", "items", "write", "remove", "missing", "structure"}

\* Until the structure check, what is written is touched, ...
RemembersSurfaces(t) ==
    t.pc \in Unchecked => DOMAIN t.delta \cap Surfaces \subseteq t.touched

\* ... and after it every written surface is acceptable, whoever commits.
HasCheckedSurfaces(t, d) ==
    t.pc \notin Unchecked =>
        \A s \in DOMAIN t.delta \cap Surfaces :
            Exists(t.delta, s) => StructureIsValid(Over(t.delta, d), s)

\* A direct write checks nothing, and writes no surface.
KeepsOffSurfaces(t) ==
    t.direct =>
        /\ t.pc \in {"items", "write", "remove", "commit"}
        /\ DOMAIN t.delta \cap Surfaces = {}
        /\ t.pc \in {"write", "remove"} => t.item.feature \notin Surfaces

MeasuresSurfaces(t) == DOMAIN t.measured \subseteq Surfaces

Sound(t, d) ==
    /\ HoldsSurfaces(t)
    /\ RemembersSurfaces(t)
    /\ HasCheckedSurfaces(t, d)
    /\ KeepsOffSurfaces(t)
    /\ MeasuresSurfaces(t)

StructureInv ==
    /\ TypeOK
    /\ StructureHolds
    /\ \A x \in Sessions : Sound(tx[x], db)

\* No boundary role depends on a field of the curve, and surfaces are written
\* in transactions only.
UnconditionalSurfaces == WhenRoles = {} /\ Simple \cap Surfaces = {}

-----------------------------------------------------------------------------

\* Without conditions a boundary is as acceptable as its association rows.
LEMMA StructureDependsOnLinks ==
    ASSUME UnconditionalSurfaces, NEW d, NEW e, NEW s \in Surfaces,
           \A c \in Curves : d[<<s, c>>] = e[<<s, c>>]
    PROVE  StructureIsValid(d, s) <=> StructureIsValid(e, s)
<1>1. \A c : Counts(d, c) <=> Counts(e, c)
  BY DEF Counts, UnconditionalSurfaces
<1>2. Targets(d, s) = Targets(e, s)
  BY DEF Targets, Linked, Exists
<1>3. Included(d, s) = Included(e, s)
  BY <1>1, <1>2 DEF Included
<1>4. IncludedRoles(d, s) = IncludedRoles(e, s)
  BY <1>3 DEF IncludedRoles
<1> QED
  BY <1>3, <1>4 DEF StructureIsValid

\* The parts of a transaction that the invariant speaks of.
LEMMA TransactionFacts ==
    ASSUME TypeOK, NEW x \in Sessions
    PROVE  /\ tx[x].delta \in Deltas(Keys)
           /\ tx[x].measured \in Deltas(Keys)
           /\ db \in Database
           /\ DOMAIN db = Keys
BY DEF TypeOK, Transactions, Database

LEMMA IdleIsSound ==
    ASSUME NEW d PROVE Sound(Idle, d)
<1>1. /\ Idle.pc = "idle"
      /\ Idle.direct = FALSE
      /\ DOMAIN Idle.delta = {}
      /\ DOMAIN Idle.measured = {}
  BY NoRowsFacts DEF Idle
<1> HIDE DEF Idle
<1> QED
  BY <1>1 DEF Sound, HoldsSurfaces, RemembersSurfaces, HasCheckedSurfaces,
              KeepsOffSurfaces, MeasuresSurfaces, Unchecked

\* What a step that only changes the transaction of x has to show.
LEMMA StepIsSound ==
    ASSUME StructureInv, TypeOK', NEW x \in Sessions, NEW from, NEW to,
           Step(x, from, to), Sound(to, db)
    PROVE  StructureInv'
<1>1. /\ db' = db
      /\ tx' = [tx EXCEPT ![x] = to]
      /\ tx \in [Sessions -> Transactions(Keys)]
  BY DEF Step, StructureInv, TypeOK
<1>2. \A y \in Sessions : tx'[y] = IF y = x THEN to ELSE tx[y]
  BY <1>1
<1>3. StructureHolds'
  BY <1>1 DEF StructureInv, StructureHolds
<1>4. \A y \in Sessions : Sound(tx'[y], db')
  BY <1>1, <1>2 DEF StructureInv
<1> QED
  BY <1>3, <1>4 DEF StructureInv

LEMMA RollbackIsSound ==
    ASSUME StructureInv, TypeOK', NEW x \in Sessions, NEW from, Rollback(x, from)
    PROVE  StructureInv'
BY IdleIsSound, StepIsSound DEF Rollback

\* Going on from one phase to another on the same side of the structure check.
LEMMA PhaseIsSound ==
    ASSUME StructureInv, TypeOK', NEW x \in Sessions,
           NEW from \in {"missing", "bounds"},
           NEW pc \in {"structure", "geometry"},
           pc \in Unchecked <=> from \in Unchecked,
           Step(x, from, [tx[x] EXCEPT !.pc = pc])
    PROVE  StructureInv'
<1> DEFINE to == [tx[x] EXCEPT !.pc = pc]
           t == tx[x]
<1>1. t \in Transactions(Keys) /\ Sound(t, db) /\ t.pc = from
  BY DEF StructureInv, TypeOK, Step
<1>2. /\ to.pc = pc
      /\ to.direct = t.direct
      /\ to.delta = t.delta
      /\ to.touched = t.touched
      /\ to.measured = t.measured
  BY <1>1 DEF Transactions
<1>3. Step(x, from, to)
  OBVIOUS
<1> HIDE DEF to, t
<1>4. Sound(to, db)
  BY <1>1, <1>2 DEF Sound, HoldsSurfaces, RemembersSurfaces, HasCheckedSurfaces,
                    KeepsOffSurfaces, MeasuresSurfaces, Unchecked
<1> QED
  BY <1>3, <1>4, StepIsSound

LEMMA BeginIsSound ==
    ASSUME StructureInv, TypeOK', NEW x \in Sessions, Begin(x)
    PROVE  StructureInv'
<1>1. PICK direct \in BOOLEAN :
          Step(x, "idle", [Idle EXCEPT !.pc = "items", !.direct = direct,
                                       !.left = IF direct THEN 1 ELSE MaxItems])
  BY DEF Begin
<1> DEFINE to == [Idle EXCEPT !.pc = "items", !.direct = direct,
                              !.left = IF direct THEN 1 ELSE MaxItems]
<1>2. /\ to.pc = "items"
      /\ DOMAIN to.delta = {}
      /\ DOMAIN to.measured = {}
  BY NoRowsFacts DEF Idle
<1>3. Step(x, "idle", to)
  BY <1>1
<1> HIDE DEF to
<1>4. Sound(to, db)
  BY <1>2 DEF Sound, HoldsSurfaces, RemembersSurfaces, HasCheckedSurfaces,
              KeepsOffSurfaces, MeasuresSurfaces, Unchecked
<1> QED
  BY <1>3, <1>4, StepIsSound

LEMMA TakeItemIsSound ==
    ASSUME UnconditionalSurfaces, StructureInv, TypeOK', NEW x \in Sessions, TakeItem(x)
    PROVE  StructureInv'
<1>1. PICK i \in ItemsFor(x) :
          \/ Rollback(x, "items")
          \/ Step(x, "items", [tx[x] EXCEPT !.pc = "write", !.item = i,
                                            !.left = @ - 1,
                                            !.dirty = @ \cup TargetsBefore(x, i)])
  BY DEF TakeItem
<1>2. CASE Rollback(x, "items")
  BY <1>2, RollbackIsSound
<1>3. CASE Step(x, "items", [tx[x] EXCEPT !.pc = "write", !.item = i,
                                         !.left = @ - 1,
                                         !.dirty = @ \cup TargetsBefore(x, i)])
  <2> DEFINE t == tx[x]
             fewer == t.left - 1
             dirty == t.dirty \cup TargetsBefore(x, i)
             to == [t EXCEPT !.pc = "write", !.item = i, !.left = fewer, !.dirty = dirty]
  <2>1. t \in Transactions(Keys) /\ Sound(t, db) /\ t.pc = "items"
    BY <1>3 DEF StructureInv, TypeOK, Step
  <2>2. Step(x, "items", to)
    BY <1>3
  <2>3. t.direct => i.feature \notin Surfaces
    BY DEF ItemsFor, UnconditionalSurfaces
  <2> HIDE DEF fewer, dirty
  <2>4. /\ to.pc = "write"
        /\ to.item = i
        /\ to.direct = t.direct
        /\ to.delta = t.delta
        /\ to.touched = t.touched
        /\ to.measured = t.measured
    BY <2>1 DEF Transactions
  <2> HIDE DEF to, t
  <2>5. Sound(to, db)
    BY <2>1, <2>3, <2>4 DEF Sound, HoldsSurfaces, RemembersSurfaces,
       HasCheckedSurfaces, KeepsOffSurfaces, MeasuresSurfaces, Unchecked
  <2> QED
    BY <2>2, <2>5, StepIsSound
<1> QED
  BY <1>1, <1>2, <1>3

\* The parts of a transaction after an item.
LEMMA AfterItemParts ==
    ASSUME TypeOK, NEW x \in Sessions, NEW delta
    PROVE  LET t == tx[x]
               to == AfterItem(x, delta)
           IN  /\ to.pc = IF t.direct THEN "commit" ELSE "items"
               /\ to.direct = t.direct
               /\ to.delta = delta
               /\ to.touched = t.touched \cup {t.item.feature}
               /\ to.measured = t.measured
<1>1. tx[x] \in Transactions(Keys)
  BY DEF TypeOK
<1> QED
  BY <1>1 DEF AfterItem, Transactions

\* A session that has written rows of one feature, the feature among them.
LEMMA AfterItemIsSound ==
    ASSUME StructureInv, TypeOK', NEW x \in Sessions,
           NEW from \in {"write", "remove"},
           NEW rows \in Deltas(Keys),
           tx[x].item.feature \in DOMAIN rows,
           \A k \in DOMAIN rows \cap Features : k = tx[x].item.feature,
           \A s \in Surfaces, c \in Curves :
               <<s, c>> \in DOMAIN rows => s = tx[x].item.feature,
           Step(x, from, AfterItem(x, Write(x, rows)))
    PROVE  StructureInv'
<1> DEFINE t == tx[x]
           delta == Write(x, rows)
           to == AfterItem(x, delta)
<1>1. TypeOK /\ Sound(t, db) /\ t.pc = from
  BY DEF StructureInv, Step
<1>2. DOMAIN delta = DOMAIN rows \cup DOMAIN t.delta
  BY <1>1, TransactionFacts, OverDelta DEF Write
<1> HIDE DEF delta
<1>3. /\ to.pc = IF t.direct THEN "commit" ELSE "items"
      /\ to.direct = t.direct
      /\ to.delta = delta
      /\ to.touched = t.touched \cup {t.item.feature}
      /\ to.measured = t.measured
  BY <1>1, AfterItemParts
<1>4. Step(x, from, to)
  BY DEF delta
<1> HIDE DEF to, t
<1>5. HoldsSurfaces(to)
  <2> SUFFICES ASSUME NEW s \in Surfaces, NEW c \in Curves, <<s, c>> \in DOMAIN delta
               PROVE  s \in DOMAIN delta
    BY <1>3 DEF HoldsSurfaces
  <2>1. CASE <<s, c>> \in DOMAIN rows
    BY <1>2, <2>1 DEF t
  <2>2. CASE <<s, c>> \in DOMAIN t.delta
    BY <1>1, <1>2, <2>2 DEF Sound, HoldsSurfaces, t
  <2> QED
    BY <1>2, <2>1, <2>2
<1>6. DOMAIN delta \cap Surfaces \subseteq (DOMAIN t.delta \cap Surfaces) \cup {t.item.feature}
  BY <1>2 DEF t, Features
<1>7. RemembersSurfaces(to)
  BY <1>1, <1>3, <1>6 DEF Sound, RemembersSurfaces, Unchecked
<1>8. KeepsOffSurfaces(to)
  BY <1>1, <1>3, <1>6 DEF Sound, KeepsOffSurfaces
<1>9. HasCheckedSurfaces(to, db)
  <2>1. CASE t.direct
    BY <1>3, <1>8, <2>1 DEF HasCheckedSurfaces, KeepsOffSurfaces
  <2>2. CASE ~ t.direct
    BY <1>3, <2>2 DEF HasCheckedSurfaces, Unchecked
  <2> QED
    BY <2>1, <2>2
<1>10. MeasuresSurfaces(to)
  BY <1>1, <1>3 DEF Sound, MeasuresSurfaces
<1>11. Sound(to, db)
  BY <1>5, <1>7, <1>8, <1>9, <1>10 DEF Sound
<1> QED
  BY <1>4, <1>11, StepIsSound

LEMMA WriteFeatureIsSound ==
    ASSUME StructureInv, TypeOK', NEW x \in Sessions, WriteFeature(x)
    PROVE  StructureInv'
<1> DEFINE i == tx[x].item
           rows == RowsWritten(x, i)
<1>1. i \in Items
  BY DEF StructureInv, TypeOK, WriteFeature
<1>2. \/ Rollback(x, "write")
      \/ Step(x, "write", AfterItem(x, Write(x, rows)))
  BY DEF WriteFeature
<1>3. /\ rows \in Deltas(Keys)
      /\ DOMAIN rows = {i.feature} \cup Cleared(x, i) \cup Added(i)
  BY <1>1, RowsWrittenType
<1>4. \A k \in Cleared(x, i) \cup Added(i) : \E c \in Curves : k = <<i.feature, c>>
  BY <1>1, ItemFacts DEF Cleared, Added
<1>5. Cleared(x, i) \cup Added(i) # {} => i.feature \in Surfaces
  BY <1>1, ItemFacts DEF Cleared, Added
<1> HIDE DEF rows
<1>6. \A k \in DOMAIN rows \cap Features : k = i.feature
  BY <1>3, <1>4, <1>5, KeyFacts
<1>7. \A s \in Surfaces, c \in Curves : <<s, c>> \in DOMAIN rows => s = i.feature
  <2> SUFFICES ASSUME NEW s \in Surfaces, NEW c \in Curves, <<s, c>> \in DOMAIN rows
               PROVE  s = i.feature
    OBVIOUS
  <2>1. <<s, c>> # i.feature
    BY <1>1, ItemFacts, KeyFacts
  <2> QED
    BY <1>3, <1>4, <2>1
<1> QED
  BY <1>2, <1>3, <1>6, <1>7, AfterItemIsSound, RollbackIsSound

LEMMA UnlinkFeatureIsSound ==
    ASSUME StructureInv, TypeOK', NEW x \in Sessions, UnlinkFeature(x)
    PROVE  StructureInv'
<1> DEFINE t == tx[x]
           i == t.item
           links == {<<i.feature, c>> : c \in {c \in Curves :
                        i.feature \in Surfaces /\ Linked(View(x), i.feature, c)}}
           rows == [k \in links |-> NoRow]
           to == [t EXCEPT !.pc = "remove", !.delta = Write(x, rows)]
<1>1. /\ TypeOK
      /\ t \in Transactions(Keys)
      /\ Sound(t, db)
      /\ t.pc = "write"
  BY DEF StructureInv, TypeOK, UnlinkFeature
<1>2. Step(x, "write", to)
  BY DEF UnlinkFeature
<1>3. /\ links \subseteq Pairs
      /\ \A s \in Surfaces, c \in Curves : <<s, c>> \in links => s = i.feature
  BY DEF Pairs
<1>4. rows \in Deltas(Keys) /\ DOMAIN rows = links
  <2>1. links \in SUBSET Keys
    BY <1>3 DEF Keys
  <2> QED
    BY <2>1, NoRowDelta
<1> HIDE DEF rows, links
<1>5. DOMAIN Write(x, rows) = links \cup DOMAIN t.delta
  BY <1>1, <1>4, TransactionFacts, OverDelta DEF Write
<1>6. /\ to.pc = "remove"
      /\ to.item = i
      /\ to.direct = t.direct
      /\ to.delta = Write(x, rows)
      /\ to.touched = t.touched
      /\ to.measured = t.measured
  BY <1>1 DEF Transactions
<1> HIDE DEF to, t
<1>7. DOMAIN to.delta \cap Surfaces = DOMAIN t.delta \cap Surfaces
  BY <1>3, <1>5, <1>6, TopologyAssumption DEF Features
<1>8. HoldsSurfaces(to)
  BY <1>1, <1>3, <1>5, <1>6 DEF Sound, HoldsSurfaces
<1>9. RemembersSurfaces(to)
  BY <1>1, <1>6, <1>7 DEF Sound, RemembersSurfaces, Unchecked
<1>10. HasCheckedSurfaces(to, db)
  BY <1>6 DEF HasCheckedSurfaces, Unchecked
<1>11. KeepsOffSurfaces(to)
  BY <1>1, <1>6, <1>7 DEF Sound, KeepsOffSurfaces
<1>12. MeasuresSurfaces(to)
  BY <1>1, <1>6 DEF Sound, MeasuresSurfaces
<1>13. Sound(to, db)
  BY <1>8, <1>9, <1>10, <1>11, <1>12 DEF Sound
<1> QED
  BY <1>2, <1>13, StepIsSound

LEMMA RemoveFeatureIsSound ==
    ASSUME StructureInv, TypeOK', NEW x \in Sessions, RemoveFeature(x)
    PROVE  StructureInv'
<1> DEFINE f == tx[x].item.feature
           rows == [k \in {f} |-> NoRow]
<1>1. f \in Features
  BY ItemFacts DEF StructureInv, TypeOK, RemoveFeature
<1>2. \/ Rollback(x, "remove")
      \/ Step(x, "remove", AfterItem(x, Write(x, rows)))
  BY DEF RemoveFeature
<1>3. rows \in Deltas(Keys) /\ DOMAIN rows = {f}
  <2>1. {f} \in SUBSET Keys
    BY <1>1 DEF Keys
  <2> QED
    BY <2>1, NoRowDelta
<1> HIDE DEF rows
<1>4. \A s \in Surfaces, c \in Curves : <<s, c>> \notin DOMAIN rows
  BY <1>1, <1>3, KeyFacts
<1> QED
  BY <1>2, <1>3, <1>4, AfterItemIsSound, RollbackIsSound

LEMMA EndItemsIsSound ==
    ASSUME StructureInv, TypeOK', NEW x \in Sessions, EndItems(x)
    PROVE  StructureInv'
<1> DEFINE t == tx[x]
           pc == IF t.touched = {} THEN "commit" ELSE "missing"
           to == [t EXCEPT !.pc = pc]
<1>1. t \in Transactions(Keys) /\ Sound(t, db) /\ t.pc = "items" /\ ~ t.direct
  BY DEF StructureInv, TypeOK, EndItems, Step
<1>2. Step(x, "items", to)
  BY DEF EndItems
<1>3. pc = "missing" \/ (pc = "commit" /\ t.touched = {})
  OBVIOUS
<1> HIDE DEF pc
<1>4. /\ to.pc = pc
      /\ to.direct = t.direct
      /\ to.delta = t.delta
      /\ to.touched = t.touched
      /\ to.measured = t.measured
  BY <1>1 DEF Transactions
<1> HIDE DEF to, t
<1>5. pc = "commit" => DOMAIN t.delta \cap Surfaces = {}
  BY <1>1, <1>3 DEF Sound, RemembersSurfaces, Unchecked
<1>6. Sound(to, db)
  BY <1>1, <1>3, <1>4, <1>5 DEF Sound, HoldsSurfaces, RemembersSurfaces,
     HasCheckedSurfaces, KeepsOffSurfaces, MeasuresSurfaces, Unchecked
<1> QED
  BY <1>2, <1>6, StepIsSound

LEMMA CheckStructureIsSound ==
    ASSUME StructureInv, TypeOK', NEW x \in Sessions, CheckStructure(x)
    PROVE  StructureInv'
<1> DEFINE t == tx[x]
           to == [t EXCEPT !.pc = "bounds"]
           passes == \A s \in DirtySurfaces(x) :
                         Exists(View(x), s) => StructureIsValid(View(x), s)
<1>1. \/ Rollback(x, "structure")
      \/ passes /\ Step(x, "structure", to)
  BY DEF CheckStructure, Check
<1>2. CASE Rollback(x, "structure")
  BY <1>2, RollbackIsSound
<1>3. CASE passes /\ Step(x, "structure", to)
  <2>1. t \in Transactions(Keys) /\ Sound(t, db) /\ t.pc = "structure" /\ TypeOK
    BY <1>3 DEF StructureInv, TypeOK, Step
  <2>2. /\ to.pc = "bounds"
        /\ to.direct = t.direct
        /\ to.delta = t.delta
        /\ to.touched = t.touched
        /\ to.measured = t.measured
    BY <2>1 DEF Transactions
  <2>3. \A s \in DOMAIN t.delta \cap Surfaces :
            Exists(t.delta, s) => StructureIsValid(Over(t.delta, db), s)
    <3> SUFFICES ASSUME NEW s \in DOMAIN t.delta \cap Surfaces, Exists(t.delta, s)
                 PROVE  StructureIsValid(View(x), s)
      BY DEF View
    <3>1. s \in DirtySurfaces(x)
      BY <2>1 DEF Sound, RemembersSurfaces, Unchecked, DirtySurfaces
    <3>2. Exists(View(x), s)
      BY <2>1, ViewFacts DEF Exists
    <3> QED
      BY <1>3, <3>1, <3>2
  <2> HIDE DEF to, t, passes
  <2>4. Sound(to, db)
    BY <2>1, <2>2, <2>3 DEF Sound, HoldsSurfaces, RemembersSurfaces,
       HasCheckedSurfaces, KeepsOffSurfaces, MeasuresSurfaces, Unchecked
  <2> QED
    BY <1>3, <2>4, StepIsSound
<1> QED
  BY <1>1, <1>2, <1>3

LEMMA MeasureFootprintsIsSound ==
    ASSUME StructureInv, TypeOK', NEW x \in Sessions, MeasureFootprints(x)
    PROVE  StructureInv'
<1> DEFINE t == tx[x]
           present == {s \in DirtySurfaces(x) : Exists(View(x), s)}
           rows == [s \in present |-> SurfaceRow(LineworkOf(View(x), s))]
           to == [t EXCEPT !.pc = "refresh", !.measured = rows]
<1>1. \/ Rollback(x, "geometry")
      \/ Step(x, "geometry", to)
  BY DEF MeasureFootprints
<1>2. DOMAIN rows \subseteq Surfaces
  BY DEF DirtySurfaces, Sources
<1> HIDE DEF rows
<1>3. CASE Rollback(x, "geometry")
  BY <1>3, RollbackIsSound
<1>4. CASE Step(x, "geometry", to)
  <2>1. t \in Transactions(Keys) /\ Sound(t, db) /\ t.pc = "geometry"
    BY <1>4 DEF StructureInv, TypeOK, Step
  <2>2. /\ to.pc = "refresh"
        /\ to.direct = t.direct
        /\ to.delta = t.delta
        /\ to.touched = t.touched
        /\ to.measured = rows
    BY <2>1 DEF Transactions
  <2> HIDE DEF to, t
  <2>3. Sound(to, db)
    BY <1>2, <2>1, <2>2 DEF Sound, HoldsSurfaces, RemembersSurfaces,
       HasCheckedSurfaces, KeepsOffSurfaces, MeasuresSurfaces, Unchecked
  <2> QED
    BY <1>4, <2>3, StepIsSound
<1> QED
  BY <1>1, <1>3, <1>4

\* A committed surface whose row a transaction does not hold looks to it as it
\* does to everyone.
LEMMA UnheldSurface ==
    ASSUME UnconditionalSurfaces, StructureInv, NEW x \in Sessions,
           tx[x].pc # "remove", NEW s \in Surfaces \ DOMAIN tx[x].delta
    PROVE  /\ View(x)[s] = db[s]
           /\ \A c \in Curves : View(x)[<<s, c>>] = db[<<s, c>>]
           /\ Exists(View(x), s) => StructureIsValid(View(x), s)
<1>1. TypeOK /\ HoldsSurfaces(tx[x])
  BY DEF StructureInv, Sound
<1>2. View(x)[s] = db[s]
  BY <1>1, KeyFacts, ViewFacts
<1>3. \A c \in Curves : View(x)[<<s, c>>] = db[<<s, c>>]
  BY <1>1, KeyFacts, ViewFacts DEF HoldsSurfaces
<1>4. Exists(db, s) => StructureIsValid(db, s)
  BY DEF StructureInv, StructureHolds
<1>5. StructureIsValid(View(x), s) <=> StructureIsValid(db, s)
  BY <1>3, StructureDependsOnLinks
<1> QED
  BY <1>2, <1>3, <1>4, <1>5 DEF Exists

LEMMA StoreFootprintsIsSound ==
    ASSUME UnconditionalSurfaces, StructureInv, TypeOK', NEW x \in Sessions,
           StoreFootprints(x)
    PROVE  StructureInv'
<1> DEFINE t == tx[x]
           there == {s \in DOMAIN t.measured : Exists(View(x), s)}
           rows == [s \in there |-> t.measured[s]]
           delta == Write(x, rows)
           to == [t EXCEPT !.pc = "commit", !.measured = NoRows, !.delta = delta]
<1>1. /\ TypeOK
      /\ t \in Transactions(Keys)
      /\ Sound(t, db)
      /\ t.pc = "refresh"
  BY DEF StructureInv, TypeOK, StoreFootprints, Step
<1>2. Step(x, "refresh", to)
  BY DEF StoreFootprints
<1>3. there \subseteq Surfaces
  BY <1>1 DEF Sound, MeasuresSurfaces
<1>4. rows \in Deltas(Keys) /\ DOMAIN rows = there
  <2>1. there \in SUBSET Keys
    BY <1>3, KeyFacts
  <2>2. \A s \in there : rows[s] \in RowsOf(s) \cup {NoRow}
    BY <1>1, TransactionFacts, DeltaFacts
  <2>3. rows = [s \in there |-> rows[s]]
    OBVIOUS
  <2> HIDE DEF rows, there
  <2> QED
    BY <2>1, <2>2, <2>3, IsDelta
<1>5. \A s \in there : Exists(View(x), s)
  OBVIOUS
<1> HIDE DEF rows, there
<1>6. /\ delta \in Deltas(Keys)
      /\ DOMAIN delta = there \cup DOMAIN t.delta
      /\ \A k \in DOMAIN t.delta \ there : delta[k] = t.delta[k]
  BY <1>1, <1>4, TransactionFacts, OverDelta DEF Write
<1> HIDE DEF delta
<1>7. /\ to.pc = "commit"
      /\ to.direct = t.direct
      /\ to.delta = delta
      /\ DOMAIN to.measured = {}
  BY <1>1, NoRowsFacts DEF Transactions
<1>8. \A s \in DOMAIN delta \cap Surfaces :
          Exists(delta, s) => StructureIsValid(Over(delta, db), s)
  <2> SUFFICES ASSUME NEW s \in DOMAIN delta \cap Surfaces, Exists(delta, s)
               PROVE  StructureIsValid(Over(delta, db), s)
    OBVIOUS
  <2>1. StructureIsValid(View(x), s)
    <3>1. CASE s \in DOMAIN t.delta
      <4>1. Exists(t.delta, s)
        BY <1>1, <1>5, <1>6, <3>1, ViewFacts DEF Exists
      <4> QED
        BY <1>1, <3>1, <4>1 DEF Sound, HasCheckedSurfaces, Unchecked, View
    <3>2. CASE s \notin DOMAIN t.delta
      BY <1>1, <1>5, <1>6, <3>2, UnheldSurface
    <3> QED
      BY <3>1, <3>2
  <2>2. \A c \in Curves : Over(delta, db)[<<s, c>>] = View(x)[<<s, c>>]
    <3> SUFFICES ASSUME NEW c \in Curves
                 PROVE  Over(delta, db)[<<s, c>>] = View(x)[<<s, c>>]
      OBVIOUS
    <3>1. <<s, c>> \in Keys /\ <<s, c>> \notin there
      BY <1>3, KeyFacts DEF Features
    <3>2. CASE <<s, c>> \in DOMAIN t.delta
      BY <1>1, <1>6, <3>1, <3>2, TransactionFacts, OverDatabase, ViewFacts
    <3>3. CASE <<s, c>> \notin DOMAIN t.delta
      BY <1>1, <1>6, <3>1, <3>3, TransactionFacts, OverDatabase, ViewFacts
    <3> QED
      BY <3>2, <3>3
  <2> QED
    BY <2>1, <2>2, StructureDependsOnLinks
<1>9. HoldsSurfaces(to)
  <2> SUFFICES ASSUME NEW s \in Surfaces, NEW c \in Curves, <<s, c>> \in DOMAIN delta
               PROVE  s \in DOMAIN delta
    BY <1>7 DEF HoldsSurfaces
  <2>1. <<s, c>> \in DOMAIN t.delta
    BY <1>3, <1>6, KeyFacts DEF Features
  <2> QED
    BY <1>1, <1>6, <2>1 DEF Sound, HoldsSurfaces
<1>10. ~ t.direct
  BY <1>1 DEF Sound, KeepsOffSurfaces
<1> HIDE DEF to, t
<1>11. Sound(to, db)
  BY <1>7, <1>8, <1>9, <1>10 DEF Sound, RemembersSurfaces, HasCheckedSurfaces,
     KeepsOffSurfaces, MeasuresSurfaces, Unchecked
<1> QED
  BY <1>2, <1>11, StepIsSound

\* What other sessions have checked stays right when x commits.
LEMMA OthersStaySound ==
    ASSUME UnconditionalSurfaces, StructureInv, NEW x \in Sessions,
           NEW y \in Sessions \ {x}, tx[x].pc = "commit"
    PROVE  Sound(tx[y], View(x))
<1> DEFINE t == tx[y]
<1>1. TypeOK /\ Sound(t, db) /\ HoldsSurfaces(tx[x])
  BY DEF StructureInv, Sound
<1>2. HasCheckedSurfaces(t, View(x))
  <2> SUFFICES ASSUME t.pc \notin Unchecked, NEW s \in DOMAIN t.delta \cap Surfaces,
                      Exists(t.delta, s)
               PROVE  StructureIsValid(Over(t.delta, View(x)), s)
    BY DEF HasCheckedSurfaces
  <2>1. StructureIsValid(Over(t.delta, db), s)
    BY <1>1 DEF Sound, HasCheckedSurfaces
  <2>2. s \notin DOMAIN tx[x].delta
    BY <1>1 DEF TypeOK
  <2>3. \A c \in Curves : Over(t.delta, View(x))[<<s, c>>] = Over(t.delta, db)[<<s, c>>]
    <3> SUFFICES ASSUME NEW c \in Curves
                 PROVE  Over(t.delta, View(x))[<<s, c>>] = Over(t.delta, db)[<<s, c>>]
      OBVIOUS
    <3>1. View(x)[<<s, c>>] = db[<<s, c>>]
      BY <2>2, UnheldSurface
    <3>2. /\ <<s, c>> \in Keys
          /\ t.delta \in Deltas(Keys)
          /\ db \in Database
          /\ View(x) \in Database
      BY <1>1, KeyFacts, TransactionFacts, ViewFacts
    <3>3. CASE <<s, c>> \in DOMAIN t.delta
      BY <3>2, <3>3, OverDatabase
    <3>4. CASE <<s, c>> \notin DOMAIN t.delta
      BY <3>1, <3>2, <3>4, OverDatabase
    <3> QED
      BY <3>3, <3>4
  <2> QED
    BY <2>1, <2>3, StructureDependsOnLinks
<1> QED
  BY <1>1, <1>2 DEF Sound

LEMMA CommitIsSound ==
    ASSUME UnconditionalSurfaces, StructureInv, TypeOK', NEW x \in Sessions, Commit(x)
    PROVE  StructureInv'
<1>1. /\ TypeOK
      /\ Sound(tx[x], db)
      /\ tx[x].pc = "commit"
      /\ db' = View(x)
      /\ tx' = [tx EXCEPT ![x] = Idle]
      /\ tx \in [Sessions -> Transactions(Keys)]
  BY DEF StructureInv, TypeOK, Commit
<1>2. \A s \in Surfaces : Exists(View(x), s) => StructureIsValid(View(x), s)
  <2> SUFFICES ASSUME NEW s \in Surfaces, Exists(View(x), s)
               PROVE  StructureIsValid(View(x), s)
    OBVIOUS
  <2>1. CASE s \in DOMAIN tx[x].delta
    <3>1. Exists(tx[x].delta, s)
      BY <1>1, <2>1, ViewFacts DEF Exists
    <3> QED
      BY <1>1, <2>1, <3>1 DEF Sound, HasCheckedSurfaces, Unchecked, View
  <2>2. CASE s \notin DOMAIN tx[x].delta
    BY <1>1, <2>2, UnheldSurface
  <2> QED
    BY <2>1, <2>2
<1>3. \A y \in Sessions : tx'[y] = IF y = x THEN Idle ELSE tx[y]
  BY <1>1
<1>4. \A y \in Sessions : Sound(tx'[y], db')
  BY <1>1, <1>3, IdleIsSound, OthersStaySound
<1> QED
  BY <1>1, <1>2, <1>4 DEF StructureInv, StructureHolds

-----------------------------------------------------------------------------

\* Where no boundary role has a condition and surfaces are written only in
\* transactions, no interleaving of any number of sessions commits a surface
\* without the boundary it needs or with roles that do not go together: the
\* structure check of ogc.transaction, made on a snapshot that other sessions
\* go on changing, stays true until the commit.
THEOREM StructureIsKept ==
    ASSUME UnconditionalSurfaces PROVE Spec => []StructureHolds
<1>1. Init => StructureInv
  <2> SUFFICES ASSUME Init PROVE StructureInv
    OBVIOUS
  <2>1. TypeOK
    BY InitType
  <2>2. StructureHolds
    BY KeyFacts DEF Init, EmptyDatabase, StructureHolds, Exists
  <2>3. \A x \in Sessions : Sound(tx[x], db)
    BY IdleIsSound DEF Init
  <2> QED
    BY <2>1, <2>2, <2>3 DEF StructureInv
<1>2. StructureInv /\ [Next]_vars => StructureInv'
  <2> SUFFICES ASSUME StructureInv, [Next]_vars PROVE StructureInv'
    OBVIOUS
  <2>1. CASE Next
    <3>1. PICK x \in Sessions : Session(x)
      BY <2>1 DEF Next
    <3>2. TypeOK'
      BY <3>1, SessionType DEF StructureInv
    <3>3. CASE CheckMissing(x)
      BY <3>2, <3>3, PhaseIsSound, RollbackIsSound DEF CheckMissing, Check, Unchecked
    <3>4. CASE CheckBounds(x)
      BY <3>2, <3>4, PhaseIsSound, RollbackIsSound DEF CheckBounds, Check, Unchecked
    <3>5. CASE Abort(x)
      BY <3>2, <3>5, RollbackIsSound DEF Abort
    <3> QED
      BY <3>1, <3>2, <3>3, <3>4, <3>5, BeginIsSound, TakeItemIsSound,
         WriteFeatureIsSound, UnlinkFeatureIsSound, RemoveFeatureIsSound,
         EndItemsIsSound, CheckStructureIsSound, MeasureFootprintsIsSound,
         StoreFootprintsIsSound, CommitIsSound
      DEF Session
  <2>2. CASE UNCHANGED vars
    BY <2>2 DEF vars, StructureInv, TypeOK, StructureHolds
  <2> QED
    BY <2>1, <2>2
<1>3. StructureInv => StructureHolds
  BY DEF StructureInv
<1> QED
  BY <1>1, <1>2, <1>3, PTL DEF Spec
=============================================================================
