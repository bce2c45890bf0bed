--------------------------- MODULE SchemaApplyProofs ---------------------------
(***************************************************************************)
(* The runs of apply-schema: what they commit stage by stage keeps what is *)
(* installed sound, whole and served, wherever a run ends and whatever the *)
(* descriptions become.                                                    *)
(***************************************************************************)
EXTENDS SchemaApply, TLAPS

-----------------------------------------------------------------------------
(* Lists, names, and maps that go over each other.                          *)

LEMMA OverDomain ==
    \A f, g : DOMAIN Over(f, g) = (DOMAIN f) \cup (DOMAIN g)
BY DEF Over

LEMMA OverFirst ==
    \A f, g : \A x \in DOMAIN f : Over(f, g)[x] = f[x]
BY DEF Over

LEMMA OverSecond ==
    \A f, g : \A x \in (DOMAIN g) \ DOMAIN f : Over(f, g)[x] = g[x]
BY DEF Over

LEMMA NamedIsThere ==
    ASSUME NEW s, NEW n \in Names(s)
    PROVE  Named(s, n) \in ToSet(s) /\ Named(s, n).name = n
BY DEF Named, Names

LEMMA NamedIsUnique ==
    ASSUME NEW s, NamesAreDistinct(s), NEW x \in ToSet(s)
    PROVE  x.name \in Names(s) /\ Named(s, x.name) = x
<1>1. x.name \in Names(s)
  BY DEF Names
<1>2. \A y \in ToSet(s) : y.name = x.name => y = x
  BY DEF ToSet, NamesAreDistinct
<1> QED
  BY <1>1, <1>2, NamedIsThere

\* With distinct names, a role links to the target of its one relationship.
LEMMA TargetIsTheOne ==
    ASSUME NEW coll, IsASequence(coll.relationships), NamesAreDistinct(coll.relationships),
           NEW rel \in ToSet(coll.relationships)
    PROVE  TargetOf(coll, rel.name) = rel.target
<1> DEFINE s == coll.relationships
<1> DEFINE IsLast(i) == s[i].name = rel.name /\ \A j \in DOMAIN s : s[j].name = rel.name => j <= i
<1>1. PICK i \in DOMAIN s : s[i] = rel
  BY DEF ToSet
<1>2. DOMAIN s \subseteq Nat
  <2>1. s \in Seq(ToSet(s))
    BY DEF IsASequence
  <2> QED
    BY <2>1
<1>3. \A j \in DOMAIN s : s[j].name = rel.name => j = i
  BY <1>1 DEF NamesAreDistinct
<1>4. IsLast(i)
  <2>1. i <= i
    BY <1>2
  <2> QED
    BY <1>1, <1>3, <2>1
<1>5. (CHOOSE j \in DOMAIN s : IsLast(j)) = i
  <2>1. \A j \in DOMAIN s : IsLast(j) => j = i
    BY <1>3
  <2> HIDE DEF IsLast
  <2> QED
    BY <1>4, <2>1
<1>6. TargetOf(coll, rel.name) = s[CHOOSE j \in DOMAIN s : IsLast(j)].target
  BY DEF TargetOf
<1> QED
  BY <1>1, <1>5, <1>6

-----------------------------------------------------------------------------
(* What a version that resolves and deploys is like.                        *)

Collections(v) == Descriptions[v].collections

\* The database took its names: no insert of it met the same key twice.
Deployed(v) ==
    /\ NamesAreDistinct(Collections(v))
    /\ \A c \in ToSet(Collections(v)) : NamesAreDistinct(c.relationships)

\* The collection a plan is made from, and the checks it went through.
LEMMA PlannedCollection ==
    ASSUME NEW v \in Valid, NEW n \in DOMAIN Resolved[v]
    PROVE  LET coll == Named(Collections(v), n)
               voc == Vocabulary(Descriptions[v], Commons)
           IN  /\ coll \in ToSet(Collections(v)) /\ coll.name = n
               /\ Resolved[v][n] = ResolvedCollection(coll, Commons, voc)
<1>1. Resolved[v] = ResolvedDataset(Descriptions[v], Commons)
  BY DEF Resolved
<1>2. n \in Names(Collections(v))
  BY <1>1 DEF ResolvedDataset, Collections
<1> QED
  BY <1>1, <1>2, NamedIsThere DEF ResolvedDataset, Collections

LEMMA PlannedNames ==
    ASSUME NEW v \in Valid
    PROVE  DOMAIN Resolved[v] = Names(Collections(v))
BY DEF Resolved, ResolvedDataset, Collections

\* The target of every relationship is a collection of the plan.
LEMMA TargetsAreThere ==
    ASSUME NEW v \in Valid, Deployed(v), NEW n \in DOMAIN Resolved[v],
           NEW p \in DOMAIN Resolved[v][n].roles
    PROVE  Resolved[v][n].roles[p] \in DOMAIN Resolved[v]
<1> DEFINE coll == Named(Collections(v), n)
<1> DEFINE voc == Vocabulary(Descriptions[v], Commons)
<1>1. coll \in ToSet(Collections(v)) /\ Resolved[v][n] = ResolvedCollection(coll, Commons, voc)
  BY PlannedCollection
<1>2. p \in Names(coll.relationships) /\ Resolved[v][n].roles[p] = TargetOf(coll, p)
  BY <1>1 DEF ResolvedCollection
<1>3. PICK rel \in ToSet(coll.relationships) : rel.name = p
  BY <1>2 DEF Names
<1>4. TargetOf(coll, rel.name) = rel.target
  BY <1>1, TargetIsTheOne, ListsAssumption DEF Deployed, Valid, Collections
<1>5. rel.target \in Names(Collections(v))
  BY <1>1, <1>3 DEF Valid, Resolves, RelationshipsResolve, Collections
<1> QED
  BY <1>2, <1>3, <1>4, <1>5, PlannedNames

\* The name of a field is an alias for nothing but that field.
LEMMA FieldsGoFirst ==
    ASSUME NEW fields, NEW outward, NEW n \in DOMAIN fields
    PROVE  AliasPaths(fields, outward)[<<n>>] = <<n>>
<1> DEFINE names == [a \in {<<m>> : m \in DOMAIN fields} |-> a]
<1>1. <<n>> \in DOMAIN names /\ names[<<n>>] = <<n>>
  OBVIOUS
<1>2. \A g : Over(names, g)[<<n>>] = <<n>>
  BY <1>1, OverFirst
<1>3. \E g : AliasPaths(fields, outward) = Over(names, g)
  BY Zenon DEF AliasPaths
<1> QED
  BY <1>2, <1>3

\* The upsert identifier is a stored field, and not one the database numbers.
LEMMA UpsertIsSound ==
    ASSUME NEW v \in Valid, NEW n \in DOMAIN Resolved[v],
           NEW c, c = Resolved[v][n], c.upsert # <<>>
    PROVE  /\ c.upsert[1] \in DOMAIN c.fields
           /\ Len(c.upsert) = 1 => ~ c.fields[c.upsert[1]].auto
           /\ Len(c.upsert) = 2 => c.upsert[2] \in DOMAIN c.fields[c.upsert[1]].children
<1> DEFINE coll == Named(Collections(v), n)
<1> DEFINE voc == Vocabulary(Descriptions[v], Commons)
<1> DEFINE fields == ResolvedFields(coll, Commons, voc)
<1> DEFINE upsert == UpsertField(coll, fields)
<1>1. coll \in ToSet(Collections(v)) /\ c = ResolvedCollection(coll, Commons, voc)
  BY PlannedCollection
<1>2. c.upsert = upsert /\ c.fields = fields
  BY <1>1 DEF ResolvedCollection
<1>3. /\ coll.outward # <<>> => PathExists(fields, coll.outward)
      /\ UpsertIsUsable(coll, fields)
  BY <1>1 DEF Valid, Resolves, Collections
<1>4. coll.outward \in Seq(ToSet(coll.outward))
  BY <1>1, ListsAssumption DEF Valid, Collections, IsASequence
<1> HIDE DEF fields, coll, voc
<1>5. CASE coll.outward # <<>>
  <2>1. upsert = coll.outward
    BY <1>5 DEF UpsertField
  <2>2. /\ upsert[1] \in DOMAIN fields
        /\ Len(upsert) > 1 => upsert[2] \in DOMAIN fields[upsert[1]].children
    BY <1>3, <1>5, <2>1 DEF PathExists
  <2>3. ASSUME Len(upsert) = 1 PROVE upsert = <<upsert[1]>>
    BY <1>4, <2>1, <2>3
  <2>4. ASSUME Len(upsert) = 1 PROVE ~ fields[upsert[1]].auto
    <3>1. AliasPaths(fields, coll.outward)[upsert] = <<upsert[1]>>
      BY <2>2, <2>3, <2>4, FieldsGoFirst
    <3>2. upsert # <<>>
      BY <1>2
    <3> QED
      BY <1>3, <2>2, <3>1, <3>2 DEF UpsertIsUsable
  <2> QED
    BY <1>2, <2>2, <2>4
<1>6. CASE coll.outward = <<>>
  <2>1. upsert = <<"lokalid">> /\ "lokalid" \in DOMAIN fields
    BY <1>2, <1>6 DEF UpsertField
  <2>2. ~ fields["lokalid"].auto
    <3>1. AliasPaths(fields, coll.outward)[upsert] = <<"lokalid">>
      BY <2>1, FieldsGoFirst
    <3>2. upsert # <<>>
      BY <1>2
    <3> QED
      BY <1>3, <2>1, <3>1, <3>2 DEF UpsertIsUsable
  <2> QED
    BY <1>2, <2>1, <2>2
<1> QED
  BY <1>5, <1>6

\* A role of a derived surface links to a collection of lines of its own SRID,
\* with the boolean it asks for.
LEMMA DerivedIsSound ==
    ASSUME NEW v \in Valid, Deployed(v), NEW n \in DOMAIN Resolved[v],
           NEW c, c = Resolved[v][n], NEW r \in c.derived
    PROVE  /\ r.name \in DOMAIN c.roles /\ c.roles[r.name] = r.target
           /\ Resolved[v][r.target].geometry \in LineTypes
           /\ Resolved[v][r.target].srid = c.srid
           /\ r.when # "" => Resolved[v][r.target].fields[r.when].type = "boolean"
<1> DEFINE coll == Named(Collections(v), n)
<1> DEFINE voc == Vocabulary(Descriptions[v], Commons)
<1>1. /\ coll \in ToSet(Collections(v)) /\ coll.name = n
      /\ c = ResolvedCollection(coll, Commons, voc)
  BY PlannedCollection
<1>2. PICK role \in DerivedRoles(coll) :
         r = [name |-> role.name, target |-> TargetOf(coll, role.name), when |-> role.when]
  BY <1>1 DEF ResolvedCollection
<1>3. RoleResolves(coll, role, Descriptions[v], FieldsOf(Descriptions[v], Commons))
  BY <1>1, <1>2 DEF Valid, Resolves, Collections
<1> HIDE DEF coll, voc
<1> DEFINE target == Named(Collections(v), r.target)
<1>4. role.name \in Names(coll.relationships)
  BY <1>3 DEF RoleResolves
<1>5. r.name \in DOMAIN c.roles /\ c.roles[r.name] = r.target
  BY <1>1, <1>2, <1>4 DEF ResolvedCollection
<1>6. r.target \in DOMAIN Resolved[v]
  BY <1>5, TargetsAreThere
<1>7. /\ target \in ToSet(Collections(v)) /\ target.name = r.target
      /\ Resolved[v][r.target] = ResolvedCollection(target, Commons, voc)
  BY <1>6, PlannedCollection DEF voc
<1>8. /\ target.geometry \in LineTypes /\ target.srid = coll.srid
      /\ role.when # "" =>
           FieldsOf(Descriptions[v], Commons)[r.target][role.when].type = "boolean"
  BY <1>2, <1>3, <1>7 DEF RoleResolves, Collections
<1>9. FieldsOf(Descriptions[v], Commons)[r.target] = ResolvedFields(target, Commons, voc)
  BY <1>6, PlannedNames DEF FieldsOf, Collections, voc
<1>10. c.srid = coll.srid /\ r.when = role.when
  BY <1>1, <1>2 DEF ResolvedCollection
<1>11. /\ Resolved[v][r.target].geometry = target.geometry
       /\ Resolved[v][r.target].srid = target.srid
       /\ Resolved[v][r.target].fields = ResolvedFields(target, Commons, voc)
  BY <1>7 DEF ResolvedCollection
<1> QED
  BY <1>5, <1>8, <1>9, <1>10, <1>11

\* Bounds are on lines that a relationship of the plan has as its target.
LEMMA BoundsAreSound ==
    ASSUME NEW v \in Valid, Deployed(v), NEW n \in DOMAIN Resolved[v],
           Resolved[v][n].bounds # 0
    PROVE  /\ Resolved[v][n].geometry \in LineTypes
           /\ \E c \in DOMAIN Resolved[v] : \E p \in DOMAIN Resolved[v][c].roles :
                 Resolved[v][c].roles[p] = n
<1> DEFINE coll == Named(Collections(v), n)
<1> DEFINE voc == Vocabulary(Descriptions[v], Commons)
<1>1. /\ coll \in ToSet(Collections(v)) /\ coll.name = n
      /\ Resolved[v][n] = ResolvedCollection(coll, Commons, voc)
  BY PlannedCollection
<1>2. coll.bounds # 0 /\ Resolved[v][n].geometry = coll.geometry
  BY <1>1 DEF ResolvedCollection
<1>3. n \in Targeted(Descriptions[v]) /\ coll.geometry \in LineTypes
  BY <1>1, <1>2 DEF Valid, Resolves, BoundsAreUsable, Collections
<1>4. PICK other \in ToSet(Collections(v)) : \E rel \in ToSet(other.relationships) : rel.target = n
  BY <1>3 DEF Targeted, Collections
<1>5. PICK rel \in ToSet(other.relationships) : rel.target = n
  BY <1>4
<1>6. other.name \in DOMAIN Resolved[v] /\ Named(Collections(v), other.name) = other
  BY NamedIsUnique, PlannedNames DEF Deployed
<1>7. Resolved[v][other.name] = ResolvedCollection(other, Commons, voc)
  BY <1>6, PlannedCollection
<1>8. TargetOf(other, rel.name) = n
  BY <1>5, TargetIsTheOne, ListsAssumption DEF Deployed, Valid, Collections
<1>9. /\ rel.name \in DOMAIN Resolved[v][other.name].roles
      /\ Resolved[v][other.name].roles[rel.name] = n
  BY <1>7, <1>8 DEF ResolvedCollection, Names
<1> QED
  BY <1>2, <1>3, <1>6, <1>9

LEMMA VersionIsSound ==
    ASSUME NEW v \in Valid, Deployed(v), NEW n \in DOMAIN Resolved[v]
    PROVE  IsSound(Resolved[v], Resolved[v][n], n)
<1> DEFINE c == Resolved[v][n]
<1>1. c.upsert # <<>> =>
         /\ c.upsert[1] \in DOMAIN c.fields
         /\ Len(c.upsert) = 1 => ~ c.fields[c.upsert[1]].auto
         /\ Len(c.upsert) = 2 => c.upsert[2] \in DOMAIN c.fields[c.upsert[1]].children
  BY UpsertIsSound
<1>2. \A r \in c.derived :
         /\ r.name \in DOMAIN c.roles /\ c.roles[r.name] = r.target
         /\ Resolved[v][r.target].geometry \in LineTypes
         /\ Resolved[v][r.target].srid = c.srid
         /\ r.when # "" => Resolved[v][r.target].fields[r.when].type = "boolean"
  BY DerivedIsSound
<1>3. c.bounds # 0 =>
         /\ c.geometry \in LineTypes
         /\ \E d \in DOMAIN Resolved[v] : \E p \in DOMAIN Resolved[v][d].roles :
               Resolved[v][d].roles[p] = n
  BY BoundsAreSound
<1> QED
  BY <1>1, <1>2, <1>3 DEF IsSound

-----------------------------------------------------------------------------
(* What a plan installs, key by key.                                        *)

LEMMA GeneratedKeys ==
    \A v, k : k \in DOMAIN Generated(v) <=>
        \E c \in DOMAIN Resolved[v] : \E op \in Operations(Resolved[v][c]) : k = <<c, op>>
BY DEF Generated

LEMMA GeneratedIs ==
    \A v : \A k \in DOMAIN Generated(v) : Generated(v)[k] = v
BY DEF Generated

LEMMA CreateIsGenerated ==
    \A v : \A c \in DOMAIN Resolved[v] : <<c, "create">> \in DOMAIN Generated(v)
BY GeneratedKeys DEF Operations

LEMMA RoleKeys ==
    \A plan, k : k \in DOMAIN RoleRows(plan) <=>
        \E c \in DOMAIN plan : \E p \in DOMAIN plan[c].roles : k = <<c, p>>
BY DEF RoleRows

-----------------------------------------------------------------------------
(* The inductive invariant.                                                 *)

Maps ==
    /\ DOMAIN tables = DatasetNames /\ DOMAIN catalogue = DatasetNames
    /\ DOMAIN functions = DatasetNames /\ DOMAIN applied = DatasetNames

\* A run that is past a stage has committed it.
Committed ==
    /\ cli.pc \notin {"idle", "topogdb"} => "topogdb" \in base
    /\ cli.pc \notin {"idle", "topogdb", "dispatch"} => "ogc" \in base

SeededFor(d, v) ==
    /\ \A c \in DOMAIN Resolved[v] :
          /\ c \in DOMAIN tables[d]
          /\ c \in DOMAIN catalogue[d].capability
          /\ catalogue[d].capability[c] = Resolved[v][c].simple
    /\ \A k \in DOMAIN RoleRows(Resolved[v]) :
          /\ k \in DOMAIN catalogue[d].roles
          /\ catalogue[d].roles[k] = RoleRows(Resolved[v])[k]

InstalledFor(d, v) ==
    \A k \in DOMAIN Generated(v) : k \in DOMAIN functions[d] /\ functions[d][k] = v

\* The run is through with the datasets before the one it is at, and has the
\* tables of that one when it comes to its functions.
RunSoFar ==
    /\ cli.pc = "functions" => Deployed(Version) /\ SeededFor(Dataset, Version)
    /\ cli.pc # "idle" =>
          \A i \in DOMAIN Datasets : i < cli.at \/ cli.pc = "done" =>
              /\ SeededFor(Datasets[i], cli.loaded[Datasets[i]])
              /\ InstalledFor(Datasets[i], cli.loaded[Datasets[i]])

FunctionsAreDeployed ==
    \A d \in DatasetNames : \A key \in DOMAIN functions[d] : Deployed(functions[d][key])

\* No operation of a version that was applied has gone since.
AppliedStays ==
    \A d \in DatasetNames : \A v \in applied[d] :
        "ogc" \in base /\ DOMAIN Generated(v) \subseteq DOMAIN functions[d]

\* The guard found every link that is not late, so that its role is in the
\* plan the run is about to install.
LinksAreKnown ==
    \A l \in links :
        \/ l.late
        \/ /\ <<l.source, l.property>> \in DOMAIN catalogue[l.dataset].roles
           /\ cli.pc \in {"tables", "functions"} /\ Dataset = l.dataset =>
                 <<l.source, l.property>> \in DOMAIN RoleRows(PlanNow)

IInv ==
    /\ TypeOK /\ Maps /\ Committed /\ RunSoFar
    /\ FunctionsAreDeployed /\ FunctionsHaveTables /\ AppliedStays
    /\ LinksAreKnown /\ OrphanedLinksAreLate

-----------------------------------------------------------------------------
(* What a step does to the database.                                        *)

LEMMA RunIsAtADataset ==
    ASSUME TypeOK, cli.pc # "idle"
    PROVE  Dataset \in DatasetNames /\ Version \in Valid /\ cli.at \in Nat
<1>1. cli.at \in DOMAIN Datasets /\ cli.loaded \in [DatasetNames -> Valid]
  BY DEF TypeOK
<1>2. Datasets \in Seq(ToSet(Datasets))
  BY ListsAssumption DEF IsASequence
<1>3. Dataset \in DatasetNames
  BY <1>1 DEF Dataset, DatasetNames, ToSet
<1>4. Version \in Valid
  BY <1>1, <1>3 DEF Version
<1>5. cli.at \in Nat
  BY <1>1, <1>2
<1> QED
  BY <1>3, <1>4, <1>5

\* apply_tables when it gets through, and apply_functions.
TablesApplied ==
    /\ cli.pc = "tables" /\ Deployed(Version)
    /\ tables' = [tables EXCEPT ![Dataset] = Tables(PlanNow, @)]
    /\ catalogue' = [catalogue EXCEPT ![Dataset] = Seeded]
    /\ cli' = [cli EXCEPT !.pc = "functions"]
    /\ UNCHANGED <<base, functions, applied, links, served, file, applies>>

FunctionsApplied ==
    /\ ApplyFunctions
    /\ UNCHANGED <<base, tables, catalogue, links, served, file, applies>>

\* It gets through, or it stops and leaves everything as it was.
LEMMA ApplyTablesSteps ==
    ASSUME ApplyTables
    PROVE  TablesApplied \/ (Stop /\ OnlyRun /\ UNCHANGED database)
<1>1. CASE DdlFails(Descriptions[Version], PlanNow, tables[Dataset])
  BY <1>1 DEF ApplyTables
<1>2. CASE ~ DdlFails(Descriptions[Version], PlanNow, tables[Dataset])
  <2>1. Deployed(Version)
    BY <1>2 DEF DdlFails, Deployed, Collections
  <2> QED
    BY <1>2, <2>1 DEF ApplyTables, TablesApplied, OnlyRun, GoTo
<1> QED
  BY <1>1, <1>2

\* Nothing else touches tables, catalogue or functions, and nothing drops a
\* schema for good.
LEMMA DatabaseSteps ==
    ASSUME [Next]_vars
    PROVE  /\ base \subseteq base'
           /\ \/ TablesApplied
              \/ FunctionsApplied
              \/ UNCHANGED <<tables, catalogue, functions, applied>>
<1>1. CASE ApplyTables
  BY <1>1, ApplyTablesSteps DEF TablesApplied, OnlyRun, database
<1>2. CASE ApplyFunctions
  BY <1>2 DEF ApplyFunctions, FunctionsApplied
<1>3. CASE ApplyTopogdb \/ ApplyDispatch
  BY <1>3 DEF ApplyTopogdb, ApplyDispatch, OnlyRun
<1>4. CASE StartApply \/ BuildPlan \/ GuardRoleRemoval \/ EndRun \/ Serve \/ DeleteLink
  BY <1>4 DEF StartApply, BuildPlan, GuardRoleRemoval, EndRun, Serve, DeleteLink,
              OnlyRun, database
<1>5. CASE \E d \in DatasetNames : EditDescription(d) \/ WriteLink(d)
  BY <1>5 DEF EditDescription, WriteLink, database
<1>6. CASE UNCHANGED vars
  BY <1>6 DEF vars, database
<1> QED
  BY <1>1, <1>2, <1>3, <1>4, <1>5, <1>6 DEF Next

\* The tables and rows of a plan, once they are in.
LEMMA TablesAreIn ==
    ASSUME TypeOK, Maps, TablesApplied
    PROVE  /\ SeededFor(Dataset, Version)'
           /\ \A d \in DatasetNames :
                 /\ DOMAIN tables[d] \subseteq DOMAIN tables'[d]
                 /\ DOMAIN catalogue[d].capability \subseteq DOMAIN catalogue'[d].capability
                 /\ DOMAIN catalogue[d].roles \subseteq DOMAIN catalogue'[d].roles
           /\ \A d \in DatasetNames \ {Dataset} :
                 tables'[d] = tables[d] /\ catalogue'[d] = catalogue[d]
<1> DEFINE present == tables[Dataset]
<1> DEFINE rows == catalogue[Dataset]
<1>1. cli.pc # "idle"
  BY DEF TablesApplied
<1>2. Dataset \in DatasetNames /\ Version \in Valid
  BY <1>1, RunIsAtADataset
<1>3. tables'[Dataset] = Tables(PlanNow, present) /\ catalogue'[Dataset] = Seeded
  BY <1>2 DEF TablesApplied, Maps
<1>4. DOMAIN tables'[Dataset] = (DOMAIN present) \cup DOMAIN PlanNow
  BY <1>3, OverDomain DEF Tables
<1>5. /\ catalogue'[Dataset].capability = Over(Capabilities(PlanNow), rows.capability)
      /\ catalogue'[Dataset].roles = Over(RoleRows(PlanNow), rows.roles)
  BY <1>3 DEF Seeded
<1>6. /\ DOMAIN catalogue'[Dataset].capability = (DOMAIN PlanNow) \cup DOMAIN rows.capability
      /\ DOMAIN catalogue'[Dataset].roles = (DOMAIN RoleRows(PlanNow)) \cup DOMAIN rows.roles
      /\ \A c \in DOMAIN PlanNow : catalogue'[Dataset].capability[c] = PlanNow[c].simple
      /\ \A k \in DOMAIN RoleRows(PlanNow) :
            catalogue'[Dataset].roles[k] = RoleRows(PlanNow)[k]
  <2>1. DOMAIN Capabilities(PlanNow) = DOMAIN PlanNow
    BY DEF Capabilities
  <2>2. \A c \in DOMAIN PlanNow : Capabilities(PlanNow)[c] = PlanNow[c].simple
    BY DEF Capabilities
  <2>3. DOMAIN catalogue'[Dataset].capability = (DOMAIN PlanNow) \cup DOMAIN rows.capability
    BY <1>5, <2>1, OverDomain, Zenon
  <2>4. DOMAIN catalogue'[Dataset].roles = (DOMAIN RoleRows(PlanNow)) \cup DOMAIN rows.roles
    BY <1>5, OverDomain, Zenon
  <2>5. \A c \in DOMAIN PlanNow : catalogue'[Dataset].capability[c] = PlanNow[c].simple
    <3>1. \A c \in DOMAIN Capabilities(PlanNow) :
             Over(Capabilities(PlanNow), rows.capability)[c] = Capabilities(PlanNow)[c]
      BY OverFirst
    <3> QED
      BY <1>5, <2>1, <2>2, <3>1
  <2>6. \A k \in DOMAIN RoleRows(PlanNow) :
           catalogue'[Dataset].roles[k] = RoleRows(PlanNow)[k]
    <3>1. \A k \in DOMAIN RoleRows(PlanNow) :
             Over(RoleRows(PlanNow), rows.roles)[k] = RoleRows(PlanNow)[k]
      BY OverFirst
    <3> QED
      BY <1>5, <3>1
  <2> QED
    BY <2>3, <2>4, <2>5, <2>6
<1>7. \A d \in DatasetNames \ {Dataset} :
         tables'[d] = tables[d] /\ catalogue'[d] = catalogue[d]
  BY DEF TablesApplied, Maps
<1>8. Dataset' = Dataset /\ Version' = Version
  BY DEF TablesApplied, TypeOK, Dataset, Version
<1>9. SeededFor(Dataset, Version)'
  BY <1>4, <1>6, <1>8 DEF SeededFor, PlanNow
<1> QED
  BY <1>4, <1>6, <1>7, <1>9

\* The functions of a plan, once they are in.
LEMMA FunctionsAreIn ==
    ASSUME TypeOK, Maps, FunctionsApplied
    PROVE  /\ Dataset \in DatasetNames /\ Version \in Valid
           /\ DOMAIN functions'[Dataset] = (DOMAIN Generated(Version)) \cup DOMAIN functions[Dataset]
           /\ \A k \in DOMAIN Generated(Version) : functions'[Dataset][k] = Version
           /\ \A k \in (DOMAIN functions[Dataset]) \ DOMAIN Generated(Version) :
                 functions'[Dataset][k] = functions[Dataset][k]
           /\ applied'[Dataset] = applied[Dataset] \cup {Version}
           /\ \A d \in DatasetNames \ {Dataset} :
                 functions'[d] = functions[d] /\ applied'[d] = applied[d]
<1>1. cli.pc # "idle"
  BY DEF FunctionsApplied, ApplyFunctions
<1>2. Dataset \in DatasetNames /\ Version \in Valid
  BY <1>1, RunIsAtADataset
<1>3. functions'[Dataset] = Over(Generated(Version), functions[Dataset])
  BY <1>2 DEF FunctionsApplied, ApplyFunctions, Maps
<1>4. DOMAIN functions'[Dataset] = (DOMAIN Generated(Version)) \cup DOMAIN functions[Dataset]
  BY <1>3, OverDomain
<1>5. \A k \in DOMAIN Generated(Version) : functions'[Dataset][k] = Version
  BY <1>3, OverFirst, GeneratedIs
<1>6. \A k \in (DOMAIN functions[Dataset]) \ DOMAIN Generated(Version) :
         functions'[Dataset][k] = functions[Dataset][k]
  BY <1>3, OverSecond
<1>7. applied'[Dataset] = applied[Dataset] \cup {Version}
  BY <1>2 DEF FunctionsApplied, ApplyFunctions, Maps
<1>8. \A d \in DatasetNames \ {Dataset} :
         functions'[d] = functions[d] /\ applied'[d] = applied[d]
  BY DEF FunctionsApplied, ApplyFunctions, Maps
<1> QED
  BY <1>2, <1>4, <1>5, <1>6, <1>7, <1>8

-----------------------------------------------------------------------------
(* The invariant is inductive.                                              *)

\* What a step does to the run.
LEMMA RunSteps ==
    ASSUME [Next]_vars
    PROVE  \/ cli' = cli
           \/ cli' = NoRun
           \/ StartApply
           \/ \E pc \in {"dispatch", "plan", "guard", "tables"} :
                 cli.pc \notin {"idle", "done"} /\ cli' = [cli EXCEPT !.pc = pc]
           \/ TablesApplied
           \/ FunctionsApplied
<1>1. CASE ApplyTopogdb \/ ApplyDispatch \/ BuildPlan \/ GuardRoleRemoval
  BY <1>1 DEF ApplyTopogdb, ApplyDispatch, BuildPlan, GuardRoleRemoval, GoTo, Stop
<1>2. CASE ApplyTables
  BY <1>2, ApplyTablesSteps DEF Stop
<1>3. CASE ApplyFunctions
  BY <1>3 DEF ApplyFunctions, FunctionsApplied
<1>4. CASE EndRun \/ Serve \/ DeleteLink
  BY <1>4 DEF EndRun, Stop, Serve, DeleteLink
<1>5. CASE \E d \in DatasetNames : EditDescription(d) \/ WriteLink(d)
  BY <1>5 DEF EditDescription, WriteLink
<1>6. CASE UNCHANGED vars
  BY <1>6 DEF vars
<1> QED
  BY <1>1, <1>2, <1>3, <1>4, <1>5, <1>6 DEF Next

RunIsTyped ==
    /\ cli = [pc |-> cli.pc, loaded |-> cli.loaded, at |-> cli.at]
    /\ cli.pc \in Stages
    /\ cli.pc # "idle" => cli.loaded \in [DatasetNames -> Valid] /\ cli.at \in DOMAIN Datasets

LEMMA RunTypeStep ==
    ASSUME TypeOK, [Next]_vars
    PROVE  RunIsTyped'
<1>0. RunIsTyped
  BY DEF TypeOK, RunIsTyped
<1>1. CASE cli' = cli
  BY <1>0, <1>1 DEF RunIsTyped
<1>2. CASE cli' = NoRun
  BY <1>2 DEF RunIsTyped, NoRun, Stages
<1>3. CASE StartApply
  <2>1. cli' = [pc |-> "topogdb", loaded |-> file, at |-> 1]
    BY <1>3 DEF StartApply
  <2>2. file \in [DatasetNames -> Valid] /\ Datasets # <<>>
    BY <1>3 DEF StartApply, LoadSucceeds, TypeOK
  <2>3. 1 \in DOMAIN Datasets
    <3>1. Datasets \in Seq(ToSet(Datasets))
      BY ListsAssumption DEF IsASequence
    <3> QED
      BY <2>2, <3>1
  <2> QED
    BY <2>1, <2>2, <2>3 DEF RunIsTyped, Stages
<1>4. CASE \E pc \in Stages : cli.pc # "idle" /\ cli' = [cli EXCEPT !.pc = pc]
  <2>1. PICK pc \in Stages : cli.pc # "idle" /\ cli' = [cli EXCEPT !.pc = pc]
    BY <1>4
  <2>2. cli' = [pc |-> pc, loaded |-> cli.loaded, at |-> cli.at]
    BY <1>0, <2>1 DEF RunIsTyped
  <2> QED
    BY <1>0, <2>1, <2>2 DEF RunIsTyped
<1>5. CASE ApplyFunctions
  <2>1. cli.pc = "functions"
    BY <1>5 DEF ApplyFunctions
  <2>2. CASE cli.at = Len(Datasets)
    <3>1. cli' = [pc |-> "done", loaded |-> cli.loaded, at |-> cli.at]
      BY <1>0, <1>5, <2>2 DEF ApplyFunctions, GoTo, RunIsTyped
    <3> QED
      BY <1>0, <2>1, <3>1 DEF RunIsTyped, Stages
  <2>3. CASE cli.at # Len(Datasets)
    <3>1. cli' = [pc |-> "plan", loaded |-> cli.loaded, at |-> cli.at + 1]
      BY <1>5, <2>3 DEF ApplyFunctions
    <3>2. cli.at + 1 \in DOMAIN Datasets
      <4>1. Datasets \in Seq(ToSet(Datasets))
        BY ListsAssumption DEF IsASequence
      <4>2. cli.at \in DOMAIN Datasets
        BY <1>0, <2>1 DEF RunIsTyped
      <4> QED
        BY <2>3, <4>1, <4>2
    <3> QED
      BY <1>0, <2>1, <3>1, <3>2 DEF RunIsTyped, Stages
  <2> QED
    BY <2>2, <2>3
<1> QED
  BY <1>1, <1>2, <1>3, <1>4, <1>5, RunSteps DEF TablesApplied, FunctionsApplied, Stages

LEMMA TypeStep ==
    ASSUME TypeOK, Maps, [Next]_vars
    PROVE  TypeOK' /\ Maps'
<1>1. Maps'
  <2>1. CASE TablesApplied
    BY <2>1 DEF Maps, TablesApplied
  <2>2. CASE FunctionsApplied
    BY <2>2 DEF Maps, FunctionsApplied, ApplyFunctions
  <2>3. CASE UNCHANGED <<tables, catalogue, functions, applied>>
    BY <2>3 DEF Maps
  <2> QED
    BY <2>1, <2>2, <2>3, DatabaseSteps
<1>2. RunIsTyped'
  BY RunTypeStep
<1>3. file' \in [DatasetNames -> DOMAIN Descriptions] /\ \A d \in DatasetNames : file'[d] \in Files[d]
  <2>1. CASE \E d \in DatasetNames : EditDescription(d)
    <3>1. PICK d \in DatasetNames : EditDescription(d)
      BY <2>1
    <3>2. PICK f \in Files[d] : file' = [file EXCEPT ![d] = f]
      BY <3>1 DEF EditDescription
    <3>3. f \in DOMAIN Descriptions
      BY FilesAssumption DEF DatasetNames
    <3> QED
      BY <3>2, <3>3 DEF TypeOK
  <2>2. CASE ~ \E d \in DatasetNames : EditDescription(d)
    <3>1. file' = file
      BY <2>2 DEF Next, vars, StartApply, ApplyTopogdb, ApplyDispatch, BuildPlan,
                  GuardRoleRemoval, ApplyTables, ApplyFunctions, EndRun, OnlyRun,
                  Serve, DeleteLink, WriteLink
    <3> QED
      BY <3>1 DEF TypeOK
  <2> QED
    BY <2>1, <2>2
<1>4. applies' \in 0 .. MaxApplies
  <2>1. CASE StartApply
    BY <2>1, FilesAssumption DEF StartApply, TypeOK
  <2>2. CASE ~ StartApply
    <3>1. applies' = applies
      BY <2>2 DEF Next, vars, ApplyTopogdb, ApplyDispatch, BuildPlan, GuardRoleRemoval,
                  ApplyTables, ApplyFunctions, EndRun, OnlyRun, EditDescription,
                  Serve, DeleteLink, WriteLink
    <3> QED
      BY <3>1 DEF TypeOK
  <2> QED
    BY <2>1, <2>2
<1>5. base' \subseteq {"topogdb", "ogc"}
  <2>1. CASE ApplyTopogdb \/ ApplyDispatch
    BY <2>1 DEF ApplyTopogdb, ApplyDispatch, TypeOK
  <2>2. CASE ~ (ApplyTopogdb \/ ApplyDispatch)
    <3>1. base' = base
      BY <2>2 DEF Next, vars, database, StartApply, BuildPlan, GuardRoleRemoval,
                  ApplyTables, ApplyFunctions, EndRun, EditDescription,
                  Serve, DeleteLink, WriteLink
    <3> QED
      BY <3>1 DEF TypeOK
  <2> QED
    BY <2>1, <2>2
<1>6. served' = None \/ served' \in [DatasetNames -> Valid]
  <2>1. CASE Serve
    BY <2>1 DEF Serve, LoadSucceeds, TypeOK
  <2>2. CASE ~ Serve
    <3>1. served' = served
      BY <2>2 DEF Next, vars, StartApply, ApplyTopogdb, ApplyDispatch, BuildPlan,
                  GuardRoleRemoval, ApplyTables, ApplyFunctions, EndRun, OnlyRun,
                  EditDescription, DeleteLink, WriteLink
    <3> QED
      BY <3>1 DEF TypeOK
  <2> QED
    BY <2>1, <2>2
<1>7. \A l \in links' : l.dataset \in DatasetNames
  <2>1. CASE \E d \in DatasetNames : WriteLink(d)
    BY <2>1 DEF WriteLink, TypeOK
  <2>2. CASE DeleteLink
    BY <2>2 DEF DeleteLink, TypeOK
  <2>3. CASE ~ DeleteLink /\ ~ \E d \in DatasetNames : WriteLink(d)
    <3>1. links' = links
      BY <2>3 DEF Next, vars, StartApply, ApplyTopogdb, ApplyDispatch, BuildPlan,
                  GuardRoleRemoval, ApplyTables, ApplyFunctions, EndRun, OnlyRun,
                  EditDescription, Serve
    <3> QED
      BY <3>1 DEF TypeOK
  <2> QED
    BY <2>1, <2>2, <2>3
<1>8. \A d \in DatasetNames : \A c \in DOMAIN tables'[d] : \E v \in Valid :
         c \in DOMAIN Resolved[v] /\ tables'[d][c] = DOMAIN Resolved[v][c].fields
  <2>1. CASE TablesApplied
    <3> SUFFICES ASSUME NEW d \in DatasetNames, NEW c \in DOMAIN tables'[d]
                 PROVE  \E v \in Valid :
                           /\ c \in DOMAIN Resolved[v]
                           /\ tables'[d][c] = DOMAIN Resolved[v][c].fields
      OBVIOUS
    <3>1. CASE d = Dataset /\ c \notin DOMAIN tables[d]
      <4> DEFINE columns == [n \in DOMAIN PlanNow |-> DOMAIN PlanNow[n].fields]
      <4>1. Version \in Valid
        BY <2>1, RunIsAtADataset DEF TablesApplied
      <4>2. tables'[d] = Over(tables[d], columns)
        BY <2>1, <3>1 DEF TablesApplied, Maps, Tables
      <4>3. c \in DOMAIN columns /\ tables'[d][c] = columns[c]
        <5> HIDE DEF columns
        <5>1. c \in (DOMAIN tables[d]) \cup DOMAIN columns
          BY <4>2, OverDomain, Zenon
        <5>2. c \in (DOMAIN columns) \ DOMAIN tables[d]
          BY <3>1, <5>1
        <5>3. Over(tables[d], columns)[c] = columns[c]
          BY <5>2, OverSecond
        <5> QED
          BY <4>2, <5>2, <5>3
      <4> QED
        BY <4>1, <4>3 DEF PlanNow
    <3>2. CASE d = Dataset /\ c \in DOMAIN tables[d]
      <4>1. tables'[d][c] = tables[d][c]
        BY <2>1, <3>2, OverFirst DEF TablesApplied, Maps, Tables
      <4> QED
        BY <3>2, <4>1 DEF TypeOK
    <3>3. CASE d # Dataset
      BY <2>1, <3>3 DEF TablesApplied, Maps, TypeOK
    <3> QED
      BY <3>1, <3>2, <3>3
  <2>2. CASE tables' = tables
    BY <2>2 DEF TypeOK
  <2> QED
    BY <2>1, <2>2, DatabaseSteps DEF FunctionsApplied
<1>9. \A d \in DatasetNames :
         /\ applied'[d] \subseteq Valid
         /\ \A key \in DOMAIN functions'[d] :
               functions'[d][key] \in Valid /\ key \in DOMAIN Generated(functions'[d][key])
  <2>1. CASE FunctionsApplied
    BY <2>1, FunctionsAreIn DEF TypeOK
  <2>2. CASE UNCHANGED <<functions, applied>>
    BY <2>2 DEF TypeOK
  <2> QED
    BY <2>1, <2>2, DatabaseSteps DEF TablesApplied
<1> QED
  BY <1>1, <1>2, <1>3, <1>4, <1>5, <1>6, <1>7, <1>8, <1>9 DEF TypeOK, RunIsTyped

LEMMA CommittedStep ==
    ASSUME TypeOK, Committed, [Next]_vars
    PROVE  Committed'
<1>1. base \subseteq base'
  BY DatabaseSteps
<1>2. CASE ApplyTopogdb
  BY <1>2 DEF ApplyTopogdb, GoTo, Committed, TypeOK
<1>3. CASE ApplyDispatch
  BY <1>3 DEF ApplyDispatch, GoTo, Committed, TypeOK
<1>4. CASE BuildPlan \/ GuardRoleRemoval \/ ApplyTables
  BY <1>1, <1>4 DEF BuildPlan, GuardRoleRemoval, ApplyTables, GoTo, Stop, NoRun,
                    Committed, TypeOK
<1>5. CASE ApplyFunctions
  BY <1>1, <1>5 DEF ApplyFunctions, GoTo, Committed, TypeOK
<1>6. CASE StartApply
  BY <1>6 DEF StartApply, Committed
<1>7. CASE cli' = NoRun
  BY <1>7 DEF NoRun, Committed
<1>8. CASE cli' = cli
  BY <1>1, <1>8 DEF Committed
<1> QED
  BY <1>2, <1>3, <1>4, <1>5, <1>6, <1>7, <1>8
     DEF Next, vars, EndRun, Stop, Serve, DeleteLink, EditDescription, WriteLink

\* Every function that is installed comes from the version of the run, which
\* has its tables, or was there before.
LEMMA FunctionsStep ==
    ASSUME TypeOK, Maps, RunSoFar, FunctionsAreDeployed, FunctionsHaveTables, [Next]_vars
    PROVE  FunctionsAreDeployed' /\ FunctionsHaveTables'
<1>1. CASE TablesApplied
  <2>1. \A d \in DatasetNames :
           /\ functions'[d] = functions[d]
           /\ DOMAIN tables[d] \subseteq DOMAIN tables'[d]
           /\ DOMAIN catalogue[d].capability \subseteq DOMAIN catalogue'[d].capability
           /\ DOMAIN catalogue[d].roles \subseteq DOMAIN catalogue'[d].roles
    BY <1>1, TablesAreIn DEF TablesApplied
  <2> QED
    BY <2>1 DEF FunctionsAreDeployed, FunctionsHaveTables
<1>2. CASE FunctionsApplied
  <2>1. cli.pc = "functions" /\ Deployed(Version) /\ SeededFor(Dataset, Version)
    BY <1>2 DEF FunctionsApplied, ApplyFunctions, RunSoFar
  <2>2. tables' = tables /\ catalogue' = catalogue
    BY <1>2 DEF FunctionsApplied
  <2> SUFFICES ASSUME NEW d \in DatasetNames, NEW key \in DOMAIN functions'[d]
               PROVE  /\ Deployed(functions'[d][key])
                      /\ key[1] \in DOMAIN tables[d]
                      /\ key[1] \in DOMAIN catalogue[d].capability
                      /\ \A p \in DOMAIN Resolved[functions'[d][key]][key[1]].roles :
                            /\ <<key[1], p>> \in DOMAIN catalogue[d].roles
                            /\ Resolved[functions'[d][key]][key[1]].roles[p] \in DOMAIN tables[d]
    BY <2>2 DEF FunctionsAreDeployed, FunctionsHaveTables
  <2>3. CASE d = Dataset /\ key \in DOMAIN Generated(Version)
    <3>1. functions'[d][key] = Version /\ Version \in Valid
      BY <1>2, <2>3, FunctionsAreIn
    <3>2. key[1] \in DOMAIN Resolved[Version]
      BY <2>3, GeneratedKeys
    <3>3. ASSUME NEW p \in DOMAIN Resolved[Version][key[1]].roles
          PROVE  /\ <<key[1], p>> \in DOMAIN catalogue[d].roles
                 /\ Resolved[Version][key[1]].roles[p] \in DOMAIN tables[d]
      <4>1. <<key[1], p>> \in DOMAIN RoleRows(Resolved[Version])
        BY <3>2, RoleKeys
      <4>2. Resolved[Version][key[1]].roles[p] \in DOMAIN Resolved[Version]
        BY <2>1, <3>1, <3>2, TargetsAreThere
      <4> QED
        BY <2>1, <2>3, <4>1, <4>2 DEF SeededFor
    <3>4. key[1] \in DOMAIN tables[d] /\ key[1] \in DOMAIN catalogue[d].capability
      BY <2>1, <2>3, <3>2 DEF SeededFor
    <3> QED
      BY <2>1, <3>1, <3>3, <3>4
  <2>4. CASE d # Dataset \/ key \notin DOMAIN Generated(Version)
    <3>1. key \in DOMAIN functions[d] /\ functions'[d][key] = functions[d][key]
      BY <1>2, <2>4, FunctionsAreIn
    <3> QED
      BY <3>1 DEF FunctionsAreDeployed, FunctionsHaveTables
  <2> QED
    BY <2>3, <2>4
<1>3. CASE UNCHANGED <<tables, catalogue, functions, applied>>
  BY <1>3 DEF FunctionsAreDeployed, FunctionsHaveTables
<1> QED
  BY <1>1, <1>2, <1>3, DatabaseSteps

LEMMA AppliedStep ==
    ASSUME TypeOK, Maps, Committed, AppliedStays, [Next]_vars
    PROVE  AppliedStays'
<1>1. base \subseteq base'
  BY DatabaseSteps
<1>2. CASE FunctionsApplied
  <2>1. "ogc" \in base
    BY <1>2 DEF FunctionsApplied, ApplyFunctions, Committed
  <2>2. \A d \in DatasetNames : DOMAIN functions[d] \subseteq DOMAIN functions'[d]
    BY <1>2, FunctionsAreIn
  <2> SUFFICES ASSUME NEW d \in DatasetNames, NEW v \in applied'[d]
               PROVE  DOMAIN Generated(v) \subseteq DOMAIN functions'[d]
    BY <1>1, <2>1 DEF AppliedStays
  <2>3. CASE v \in applied[d]
    BY <2>2, <2>3 DEF AppliedStays
  <2>4. CASE v \notin applied[d]
    BY <1>2, <2>4, FunctionsAreIn
  <2> QED
    BY <2>3, <2>4
<1>3. CASE UNCHANGED <<functions, applied>>
  BY <1>1, <1>3 DEF AppliedStays
<1> QED
  BY <1>2, <1>3, DatabaseSteps DEF TablesApplied

LEMMA RunSoFarStep ==
    ASSUME TypeOK, Maps, RunSoFar, [Next]_vars
    PROVE  RunSoFar'
<1> USE DEF RunSoFar
<1>0. DOMAIN Datasets \subseteq Nat /\ DOMAIN Datasets = 1 .. Len(Datasets)
  <2>1. Datasets \in Seq(ToSet(Datasets))
    BY ListsAssumption DEF IsASequence
  <2> QED
    BY <2>1
<1>1. CASE TablesApplied
  <2>1. /\ cli.pc = "tables" /\ cli'.pc = "functions" /\ Deployed(Version)
        /\ cli'.at = cli.at /\ cli'.loaded = cli.loaded
    BY <1>1 DEF TablesApplied, TypeOK
  <2>2. Dataset' = Dataset /\ Version' = Version
    BY <2>1 DEF Dataset, Version
  <2>3. SeededFor(Dataset, Version)'
    BY <1>1, TablesAreIn
  <2>4. ASSUME NEW i \in DOMAIN Datasets, i < cli.at
        PROVE  /\ SeededFor(Datasets[i], cli.loaded[Datasets[i]])'
               /\ InstalledFor(Datasets[i], cli.loaded[Datasets[i]])'
    <3>1. /\ SeededFor(Datasets[i], cli.loaded[Datasets[i]])
          /\ InstalledFor(Datasets[i], cli.loaded[Datasets[i]])
      BY <2>1, <2>4
    <3>2. InstalledFor(Datasets[i], cli.loaded[Datasets[i]])'
      BY <1>1, <2>1, <3>1 DEF InstalledFor, TablesApplied
    <3>3. CASE Datasets[i] = Dataset
      BY <2>1, <2>2, <2>3, <3>2, <3>3 DEF Version
    <3>4. CASE Datasets[i] # Dataset
      <4>1. Datasets[i] \in DatasetNames
        BY DEF DatasetNames, ToSet
      <4>2. /\ tables'[Datasets[i]] = tables[Datasets[i]]
            /\ catalogue'[Datasets[i]] = catalogue[Datasets[i]]
        BY <1>1, <3>4, <4>1, TablesAreIn
      <4> QED
        BY <2>1, <3>1, <3>2, <4>2 DEF SeededFor
    <3> QED
      BY <3>3, <3>4
  <2> QED
    BY <2>1, <2>2, <2>3, <2>4
<1>2. CASE FunctionsApplied
  <2>1. /\ cli.pc = "functions" /\ cli'.loaded = cli.loaded
        /\ Deployed(Version) /\ SeededFor(Dataset, Version)
        /\ tables' = tables /\ catalogue' = catalogue
    BY <1>2 DEF FunctionsApplied, ApplyFunctions, GoTo, TypeOK
  <2>2. \/ cli'.pc = "done" /\ cli.at = Len(Datasets)
        \/ cli'.pc = "plan" /\ cli'.at = cli.at + 1
    BY <1>2 DEF FunctionsApplied, ApplyFunctions, GoTo, TypeOK
  <2>3. cli.at \in Nat
    BY <2>1, RunIsAtADataset
  <2>4. ASSUME NEW i \in DOMAIN Datasets, i < cli.at \/ i = cli.at
        PROVE  /\ SeededFor(Datasets[i], cli.loaded[Datasets[i]])'
               /\ InstalledFor(Datasets[i], cli.loaded[Datasets[i]])'
    <3>1. SeededFor(Datasets[i], cli.loaded[Datasets[i]])
      BY <2>1, <2>4 DEF Dataset, Version
    <3>2. SeededFor(Datasets[i], cli.loaded[Datasets[i]])'
      BY <2>1, <3>1 DEF SeededFor
    <3>3. CASE Datasets[i] = Dataset
      <4>1. cli'.loaded[Datasets[i]] = Version
        BY <2>1, <3>3 DEF Version
      <4> QED
        BY <1>2, <3>2, <3>3, <4>1, FunctionsAreIn DEF InstalledFor
    <3>4. CASE Datasets[i] # Dataset
      <4>1. InstalledFor(Datasets[i], cli.loaded[Datasets[i]])
        BY <2>1, <2>4, <3>4 DEF Dataset
      <4>2. Datasets[i] \in DatasetNames
        BY DEF DatasetNames, ToSet
      <4>3. functions'[Datasets[i]] = functions[Datasets[i]]
        BY <1>2, <3>4, <4>2, FunctionsAreIn
      <4> QED
        BY <2>1, <3>2, <4>1, <4>3 DEF InstalledFor
    <3> QED
      BY <3>3, <3>4
  <2> QED
    BY <1>0, <2>2, <2>3, <2>4
<1>3. CASE UNCHANGED <<tables, catalogue, functions>> /\ cli' = NoRun
  BY <1>3 DEF NoRun
<1>4. CASE UNCHANGED <<tables, catalogue, functions>> /\ cli' = cli
  BY <1>4 DEF SeededFor, InstalledFor, Version, Dataset
<1>5. CASE StartApply
  <2>1. cli'.pc = "topogdb" /\ cli'.at = 1
    BY <1>5 DEF StartApply
  <2> QED
    BY <1>0, <2>1
<1>6. CASE /\ UNCHANGED <<tables, catalogue, functions>>
           /\ \E pc \in {"dispatch", "plan", "guard", "tables"} :
                 cli.pc \notin {"idle", "done"} /\ cli' = [cli EXCEPT !.pc = pc]
  <2>1. /\ cli'.pc \notin {"idle", "done", "functions"} /\ cli.pc # "idle"
        /\ cli'.at = cli.at /\ cli'.loaded = cli.loaded
    BY <1>6 DEF TypeOK
  <2> QED
    BY <1>6, <2>1 DEF SeededFor, InstalledFor
<1> QED
  BY <1>1, <1>2, <1>3, <1>4, <1>5, <1>6, RunSteps, DatabaseSteps

LEMMA LinksStep ==
    ASSUME TypeOK, Maps, LinksAreKnown, OrphanedLinksAreLate, [Next]_vars
    PROVE  LinksAreKnown' /\ OrphanedLinksAreLate'
<1>1. CASE TablesApplied
  <2>1. /\ links' = links /\ functions' = functions
        /\ cli.pc = "tables" /\ Dataset' = Dataset /\ PlanNow' = PlanNow
    BY <1>1 DEF TablesApplied, TypeOK, Dataset, Version, PlanNow
  <2>2. \A d \in DatasetNames : DOMAIN catalogue[d].roles \subseteq DOMAIN catalogue'[d].roles
    BY <1>1, TablesAreIn
  <2>3. LinksAreKnown'
    BY <2>1, <2>2 DEF LinksAreKnown, TypeOK
  <2> QED
    BY <2>1, <2>3 DEF OrphanedLinksAreLate
<1>2. CASE FunctionsApplied
  <2>1. links' = links /\ catalogue' = catalogue /\ cli.pc = "functions"
    BY <1>2 DEF FunctionsApplied, ApplyFunctions
  <2>2. cli'.pc \notin {"tables", "functions"}
    BY <1>2 DEF FunctionsApplied, ApplyFunctions, GoTo, TypeOK
  <2>3. ASSUME NEW l \in links, ~ l.late
        PROVE  \E key \in DOMAIN functions'[l.dataset] :
                  /\ key = <<l.source, "create">>
                  /\ l.property \in DOMAIN Resolved[functions'[l.dataset][key]][l.source].roles
    <3>1. CASE l.dataset = Dataset
      <4>1. <<l.source, l.property>> \in DOMAIN RoleRows(PlanNow)
        BY <2>1, <2>3, <3>1 DEF LinksAreKnown
      <4>2. l.source \in DOMAIN PlanNow /\ l.property \in DOMAIN PlanNow[l.source].roles
        BY <4>1, RoleKeys
      <4>3. <<l.source, "create">> \in DOMAIN Generated(Version)
        BY <4>2, CreateIsGenerated DEF PlanNow
      <4>4. /\ <<l.source, "create">> \in DOMAIN functions'[l.dataset]
            /\ functions'[l.dataset][<<l.source, "create">>] = Version
        BY <1>2, <3>1, <4>3, FunctionsAreIn
      <4> QED
        BY <4>2, <4>4 DEF PlanNow
    <3>2. CASE l.dataset # Dataset
      <4>1. functions'[l.dataset] = functions[l.dataset]
        BY <1>2, <3>2, FunctionsAreIn DEF TypeOK
      <4> QED
        BY <2>3, <4>1 DEF OrphanedLinksAreLate
    <3> QED
      BY <3>1, <3>2
  <2>4. LinksAreKnown'
    BY <2>1, <2>2 DEF LinksAreKnown
  <2>5. OrphanedLinksAreLate'
    BY <2>1, <2>3 DEF OrphanedLinksAreLate
  <2> QED
    BY <2>4, <2>5
<1>3. CASE \E d \in DatasetNames : WriteLink(d)
  <2>1. PICK d \in DatasetNames : WriteLink(d)
    BY <1>3
  <2>2. PICK key \in DOMAIN functions[d] :
           /\ key[2] = "create"
           /\ \E p \in DOMAIN Resolved[functions[d][key]][key[1]].roles :
                /\ <<key[1], p>> \in DOMAIN catalogue[d].roles
                /\ links' = links \cup
                     {[dataset |-> d, source |-> key[1], property |-> p,
                       late |-> cli.pc \in {"tables", "functions"} /\ Dataset = d]}
    BY <2>1 DEF WriteLink
  <2>3. PICK p \in DOMAIN Resolved[functions[d][key]][key[1]].roles :
           /\ <<key[1], p>> \in DOMAIN catalogue[d].roles
           /\ links' = links \cup
                {[dataset |-> d, source |-> key[1], property |-> p,
                  late |-> cli.pc \in {"tables", "functions"} /\ Dataset = d]}
    BY <2>2
  <2> DEFINE new == [dataset |-> d, source |-> key[1], property |-> p,
                     late |-> cli.pc \in {"tables", "functions"} /\ Dataset = d]
  <2>4. /\ new.dataset = d /\ new.source = key[1] /\ new.property = p
        /\ new.late <=> cli.pc \in {"tables", "functions"} /\ Dataset = d
    OBVIOUS
  <2>5. links' = links \cup {new}
    BY <2>3
  <2> HIDE DEF new
  <2>6. UNCHANGED <<cli, catalogue, functions>>
    BY <2>1 DEF WriteLink, database
  <2>7. key = <<key[1], "create">>
    BY <2>2, GeneratedKeys DEF TypeOK
  <2>8. LinksAreKnown'
    BY <2>3, <2>4, <2>5, <2>6 DEF LinksAreKnown, PlanNow, Version, Dataset
  <2>9. OrphanedLinksAreLate'
    BY <2>3, <2>4, <2>5, <2>6, <2>7 DEF OrphanedLinksAreLate
  <2> QED
    BY <2>8, <2>9
<1>4. CASE /\ links' \subseteq links /\ UNCHANGED <<cli, catalogue, functions>>
  BY <1>4 DEF LinksAreKnown, OrphanedLinksAreLate, PlanNow, Version, Dataset
<1>5. CASE /\ links' = links /\ UNCHANGED <<catalogue, functions>>
           /\ cli'.pc \notin {"tables", "functions"}
  BY <1>5 DEF LinksAreKnown, OrphanedLinksAreLate
<1>6. CASE GuardRoleRemoval /\ cli' # NoRun
  <2>1. /\ UNCHANGED <<links, catalogue, functions>>
        /\ cli' = [cli EXCEPT !.pc = "tables"]
        /\ ((DOMAIN catalogue[Dataset].roles) \ DOMAIN RoleRows(PlanNow)) \cap Linked(Dataset) = {}
    BY <1>6 DEF GuardRoleRemoval, OnlyRun, database, GoTo, Stop
  <2>2. Dataset' = Dataset /\ PlanNow' = PlanNow
    BY <2>1 DEF Dataset, Version, PlanNow, TypeOK
  <2>3. ASSUME NEW l \in links, ~ l.late, l.dataset = Dataset
        PROVE  <<l.source, l.property>> \in DOMAIN RoleRows(PlanNow)
    <3>1. <<l.source, l.property>> \in Linked(Dataset)
      BY <2>3 DEF Linked
    <3>2. <<l.source, l.property>> \in DOMAIN catalogue[Dataset].roles
      BY <2>3 DEF LinksAreKnown
    <3> QED
      BY <2>1, <3>1, <3>2
  <2>4. LinksAreKnown'
    BY <2>1, <2>2, <2>3 DEF LinksAreKnown
  <2> QED
    BY <2>1, <2>4 DEF OrphanedLinksAreLate
<1>7. CASE ApplyTables /\ ~ TablesApplied
  BY <1>5, <1>7, ApplyTablesSteps DEF Stop, OnlyRun, database, NoRun
<1>8. CASE \/ StartApply \/ ApplyTopogdb \/ ApplyDispatch \/ BuildPlan \/ EndRun
           \/ GuardRoleRemoval /\ cli' = NoRun
  BY <1>5, <1>8 DEF StartApply, ApplyTopogdb, ApplyDispatch, BuildPlan, EndRun,
       GuardRoleRemoval, GoTo, Stop, NoRun, OnlyRun, database, TypeOK
<1>9. CASE DeleteLink \/ Serve \/ (\E d \in DatasetNames : EditDescription(d)) \/ UNCHANGED vars
  BY <1>4, <1>9 DEF DeleteLink, Serve, EditDescription, database, vars
<1> QED
  BY <1>1, <1>2, <1>3, <1>6, <1>7, <1>8, <1>9 DEF Next, FunctionsApplied, ApplyFunctions

LEMMA InitInv == Init => IInv
<1> SUFFICES ASSUME Init PROVE IInv
  OBVIOUS
<1> USE DEF Init
<1>1. /\ DOMAIN None = {} /\ cli.pc = "idle" /\ cli.at = 1
      /\ file \in [DatasetNames -> Valid] /\ \A d \in DatasetNames : file[d] \in Files[d]
  BY DEF None, NoRun
<1>2. Valid \subseteq DOMAIN Descriptions
  BY DEF Valid
<1>3. TypeOK
  BY <1>1, <1>2, FilesAssumption DEF TypeOK, NoRun, Stages
<1>4. Maps /\ Committed /\ RunSoFar
  BY <1>1 DEF Maps, Committed, RunSoFar
<1>5. FunctionsAreDeployed /\ FunctionsHaveTables /\ AppliedStays
  BY <1>1 DEF FunctionsAreDeployed, FunctionsHaveTables, AppliedStays
<1>6. LinksAreKnown /\ OrphanedLinksAreLate
  BY DEF LinksAreKnown, OrphanedLinksAreLate
<1> QED
  BY <1>3, <1>4, <1>5, <1>6 DEF IInv

LEMMA NextInv == IInv /\ [Next]_vars => IInv'
BY TypeStep, CommittedStep, RunSoFarStep, FunctionsStep, AppliedStep, LinksStep DEF IInv

\* What is committed, and where the run is, fit together in every state.
THEOREM ApplyKeepsTrack == Spec => []IInv
<1>1. Init => IInv
  BY InitInv
<1>2. IInv /\ [Next]_vars => IInv'
  BY NextInv
<1> QED
  BY <1>1, <1>2, PTL DEF Spec

-----------------------------------------------------------------------------
(* What follows from it.                                                    *)

\* A run is at a stage and a dataset with descriptions that resolve; tables
\* and functions come from such descriptions, whatever the files hold by now.
THEOREM ApplyIsTyped == Spec => []TypeOK
<1>1. IInv => TypeOK
  BY DEF IInv
<1> QED
  BY <1>1, ApplyKeepsTrack, PTL

\* What the loader lets through and the database took is what the generated
\* SQL takes for granted, for every set of descriptions.
THEOREM InstalledStaysSound == Spec => []InstalledIsSound
<1>1. IInv => InstalledIsSound
  <2> SUFFICES ASSUME IInv, NEW d \in DatasetNames, NEW key \in DOMAIN functions[d]
               PROVE  IsSound(Resolved[functions[d][key]],
                              Resolved[functions[d][key]][key[1]], key[1])
    BY DEF InstalledIsSound
  <2> DEFINE v == functions[d][key]
  <2>1. v \in Valid /\ key \in DOMAIN Generated(v) /\ Deployed(v)
    BY DEF IInv, TypeOK, FunctionsAreDeployed
  <2>2. key[1] \in DOMAIN Resolved[v]
    BY <2>1, GeneratedKeys
  <2> HIDE DEF v
  <2>3. IsSound(Resolved[v], Resolved[v][key[1]], key[1])
    BY <2>1, <2>2, VersionIsSound
  <2> QED
    BY <2>3 DEF v
<1> QED
  BY <1>1, ApplyKeepsTrack, PTL

\* Wherever a run ends, no function is installed without its table, its
\* capability, its roles and the tables they link to.
THEOREM FunctionsKeepTheirTables == Spec => []FunctionsHaveTables
<1>1. IInv => FunctionsHaveTables
  BY DEF IInv
<1> QED
  BY <1>1, ApplyKeepsTrack, PTL

\* A run that gets through leaves nothing of earlier runs in the way of the
\* descriptions it loaded.
THEOREM FinishedRunsAreComplete == Spec => []FinishedRunIsComplete
<1>1. IInv => FinishedRunIsComplete
  <2> SUFFICES ASSUME IInv, cli.pc = "done" PROVE FinishedRunIsComplete
    BY DEF FinishedRunIsComplete
  <2>1. base = {"topogdb", "ogc"}
    BY DEF IInv, TypeOK, Committed
  <2>2. \A d \in DatasetNames :
           SeededFor(d, cli.loaded[d]) /\ InstalledFor(d, cli.loaded[d])
    BY DEF IInv, RunSoFar, DatasetNames, ToSet
  <2> QED
    BY <2>1, <2>2 DEF FinishedRunIsComplete, SeededFor, InstalledFor
<1> QED
  BY <1>1, ApplyKeepsTrack, PTL

\* An API that serves a description which was applied keeps every operation
\* it offers through any later run.
THEOREM ServedOperationsStay == Spec => []ServedOperationsExist
<1>1. IInv => ServedOperationsExist
  <2> SUFFICES ASSUME IInv, NEW d \in DOMAIN served, served[d] \in applied[d]
               PROVE  "ogc" \in base /\ DOMAIN Generated(served[d]) \subseteq DOMAIN functions[d]
    BY DEF ServedOperationsExist
  <2>1. d \in DatasetNames
    BY DEF IInv, TypeOK, None
  <2> QED
    BY <2>1 DEF IInv, AppliedStays
<1> QED
  BY <1>1, ApplyKeepsTrack, PTL

\* A link whose property no function knows was written between the guard of a
\* run and its functions.
THEOREM OnlyLateLinksAreOrphaned == Spec => []OrphanedLinksAreLate
<1>1. IInv => OrphanedLinksAreLate
  BY DEF IInv
<1> QED
  BY <1>1, ApplyKeepsTrack, PTL
=============================================================================
