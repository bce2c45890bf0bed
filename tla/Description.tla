------------------------------ MODULE Description ------------------------------
(***************************************************************************)
(* A dataset description as a file gives it (descriptions/models.py), what *)
(* makes the loader refuse it, and the resolved dataset it becomes         *)
(* (descriptions/loader.py).  "" is a key that is not given; a path is a   *)
(* sequence of names; the fields of an object have no fields themselves.   *)
(***************************************************************************)
EXTENDS TablePlans, SequencesExt

CONSTANTS Processes \* the ids a dataset may declare

Names(s) == {x.name : x \in ToSet(s)}
Named(s, n) == CHOOSE x \in ToSet(s) : x.name = n
\* {**g, **f}: what f says goes before what g says.
Over(f, g) == [x \in (DOMAIN f) \cup DOMAIN g |-> IF x \in DOMAIN f THEN f[x] ELSE g[x]]
NamesAreDistinct(s) == \A i, j \in DOMAIN s : s[i].name = s[j].name => i = j

-----------------------------------------------------------------------------
(* The shape of the file.                                                   *)

BuiltinTypes ==
    [string |-> "text", integer |-> "integer", number |-> "double precision",
     boolean |-> "boolean", date |-> "date", timestamp |-> "timestamptz",
     uuid |-> "uuid", object |-> "jsonb"]

LineTypes == {"LineString", "MultiLineString"}

FieldIsWellFormed(f) ==
    /\ IF f.type = "object"
       THEN f.fields # <<>> /\ f.typeRef = "" /\ f.codelist = ""
       ELSE Cardinality({k \in {"type", "typeRef", "codelist"} : f[k] # ""}) = 1
    /\ f.auto => f.type = "integer"

CollectionIsWellFormed(coll) ==
    /\ \A f \in ToSet(coll.fields) :
          FieldIsWellFormed(f) /\ \A child \in ToSet(f.fields) : FieldIsWellFormed(child)
    /\ \A path \in DOMAIN coll.managed :
          coll.managed[path] \in {"outward_identifier", "timestamp_iso"}
    /\ coll.derived.rule = "footprint" =>
          /\ coll.geometry = "MultiPolygon"
          /\ coll.derived.oneOf # <<>>
          /\ <<>> \notin ToSet(coll.derived.oneOf)
    /\ coll.bounds \in 0 .. 2

-----------------------------------------------------------------------------
(* Fields.  The vocabulary holds what fields refer to by name; a dataset's  *)
(* code lists go before the common ones.                                    *)

Vocabulary(dataset, commons) ==
    [types |-> commons.types, codelists |-> Over(dataset.codelists, commons.codelists)]

TypeIsKnown(f, voc) ==
    CASE f.type = "object" -> TRUE
      [] f.codelist # "" -> f.codelist \in DOMAIN voc.codelists
      [] f.typeRef # "" -> f.typeRef \in DOMAIN voc.types
      [] OTHER -> f.type \in DOMAIN BuiltinTypes

SqlType(f, voc) ==
    CASE f.type = "object" -> "jsonb"
      [] f.codelist # "" -> "text"
      [] f.typeRef # "" -> voc.types[f.typeRef]
      [] OTHER -> BuiltinTypes[f.type]

ResolvedField(f, voc) ==
    [type |-> SqlType(f, voc), required |-> f.required, auto |-> f.auto,
     codes |-> IF f.type # "object" /\ f.codelist # "" THEN voc.codelists[f.codelist] ELSE {},
     children |->
        [k \in (IF f.type = "object" THEN Names(f.fields) ELSE {}) |->
            LET child == Named(f.fields, k)
            IN  [type |-> SqlType(child, voc), required |-> child.required,
                 codes |-> IF child.codelist # "" THEN voc.codelists[child.codelist] ELSE {}]]]

Merged(coll, commons) == commons.baseFields \o coll.fields

FieldsResolve(coll, commons, voc) ==
    /\ NamesAreDistinct(Merged(coll, commons))
    /\ \A f \in ToSet(Merged(coll, commons)) :
          /\ TypeIsKnown(f, voc)
          /\ f.type = "object" => \A child \in ToSet(f.fields) : TypeIsKnown(child, voc)

ResolvedFields(coll, commons, voc) ==
    [n \in Names(Merged(coll, commons)) |-> ResolvedField(Named(Merged(coll, commons), n), voc)]

\* _resolve_dot_path
PathExists(fields, path) ==
    /\ path[1] \in DOMAIN fields
    /\ Len(path) > 1 => path[2] \in DOMAIN fields[path[1]].children

-----------------------------------------------------------------------------
(* The upsert identifier.                                                   *)

UpsertField(coll, fields) ==
    IF coll.outward # <<>> THEN coll.outward
    ELSE IF "lokalid" \in DOMAIN fields THEN <<"lokalid">>
    ELSE <<>>

\* The first to give an alias wins: a field, a field of an object as
\* "object_field", the outward identifier, its last segment.
AliasPaths(fields, outward) ==
    LET pairs == UNION {{n} \X DOMAIN fields[n].children : n \in DOMAIN fields}
        alias(p) == <<p[1] \o "_" \o p[2]>>
        names == [a \in {<<n>> : n \in DOMAIN fields} |-> a]
        members == [a \in {alias(p) : p \in pairs} |-> CHOOSE p \in pairs : alias(p) = a]
        ids == [a \in IF outward = <<>> THEN {} ELSE {outward, <<Last(outward)>>} |-> outward]
    IN  Over(names, Over(members, ids))

\* Mutant: an auto-increment field may be the upsert identifier.
UpsertIsAnyField(coll, fields) ==
    LET upsert == UpsertField(coll, fields)
    IN  upsert # <<>> => upsert \in DOMAIN AliasPaths(fields, coll.outward)

UpsertIsUsable(coll, fields) ==
    LET upsert == UpsertField(coll, fields)
        aliases == AliasPaths(fields, coll.outward)
    IN  upsert # <<>> =>
          /\ upsert \in DOMAIN aliases
          /\ \A n \in DOMAIN fields : fields[n].auto => aliases[upsert] # <<n>>

-----------------------------------------------------------------------------
(* Relationships, bounds and derived geometry look at other collections.    *)

Targeted(dataset) ==
    {rel.target : rel \in UNION {ToSet(c.relationships) : c \in ToSet(dataset.collections)}}

\* _validate_bounds
BoundsAreUsable(coll, dataset) ==
    coll.bounds # 0 => coll.name \in Targeted(dataset) /\ coll.geometry \in LineTypes

RelationshipsResolve(coll, dataset) ==
    \A rel \in ToSet(coll.relationships) : rel.target \in Names(dataset.collections)

DerivedRoles(coll) ==
    IF coll.derived.rule = "none" THEN {}
    ELSE UNION {ToSet(alternative) : alternative \in ToSet(coll.derived.oneOf)}

\* The target a derived role links to: the last relationship of that name.
TargetOf(coll, property) ==
    LET s == coll.relationships
        last == CHOOSE i \in DOMAIN s :
                   s[i].name = property /\ \A j \in DOMAIN s : s[j].name = property => j <= i
    IN  s[last].target

\* _resolve_derived, for one role
RoleResolves(coll, role, dataset, fieldsOf) ==
    /\ role.name \in Names(coll.relationships)
    /\ LET target == Named(dataset.collections, TargetOf(coll, role.name))
       IN  /\ target.geometry \in LineTypes
           /\ target.srid = coll.srid
           /\ role.when # "" =>
                /\ role.when \in DOMAIN fieldsOf[target.name]
                /\ fieldsOf[target.name][role.when].type = "boolean"

-----------------------------------------------------------------------------
(* The dataset.                                                             *)

FieldsOf(dataset, commons) ==
    [n \in Names(dataset.collections) |->
        ResolvedFields(Named(dataset.collections, n), commons, Vocabulary(dataset, commons))]

\* No error on the way through models.py and resolve_dataset.
Resolves(dataset, commons) ==
    LET voc == Vocabulary(dataset, commons)
    IN  /\ \A coll \in ToSet(dataset.collections) : CollectionIsWellFormed(coll)
        /\ dataset.processes \subseteq Processes
        /\ \A coll \in ToSet(dataset.collections) :
             /\ coll.name \notin {"association", "association_role"}
             /\ FieldsResolve(coll, commons, voc)
             /\ LET fields == ResolvedFields(coll, commons, voc)
                IN  /\ coll.outward # <<>> => PathExists(fields, coll.outward)
                    /\ \A path \in DOMAIN coll.managed : PathExists(fields, path)
                    /\ UpsertIsUsable(coll, fields)
        /\ \A coll \in ToSet(dataset.collections) :
             /\ BoundsAreUsable(coll, dataset)
             /\ RelationshipsResolve(coll, dataset)
             /\ \A role \in DerivedRoles(coll) :
                   RoleResolves(coll, role, dataset, FieldsOf(dataset, commons))

ResolvedCollection(coll, commons, voc) ==
    LET fields == ResolvedFields(coll, commons, voc)
    IN  [simple |-> coll.simple, upsert |-> UpsertField(coll, fields),
         bounds |-> coll.bounds, geometry |-> coll.geometry, srid |-> coll.srid,
         geometryRequired |-> coll.required, outward |-> coll.outward,
         managed |-> coll.managed, fields |-> fields,
         roles |-> [p \in Names(coll.relationships) |-> TargetOf(coll, p)],
         derived |-> {[name |-> role.name, target |-> TargetOf(coll, role.name),
                       when |-> role.when] : role \in DerivedRoles(coll)}]

\* resolve_dataset
ResolvedDataset(dataset, commons) ==
    [n \in Names(dataset.collections) |->
        ResolvedCollection(Named(dataset.collections, n), commons,
                           Vocabulary(dataset, commons))]
=============================================================================
