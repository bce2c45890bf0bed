------------------------------ MODULE FeatureRow ------------------------------
(***************************************************************************)
(* What the generated write functions make of one GeoJSON feature: the     *)
(* checks a table plan is turned into (P0001 "raise exception"), the row   *)
(* that is stored, and the feature that is read back                       *)
(* (schema/functions.py).                                                  *)
(* Link properties are the matter of OgcTransaction.                       *)
(***************************************************************************)
EXTENDS TablePlans

CONSTANTS
    Ids,     \* uuids
    TextOf,  \* a uuid's canonical text (id::text)
    UuidOf   \* the uuid a text denotes, for the texts that denote one

ASSUME IdsAssumption ==
    /\ TextOf \in [Ids -> DOMAIN UuidOf]
    /\ UuidOf \in [DOMAIN UuidOf -> Ids]
    /\ \A i \in Ids : UuidOf[TextOf[i]] = i

-----------------------------------------------------------------------------
(* JSON values, told apart by jsonb_typeof.  Absent is SQL null, which is   *)
(* also what -> and ->> give for a member that is not there.                *)

Absent == [json |-> "absent"]
Null == [json |-> "null"]
Number == [json |-> "number"]
Text(t) == [json |-> "string", text |-> t]
Object(m) == [json |-> "object", members |-> m]

\* No value at all: the expression raises a PostgreSQL error.
Error == [json |-> "error"]

NoMembers == [k \in {} |-> Absent]

\* value -> 'key'
Get(v, k) ==
    IF v.json = "object" /\ k \in DOMAIN v.members THEN v.members[k] ELSE Absent

\* value ->> 'key', once the member is taken; numbers, booleans and objects
\* are abstracted to a text of their own.
AsText(v) ==
    CASE v.json = "string" -> v
      [] v.json = "number" -> Text("1")
      [] v.json = "boolean" -> Text("true")
      [] v.json = "object" -> Text("{}")
      [] OTHER -> Absent

\* What now() gives.
Now == Text("now")

JsonTypeOf(type) ==
    CASE type \in {"integer", "double precision"} -> "number"
      [] type = "boolean" -> "boolean"
      [] type = "jsonb" -> "object"
      [] OTHER -> "string"

\* What a client may send as a value.
IsJson(v) ==
    /\ v.json \in {"null", "boolean", "number", "string", "object"}
    /\ v.json = "object" => v = Object([k \in DOMAIN v.members |-> v.members[k]])

-----------------------------------------------------------------------------
(* The checks.  A feature is [id, geometry, properties]: two JSON values    *)
(* ("valid", "invalid", "null" or "absent" stand for the geometry) and a    *)
(* function from the names that occur to JSON values.                       *)

Property(f, name) == Get(Object(f.properties), name)

\* _enum_checks
CodesAreValid(plan, f) ==
    \A name \in DOMAIN plan.columns :
        LET col == plan.columns[name]
            value == AsText(Property(f, name))
        IN  ~ col.isObject /\ col.rule = "none" /\ col.codes # {} /\ value # Absent
                => value.text \in col.codes

\* _nested_field_checks: a demanded child of an object, or of a JSON null,
\* must be there.
ChildIsValid(child, v, k) ==
    LET value == Get(v, k)
    IN  /\ child.demanded /\ v.json # "absent" =>
               value.json \notin {"absent", "null"}
        /\ value.json \in {"absent", "null", JsonTypeOf(child.type)}
        /\ value.json = "string" /\ child.codes # {} => value.text \in child.codes

\* _nested_object_checks
ObjectIsValid(col, v) ==
    /\ v.json = "object" => DOMAIN v.members \subseteq DOMAIN col.children
    /\ \A k \in DOMAIN col.children : ChildIsValid(col.children[k], v, k)

\* The columns whose object is declared; any other jsonb column takes any value.
Declared(plan) ==
    {n \in DOMAIN plan.columns :
        plan.columns[n].isObject /\ DOMAIN plan.columns[n].children # {}}

\* Mutant: PATCH checks no object.
PatchedObjectsUnchecked(plan, f, partial) ==
    partial \/ \A name \in DOMAIN plan.columns :
                  LET v == Property(f, name)
                  IN  plan.columns[name].isObject =>
                        v.json = "object" /\ ObjectIsValid(plan.columns[name], v)

\* _nested_checks; "partial" is guarded_by_presence.
ObjectsAreValid(plan, f, partial) ==
    \A name \in Declared(plan) :
        LET col == plan.columns[name]
            v == Property(f, name)
        IN  /\ partial \/ col.nullable \/ v.json \notin {"absent", "null"}
            /\ v.json \in {"absent", "null", "object"}
            /\ ObjectIsValid(col, v)

\* _geom_checks
GeometryIsValid(plan, f, partial) ==
    \/ f.geometry = "valid"
    \/ f.geometry = "null" /\ plan.geometryNullable
    \/ f.geometry = "absent" /\ partial

Passes(plan, f, partial) ==
    /\ CodesAreValid(plan, f)
    /\ ObjectsAreValid(plan, f, partial)
    /\ GeometryIsValid(plan, f, partial)

-----------------------------------------------------------------------------
(* Identifiers.                                                             *)

IdText(f) == AsText(f.id)
OiText(plan, f) ==
    IF OiColumns(plan) = {} THEN Absent
    ELSE LET name == CHOOSE n \in OiColumns(plan) : TRUE
             key == CHOOSE k \in plan.columns[name].injected : TRUE
         IN  AsText(Get(Property(f, name), key))

\* _uuid_check
IsUuid(t) == t # Absent => t.text \in DOMAIN UuidOf

\* Both are there and differ as texts.
Disagree(a, b) == a # Absent /\ b # Absent /\ a.text # b.text

IdentifierIsValid(plan, f) ==
    /\ IsUuid(IdText(f))
    /\ IsUuid(OiText(plan, f))
    /\ ~ Disagree(IdText(f), OiText(plan, f))

\* coalesce((feature->>'id')::uuid, _oi_raw::uuid), as a set of at most one.
NamedIds(plan, f) ==
    LET raw == IF IdText(f) # Absent THEN IdText(f) ELSE OiText(plan, f)
    IN  {UuidOf[t] : t \in {u \in DOMAIN UuidOf : raw = Text(u)}}

\* The guard of replace and update.
MatchesOutward(plan, f, id) == ~ Disagree(OiText(plan, f), Text(TextOf[id]))

-----------------------------------------------------------------------------
(* The row.                                                                 *)

\* _prop_read for a jsonb column: "#-" on a JSON null is an error, "#-" and
\* "||" on SQL null give SQL null.
StoredObject(col, v) ==
    IF col.stripped = {} \/ v.json = "absent" THEN v
    ELSE IF v.json # "object" THEN Error
    ELSE Object([k \in (DOMAIN v.members \ col.stripped) \cup col.stamped |->
                    IF k \in col.stamped THEN Now ELSE v.members[k]])

\* server_write_expr
ServerValue(plan, col, f) ==
    IF col.rule = "timestamp_iso" THEN Now
    ELSE IF Len(plan.outward) = 1 THEN AsText(Property(f, plan.outward[1]))
    ELSE AsText(Get(Property(f, plan.outward[1]), plan.outward[2]))

Cell(plan, f, name) ==
    LET col == plan.columns[name]
    IN  IF col.isObject THEN StoredObject(col, Property(f, name))
        ELSE IF col.rule # "none" THEN ServerValue(plan, col, f)
        ELSE AsText(Property(f, name))

FullRow(plan, f) ==
    [geometry |-> f.geometry,
     cells |-> [name \in DOMAIN plan.columns |-> Cell(plan, f, name)]]

\* Only what the feature carries changes; columns the server computes are
\* computed on every write.
PatchedRow(plan, f, row) ==
    [geometry |-> IF f.geometry = "absent" THEN row.geometry ELSE f.geometry,
     cells |-> [name \in DOMAIN plan.columns |->
                  IF name \in DOMAIN f.properties \/ plan.columns[name].rule # "none"
                  THEN Cell(plan, f, name) ELSE row.cells[name]]]

\* No expression fails and no NOT NULL column is null (JSON null is not).
Storable(plan, row) ==
    \A name \in DOMAIN plan.columns :
        /\ row.cells[name] # Error
        /\ plan.columns[name].nullable \/ row.cells[name] # Absent

-----------------------------------------------------------------------------
(* Reading it back.                                                         *)

\* _scalar_properties_object: SQL null stays null, whatever is injected.
ReadCell(plan, row, id, name) ==
    LET v == row.cells[name]
        keys == plan.columns[name].injected
    IN  IF v = Absent THEN Null
        ELSE IF v.json # "object" THEN v
        ELSE Object([k \in DOMAIN v.members \cup keys |->
                        IF k \in keys THEN Text(TextOf[id]) ELSE v.members[k]])

\* _feature_object
ReadFeature(plan, row, id) ==
    [id |-> Text(TextOf[id]),
     geometry |-> row.geometry,
     properties |-> [name \in DOMAIN plan.columns |-> ReadCell(plan, row, id, name)]]
=============================================================================
