------------------------------ MODULE TablePlans ------------------------------
(***************************************************************************)
(* The column plan that schema/build.py derives from a resolved            *)
(* collection: what a column strips, injects, demands and computes.        *)
(***************************************************************************)
EXTENDS Naturals, Sequences, FiniteSets

(* From a resolved collection to its table plan.  A collection is a record  *)
(* [simple, upsert, geometryRequired, outward, managed, fields]: outward    *)
(* and upsert are paths (sequences of names, empty if there is none),       *)
(* managed maps paths to tokens, fields maps names to [type, required,      *)
(* codes, children].  Children have no children here.                       *)

ManagedKeys(coll, name, token) ==
    {path[2] : path \in {p \in DOMAIN coll.managed :
                            Len(p) = 2 /\ p[1] = name /\ coll.managed[p] = token}}

OutwardKeys(coll, name) ==
    IF Len(coll.outward) = 2 /\ coll.outward[1] = name
    THEN {coll.outward[2]} ELSE {}

\* Mutant: only the server_managed paths are stripped, not the path under
\* outward_identifier.
StrippedManagedOnly(coll, name) ==
    UNION {ManagedKeys(coll, name, token) :
             token \in {"outward_identifier", "timestamp_iso"}}

\* strip_keys: what a client may send and the row does not keep.
StripKeys(coll, name) ==
    OutwardKeys(coll, name) \cup
    UNION {ManagedKeys(coll, name, token) :
             token \in {"outward_identifier", "timestamp_iso"}}

\* id_inject_key, as a set of at most one key.
InjectKeys(coll, name) ==
    IF OutwardKeys(coll, name) # {} THEN OutwardKeys(coll, name)
    ELSE ManagedKeys(coll, name, "outward_identifier")

ServerSupplied(coll, path) == path = coll.outward \/ path \in DOMAIN coll.managed

\* The rule of a scalar field: none, or its server_write_expr.
WriteRule(coll, name) ==
    IF <<name>> \in DOMAIN coll.managed THEN coll.managed[<<name>>] ELSE "none"

\* build_schema_plan raises a ValueError otherwise.
Builds(coll) ==
    \A name \in DOMAIN coll.fields :
        coll.fields[name].type # "jsonb" /\ WriteRule(coll, name) = "outward_identifier"
            => coll.outward # <<>>

Column(coll, name) ==
    LET fld == coll.fields[name]
    IN  [isObject |-> fld.type = "jsonb",
         nullable |-> ~ fld.required,
         stripped |-> StripKeys(coll, name),
         injected |-> InjectKeys(coll, name),
         stamped |-> ManagedKeys(coll, name, "timestamp_iso"),
         codes |-> fld.codes,
         rule |-> IF fld.type = "jsonb" THEN "none" ELSE WriteRule(coll, name),
         children |->
            [k \in DOMAIN fld.children |->
                [type |-> fld.children[k].type,
                 codes |-> fld.children[k].codes,
                 demanded |-> /\ fld.children[k].required
                              /\ ~ ServerSupplied(coll, <<name, k>>)]]]

TablePlan(coll) ==
    [columns |-> [name \in DOMAIN coll.fields |-> Column(coll, name)],
     outward |-> coll.outward,
     geometryNullable |-> ~ coll.geometryRequired]

\* The column that carries the outward identifier (one at most).
OiColumns(plan) ==
    {name \in DOMAIN plan.columns : plan.columns[name].injected # {}}
=============================================================================
