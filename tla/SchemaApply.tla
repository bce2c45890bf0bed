------------------------------ MODULE SchemaApply ------------------------------
(***************************************************************************)
(* "geocomponents apply-schema" (cli.py): it loads every description and   *)
(* then commits, one after the other, the helpers (topogdb), the dispatch  *)
(* functions (ogc), and for each dataset its tables and its functions,     *)
(* while the API serves the dataset and clients write links through the    *)
(* functions that are installed.  Descriptions are edited between runs,    *)
(* and a run may end at any point.                                         *)
(***************************************************************************)
EXTENDS Description

CONSTANTS
    Datasets,     \* their names, in the order of their files
    Descriptions, \* the versions of a description, by name
    Files,        \* the versions that may be in the file of each dataset
    Commons,      \* the shared description
    MaxApplies    \* bound: runs of apply-schema

IsASequence(s) == s \in Seq(ToSet(s))

\* What a file lists, it lists in an order (descriptions/models.py: tuples).
ASSUME ListsAssumption ==
    /\ IsASequence(Datasets)
    /\ \A v \in DOMAIN Descriptions : \A coll \in ToSet(Descriptions[v].collections) :
          IsASequence(coll.relationships) /\ IsASequence(coll.outward)

ASSUME FilesAssumption ==
    /\ MaxApplies \in Nat
    /\ \A d \in ToSet(Datasets) :
          /\ Files[d] \subseteq DOMAIN Descriptions
          /\ \E v \in Files[d] : Resolves(Descriptions[v], Commons)

VARIABLES
    file,      \* the version in each file
    cli,       \* the run: where it is, what it loaded, the dataset it is at
    applies,   \* how many runs there were
    base,      \* the schemas "topogdb" and "ogc", as far as they exist
    tables,    \* per dataset: the columns of each collection's table
    catalogue, \* per dataset: collection_capability and association_role
    functions, \* per dataset: the version each <<collection, op>> is from
    links,     \* the association rows, as [dataset, source, property, late]
    served,    \* the versions the API has loaded
    applied    \* per dataset: the versions applied to the end

database == <<base, tables, catalogue, functions>>
vars == <<file, cli, applies, database, links, served, applied>>

None == [n \in {} |-> {}]
DatasetNames == ToSet(Datasets)

Valid == {v \in DOMAIN Descriptions : Resolves(Descriptions[v], Commons)}
Resolved == [v \in Valid |-> ResolvedDataset(Descriptions[v], Commons)]

LoadSucceeds == Datasets # <<>> /\ \A d \in DatasetNames : file[d] \in Valid

NoRun == [pc |-> "idle", loaded |-> None, at |-> 1]

Init ==
    /\ file \in {f \in [DatasetNames -> Valid] : \A d \in DatasetNames : f[d] \in Files[d]}
    /\ cli = NoRun
    /\ applies = 0
    /\ base = {}
    /\ tables = [d \in DatasetNames |-> None]
    /\ catalogue = [d \in DatasetNames |-> [capability |-> None, roles |-> None]]
    /\ functions = [d \in DatasetNames |-> None]
    /\ links = {}
    /\ served = None
    /\ applied = [d \in DatasetNames |-> {}]

-----------------------------------------------------------------------------
(* What a plan installs.                                                    *)

Reserved == {"id", "created_at", "updated_at", "geometry"}

Operations(coll) ==
    {"items", "item", "create", "replace", "update", "delete"} \cup
    IF coll.simple /\ coll.upsert # <<>> THEN {"upsert"} ELSE {}

Capabilities(plan) == [c \in DOMAIN plan |-> plan[c].simple]

RoleRows(plan) ==
    LET keys == UNION {{c} \X DOMAIN plan[c].roles : c \in DOMAIN plan}
    IN  [k \in keys |-> plan[k[1]].roles[k[2]]]

Generated(version) ==
    LET plan == Resolved[version]
        keys == UNION {{c} \X Operations(plan[c]) : c \in DOMAIN plan}
    IN  [k \in keys |-> version]

\* create table if not exists: a table that is there keeps its columns.
Tables(plan, present) ==
    Over(present, [c \in DOMAIN plan |-> DOMAIN plan[c].fields])

\* The DDL fails: no row to insert, the same row or column twice, or a table
\* that is there under another name's guise.
DdlFails(dataset, plan, present) ==
    \/ dataset.collections = <<>>
    \/ ~ NamesAreDistinct(dataset.collections)
    \/ \E c \in ToSet(dataset.collections) : ~ NamesAreDistinct(c.relationships)
    \/ \E c \in DOMAIN plan \ DOMAIN present : DOMAIN plan[c].fields \cap Reserved # {}
    \/ "collection_capability" \in DOMAIN plan

-----------------------------------------------------------------------------
(* The run.                                                                 *)

Dataset == Datasets[cli.at]
Version == cli.loaded[Dataset]
PlanNow == Resolved[Version]

Stop == cli' = NoRun
GoTo(pc) == cli' = [cli EXCEPT !.pc = pc]
OnlyRun == UNCHANGED <<file, applies, links, served, applied>>

\* _load_datasets; an invalid description ends the run before it connects.
StartApply ==
    /\ cli.pc = "idle"
    /\ applies < MaxApplies
    /\ LoadSucceeds
    /\ cli' = [pc |-> "topogdb", loaded |-> file, at |-> 1]
    /\ applies' = applies + 1
    /\ UNCHANGED <<file, database, links, served, applied>>

\* drop schema topogdb cascade, create, commit.
ApplyTopogdb ==
    /\ cli.pc = "topogdb"
    /\ base' = base \cup {"topogdb"}
    /\ GoTo("dispatch")
    /\ OnlyRun /\ UNCHANGED <<tables, catalogue, functions>>

\* Mutant: the drop of schema ogc is committed on its own.
DispatchInTwo ==
    /\ cli.pc = "dispatch"
    /\ IF "ogc" \in base
       THEN base' = base \ {"ogc"} /\ UNCHANGED cli
       ELSE base' = base \cup {"ogc"} /\ GoTo("plan")
    /\ OnlyRun /\ UNCHANGED <<tables, catalogue, functions>>

ApplyDispatch ==
    /\ cli.pc = "dispatch"
    /\ base' = base \cup {"ogc"}
    /\ GoTo("plan")
    /\ OnlyRun /\ UNCHANGED <<tables, catalogue, functions>>

\* build_schema_plan
BuildPlan ==
    /\ cli.pc = "plan"
    /\ IF \A c \in DOMAIN PlanNow : Builds(PlanNow[c]) THEN GoTo("guard") ELSE Stop
    /\ OnlyRun /\ UNCHANGED database

Linked(d) == {<<l.source, l.property>> : l \in {l \in links : l.dataset = d}}

\* Mutant: the guard looks at nothing.
NoGuard == cli.pc = "guard" /\ GoTo("tables") /\ OnlyRun /\ UNCHANGED database

\* _guard_association_role_removal
GuardRoleRemoval ==
    /\ cli.pc = "guard"
    /\ LET removed == DOMAIN catalogue[Dataset].roles \ DOMAIN RoleRows(PlanNow)
       IN  IF removed \cap Linked(Dataset) = {} THEN GoTo("tables") ELSE Stop
    /\ OnlyRun /\ UNCHANGED database

\* Mutant: rows of the catalogue that are there stay as they are.
SeedOnce ==
    [capability |-> Over(catalogue[Dataset].capability, Capabilities(PlanNow)),
     roles |-> Over(catalogue[Dataset].roles, RoleRows(PlanNow))]

\* _collection_capability_seed_ddl, _association_role_seed_ddl
Seeded ==
    [capability |-> Over(Capabilities(PlanNow), catalogue[Dataset].capability),
     roles |-> Over(RoleRows(PlanNow), catalogue[Dataset].roles)]

\* Mutant: the functions are installed before the tables.
TablesAfterFunctions ==
    /\ cli.pc = "tables"
    /\ functions' = [functions EXCEPT ![Dataset] = Over(Generated(Version), @)]
    /\ IF DdlFails(Descriptions[Version], PlanNow, tables[Dataset])
       THEN Stop /\ UNCHANGED <<base, tables, catalogue>>
       ELSE /\ tables' = [tables EXCEPT ![Dataset] = Tables(PlanNow, @)]
            /\ catalogue' = [catalogue EXCEPT ![Dataset] = Seeded]
            /\ GoTo("functions")
            /\ UNCHANGED base
    /\ OnlyRun

\* The rest of apply_tables, one transaction with the guard.
ApplyTables ==
    /\ cli.pc = "tables"
    /\ IF DdlFails(Descriptions[Version], PlanNow, tables[Dataset])
       THEN Stop /\ UNCHANGED database
       ELSE /\ tables' = [tables EXCEPT ![Dataset] = Tables(PlanNow, @)]
            /\ catalogue' = [catalogue EXCEPT ![Dataset] = Seeded]
            /\ GoTo("functions")
            /\ UNCHANGED <<base, functions>>
    /\ OnlyRun

\* Mutant: the loop over the datasets does not end with the last one.
ApplyFunctionsAndOn ==
    /\ cli.pc = "functions"
    /\ functions' = [functions EXCEPT ![Dataset] = Over(Generated(Version), @)]
    /\ applied' = [applied EXCEPT ![Dataset] = @ \cup {Version}]
    /\ cli' = [cli EXCEPT !.pc = "plan", !.at = @ + 1]
    /\ UNCHANGED <<file, applies, base, tables, catalogue, links, served>>

\* apply_functions: functions of collections that are gone stay.
ApplyFunctions ==
    /\ cli.pc = "functions"
    /\ functions' = [functions EXCEPT ![Dataset] = Over(Generated(Version), @)]
    /\ applied' = [applied EXCEPT ![Dataset] = @ \cup {Version}]
    /\ IF cli.at = Len(Datasets) THEN GoTo("done")
       ELSE cli' = [pc |-> "plan", loaded |-> cli.loaded, at |-> cli.at + 1]
    /\ UNCHANGED <<file, applies, base, tables, catalogue, links, served>>

\* The run ends: it is through, or the process or the connection is lost.
EndRun == cli.pc # "idle" /\ Stop /\ OnlyRun /\ UNCHANGED database

-----------------------------------------------------------------------------
(* Around it.                                                               *)

EditDescription(d) ==
    /\ applies < MaxApplies
    /\ \E f \in Files[d] : file' = [file EXCEPT ![d] = f]
    /\ UNCHANGED <<cli, applies, database, links, served, applied>>

\* serve loads the descriptions once; it refuses to start with an invalid one.
Serve ==
    /\ LoadSucceeds
    /\ served' = file
    /\ UNCHANGED <<file, cli, applies, database, links, applied>>

\* The generated writes name every column of the plan.
FunctionFits(d, c, op) ==
    /\ <<c, op>> \in DOMAIN functions[d]
    /\ c \in DOMAIN tables[d]
    /\ DOMAIN Resolved[functions[d][<<c, op>>]][c].fields \subseteq tables[d][c]

\* A client creates a feature with a link (_link_write_create); the foreign
\* key wants the role.  The row is late if a run has looked at the links of
\* this dataset and not yet replaced the functions.
WriteLink(d) ==
    /\ "ogc" \in base
    /\ \E key \in DOMAIN functions[d] :
         /\ key[2] = "create" /\ FunctionFits(d, key[1], "create")
         /\ \E p \in DOMAIN Resolved[functions[d][key]][key[1]].roles :
              /\ <<key[1], p>> \in DOMAIN catalogue[d].roles
              /\ links' = links \cup
                   {[dataset |-> d, source |-> key[1], property |-> p,
                     late |-> cli.pc \in {"tables", "functions"} /\ Dataset = d]}
    /\ UNCHANGED <<file, cli, applies, database, served, applied>>

DeleteLink ==
    /\ "ogc" \in base
    /\ \E l \in links :
         /\ <<l.source, "delete">> \in DOMAIN functions[l.dataset]
         /\ links' = links \ {l}
    /\ UNCHANGED <<file, cli, applies, database, served, applied>>

Next ==
    \/ StartApply \/ ApplyTopogdb \/ ApplyDispatch \/ BuildPlan
    \/ GuardRoleRemoval \/ ApplyTables \/ ApplyFunctions \/ EndRun
    \/ \E d \in DatasetNames : EditDescription(d) \/ WriteLink(d)
    \/ Serve \/ DeleteLink

Spec == Init /\ [][Next]_vars

-----------------------------------------------------------------------------
(* Properties.                                                             *)

Stages == {"idle", "topogdb", "dispatch", "plan", "guard", "tables", "functions", "done"}

\* A run is at one of its stages and at one of its datasets, with a description
\* of each that the loader let through; every table has the columns, and every
\* function the collection and the operation, of some such description.
TypeOK ==
    /\ file \in [DatasetNames -> DOMAIN Descriptions]
    /\ cli = [pc |-> cli.pc, loaded |-> cli.loaded, at |-> cli.at]
    /\ cli.pc \in Stages
    /\ cli.pc # "idle" => cli.loaded \in [DatasetNames -> Valid] /\ cli.at \in DOMAIN Datasets
    /\ applies \in 0 .. MaxApplies
    /\ base \subseteq {"topogdb", "ogc"}
    /\ served = None \/ served \in [DatasetNames -> Valid]
    /\ \A l \in links : l.dataset \in DatasetNames
    /\ \A d \in DatasetNames :
          /\ file[d] \in Files[d]
          /\ applied[d] \subseteq Valid
          /\ \A c \in DOMAIN tables[d] : \E v \in Valid :
                c \in DOMAIN Resolved[v] /\ tables[d][c] = DOMAIN Resolved[v][c].fields
          /\ \A key \in DOMAIN functions[d] :
                functions[d][key] \in Valid /\ key \in DOMAIN Generated(functions[d][key])

\* What the generated SQL of a collection takes for granted: the upsert
\* identifier is a stored field the database does not number itself, a derived
\* surface has lines of its own SRID as roles and asks them for booleans, and
\* bounds are on lines something links to (schema/functions.py).
IsSound(plan, coll, name) ==
    /\ coll.upsert # <<>> =>
          /\ coll.upsert[1] \in DOMAIN coll.fields
          /\ Len(coll.upsert) = 1 => ~ coll.fields[coll.upsert[1]].auto
          /\ Len(coll.upsert) = 2 =>
                coll.upsert[2] \in DOMAIN coll.fields[coll.upsert[1]].children
    /\ \A r \in coll.derived :
          /\ r.name \in DOMAIN coll.roles /\ coll.roles[r.name] = r.target
          /\ plan[r.target].geometry \in LineTypes /\ plan[r.target].srid = coll.srid
          /\ r.when # "" => plan[r.target].fields[r.when].type = "boolean"
    /\ coll.bounds # 0 =>
          /\ coll.geometry \in LineTypes
          /\ \E c \in DOMAIN plan : \E p \in DOMAIN plan[c].roles : plan[c].roles[p] = name

\* What the loader lets through is what the generators take for granted,
\* stated of what is installed.
InstalledIsSound ==
    \A d \in DatasetNames : \A key \in DOMAIN functions[d] :
        \A plan \in {Resolved[functions[d][key]]} : IsSound(plan, plan[key[1]], key[1])

\* However a run ends, no function is installed whose table, capability or
\* roles are not: apply_tables is atomic and comes first.
FunctionsHaveTables ==
    \A d \in DatasetNames : \A key \in DOMAIN functions[d] :
        /\ key[1] \in DOMAIN tables[d]
        /\ key[1] \in DOMAIN catalogue[d].capability
        /\ \A coll \in {Resolved[functions[d][key]][key[1]]} : \A p \in DOMAIN coll.roles :
              /\ <<key[1], p>> \in DOMAIN catalogue[d].roles
              /\ coll.roles[p] \in DOMAIN tables[d]

\* A run that gets through leaves the database as the descriptions it loaded
\* want it, whatever earlier runs left behind half done.
FinishedRunIsComplete ==
    cli.pc = "done" =>
        /\ base = {"topogdb", "ogc"}
        /\ \A d \in DatasetNames : \A plan \in {Resolved[cli.loaded[d]]} :
              /\ \A c \in DOMAIN plan : catalogue[d].capability[c] = plan[c].simple
              /\ \A roles \in {RoleRows(plan)} : \A k \in DOMAIN roles :
                    catalogue[d].roles[k] = roles[k]
              /\ \A k \in DOMAIN Generated(cli.loaded[d]) :
                    functions[d][k] = cli.loaded[d]

\* An API that serves a description that has been applied finds every
\* operation it offers, whatever is applied later, by a run that is still at
\* it or that went down half-way.
ServedOperationsExist ==
    \A d \in DOMAIN served :
        served[d] \in applied[d] =>
            /\ "ogc" \in base
            /\ DOMAIN Generated(served[d]) \subseteq DOMAIN functions[d]

\* A link whose property the functions no longer know slipped in while a run
\* was between its guard and its functions; the guard lets no other one
\* behind.
OrphanedLinksAreLate ==
    \A l \in links :
        \/ l.late
        \/ \E key \in DOMAIN functions[l.dataset] :
              /\ key = <<l.source, "create">>
              /\ l.property \in DOMAIN Resolved[functions[l.dataset][key]][l.source].roles
=============================================================================
