----------------------------- MODULE FeatureTable -----------------------------
(***************************************************************************)
(* The rows of one collection under the requests of the dataset API: POST, *)
(* PUT, PATCH, DELETE, items:upsert, and the upsert-batch process, which   *)
(* upserts an array of features in one statement.  Every request has a     *)
(* connection of its own in autocommit mode, so a single write is one step;*)
(* a batch takes the lock of one row after the other and keeps them until  *)
(* its statement ends.                                                     *)
(***************************************************************************)
EXTENDS FeatureRow

CONSTANTS
    Collections, \* names of collections
    Resolved,    \* the resolved collections of those names
    Offered,     \* the features clients send to each of them
    Lists,       \* the feature arrays clients send to each of them
    Sessions,    \* connections that run a batch
    MaxBatches   \* bound: batches in all

ASSUME BatchesAssumption ==
    /\ MaxBatches \in Nat
    /\ \A c \in Collections :
          /\ Builds(Resolved[c])
          /\ \A fs \in Lists[c] :
                fs # <<>> /\ Len(fs) \in Nat /\ DOMAIN fs = 1 .. Len(fs)

IsFeature(f) == \A name \in DOMAIN f.properties : IsJson(f.properties[name])

\* Every path the server manages has one of two tokens and leads to a field,
\* and only an object has children (_VALID_SERVER_MANAGED_TOKENS in
\* descriptions/models.py, _resolve_dot_path and _resolve_field in
\* descriptions/loader.py); what clients send is JSON.
ASSUME InputsAssumption ==
    \A c \in Collections :
        /\ \A path \in DOMAIN Resolved[c].managed :
              Resolved[c].managed[path] \in {"outward_identifier", "timestamp_iso"}
        /\ \A path \in DOMAIN Resolved[c].managed \cup ({Resolved[c].outward} \ {<<>>}) :
              LET fields == Resolved[c].fields
              IN  /\ path \in Seq(STRING) /\ Len(path) \in 1 .. 2
                  /\ path[1] \in DOMAIN fields
                  /\ Len(path) = 2 => path[2] \in DOMAIN fields[path[1]].children
        /\ \A name \in DOMAIN Resolved[c].fields :
              Resolved[c].fields[name].type # "jsonb" =>
                  DOMAIN Resolved[c].fields[name].children = {}
        /\ \A f \in Offered[c] : IsFeature(f)
        /\ \A fs \in Lists[c] : \A n \in DOMAIN fs : IsFeature(fs[n])

VARIABLES
    coll,    \* the collection
    plan,    \* the plan its functions were generated from
    table,   \* its committed rows
    batch,   \* the batch of each session
    started  \* how many batches there were

vars == <<coll, plan, table, batch, started>>

NoRows == [i \in {} |-> Absent]
NewBatch(pc, fs) ==
    [pc |-> pc, features |-> fs, next |-> 1, wrote |-> NoRows, ids |-> <<>>]

Init ==
    /\ coll \in Collections
    /\ plan = TablePlan(Resolved[coll])
    /\ table = NoRows
    /\ batch = [s \in Sessions |-> NewBatch("idle", <<>>)]
    /\ started = 0

-----------------------------------------------------------------------------
(* Locks and visibility.                                                   *)

\* Another session has written the row and not committed it.
HeldByOther(s, i) == \E t \in Sessions \ {s} : i \in DOMAIN batch[t].wrote
Held(i) == \E t \in Sessions : i \in DOMAIN batch[t].wrote

\* A write of an existing row waits for its lock; a row nobody committed is
\* not there to wait for, except for an insert of the same id.
CanWrite(i) == ~ (Held(i) /\ i \in DOMAIN table)

Fresh == {i \in Ids : i \notin DOMAIN table /\ ~ Held(i)}

\* The id of the new row: the one the feature names, or gen_random_uuid().
NewIds(f) == IF NamedIds(plan, f) # {} THEN NamedIds(plan, f) ELSE Fresh

Put(rows, i, row) == [k \in DOMAIN rows \cup {i} |-> IF k = i THEN row ELSE rows[k]]
Without(rows, i) == [k \in DOMAIN rows \ {i} |-> rows[k]]

Over(delta, rows) ==
    [k \in DOMAIN delta \cup DOMAIN rows |->
        IF k \in DOMAIN delta THEN delta[k] ELSE rows[k]]

-----------------------------------------------------------------------------
(* Requests for one feature.                                               *)

\* supports_crud and _upsertable
Editable == Resolved[coll].simple
Upsertable == Resolved[coll].upsert # <<>>

OnlyTable == UNCHANGED <<coll, plan, batch, started>>

\* A complete feature that no check refuses and that can be stored.  Every
\* other outcome of a request leaves the database as it is.
Complete(f) == Passes(plan, f, FALSE) /\ Storable(plan, FullRow(plan, f))

CreateFeature(f) ==
    /\ Editable
    /\ Complete(f) /\ IdentifierIsValid(plan, f)
    /\ \E i \in NewIds(f) :
         /\ ~ Held(i)
         /\ i \notin DOMAIN table
         /\ table' = Put(table, i, FullRow(plan, f))
    /\ OnlyTable

CanBeUpserted(f) ==
    /\ Complete(f) /\ IdentifierIsValid(plan, f)
    /\ OiColumns(plan) = {} \/ NamedIds(plan, f) # {}

UpsertFeature(f) ==
    /\ Upsertable /\ Editable
    /\ CanBeUpserted(f)
    /\ \E i \in NewIds(f) :
         /\ ~ Held(i)
         /\ table' = Put(table, i, FullRow(plan, f))
    /\ OnlyTable

ReplaceFeature(i, f) ==
    /\ Editable
    /\ Complete(f) /\ MatchesOutward(plan, f, i)
    /\ i \in DOMAIN table /\ CanWrite(i)
    /\ table' = Put(table, i, FullRow(plan, f))
    /\ OnlyTable

UpdateFeature(i, f) ==
    /\ Editable
    /\ Passes(plan, f, TRUE) /\ MatchesOutward(plan, f, i)
    /\ i \in DOMAIN table /\ CanWrite(i)
    /\ Storable(plan, PatchedRow(plan, f, table[i]))
    /\ table' = Put(table, i, PatchedRow(plan, f, table[i]))
    /\ OnlyTable

DeleteFeature(i) ==
    /\ Editable
    /\ i \in DOMAIN table /\ CanWrite(i)
    /\ table' = Without(table, i)
    /\ OnlyTable

-----------------------------------------------------------------------------
(* The upsert-batch process.                                               *)

Quiet == UNCHANGED <<coll, plan, started>>

\* Only collections with supports_upsert are offered, and no empty array is taken.
StartBatch(s) ==
    /\ Upsertable /\ Editable
    /\ batch[s].pc \in {"idle", "done", "failed"}
    /\ started < MaxBatches
    /\ \E fs \in Lists[coll] :
         batch' = [batch EXCEPT ![s] = NewBatch("running", fs)]
    /\ started' = started + 1
    /\ UNCHANGED <<coll, plan, table>>

Current(s) == batch[s].features[batch[s].next]

\* The array is not worked through yet.
Running(s) == batch[s].pc = "running" /\ batch[s].next <= Len(batch[s].features)

\* The ids the current feature may get; its own uncommitted rows count.
BatchIds(s) == NewIds(Current(s))

\* Mutant: each call commits on its own.
UpsertNextCommits(s) ==
    /\ Running(s)
    /\ CanBeUpserted(Current(s))
    /\ \E i \in BatchIds(s) :
         /\ ~ HeldByOther(s, i)
         /\ table' = Put(table, i, FullRow(plan, Current(s)))
         /\ batch' = [batch EXCEPT ![s].next = @ + 1, ![s].ids = Append(@, i)]
    /\ Quiet

\* Mutant: the ids are answered in reverse.
UpsertNextReversed(s) ==
    /\ Running(s)
    /\ CanBeUpserted(Current(s))
    /\ \E i \in BatchIds(s) :
         /\ ~ HeldByOther(s, i)
         /\ batch' = [batch EXCEPT
                ![s].next = @ + 1,
                ![s].wrote = Put(@, i, FullRow(plan, Current(s))),
                ![s].ids = <<i>> \o @]
    /\ Quiet /\ UNCHANGED table

\* One call of _<collection>_upsert.
UpsertNext(s) ==
    /\ Running(s)
    /\ CanBeUpserted(Current(s))
    /\ \E i \in BatchIds(s) :
         /\ ~ HeldByOther(s, i)
         /\ batch' = [batch EXCEPT ![s] =
                [pc |-> "running", features |-> @.features, next |-> @.next + 1,
                 wrote |-> Put(@.wrote, i, FullRow(plan, Current(s))),
                 ids |-> Append(@.ids, i)]]
    /\ Quiet /\ UNCHANGED table

\* Mutant: a batch that failed keeps the ids it has so far.
FailBatchKeepsIds(s) ==
    /\ batch' = [batch EXCEPT ![s].pc = "failed", ![s].next = 1, ![s].wrote = NoRows]
    /\ Quiet /\ UNCHANGED table

FailBatch(s) ==
    /\ batch' = [batch EXCEPT ![s] = NewBatch("failed", <<>>)]
    /\ Quiet /\ UNCHANGED table

\* Mutant: a feature that is refused is waited for.
FeatureIsAwaited(s) == Running(s) /\ FALSE /\ FailBatch(s)

\* A feature that is refused takes the whole statement with it.  (Bound: so
\* does a draw when no id is left.)
RefuseNext(s) ==
    /\ Running(s)
    /\ ~ CanBeUpserted(Current(s)) \/ BatchIds(s) = {}
    /\ FailBatch(s)

EndBatch(s) ==
    /\ batch[s].pc = "running"
    /\ ~ Running(s)
    /\ table' = Over(batch[s].wrote, table)
    /\ batch' = [batch EXCEPT ![s] =
           [pc |-> "done", features |-> @.features, next |-> @.next, wrote |-> NoRows,
            ids |-> @.ids]]
    /\ Quiet

\* s waits for t.
WaitsFor(s, t) ==
    /\ s # t
    /\ Running(s) /\ CanBeUpserted(Current(s))
    /\ NamedIds(plan, Current(s)) \cap DOMAIN batch[t].wrote # {}

\* PostgreSQL ends one of two sessions that wait for each other.
BreakDeadlock(s) ==
    /\ \E t \in Sessions : WaitsFor(s, t) /\ WaitsFor(t, s)
    /\ FailBatch(s)

\* The connection is lost, or the server stops, before the statement ends.
LoseConnection(s) == batch[s].pc = "running" /\ FailBatch(s)

-----------------------------------------------------------------------------

Advance(s) == UpsertNext(s) \/ RefuseNext(s) \/ EndBatch(s) \/ BreakDeadlock(s)

Request ==
    \/ \E f \in Offered[coll] : CreateFeature(f) \/ UpsertFeature(f)
    \/ \E i \in Ids, f \in Offered[coll] : ReplaceFeature(i, f) \/ UpdateFeature(i, f)
    \/ \E i \in Ids : DeleteFeature(i)

Next ==
    \/ Request
    \/ \E s \in Sessions : StartBatch(s) \/ Advance(s) \/ LoseConnection(s)

Spec == Init /\ [][Next]_vars

\* A statement PostgreSQL has begun goes on while no lock keeps it waiting.
Fairness == \A s \in Sessions : WF_vars(Advance(s))

FairSpec == Spec /\ Fairness

-----------------------------------------------------------------------------
(* Properties.                                                             *)

\* The ids in use are ids, every row has the columns of the plan, and a batch
\* works on one of the arrays it was sent.
TypeOK ==
    /\ coll \in Collections
    /\ DOMAIN table \subseteq Ids
    /\ \A i \in DOMAIN table : DOMAIN table[i].cells = DOMAIN plan.columns
    /\ DOMAIN batch = Sessions
    /\ \A s \in Sessions :
          /\ batch[s].features \in {<<>>} \cup Lists[coll]
          /\ batch[s].next \in 1 .. Len(batch[s].features) + 1
          /\ Len(batch[s].ids) = batch[s].next - 1
    /\ started \in 0 .. MaxBatches

\* A stored object as the description wants it: nothing undeclared, every
\* demanded child there with a valid code, the server's own keys as the server
\* sets them, and no copy of the identifier.  A JSON null stands for an object
\* only where nothing is demanded of it and nothing stripped.
ObjectIsSound(col, v) ==
    /\ \/ v.json = "object" /\ DOMAIN v.members \subseteq DOMAIN col.children
       \/ v.json = "null" /\ col.stripped = {}
    /\ \A k \in DOMAIN col.children \ col.stripped : ChildIsValid(col.children[k], v, k)
    /\ \A k \in col.stripped : Get(v, k) = IF k \in col.stamped THEN Now ELSE Absent

\* A value the description lets the column hold.
CellIsSound(name, v) ==
    LET col == plan.columns[name]
    IN  /\ v = Absent => col.nullable
        /\ name \in Declared(plan) /\ v # Absent => ObjectIsSound(col, v)
        /\ ~ col.isObject /\ col.rule = "none" /\ col.codes # {} /\ v # Absent =>
              v.text \in col.codes

RowIsSound(row) == \A name \in DOMAIN plan.columns : CellIsSound(name, row.cells[name])

\* Whatever mix of complete, partial and batched writes produced it, every
\* stored row keeps to the description: a PATCH leaves behind what a create
\* would have stored, but for such nulls (_fn_create, _fn_update and
\* _fn_upsert have separate lists of checks).
RowsKeepToDescription == \A i \in DOMAIN table : RowIsSound(table[i])

\* The keys the server supplies are declared as plain texts; the loader does
\* not insist on it, and what is read would not pass the checks of a write.
SuppliesTexts ==
    \A name \in Declared(plan) :
        LET col == plan.columns[name]
        IN  \A k \in (col.injected \cup col.stamped) \cap DOMAIN col.children :
               /\ col.children[k].codes = {}
               /\ JsonTypeOf(col.children[k].type) = "string"

\* What a client reads it may write back: a PUT of the representation read is
\* accepted and leaves the row as it is, as long as no object of the row is
\* null (a null object reads as JSON null, which "#-" cannot take apart).
\* Scalars the server copies from the identifier are set anew.
ReadsCanBeWrittenBack ==
    SuppliesTexts => \A i \in DOMAIN table :
        LET row == table[i]
            f == ReadFeature(plan, row, i)
            again == FullRow(plan, f)
        IN  (\A name \in DOMAIN plan.columns :
                plan.columns[name].isObject => row.cells[name].json \notin {"absent", "null"})
            => /\ Passes(plan, f, FALSE)
               /\ MatchesOutward(plan, f, i)
               /\ Storable(plan, again)
               /\ again.geometry = row.geometry
               /\ \A name \in DOMAIN plan.columns :
                     plan.columns[name].rule # "outward_identifier" =>
                        again.cells[name] = row.cells[name]

\* gcimport pairs the ids it is answered with the features it sent: there is
\* one per feature, in their order, and it is the id the feature names
\* (upsert_many).
BatchAnswersInOrder ==
    \A s \in Sessions :
        batch[s].pc = "done" =>
            /\ Len(batch[s].ids) = Len(batch[s].features)
            /\ \A n \in DOMAIN batch[s].features :
                  NamedIds(plan, batch[s].features[n]) \subseteq {batch[s].ids[n]}

\* The array a session works on, and what it was answered last.
Sent == [s \in Sessions |-> IF batch[s].pc = "running" THEN batch[s].features ELSE <<>>]
Answered ==
    [s \in Sessions |->
        CASE batch[s].pc = "done" -> "ids"
          [] batch[s].pc = "failed" -> "error"
          [] OTHER -> "none"]

Store == INSTANCE FeatureStore WITH sent <- Sent, answer <- Answered

\* Other readers see a batch whole or not at all; a batch that is answered
\* with its ids wrote all of its features at once, one that is answered with
\* an error none of them; and every single request touches one feature.
WritesAreAtomic == Store!Spec

\* Two batches that lock the same features in different orders do not hold
\* each other up for ever: every batch that runs ends, or is ended.
BatchesEnd ==
    \A s \in Sessions : batch[s].pc = "running" ~> batch[s].pc # "running"

\* An upsert replaces the feature that matches its upsert identifier, if
\* there is one (geocomponents/docs/reference/database-api.md:31,40-41).
UpsertReplacesMatch ==
    [][\A f \in Offered[coll] :
         /\ UpsertFeature(f)
         /\ Len(Resolved[coll].upsert) = 1
         /\ \E i \in DOMAIN table :
               table[i].cells[Resolved[coll].upsert[1]] = AsText(Property(f, Resolved[coll].upsert[1]))
         => DOMAIN table' = DOMAIN table]_vars
=============================================================================
