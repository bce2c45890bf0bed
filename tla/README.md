# TLA+ models of topografisk-gdb-api

Models, model-checking configurations and machine-checked proofs for the
services in this repository. Everything here is read off the source; the docs
are only quoted where they say something the code does not do.

## 1. The system

Seven packages. Five of them keep state or have control worth modelling.

| Part | State it keeps | Operations | Talks to |
| --- | --- | --- | --- |
| **gcapi** (edge) | a 600 s cache of positive authorization answers, per process | authorize, proxy to geocomponents or gcjobs, bounded request streaming | gccore, geocomponents, gcjobs (HTTP) |
| **gccore** | none | answers `/authorize` | - |
| **gcjobs** | PostgreSQL: `import_run` (one row per job), `import_event` (unique `message_id`); in memory: forwarding tasks, one listener task | accept an import (201 + background task), forward to gcimport, consume events, list / show / results | gcimport (HTTP), Redis, PostgreSQL |
| **gcimport** | none between requests; the JSON-FG stores of profiles | parse, validate, transform, merge duplicates, import in batches, publish lifecycle events | geocomponents (HTTP), Redis |
| **Redis stream** (external) | entries, one consumer group: last-delivered-id and pending entries | XADD with approximate MAXLEN, XREADGROUP, XAUTOCLAIM, XACK | - |
| **geocomponents, feature API** | PostgreSQL tables per collection | create, upsert, replace, patch, delete, `upsert-batch` process | PostgreSQL |
| **geocomponents, `ogc.transaction`** | the same tables, from inside PostgreSQL | one delta of several collections: items, structure and geometry phase | - |
| **geocomponents, descriptions and schema plan** | files; DDL | resolve a dataset description, build the plan, apply tables and functions in stages | PostgreSQL |
| **gcmapview** | browser state: editing session, import polling, layers | edit, commit, delete features; submit and poll imports | gcapi |

An import passes through four of them: gcjobs records `import.accepted`,
answers, and forwards the upload in a background task of the same event loop;
gcimport works on the request for as long as the import takes, storing one
batch after the other in geocomponents and appending an event to the Redis
stream after each step; a listener task in every gcjobs process takes the
events through one consumer group, records each in PostgreSQL and acknowledges
it. The HTTP answer of gcimport only decides whether the forwarding task
records a failure.

### What is hard

- **Two writers of one status.** The forwarding task and the listener both
  write `import_run`, and the update takes the status of whatever event comes.
- **At-least-once delivery.** A message is delivered again after a crash, or is
  claimed by another process while the first still works on it. Deduplication
  rests on one unique index; claimed messages come after newer ones.
- **Partial failure.** Publishing errors are swallowed, the stream is capped,
  the connection between gcjobs and gcimport breaks while gcimport goes on, a
  batch is stored although its answer is lost.
- **Process lifetime.** Shutdown cancels forwarding tasks; an exception ends the
  listener for the life of the process.
- **The transaction engine.** Validation reads a snapshot; two transactions can
  each be valid and leave an invalid topology together. Errors surface in three
  phases and must leave nothing behind.
- **Schema stages.** Applying a description drops and recreates functions and
  commits per stage while the API is serving.
- **Caches.** gcapi goes on accepting after authorization is withdrawn;
  gcmapview acts on state read before an await.

### What makes each part correct

- *Job rows*: counters equal the distinct events; progress stays within the
  total; a success leaves no batch out; a terminal status stays.
- *Delivery*: nothing acknowledged is unrecorded; everything published is
  eventually recorded; every job settles.
- *Importer*: what counts as succeeded is in the dataset; what is in the
  dataset after a success is all of it.
- *`ogc.transaction`*: all or nothing; no committed association points at
  nothing; a boundary has the number of owners its description bounds.
- *Feature API*: a batch is one transaction, for everybody who looks; what is
  stored keeps to the description however it came about; what is read can be
  written back; batches do not wait for each other for ever.
- *Edge*: nothing reaches a backend unauthorized; an approval is never used
  past its time; an error is never cached as a permission; bodies are limited
  exactly; every request is answered.
- *Descriptions and schema*: what the loader accepts is what the generators take
  for granted; a run that ends between two stages leaves an API that works, and
  one that gets through leaves what the descriptions say.

## 2. Modules

| Module | Models | Kind |
| --- | --- | --- |
| `ImportRun` | a row of `import_run`, the update an event makes (`gcjobs/db.py`), the status a job document shows (`storage.py`) | operators |
| `ImportPipeline` | gcjobs tasks (`service.py`, `pubsub.py`), gcimport handlers (`app.py`, `importer.py`), the Redis group, faults; implements `BatchLedger` | state machine |
| `BatchLedger` | what an import promises to a client who polls its job and looks into the dataset | abstract state machine |
| `MCImportPipeline` | batch sizes | instance |
| `ImportPipelineProofs` | type correctness | proofs |
| `ImportPipelineSafety` | counters, delivery, stored batches, progress, whole successes, complete summaries; `ImportPipeline` implements `BatchLedger` | proofs |
| `Topology` | the tables of a dataset with a derived surface collection, boundaries, owners, footprints (`schema/functions.py`) | operators |
| `OgcTransaction` | `ogc.transaction` and the direct writes, as sessions under READ COMMITTED | state machine |
| `MCOgcTransaction` | collections cut from the topology test fixture, symmetry | instance |
| `OgcTransactionProofs` | type correctness, one writer per row; acceptable boundaries under any interleaving | proofs |
| `OgcTransactionSafety` | links, boundaries, footprints and bounds where documents are kept apart | proofs |
| `TablePlans` | the columns a collection gets: what each strips, injects, demands, computes (`schema/build.py`) | operators |
| `FeatureRow` | one GeoJSON feature on its way into a row and back: checks, identifiers, cells (`schema/functions.py`) | operators |
| `FeatureStore` | what the writes of a collection promise | abstract state machine |
| `FeatureTable` | create, upsert, replace, update, delete and the `upsert-batch` process, as sessions with row locks; implements `FeatureStore` | state machine |
| `MCFeatureTable` | collections cut from the descriptions, features and arrays | instance |
| `FeatureTableProofs` | `FeatureTable` implements `FeatureStore`; rows keep to their description, what is read can be written back, answers keep order | proofs |
| `Description` | a description as written, what makes the loader refuse it, the resolved dataset (`descriptions/models.py`, `loader.py`) | operators |
| `SchemaApply` | `apply-schema` stage by stage, next to a serving API and edited descriptions (`cli.py`, `schema/postgis.py`, `schema/functions.py`) | state machine |
| `SchemaApplyProofs` | every safety invariant of `SchemaApply` | proofs |
| `MCSchemaApply` | three datasets that fit, 24 the loader refuses, 6 that fail later | instance |
| `ImportDocument` | conversion, validation, routing, duplicates, batches and a retry of one import request (`gcimport/importer.py`, `parsers/geojson_to_jsonfg.py`, `profiles/`) | state machine over pure operators |
| `ImportDocumentProofs` | every safety invariant of `ImportDocument` | proofs |
| `MCImportDocument` | the two profiles, uploads of up to three features | instance |
| `EdgeProxy` | gcapi's authorization cache, routing and streaming; gccore (`gcapi/app.py`, `transport.py`, `gccore/app.py`) | state machine |
| `MCEdgeProxy` | two concurrent requests | instance |
| `EdgeProxyProofs` | types, age of approvals, upload limit | proofs |

`TablePlans` is used twice: `FeatureTable` writes through the plan of one
collection, `SchemaApply` installs the plans of whole datasets.
`ImportPipeline` treats a batch as one thing that is stored or not;
`ImportDocument` says what is in it, and `FeatureTable` shows that storing it is
one step for everybody else.

### `ImportPipeline`: how state and actions correspond to the code

| Variable | Code |
| --- | --- |
| `run`, `eventTable` | `gc_jobs.import_run`, `gc_jobs.import_event` |
| `stream`, `trimmed` | the Redis stream; ids are positions, entries up to `trimmed` are gone |
| `delivered`, `pending`, `idle` | the consumer group; `idle` are the pending ids older than `IMPORT_EVENTS_IDLE_MS` |
| `listener[r]` | `consume_import_events` over `RedisImportEventListener.messages` in process `r`: where it is, what is left of its delivery, the claim cursor |
| `proxy[j]` | `proxy_import` of job `j` and the process that runs it |
| `importer[j]` | `_handle_import_request` of job `j`, and the batch it is at |
| `stored[j]` | the batches of `j` in geocomponents |
| `budget` | how many faults are still allowed |

An action is what runs between two awaits, one committed transaction, or one
Redis command. psycopg is called synchronously inside the coroutines, so a
process that is between the two transactions of
`record_terminal_event_if_running` runs nothing else (`Runs`); another process
does. `RecordImportEvent` is the whole transaction of `record_import_event`.
`Publish` is XADD with approximate trimming, or an error that is swallowed.
`GoDown` is a crash or an orderly shutdown: both cancel the forwarding tasks
and leave deliveries pending.

`BatchLedger` knows only what a client can look at: `stored`, and the row the
job document is made from (`shown <- run`). Batches appear one by one in their
order; a batch is counted once, after it is stored; one batch at most is reported
as failed, the one after the last that is known to be stored (which may be stored all
the same, when only the answer was lost); everything else changes the status
and the phase. Deliveries, claims, acknowledgements, trimming, crashes and the
services' own steps are stutters. What it does not promise is that a status is
final: `ChangeStatus` may set a completed job back to running, as the run
`pipeline_never_settles` shows. `KeepsTheLedger` is `BatchLedger!Spec` under the mapping.

### `Topology` and `OgcTransaction`: how state and actions correspond to the code

| Variable | Code |
| --- | --- |
| `db` | the committed rows: a surface with its `footprint`, a curve with its geometry and the field a role's `when` names, a row of the association table |
| `tx[x].delta` | the rows session `x` has written; their locks are its domain |
| `tx[x].touched`, `deleted`, `dirty` | `touched_features`, those of it a delete recorded, `dirty_member_curves` |
| `tx[x].measured` | what the `measured` CTE of `_apply_dirty_footprints` computed |
| `tx[x].pc`, `item`, `left` | the statement `x` is at, the item it works on, how many items may follow |

A surface collection has several roles (`RoleOf`), each linking to a collection
of its own, so a curve's collection is named by the role that links to it.
`Alternatives` is `derived.one_of`, `WhenRoles` the roles with a `when`,
`Bounds` the `bounds` of the role's target collection, `Required` is
`geometry.required`. A footprint is the set of (curve, shape) pairs it was built
from, and `Closed` is the linework that yields an acceptable area; every
question the code asks of PostGIS is one of these two.

A step of a session is a statement or a group of statements whose snapshots
cannot be told apart. Each sees what is committed when it starts, overlaid with
the session's own rows (`View`): functions written in plpgsql are volatile and
take a new snapshot per statement. A write waits until nobody else holds the
rows (`Free`); PostgreSQL's deadlock detection, a lost connection and a caller
that rolls back are `Abort`. Three places where the code is several statements
matter and stay several steps: `_targets_from_sources` is read before the item
is written (`TakeItem`, `WriteFeature`), a delete first clears the association
rows it sees and then removes the feature (`UnlinkFeature`, `RemoveFeature`),
and a footprint is measured before its row is locked (`MeasureFootprints`,
`StoreFootprints`). A finding of any phase raises inside the block, which is the
same rollback.

Direct writes (`ogc.feature_*` on a collection with `feature_model` simple) are
sessions of one item that commit without a check.

### `FeatureRow`, `FeatureTable`, `FeatureStore`: how state and actions correspond to the code

| Variable | Code |
| --- | --- |
| `coll`, `plan` | the collection under test, and the `TablePlan` its functions were generated from |
| `table` | its committed rows: id to geometry and cells |
| `batch[s]` | the `upsert_many` statement of session `s`: the array, the feature it is at, the rows it has written and not committed, the ids so far |

A JSON value is told apart as far as `jsonb_typeof`, `->`, `->>`, `?` and `#-`
do: absent, null, a number, a text, an object with members. `Passes` is the list
of generated checks, `FullRow` and `PatchedRow` are the two ways a row is made
(`vals` of a create, `sets` of a PATCH), `ReadFeature` is what a client gets
back. Single writes are one statement each and one step. A batch is one
statement that calls the upsert for one feature after the other
(`jsonb_array_elements`), so it takes its locks one by one (`UpsertNext`), fails
as a whole (`RefuseNext`) and shows up at once (`EndBatch`). PostgreSQL breaks a
deadlock of two batches (`BreakDeadlock`).

`FeatureStore` has none of that: a request changes one row; a batch writes all
its features in one step or is refused. The mapping hides `wrote`, `next` and
`ids` and takes a running batch for one that has been sent; `WritesAreAtomic`
is `FeatureStore!Spec` under it.

### `Description`, `SchemaApply`: how state and actions correspond to the code

| Variable | Code |
| --- | --- |
| `file[d]`, `served` | the description mounted for dataset `d`, and those the API process loaded when it started |
| `cli` | the `apply-schema` run: its stage, what it loaded, the dataset it is at |
| `base` | schemas `topogdb` and `ogc` |
| `tables[d]`, `catalogue[d]`, `functions[d]` | tables with their columns; `collection_capability` and `association_role`; the description each generated function is from |
| `links` | association rows |

A step is what one commit makes visible: `apply_topogdb`, `apply_dispatch`, the
guard of `apply_tables` (which reads) and its DDL (which writes, same
transaction), `apply_functions`. A run may end after any of them (`EndRun`).
`Resolves` is the conjunction of everything the loader checks, in
`models.py`'s validators and in `resolve_dataset`; `DdlFails` collects what only
PostgreSQL refuses.

### `ImportDocument`: how state and actions correspond to the code

| Variable | Code |
| --- | --- |
| `req[r]` | the handler of request `r`: its uploads, `prepared`, the positions `posted`, `imported` (`answer`) |
| `rows`, `writer` | the rows in geocomponents, and the request that wrote each last |

`PrepareUploads` is the whole of what happens before the first POST; it is a
function of the uploads, built from folds as the code is from loops. Its
properties compare it with what a document means for one identity at a time:
the paths of the features that carry it, one after the other (`PathsWith`), and
with how many identities the documents have (`IdentityCount`); neither knows of
prepared features, merges or errors. `ImportChunk`, `RefuseChunk` and `LoseChunk` are the outcomes of
one POST. What geocomponents takes is `Accepts`. A geometry is a list of parts,
each a path with a number of positions; the reference system a part was read in
stays with it, so that a transformation from the wrong one would show.

### `EdgeProxy`: how state and actions correspond to the code

| Variable | Code |
| --- | --- |
| `handler[h]` | a request between two awaits of `authorize_request_context`, `_authorize_request`, `proxy_request`, `bounded_request_stream` |
| `cached` | what is left of the one entry of the `TTLCache` (the client id is always null) |
| `approving`, `since` | what gccore would answer now, and for how long it would not have said yes |

`Tick` is the passing of time. A call to gccore ends within `MaxWait` ticks, which
stands for httpx's connect, read and write timeouts taken together; a gccore
that sent single bytes for ever could exceed it. HEAD is treated as GET, and PUT,
PATCH and DELETE as POST, because the code does.

## 3. Runs

| Run | Question | Instance | Result |
| --- | --- | --- | --- |
| `pipeline_faults` | six invariants and the refinement of `BatchLedger` with every kind of fault | 1 job, batches of 2 and 1 features, one crash, exception, break and lost event, stream capped at 3 | holds |
| `pipeline_delivery` | is every published event recorded in the end; does a job nothing disturbs settle, and is its success complete? | 2 batches, up to 2 restarts, 1 failure of gcimport | holds |
| `pipeline_never_settles` | does a finished import settle after a restart? | 1 restart | **violated** |
| `transaction_alone` | do the checks of what a document touches keep the links and boundaries of the whole dataset valid? | 1 session after the other, 3 items, 2 surfaces, a bounded and a conditional curve | holds |
| `transaction_shared` | the same for bounds and footprints, with curves two surfaces share and direct writes in between | 3 items, 2 surfaces, 2 curves with bounds 2, 1 simple note | holds |
| `transaction_together` | do two sessions keep types, locks and boundaries? | 2 sessions, 1 item each, 1 surface, 2 curves, no condition | holds |
| `transaction_missing_member` | do they keep links valid? | 2 sessions | **violated** |
| `feature_writes` | does every mix of writes keep rows to their description, and are batches atomic, ordered and finite? | 3 collections, 2 ids, up to 20 features each, 2 batches in 2 sessions | holds |
| `feature_upsert_match` | does an upsert replace the feature with its identifier? | a collection with a top-level `lokalid` | **violated** |
| `schema_apply` | what do two runs over edited descriptions leave behind? | 2 datasets, 33 descriptions, a run ends anywhere | holds |
| `import_document` | what becomes of every upload, with a lost POST and a retry? | 3 of 13 features, 2 of 60 classic ones or 2 files, 2 requests, batches of 2 | holds |
| `edge_proxy` | how old may an approval be, what is refused for its size, does every request end? | 2 requests at once, life 2 ticks, call 1 tick, limit 1 chunk | holds |

**Bounds of the pipeline.** Two batches of different sizes are enough for a
delivery to hold two batch events, for a batch event to be overtaken by the
completed event, and for a wrong size to show in a sum. `ReadCount = 2` makes
deliveries that hold several entries and leave others behind. `StreamCap = 3`
trims entries that are unread, delivered and pending; the other runs have
`StreamCap = 20`, more than a job publishes, and trim nothing. `MaxCrashes`,
`MaxErrors`, `MaxBreaks` and `MaxLost` bound the faults; one of each is the
smallest number at which every fault meets every other. Nothing else is bounded:
a job publishes at most `Len(BatchSizes) + 3` events. Several gcjobs processes
are not checked by a run; the theorems hold for any number of them, except that
`SummariesAreComplete` is about one.

**Bounds of the transactions.** `MaxItems` is the only bound: items per document,
any number of documents following each other. Three items are needed for the
smallest acceptable first document of a surface with two curves, and are enough
to link, relink and delete in one document. Two surfaces are what a curve with
bounds 2 needs, and what it takes for a curve to move from one to the other; two
shapes tell a footprint that was renewed from one that was not.
Footprints are checked where curves are shared and written directly; that a
conditional role does not make them stale is `FootprintsAreRenewed`.
`Closed` accepts linework of one shape only, so that reshaping one of two curves
is refused until both have been.

**Bounds of the feature writes.** Two ids are enough for two batches to name the
same features in opposite orders, for a feature to be named wrongly and for a
fresh id; `MaxBatches` is the only bound. The three collections are the kinds of
columns there are: an identifier inside an object, a top-level one, an object
that may be null with a scalar that copies the identifier. Each way a feature can
be wrong occurs once.

**Bounds of the schema.** `MaxApplies = 2`: what a run leaves behind is seen by
the next one, and nothing remembers more than the last. Two datasets, because a
run that ends in the second has applied the first. Each check of the loader has
a description only it refuses.

**Bounds of the import.** Three features are what it takes for a merge into a
merge and for a batch that ends inside a group (`UpsertBatchSize = 2`); two
requests for a retry that meets somebody else's rows. `MaxFaults` and
`MaxRetries` are 1.

**Bounds of the edge.** A life of two ticks is the shortest that can be half over
when a late answer comes. The number of handlers, the life, the wait and the
limit are arbitrary in the proofs.

**Deadlock** is checked wherever the processes live on: the listener always has
a next step, and a session that waits can always abort. `pipeline_faults`
allows the only listener to end, and the requests of `import_document` come to
an end: there the system really stops.

**Fairness.** Weak fairness of a task's step is what the event loop gives every
ready task. It is stated for the disjunction of a task's steps, so that a
handler goes on but TLC chooses how the input and the upstream answers turn out.
`ComeUp` is fair because the services run under a supervisor that restarts
them; `IdleTimePasses` because time does. Crashes, exceptions, breaks and lost
events are never fair. `ListenerStops` is not undone within a process because
the code does not undo it. Transactions have no liveness property and no
fairness: nothing in the code promises that a document gets through. In
`FeatureTable` a statement that PostgreSQL has begun goes on while no lock keeps
it waiting, and a deadlock is broken (`Advance`); lost connections are not fair.
In `EdgeProxy` time passes, the event loop resumes what can go on, an upstream
that is silent times out, and a client goes on with its body or disconnects
(nothing in the code limits how long its next chunk may take); gccore owes
nothing.

`JobsSettle` and `ResultsAreComplete` are about jobs that nothing disturbs
(`Undisturbed`: no fault so far) and that one process listens to: a behaviour in
which no fault ever happens has to keep both, the others only until the first.
`ResultsAreComplete` also says nothing once an entry has been trimmed (section 4
says what happens with two listeners, or with trimming).

## 4. Disagreements

The runs that expect a violation show three:

1. **A finished import stays "running" for ever** (`pipeline_never_settles`).
   The update takes the status of every event (`db.py:133`). After a restart,
   messages delivered to the old process are claimable only 30 s later; the new
   one reads the completed event first. A `started` or `parsed` event claimed
   afterwards sets the status back, and nothing comes after it. For the same
   reason a success can be shown for a while without the batches whose events
   are still pending, and, without any restart, a failure the forwarding task
   recorded is overwritten by an `import.started` read later; there the completed
   event that follows repairs it (`JobsSettle` holds).
2. **A committed link refers to nothing** (`transaction_missing_member`). A link's
   target is looked up without a lock and `target_id` has no foreign key; the
   document that deletes it does not see the uncommitted link.
3. **An upsert does not find its feature** (`feature_upsert_match`). Without an
   `outward_identifier` the match is on the row's id alone; a top-level `lokalid`
   is neither unique nor looked at, and a second row appears.

The same modules reach the following, by the runs above with other constants or
by reading the definition; no run is kept for them:

- With two gcjobs processes the first disagreement needs no fault at all: the
  slower of two listeners records a batch or a `started` event after the other
  has recorded the completed one, and the job is running again. With two
  `Replicas` and no faults TLC finds both `JobsSettle` and `ResultsAreComplete`
  violated (`geocomponents/docs/how-to-guides/deploy.md:41` speaks of replicas).
  A stream capped below what a job publishes loses batch events, so a success
  shows fewer batches than were stored (`StreamCap = 1`).
- A PATCH that sets a required object to JSON null stores what a create refuses:
  only the full writes check that the value is not null (`functions.py:844`),
  and a PATCH is stopped only by a child that is demanded or stripped. No doc
  says otherwise, so `RowsKeepToDescription` takes JSON null for a value such a
  column may have.
- One exception ends the listener for the life of the process (`service.py:111`),
  and `EveryEventIsRecorded` fails with `MaxErrors = 1`.
- Two concurrent documents leave a curve without its owner: the curves a deleted
  surface links to are read in an earlier statement than the delete
  (`functions.py:236`), and a footprint that is not that of its curves, because it
  is measured before the wait for its row (`functions.py:1722`). `BoundsHold` and
  `FootprintsAreFresh` fail with two sessions. So does `NoOrphanLink`: an update
  may add a link to a surface between the two statements that delete it; and so
  does `StructureHolds` where a role has a `when`: one document clears the field of
  a curve while another begins to rely on it. A direct write of a curve in a simple
  collection renews no footprint (`functions.py:93`), which is why the
  simple curve of `transaction_shared` counts for none.
- A PATCH sets a column that copies the outward identifier from its own body
  (`functions.py:2094`): one that does not repeat the identifier sets it to null.
- An identifier object that is null reads as JSON null, which `#-` cannot take
  apart: a PUT of what was read fails. `ReadsCanBeWrittenBack` leaves such rows
  out.
- A link written between the guard of `apply_tables` and `apply_functions` is
  orphaned, and the next `apply-schema` stops at it (`OrphanedLinksAreLate` says
  that no other link is). Retargeting a relationship is not guarded at all
  (`postgis.py:186`), and functions of collections that are gone stay installed.
- `validate` accepts descriptions that the plan or the DDL refuses, when earlier
  stages have been committed (the `Undeployable` ones of `MCSchemaApply`).
- gcimport looks for duplicates by the text of the identity in one file at a time
  (`app.py:353`), while a row is found by the stripped, folded UUID: two files of
  one request, or an id with blanks around it, may have one row for two features
  that are both answered as imported. `StoredAsUploaded` is about requests whose
  features have rows of their own.
- PATCH and `items:upsert` call the provider outside pygeoapi
  (`pygeoapi_provider.py:522`, `569`), so a refusal that
  `db_function_provider.py:32` means to be a 422 ends as a 500; and an upstream of
  gcapi that fails while its body is read does too (`transport.py:93`).
- The comment of `ogc.transaction` says that `ogc.feature_create` strips
  client-supplied ids (`functions.py:567`); it honours them, as
  `docs/reference/database-api.md` says.

## 5. Proofs

`tlapm` checks the theorems for every value of the constants that satisfies the
modules' assumptions: there is a process, batch sizes are positive naturals, the
limits are naturals (`ReadCount` and `StreamCap` positive); surfaces, curves and
links of one to the other have different keys, bounds are 0 to 2; the life of an
approval is positive; the plans of the collections can be built, and no array sent
to `upsert-batch` is empty (`upsert_batch.py` refuses one); the batches of an
import are cut from its features (`ChunkingAssumption`); the files of a request
list features and name a known profile, a feature's geometry lists its parts
(`UploadsAssumption`), a profile routes object types to finite sets of collections it
has fields for (`ProfilesAssumption`), and the two ways to name no reference
system are no system pyproj knows (`CrsAssumption`); the paths the server
manages lead to declared fields, and clients send JSON (`InputsAssumption`, which
the loader and the gateway guarantee); what a description lists is a sequence
(`ListsAssumption`), and the API starts with descriptions the loader accepts.

- `TypeCorrect` (`ImportPipelineProofs`): `Spec => []TypeOK`. `TypeOK` is
  inductive as it stands because it already relates the variables: what a
  listener works on has been delivered, the group's ids are ids of the stream,
  and a handler that waits for an answer has a batch (`Handler`; without it
  `stored` could not be shown to hold only chunks).
- `CountersAreExact` (`ImportPipelineSafety`): the batch counters of a row are
  the numbers of its distinct recorded batch events. Inductive with the
  finiteness of `eventTable`; recording is the only step that matters, and
  the case split is on whether the message id is already there. Events gcjobs
  records itself have no id, and are no batch events; that is why `DatabaseSteps`
  says of every step which events it may record.
- `NothingAckedIsLost`: what the group has handed out is recorded, pending or
  trimmed. Not inductive: an acknowledgement needs to know that the message was
  recorded. `DeliveryInv` adds that a listener at "ack" has recorded the
  smallest id of its delivery. `NothingSkipped` shows that XREADGROUP's new
  last-delivered-id skips no entry that is neither read nor trimmed.
- `SucceededAreStored`: a job never counts more succeeded batches than
  geocomponents holds for it. Two facts are needed (`StoreInv`): a recorded batch
  event is the stream entry of its id, and the entries that announce batches of a
  job number at most the batches before the one its handler is at, all of which
  are stored. Counting goes by an injection from events to entries
  (`StoreInvSuffices`).
- `SuccessIsWhole`: a job that counts as completed has every batch in
  geocomponents, or had none. `WholeInv` follows the claim back along its way: the
  row says so because a `succeeded` event was recorded, that is an entry of the
  stream, only a handler that ended well publishes it, and such a handler started
  with nothing stored and went through the batches one by one.
- `ProgressIsBounded`: the features a row counts as processed, however its batch
  events came about, are never more than the total it was told. A sum over
  batches would need induction over data; `TotalInv` instead lets every entry that
  reports on a batch own it, no two the same one, so that what has been counted is
  the number of features of the owned batches that are recorded (`Covered`), a
  subset of `1 .. TotalFeatures`. A failed batch is the last one its handler
  reports on, which is why the owners are not simply counted up.
- `PipelineKeepsTheLedger`: `Spec => KeepsTheLedger`, that is, `ImportPipeline`
  implements `BatchLedger`, for any number of jobs and processes. `LedgerInv` relates
  the stream to the dataset: what is stored of a job are the batches up to its
  handler's, with or without that one (`EndsAt`); an entry that reports success is about a stored
  batch, and one that reports a failure is the only one of its job and about the
  batch its handler stopped at (`Told`). Recording such an entry for the first
  time is then `CountSucceeded` or `CountFailed`. That a success finds its batch
  stored follows from `SucceededAreStored` after the step, that the total is not exceeded
  from `ProgressIsBounded`; all other recordings are `ChangeStatus`, an answer of
  geocomponents is `StoreBatch`, the rest stutters.
- `SummariesAreComplete`: with one process listening, nothing trimmed and no fault
  so far, a success shows all the batches. `ShapeInv` says that the entry that
  ends a job comes after all its batches in the stream, `OrderInv` that what is
  recorded is exactly what has been handed out up to the message the listener is
  at. Both hypotheses are needed (section 4).
- `TypeIsKept` (`OgcTransactionProofs`): besides the types, no two sessions ever
  hold uncommitted versions of one row. Every write has its guard; the footprint
  refresh is the one that is easy to forget.
- `StructureIsKept` (`OgcTransactionProofs`): no interleaving of any number of
  sessions commits a surface with an unacceptable boundary, assuming
  `UnconditionalSurfaces` (no role has a `when`, surface collections are not
  simple). The check is made on a snapshot that others go on changing, so
  `StructureHolds` is far from inductive. `Sound` says of each transaction why it
  stays true: it holds the row of every surface whose association rows it has
  written (except between the two statements of a delete), what it wrote before
  the check is touched, and after the check each surface it wrote is acceptable
  over whatever is committed by then. Other sessions cannot disturb that: they
  would need the same surface row (`OthersStaySound`). A surface that only gets a
  new footprint has its links from the committed rows (`UnheldSurface`). With a
  `when` role the argument fails, because the boundary then also depends on the
  curve's row, which the surface's row does not protect.
- `LinksKeepTheirSurfaces`, `LinksKeepTheirMembers`, `BoundariesAreKept`,
  `FootprintsAreRenewed`, `CurvesKeepTheirBounds` (`OgcTransactionSafety`): where
  the sessions' documents name different features (`DocumentsAreApart`: one
  session, or clients that have divided the dataset), the five properties hold for
  any number of sessions, items, surfaces and curves and any description, roles
  with a `when` included. Without that hypothesis TLC finds each of them violated by
  two sessions (section 4). Each theorem names the direct writes it excludes:
  none for orphaned links; direct curve writes for members; direct writes of
  surfaces and of bounding or bounded curves for the rest (`SurfacesAreChecked`,
  `NotesAreSimple`, `SimpleIsUnbounded`). The invariant is about what a session
  sees (`View`), because that is what becomes the committed rows: every surface
  there has a good boundary and footprint, and every curve its bounds, except the
  dirty ones, and those only until the phase that checks or renews them has passed
  (`BoundariesAreKnown`, `FootprintsAreKnown`, `OwnersAreKnown`). Between the two
  statements of a delete the surface has lost its links and is not touched yet, so
  it counts as dirty then (`Suspects`). That this is kept is proved once per kind
  of statement, from what the statement does to the view and the transaction
  (`Statement`), and every action is shown to be one of these (`SessionExplained`).
  A commit of somebody else changes nothing that a session looks at, because no
  link joins two territories (`Sealed`, `AlikeIsKnown`); a commit of its own ends
  with nothing dirty left to check.

- `TypesAreKept`, `CacheStaysRecent`, `ApprovalsDoAge`, `UploadsAreLimited`
  (`EdgeProxyProofs`), for any number of requests at once. One invariant carries
  the middle two (`Inductive`): besides `TypeOK` and `CacheIsRecent`, a yes that a
  handler has not heard yet is no older than its wait (`YesIsRecent`: this is what
  a late answer brings into the cache), and an approving gccore has been so since
  0 ticks (`ApprovalIsNow`). `ApprovalsDoAge` then looks at the two actions that
  admit: a hit, by `CacheIsRecent`, and a yes, by `YesIsRecent`. The upload limit
  is a property of one handler and needs only the types.
- `WritesStayAtomic` (`FeatureTableProofs`): `Spec => WritesAreAtomic`, that is,
  `FeatureTable` implements `FeatureStore`, for any collections, ids and number of
  sessions. The refinement mapping is in `FeatureTable`: a running session has
  sent its array, an ended one its answer. `BatchesKeepTrack` proves the invariant
  it needs: a running batch has one id per feature it is through with; it holds
  the rows of exactly those ids, each as the last feature for the id left it
  (`LastWins`); an id is one the feature names, or one that neither the table nor
  an earlier feature has (`Assigned`); and no two sessions hold the same row, which
  is what keeps a commit of one from taking the new ids of another. Each single
  write changes one row that nobody holds, an upsert of a batch is a stutter, and
  the end of a batch is `WriteBatch` with the ids the batch drew.
- `TablesAreTyped`, `RowsStaySound`, `ReadsComeBack`, `AnswersKeepOrder`
  (`FeatureTableProofs`), for any descriptions the loader accepts and any features
  clients send. `WritesKeepTrack` proves the invariant. A row that keeps to its
  description is not enough: a PATCH leaves cells as they are, so each cell has to
  be one that *some* write function makes (`CellInv`: an object holds of its
  stripped keys just those that are stamped, a timestamp is now), and a scalar that
  copies the identifier needs that identifier to be there (`CopiesHaveSource`).
  `ReadsComeBack` takes what is read through the checks and back into the row,
  column by column. `AnswersKeepOrder` needs that a batch that is through accepted
  every feature, so that the ids it names are well formed.
- `ApplyIsTyped`, `InstalledStaysSound`, `FunctionsKeepTheirTables`,
  `FinishedRunsAreComplete`, `ServedOperationsStay`, `OnlyLateLinksAreOrphaned`
  (`SchemaApplyProofs`), for any datasets, descriptions and number of runs, each of
  which may end after any stage. `ApplyKeepsTrack` proves one invariant for all of
  them: a run that is past a stage has committed it (`Committed`) and has left
  behind it the tables, catalogue rows and functions of the descriptions it loaded,
  not of those in the files by now (`RunSoFar`); a version once applied never loses
  an operation (`AppliedStays`: what a stage drops it recreates); a link that
  was there when the guard looked has its role in the plan (`LinksAreKnown`).
  `InstalledStaysSound` rests on `VersionIsSound`: what the loader accepts and the
  database takes is what the generators take for granted, check by check.

- `FeaturesAreCarried`, `BadFeaturesAreHeldBack`, `ConvertedIsAccepted`,
  `UploadsAreStored`, `AnswersAreInOrder`, `TypeCorrect` (`ImportDocumentProofs`),
  for any profiles, files of any number and length, any number of requests, and any
  faults and retries. What the handler prepares is a fold over documents of
  folds over features. `FoldIsALoop` takes a fold apart into the states its loop
  goes through, one per element; `Induction`, over a set of naturals
  because the prover cannot instantiate a predicate, then carries an invariant from
  one to the next. That of `prepare_document` is `CarriedSoFar`: while there
  are no errors, the prepared features are pairwise different identities, exactly
  those met so far, each with the paths its features have brought so far. That of
  the loop over documents counts identities as it goes, and says that an error once
  found stays, which is why one bad feature in the last file leaves nothing to post.
  From there a handler keeps what it prepared (`Carried`) and answers exactly what
  it has posted (`Kept`); the rows it has posted are there and, as long as it is the
  last to have written them, as prepared (`Stored`): a retry writes the same rows
  again.
  `ConvertedIsAccepted` needs no induction: it compares the two places that choose a
  collection, case by case.

Only model-checked: what is temporal beyond safety (`EveryEventIsRecorded`,
`JobsSettle`, `BatchesEnd`, `RequestsEnd`; liveness is out of the prover's reach).
Every invariant and action property that a run checks and finds to hold is proved,
with the hypotheses named above where it does not hold in general; the runs
`transaction_alone` and `transaction_shared` are instances of the theorems of
`OgcTransactionSafety`.

## 6. What is left out

- Redis's own scan limit in XAUTOCLAIM (ten times the count) and its id 0-0
  replies: the cursor of the model moves over the whole list. The client's
  retries of XADD are off by default and not modelled.
- Direct calls to gcimport that bring their own import id.
- In `ImportPipeline`, the upload itself: size limits, multipart parsing, temporary
  files come before the first step. Validation, transformation and the merging
  of duplicates are one choice there (`ParsingFails` or `Parsed`), and
  `ImportDocument` makes it.
- In `ImportDocument`: numbers of coordinates and what pyproj computes of them;
  letter case; features that are not objects; the wording of errors and of the
  summary; the SOSI files, of which only nodes are counted.
- In `FeatureTable`: collections with relationships (`OgcTransaction`), queries,
  paging, `created_at` and `updated_at`; children of children.
- In `SchemaApply`: the texts of the DDL, views of code lists, titles, base paths
  of the gateway. A column whose type changes keeps the old one, like one that is
  new is missing (`create table if not exists`); only the second is modelled.
- In `EdgeProxy`: headers, query strings, the bodies of answers.
- Timestamps other than "there is a completed_at", texts, links and filters.
- In transactions: the document phase and the validation of fields, which
  change nothing; the difference between a row's primary key and the identifier
  clients see; the report of several findings (the first one decides the
  rollback). An insert of an id that the same document deleted is still reported
  missing, and the model's delete record does the same. The locks of one
  statement are taken at once; the order in which PostgreSQL takes them only
  matters for deadlocks, and a deadlock is an `Abort`. Links between other
  collections than those of the boundary carry no invariant and are not there.
- A client may name any feature (`Territory` is everything in all runs);
  `Territory` is there to state what holds when documents are kept apart.
- gcmapview: a React client whose state is that of a view; what it sends is
  modelled where it arrives. `convert.py`, which turns UML schemas into
  descriptions offline; deployment; the descriptions' data; the routing, documents
  and settings of gcjobs and gcimport. The job list's limit of 10000
  (`storage.py:75`) is a property of one query over more rows than a model holds.

## 7. Plan

Done: `ImportRun`, `ImportPipeline`, `BatchLedger`, `Topology`, `OgcTransaction` with their
proofs; `TablePlans`, `FeatureRow`, `FeatureStore`, `FeatureTable`; `Description`,
`SchemaApply`; `ImportDocument`; `EdgeProxy`; all with their proofs.

Open, in this order:

1. `Dataset`: a transaction as one atomic step that applies a document to a valid
   dataset or leaves it alone; `OgcTransaction` implements it for one session.
2. `FeatureEditing`: edit, preview, commit and delete in gcmapview
   (`useFeatureEditing.ts`), answers that arrive after the selection has moved.
