---------------------------- MODULE ImportPipeline ----------------------------
(***************************************************************************)
(* An import job on its way through the services.  gcjobs accepts the      *)
(* upload, answers 201 and forwards it in a background task; gcimport      *)
(* parses it, stores it batch by batch in geocomponents and appends        *)
(* lifecycle events to a Redis stream; a listener task in every gcjobs     *)
(* process takes the events through one consumer group, records them in    *)
(* PostgreSQL and acknowledges them.  Processes crash, connections break,  *)
(* publishing fails silently, and entries are delivered again.             *)
(*                                                                         *)
(* Every step below runs without an await in the code (psycopg is called   *)
(* synchronously), or is one committed transaction or one Redis command.   *)
(***************************************************************************)
EXTENDS ImportRun, Sequences, FiniteSets

CONSTANTS
    Replicas,     \* gcjobs processes
    BatchSizes,   \* the sizes of the batches an import is split into
    TotalFeatures, \* total_features: how many features they hold together
    ReadCount,    \* IMPORT_EVENTS_READ_COUNT
    StreamCap,    \* IMPORT_EVENTS_MAXLEN
    MaxCrashes,   \* bound: crashes or shutdowns of a gcjobs process
    MaxErrors,    \* bound: exceptions in a listener or proxy task
    MaxBreaks,    \* bound: gcimport failures, broken connections
    MaxLost       \* bound: events whose publishing fails

ASSUME ReplicasAssumption == Replicas # {}
ASSUME BatchSizesAssumption ==
    /\ BatchSizes \in Seq(Nat \ {0})
    /\ TotalFeatures \in Nat
ASSUME LimitsAssumption ==
    /\ ReadCount \in Nat \ {0}
    /\ StreamCap \in Nat \ {0}
    /\ MaxCrashes \in Nat
    /\ MaxErrors \in Nat
    /\ MaxBreaks \in Nat
    /\ MaxLost \in Nat

VARIABLES
    run,         \* gc_jobs.import_run
    eventTable,  \* gc_jobs.import_event: rows [mid, event]
    stream,      \* every entry ever added; an entry's id is its position
    trimmed,     \* entries up to this id have been trimmed away
    delivered,   \* the group's last-delivered-id
    pending,     \* ids delivered and not acknowledged
    idle,        \* pending ids not delivered again for IMPORT_EVENTS_IDLE_MS
    listener,    \* the import-event task of each replica
    proxy,       \* the forwarding task of each job
    importer,    \* the request handler of each job in gcimport
    stored,      \* the batches of each job that geocomponents holds
    budget       \* how many faults of each kind are still to come

vars == <<run, eventTable, stream, trimmed, delivered, pending, idle,
          listener, proxy, importer, stored, budget>>

gcjobsDb == <<run, eventTable>>
redis == <<stream, trimmed, delivered, pending, idle>>
group == <<delivered, pending, idle>>

Batches == 1 .. Len(BatchSizes)

\* The batches are cut from the features of the import: every feature is in
\* one of them.
FeaturesOf(b, batchOf) == {f \in 1 .. TotalFeatures : batchOf[f] = b}

ASSUME ChunkingAssumption ==
    \E batchOf \in [1 .. TotalFeatures -> Batches] :
        \A b \in Batches : BatchSizes[b] = Cardinality(FeaturesOf(b, batchOf))

\* The message_id of events gcjobs records itself (SQL null).
NullId == 0
RecordedIds == {t.mid : t \in eventTable} \ {NullId}

ListenerPcs == {"down", "stopped", "claim", "read", "record", "ack"}
ProxyPcs == {"none", "queued", "sent", "failing", "checked", "done", "lost"}
ImporterPcs == {"none", "received", "parsing", "stats", "importing", "upserted",
                "rejected", "failing", "ok", "error"}

\* gcimport still works on the request.
Active(j) == importer[j].pc \in
    {"received", "parsing", "stats", "importing", "upserted", "rejected", "failing"}

\* No process holds the forwarding task of a job nobody asked for yet.
Nowhere == "nowhere"

DownListener == [pc |-> "down", batch |-> {}, cursor |-> 0]
FreshListener == [pc |-> "claim", batch |-> {}, cursor |-> 0]

Init ==
    /\ run = [j \in Jobs |-> AbsentRow]
    /\ eventTable = {}
    /\ stream = <<>>
    /\ trimmed = 0
    /\ delivered = 0
    /\ pending = {}
    /\ idle = {}
    /\ listener = [r \in Replicas |-> FreshListener]
    /\ proxy = [j \in Jobs |-> [pc |-> "none", at |-> Nowhere]]
    /\ importer = [j \in Jobs |-> [pc |-> "none", batch |-> 1]]
    /\ stored = [j \in Jobs |-> {}]
    /\ budget = [crashes |-> MaxCrashes, errors |-> MaxErrors,
                 breaks |-> MaxBreaks, lost |-> MaxLost]

-----------------------------------------------------------------------------
(* Recording an event: one transaction of db.record_import_event.          *)

\* Mutant: import_event has no unique index on message_id.
NeverRecorded(mid) == FALSE

\* A message_id already in import_event leaves everything as it is.
AlreadyRecorded(mid) == mid # NullId /\ mid \in RecordedIds

RecordImportEvent(mid, e) ==
    \/ /\ AlreadyRecorded(mid)
       /\ UNCHANGED gcjobsDb
    \/ /\ ~ AlreadyRecorded(mid)
       /\ eventTable' = eventTable \cup {[mid |-> mid, event |-> e]}
       /\ run' = [run EXCEPT ![e.job] = UpdatedRow(@, e)]

\* A process whose event loop is inside record_terminal_event_if_running runs
\* nothing else.
Runs(r) ==
    /\ listener[r].pc # "down"
    /\ \A j \in Jobs : proxy[j].pc = "checked" => proxy[j].at # r

-----------------------------------------------------------------------------
(* gcjobs: accepting a request and forwarding it.                          *)

QueueImportRequest(r, j) ==
    /\ Runs(r)
    /\ proxy[j].pc = "none"
    /\ RecordImportEvent(NullId, EventOf(j, "import.accepted", "accepted"))
    /\ proxy' = [proxy EXCEPT ![j] = [pc |-> "queued", at |-> r]]
    /\ UNCHANGED <<redis, listener, importer, stored, budget>>

ProxySend(j) ==
    /\ proxy[j].pc = "queued"
    /\ Runs(proxy[j].at)
    /\ proxy' = [proxy EXCEPT ![j].pc = "sent"]
    /\ importer' = [importer EXCEPT ![j].pc = "received"]
    /\ UNCHANGED <<gcjobsDb, redis, listener, stored, budget>>

\* The POST raises an HTTPError: gcimport is not reachable, or answers with an
\* error status (raise_for_status) ...
ProxyFails(j) ==
    /\ \/ proxy[j].pc = "queued"
       \/ proxy[j].pc = "sent" /\ importer[j].pc = "error"
    /\ Runs(proxy[j].at)
    /\ proxy' = [proxy EXCEPT ![j].pc = "failing"]
    /\ UNCHANGED <<gcjobsDb, redis, listener, importer, stored, budget>>

\* ... or the connection breaks while gcimport goes on working.
ConnectionBreaks(j) ==
    /\ proxy[j].pc = "sent"
    /\ Runs(proxy[j].at)
    /\ Active(j)
    /\ budget.breaks > 0
    /\ budget' = [budget EXCEPT !.breaks = @ - 1]
    /\ proxy' = [proxy EXCEPT ![j].pc = "failing"]
    /\ UNCHANGED <<gcjobsDb, redis, listener, importer, stored>>

ProxySucceeds(j) ==
    /\ proxy[j].pc = "sent"
    /\ Runs(proxy[j].at)
    /\ importer[j].pc = "ok"
    /\ proxy' = [proxy EXCEPT ![j].pc = "done"]
    /\ UNCHANGED <<gcjobsDb, redis, listener, importer, stored, budget>>

\* record_terminal_event_if_running: the row is read in one transaction and
\* the event written in another.
CheckIfRunning(j) ==
    /\ proxy[j].pc = "failing"
    /\ Runs(proxy[j].at)
    /\ proxy' = [proxy EXCEPT ![j].pc =
                    IF IsTerminal(run[j]) THEN "done" ELSE "checked"]
    /\ UNCHANGED <<gcjobsDb, redis, listener, importer, stored, budget>>

\* Mutant: a failure to forward is only logged.
ForwardingFailureIgnored(j) ==
    /\ proxy[j].pc = "checked"
    /\ proxy' = [proxy EXCEPT ![j].pc = "done"]
    /\ UNCHANGED <<gcjobsDb, redis, listener, importer, stored, budget>>

RecordForwardingFailure(j) ==
    /\ proxy[j].pc = "checked"
    /\ RecordImportEvent(NullId,
                         EventOf(j, "import.completed.failed", "forwarding"))
    /\ proxy' = [proxy EXCEPT ![j].pc = "done"]
    /\ UNCHANGED <<redis, listener, importer, stored, budget>>

\* The database is not reachable while the failure is recorded: the task dies.
ProxyTaskDies(j) ==
    /\ \/ proxy[j].pc = "checked"
       \/ proxy[j].pc = "failing" /\ Runs(proxy[j].at)
    /\ budget.errors > 0
    /\ budget' = [budget EXCEPT !.errors = @ - 1]
    /\ proxy' = [proxy EXCEPT ![j].pc = "lost"]
    /\ UNCHANGED <<gcjobsDb, redis, listener, importer, stored>>

-----------------------------------------------------------------------------
(* gcimport: one request handler per job.                                  *)

\* XADD with approximate MAXLEN: old entries may go, read or not, as long as
\* StreamCap of them stay.  A publishing error is logged and swallowed.
Publish(e) ==
    \/ /\ stream' = Append(stream, e)
       /\ trimmed' \in {trimmed} \cup trimmed .. (Len(stream) + 1 - StreamCap)
       /\ UNCHANGED <<group, budget>>
    \/ /\ budget.lost > 0
       /\ budget' = [budget EXCEPT !.lost = @ - 1]
       /\ UNCHANGED redis

Importing(j, from, to) ==
    /\ importer[j].pc = from
    /\ importer' = [importer EXCEPT ![j].pc = to]

importerOnly == <<gcjobsDb, listener, proxy>>

\* An unknown profile, no file or too large an upload is answered before any
\* event is published.
RejectRequest(j) ==
    /\ Importing(j, "received", "error")
    /\ UNCHANGED <<importerOnly, redis, stored, budget>>

StartImport(j) ==
    /\ Importing(j, "received", "parsing")
    /\ Publish(EventOf(j, "import.started", "parsing"))
    /\ UNCHANGED <<importerOnly, stored>>

\* Unreadable JSON, a document that does not validate, SOSI files mixed with
\* others or SOSI text that does not parse.
ParsingFails(j) ==
    /\ Importing(j, "parsing", "error")
    /\ Publish(EventOf(j, "import.completed.failed", "parsing"))
    /\ UNCHANGED <<importerOnly, stored>>

\* SOSI uploads are only counted.
StatsParsed(j) ==
    /\ Importing(j, "parsing", "stats")
    /\ Publish([EventOf(j, "import.parsed", "completed") EXCEPT
                  !.total = TotalFeatures])
    /\ UNCHANGED <<importerOnly, stored>>

StatsCompleted(j) ==
    /\ Importing(j, "stats", "ok")
    /\ Publish([EventOf(j, "import.completed.succeeded", "completed") EXCEPT
                  !.total = TotalFeatures])
    /\ UNCHANGED <<importerOnly, stored>>

Parsed(j) ==
    /\ Importing(j, "parsing", "importing")
    /\ Publish([EventOf(j, "import.parsed", "importing") EXCEPT
                  !.total = TotalFeatures])
    /\ UNCHANGED <<importerOnly, stored>>

\* Mutant: the chunking yields a batch too many.
BatchUpsertedPastTheEnd(j) ==
    /\ importer[j].batch \in 1 .. Len(BatchSizes) + 1
    /\ Importing(j, "importing", "upserted")
    /\ stored' = [stored EXCEPT ![j] = @ \cup {importer[j].batch}]
    /\ UNCHANGED <<importerOnly, redis, budget>>

\* One upsert-batch call answers with an id for every feature ...
BatchUpserted(j) ==
    /\ importer[j].batch \in Batches
    /\ Importing(j, "importing", "upserted")
    /\ stored' = [stored EXCEPT ![j] = @ \cup {importer[j].batch}]
    /\ UNCHANGED <<importerOnly, redis, budget>>

\* Mutant: an error answer of the upstream service goes unnoticed.
BatchFailsUnnoticed(j) ==
    /\ importer[j].batch \in Batches
    /\ Importing(j, "importing", "upserted")
    /\ UNCHANGED <<importerOnly, redis, stored, budget>>

\* ... or fails: before the batch was stored, or after (the answer is lost or
\* is not what gcimport expects).
BatchFails(j) ==
    /\ importer[j].batch \in Batches
    /\ Importing(j, "importing", "rejected")
    /\ stored' \in {stored, [stored EXCEPT ![j] = @ \cup {importer[j].batch}]}
    /\ UNCHANGED <<importerOnly, redis, budget>>

BatchEvent(j, type) ==
    [EventOf(j, type, "importing") EXCEPT
        !.total = TotalFeatures, !.size = BatchSizes[importer[j].batch]]

BatchSucceeded(j) ==
    /\ importer[j].pc = "upserted"
    /\ Publish(BatchEvent(j, "import.batch.succeeded"))
    /\ importer' = [importer EXCEPT ![j] =
                      [pc |-> "importing", batch |-> @.batch + 1]]
    /\ UNCHANGED <<importerOnly, stored>>

\* Mutant: the import goes on after a failed batch.
ImportGoesOn(j) ==
    /\ importer[j].pc = "rejected"
    /\ Publish(BatchEvent(j, "import.batch.failed"))
    /\ importer' = [importer EXCEPT ![j] =
                      [pc |-> "importing", batch |-> @.batch + 1]]
    /\ UNCHANGED <<importerOnly, stored>>

BatchFailed(j) ==
    /\ Importing(j, "rejected", "failing")
    /\ Publish(BatchEvent(j, "import.batch.failed"))
    /\ UNCHANGED <<importerOnly, stored>>

ImportFailed(j) ==
    /\ Importing(j, "failing", "error")
    /\ Publish([EventOf(j, "import.completed.failed", "importing") EXCEPT
                  !.total = TotalFeatures])
    /\ UNCHANGED <<importerOnly, stored>>

ImportSucceeded(j) ==
    /\ importer[j].batch \notin Batches
    /\ Importing(j, "importing", "ok")
    /\ Publish([EventOf(j, "import.completed.succeeded", "completed") EXCEPT
                  !.total = TotalFeatures])
    /\ UNCHANGED <<importerOnly, stored>>

\* gcimport stops, or the handler raises something it does not turn into an
\* event: the caller gets an error and nothing is published.
ImporterBreaks(j) ==
    /\ Active(j)
    /\ budget.breaks > 0
    /\ budget' = [budget EXCEPT !.breaks = @ - 1]
    /\ importer' = [importer EXCEPT ![j].pc = "error"]
    /\ UNCHANGED <<importerOnly, redis, stored>>

-----------------------------------------------------------------------------
(* gcjobs: the import-event listener of each replica.                      *)

Step(r, from, to) ==
    /\ listener[r].pc = from
    /\ Runs(r)
    /\ listener' = [listener EXCEPT ![r] = to]

listenerOnly == <<proxy, importer, stored, budget>>

\* XAUTOCLAIM looks at the pending entries from the cursor on and takes at
\* most ReadCount idle ones; entries it meets that were trimmed leave the list.
Vanished(r) == {m \in pending : m >= listener[r].cursor /\ m <= trimmed}

Claimable(r) == {m \in idle : m >= listener[r].cursor /\ m > trimmed}
Claimed(r) ==
    {m \in Claimable(r) : Cardinality({k \in Claimable(r) : k < m}) < ReadCount}
NextCursors(S) ==
    LET later == {m \in pending : \A k \in S : m > k}
    IN  IF Cardinality(S) < ReadCount \/ later = {} THEN {0}
        ELSE {m \in later : \A k \in later : m <= k}

ClaimIdleEntries(r) ==
    /\ Claimable(r) # {}
    /\ \E c \in NextCursors(Claimed(r)) :
         Step(r, "claim", [pc |-> "record", batch |-> Claimed(r), cursor |-> c])
    /\ idle' = idle \ (Claimed(r) \cup Vanished(r))
    /\ pending' = pending \ Vanished(r)
    /\ UNCHANGED <<gcjobsDb, stream, trimmed, delivered, listenerOnly>>

NothingToClaim(r) ==
    /\ Claimable(r) = {}
    /\ Step(r, "claim", [pc |-> "read", batch |-> {}, cursor |-> 0])
    /\ idle' = idle \ Vanished(r)
    /\ pending' = pending \ Vanished(r)
    /\ UNCHANGED <<gcjobsDb, stream, trimmed, delivered, listenerOnly>>

\* XREADGROUP ">": the next entries of the stream no consumer got yet.
Unread == {m \in 1 .. Len(stream) : m > delivered /\ m > trimmed}
NextUnread == {m \in Unread : Cardinality({k \in Unread : k < m}) < ReadCount}

ReadNewEntries(r) ==
    /\ Unread # {}
    /\ Step(r, "read", [listener[r] EXCEPT !.pc = "record", !.batch = NextUnread])
    /\ delivered' \in NextUnread
    /\ \A m \in NextUnread : m <= delivered'
    /\ pending' = pending \cup NextUnread
    /\ UNCHANGED <<gcjobsDb, stream, trimmed, idle, listenerOnly>>

\* The block timeout elapses.
NothingToRead(r) ==
    /\ Unread = {}
    /\ Step(r, "read", [listener[r] EXCEPT !.pc = "claim"])
    /\ UNCHANGED <<gcjobsDb, redis, listenerOnly>>

\* Mutant: a delivery is handled newest first.
IsLast(r, m) == m \in listener[r].batch /\ \A k \in listener[r].batch : m >= k

\* The messages of a delivery are handled one by one in id order.
IsCurrent(r, m) == m \in listener[r].batch /\ \A k \in listener[r].batch : m <= k

RecordMessage(r) ==
    \E m \in listener[r].batch :
        /\ IsCurrent(r, m)
        /\ Step(r, "record", [listener[r] EXCEPT !.pc = "ack"])
        /\ RecordImportEvent(m, stream[m])
        /\ UNCHANGED <<redis, listenerOnly>>

\* Mutant: the first acknowledgement covers the whole delivery.
AckWholeBatch(r) ==
    \E m \in listener[r].batch :
        /\ IsCurrent(r, m)
        /\ Step(r, "ack",
                [listener[r] EXCEPT
                    !.pc = IF listener[r].batch = {m} THEN "claim" ELSE "record",
                    !.batch = @ \ {m}])
        /\ pending' = pending \ listener[r].batch
        /\ idle' = idle \ listener[r].batch
        /\ UNCHANGED <<gcjobsDb, stream, trimmed, delivered, listenerOnly>>

AckMessage(r) ==
    \E m \in listener[r].batch :
        /\ IsCurrent(r, m)
        /\ Step(r, "ack",
                [listener[r] EXCEPT
                    !.pc = IF listener[r].batch = {m} THEN "claim" ELSE "record",
                    !.batch = @ \ {m}])
        /\ pending' = pending \ {m}
        /\ idle' = idle \ {m}
        /\ UNCHANGED <<gcjobsDb, stream, trimmed, delivered, listenerOnly>>

\* Any exception (database, Redis, an undecodable payload) ends the task; it
\* is logged and not started again while the process lives.
ListenerStops(r) ==
    /\ listener[r].pc # "stopped"
    /\ Runs(r)
    /\ budget.errors > 0
    /\ budget' = [budget EXCEPT !.errors = @ - 1]
    /\ listener' = [listener EXCEPT ![r] = [DownListener EXCEPT !.pc = "stopped"]]
    /\ UNCHANGED <<gcjobsDb, redis, proxy, importer, stored>>

IdleTimePasses ==
    /\ idle # pending
    /\ idle' = pending
    /\ UNCHANGED <<gcjobsDb, stream, trimmed, delivered, pending, listener,
                   proxy, importer, stored, budget>>

-----------------------------------------------------------------------------
(* A gcjobs process goes down and comes up again.                          *)

\* A crash and an orderly shutdown do the same to the tasks: forwarding tasks
\* are cancelled (gcimport goes on), messages delivered to the listener stay
\* pending.
GoDown(r) ==
    /\ listener[r].pc # "down"
    /\ budget.crashes > 0
    /\ budget' = [budget EXCEPT !.crashes = @ - 1]
    /\ listener' = [listener EXCEPT ![r] = DownListener]
    /\ proxy' = [j \in Jobs |->
                    IF proxy[j].at = r /\ proxy[j].pc \notin {"none", "done"}
                    THEN [proxy[j] EXCEPT !.pc = "lost"] ELSE proxy[j]]
    /\ UNCHANGED <<gcjobsDb, redis, importer, stored>>

ComeUp(r) ==
    /\ listener[r].pc = "down"
    /\ listener' = [listener EXCEPT ![r] = FreshListener]
    /\ UNCHANGED <<gcjobsDb, redis, listenerOnly>>

-----------------------------------------------------------------------------

Proxy(j) ==
    \/ ProxySend(j)
    \/ ProxyFails(j)
    \/ ProxySucceeds(j)
    \/ CheckIfRunning(j)
    \/ RecordForwardingFailure(j)

Importer(j) ==
    \/ RejectRequest(j)
    \/ StartImport(j)
    \/ ParsingFails(j)
    \/ StatsParsed(j)
    \/ StatsCompleted(j)
    \/ Parsed(j)
    \/ BatchUpserted(j)
    \/ BatchFails(j)
    \/ BatchSucceeded(j)
    \/ BatchFailed(j)
    \/ ImportFailed(j)
    \/ ImportSucceeded(j)

Listener(r) ==
    \/ ClaimIdleEntries(r)
    \/ NothingToClaim(r)
    \/ ReadNewEntries(r)
    \/ NothingToRead(r)
    \/ RecordMessage(r)
    \/ AckMessage(r)

Next ==
    \/ \E j \in Jobs : \/ \E r \in Replicas : QueueImportRequest(r, j)
                       \/ Proxy(j)
                       \/ ConnectionBreaks(j)
                       \/ ProxyTaskDies(j)
                       \/ Importer(j)
                       \/ ImporterBreaks(j)
    \/ \E r \in Replicas : \/ Listener(r)
                           \/ ListenerStops(r)
                           \/ GoDown(r)
                           \/ ComeUp(r)
    \/ IdleTimePasses

Spec == Init /\ [][Next]_vars

\* Tasks and handlers that can run do run, a gcjobs process that is down is
\* started again, and time passes.  Faults are not fair.
Fairness ==
    /\ \A j \in Jobs : WF_vars(Proxy(j)) /\ WF_vars(Importer(j))
    /\ \A r \in Replicas : WF_vars(Listener(r)) /\ WF_vars(ComeUp(r))
    /\ WF_vars(IdleTimePasses)

FairSpec == Spec /\ Fairness

-----------------------------------------------------------------------------
(* Properties.                                                             *)

Budget == [crashes : Nat, errors : Nat, breaks : Nat, lost : Nat]

\* A handler that waits for the answer on a batch, or has one, has a batch.
Handler ==
    {h \in [pc : ImporterPcs, batch : Nat \ {0}] :
        h.pc \in {"upserted", "rejected"} => h.batch \in Batches}

\* Every variable keeps its type; ids in the group's lists are ids of the
\* stream, and what a listener works on has been delivered.
TypeOK ==
    /\ run \in [Jobs -> Row]
    /\ eventTable \subseteq [mid : Nat, event : Event]
    /\ stream \in Seq(Event)
    /\ trimmed \in 0 .. Len(stream)
    /\ delivered \in 0 .. Len(stream)
    /\ pending \subseteq 1 .. delivered
    /\ idle \subseteq pending
    /\ listener \in [Replicas -> [pc : ListenerPcs, batch : SUBSET (1 .. delivered),
                                 cursor : Nat]]
    /\ proxy \in [Jobs -> [pc : ProxyPcs, at : Replicas \cup {Nowhere}]]
    /\ importer \in [Jobs -> Handler]
    /\ stored \in [Jobs -> SUBSET Batches]
    /\ budget \in Budget

EventsOf(j, type) == {t \in eventTable : t.event.job = j /\ t.event.type = type}

\* Redelivery never counts a batch twice and a committed event is never
\* missing from the totals: the batch counters of a run are the numbers of
\* distinct batch events recorded for it (record_import_event skips the update
\* when the message id is already there).
CountersMatchEvents ==
    \A j \in Jobs :
        /\ run[j].okBatches = Cardinality(EventsOf(j, "import.batch.succeeded"))
        /\ run[j].badBatches = Cardinality(EventsOf(j, "import.batch.failed"))

\* The progress a job shows stays within what it has to do: the features of a
\* redelivered, reclaimed or late batch event are not processed twice, and a
\* failed batch is not also a succeeded one (_job_payload divides the two).
ProgressWithinTotal ==
    \A j \in Jobs : run[j].total # NoTotal => Processed(run[j]) <= run[j].total

\* What a job reports as succeeded is in the dataset: gcjobs never counts more
\* batches than geocomponents has stored for that job, whatever is
\* redelivered, reordered or lost on the way (_import_chunk publishes after
\* the upsert).
SucceededWereStored ==
    \A j \in Jobs : run[j].okBatches <= Cardinality(stored[j])

\* At-least-once delivery: an entry the group has handed out is recorded, or
\* still pending for somebody to claim, or was trimmed from the stream
\* (consume_import_events acknowledges after recording).
AckedWereRecorded ==
    \A m \in 1 .. delivered : m \in RecordedIds \cup pending \/ m <= trimmed

\* A job that shows "successful" has not left part of its features behind:
\* every batch is stored, or it was a statistics-only import that stores
\* nothing (_run_import raises at the first failed batch).
NoPartialSuccess ==
    \A j \in Jobs : MapStatus(run[j]) = "successful" => stored[j] \in {Batches, {}}

\* Nothing has crashed, stopped, broken off or been lost.
Undisturbed == budget = [crashes |-> MaxCrashes, errors |-> MaxErrors,
                         breaks |-> MaxBreaks, lost |-> MaxLost]

\* One gcjobs process takes all events.  Two of them share out the deliveries,
\* and the later event may be recorded first.
OneListener == \A r, s \in Replicas : r = s

\* The summary of a successful job (get_dataset_job_results) accounts for
\* every batch that was stored, as long as nothing has failed, no entry was
\* trimmed away and one process listens: it records the events in the order in
\* which gcimport sent them.
ResultsAreComplete ==
    Undisturbed /\ OneListener /\ trimmed = 0 =>
        \A j \in Jobs : MapStatus(run[j]) = "successful" =>
            run[j].okBatches = Cardinality(stored[j])

\* Every published entry that is not trimmed away reaches the event table,
\* however often the processes that read it go down.
EveryEventIsRecorded ==
    \A m \in 1 .. Cardinality(Jobs) * (Len(BatchSizes) + 4) :
        m <= Len(stream) ~> m \in RecordedIds \/ m <= trimmed

\* Unless something fails, every accepted job ends in a terminal status and
\* stays there, whether or not gcimport can be reached (one process listens: of
\* two, the slower one sets a finished job back to running).
JobsSettle ==
    \A j \in Jobs : proxy[j].pc # "none" ~> (~ Undisturbed \/ [](IsTerminal(run[j])))

\* A job whose import gcimport has finished and announced ends in a terminal
\* status and stays there (docs/ARCHITECTURE.md:449-451).
FinishedImportsSettle ==
    \A j \in Jobs : importer[j].pc = "ok" ~> [](IsTerminal(run[j]))

\* What a client sees of it all: the batches in the dataset and the row of the
\* job.  Deliveries, duplicates, crashes and the order of events leave no other
\* trace there than the steps of BatchLedger.
Ledger == INSTANCE BatchLedger WITH shown <- run

KeepsTheLedger == Ledger!Spec
=============================================================================
