------------------------------ MODULE ImportRun ------------------------------
(***************************************************************************)
(* One row of gc_jobs.import_run and the effect that recording an import   *)
(* event has on it (gcjobs/db.py).  Free text (filenames, reasons, dataset *)
(* paths, timestamps) is left out; the completed_at timestamp is kept as   *)
(* the Boolean "finished".                                                 *)
(***************************************************************************)
EXTENDS Integers

CONSTANT Jobs  \* import ids (the uuid4 that queue_import_request draws)

\* total_features is SQL null until an event carries it.
NoTotal == -1

Phases == {"accepted", "parsing", "importing", "completed", "forwarding"}

EventTypes ==
    { "import.accepted", "import.started", "import.parsed",
      "import.batch.succeeded", "import.batch.failed",
      "import.completed.succeeded", "import.completed.failed" }

Event == [job : Jobs, type : EventTypes, phase : Phases,
          total : Nat \cup {NoTotal}, size : Nat]

\* The event a step of a job sends; most events carry no counts.
EventOf(j, type, phase) ==
    [job |-> j, type |-> type, phase |-> phase, total |-> NoTotal, size |-> 0]

Row ==
    [status : {"absent", "running", "completed", "failed"},
     phase : Phases \cup {"none"}, total : Nat \cup {NoTotal},
     okFeatures : Nat, badFeatures : Nat, okBatches : Nat, badBatches : Nat,
     finished : BOOLEAN]

\* No row with this id.
AbsentRow ==
    [status |-> "absent", phase |-> "none", total |-> NoTotal,
     okFeatures |-> 0, badFeatures |-> 0, okBatches |-> 0, badBatches |-> 0,
     finished |-> FALSE]

IsTerminalEvent(e) ==
    e.type \in { "import.batch.failed",
                 "import.completed.succeeded", "import.completed.failed" }

StatusFor(e) ==
    CASE e.type = "import.completed.succeeded" -> "completed"
      [] e.type \in {"import.completed.failed", "import.batch.failed"} -> "failed"
      [] OTHER -> "running"

\* The counters an event adds: batch_size features and one batch.
AddsFeatures(e, type) == IF e.type = type THEN e.size ELSE 0
AddsBatch(e, type) == IF e.type = type THEN 1 ELSE 0

\* UPDATE import_run SET ...: the status is overwritten whatever it was, the
\* counters accumulate, total and completed_at keep their value unless the
\* event brings one.
UpdatedRow(row, e) ==
    [status |-> StatusFor(e),
     phase |-> e.phase,
     total |-> IF e.total = NoTotal THEN row.total ELSE e.total,
     okFeatures |-> row.okFeatures + AddsFeatures(e, "import.batch.succeeded"),
     badFeatures |-> row.badFeatures + AddsFeatures(e, "import.batch.failed"),
     okBatches |-> row.okBatches + AddsBatch(e, "import.batch.succeeded"),
     badBatches |-> row.badBatches + AddsBatch(e, "import.batch.failed"),
     finished |-> row.finished \/ IsTerminalEvent(e)]

\* processed_features
Processed(row) == row.okFeatures + row.badFeatures

IsTerminal(row) == row.status \in {"completed", "failed"}

\* The OGC status the job document shows (storage._map_status).
MapStatus(row) ==
    CASE row.status = "completed" -> "successful"
      [] row.status = "failed" -> "failed"
      [] row.status = "running" /\ row.phase = "accepted" -> "accepted"
      [] OTHER -> "running"
=============================================================================
