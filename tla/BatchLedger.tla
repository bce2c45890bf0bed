----------------------------- MODULE BatchLedger -----------------------------
(***************************************************************************)
(* What an import promises to a client who polls its job and looks into    *)
(* the dataset, whatever goes on between the services: the batches appear  *)
(* whole and in their order, the job counts a batch once and not before it *)
(* is stored, reports one failed batch at most, at the end of what is      *)
(* stored, and calls itself successful only as a whole.                    *)
(***************************************************************************)
EXTENDS ImportRun, Sequences

CONSTANTS
    BatchSizes,   \* the sizes of the batches an import is split into
    TotalFeatures \* how many features they hold together

VARIABLES
    stored, \* the batches of each job that the dataset holds
    shown   \* the row the document of each job is made from

Batches == 1 .. Len(BatchSizes)

Init ==
    /\ stored = [j \in Jobs |-> {}]
    /\ shown = [j \in Jobs |-> AbsentRow]

\* The next batch gets into the dataset, as long as the job shows neither
\* success nor a failed batch.
StoreBatch(j) ==
    /\ shown[j].status # "completed"
    /\ shown[j].badBatches = 0
    /\ \E b \in Batches :
          /\ stored[j] = 1 .. b - 1
          /\ stored' = [stored EXCEPT ![j] = 1 .. b]
    /\ UNCHANGED shown

Show(j, row) ==
    /\ shown' = [shown EXCEPT ![j] = row]
    /\ UNCHANGED stored

CountSucceeded(j) ==
    /\ shown[j].okBatches + 1 \in stored[j]
    /\ \E b \in stored[j] :
          /\ Processed(shown[j]) + BatchSizes[b] <= TotalFeatures
          /\ Show(j, [shown[j] EXCEPT
                !.status = "running", !.phase = "importing", !.total = TotalFeatures,
                !.okFeatures = @ + BatchSizes[b], !.okBatches = @ + 1])

\* The batch that failed is the one after the last that is known to be stored;
\* it may be in the dataset all the same.
CountFailed(j) ==
    /\ shown[j].badBatches = 0
    /\ \E b \in Batches :
          /\ stored[j] \in {1 .. b - 1, 1 .. b}
          /\ Processed(shown[j]) + BatchSizes[b] <= TotalFeatures
          /\ Show(j, [shown[j] EXCEPT
                !.status = "failed", !.phase = "importing", !.total = TotalFeatures,
                !.badFeatures = @ + BatchSizes[b], !.badBatches = 1,
                !.finished = TRUE])

\* Anything else that happens shows in the status only.  A job is called
\* successful when all its batches are there, or none because it was to be
\* counted only.  The total, once known, stays, and a job that has ended keeps the
\* time of its end.
ChangeStatus(j) ==
    \E status \in {"running", "completed", "failed"}, phase \in Phases,
       total \in {shown[j].total, TotalFeatures} :
        /\ status = "completed" => stored[j] \in {Batches, {}}
        /\ Show(j, [shown[j] EXCEPT
              !.status = status, !.phase = phase, !.total = total,
              !.finished = @ \/ status # "running"])

Next ==
    \E j \in Jobs :
        \/ StoreBatch(j)
        \/ CountSucceeded(j)
        \/ CountFailed(j)
        \/ ChangeStatus(j)

Spec == Init /\ [][Next]_<<stored, shown>>
=============================================================================
