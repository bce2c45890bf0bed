--------------------------- MODULE MCImportPipeline ---------------------------
(* Instances of ImportPipeline for TLC.                                       *)
EXTENDS ImportPipeline

\* Two batches of different sizes, and one.
MCTwoBatches == <<2, 1>>
MCOneBatch == <<1>>
=============================================================================
