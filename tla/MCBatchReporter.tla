-------------------------- MODULE MCBatchReporter --------------------------
(* Small instances of BatchReporter for TLC. *)
EXTENDS BatchReporter, TLC

\* The records are interchangeable in the safety runs.
RecordSymmetry == Permutations(Records)
=============================================================================
