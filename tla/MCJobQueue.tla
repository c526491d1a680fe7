----------------------------- MODULE MCJobQueue -----------------------------
(***************************************************************************)
(* Model-checking instances of JobQueue.                                   *)
(***************************************************************************)
EXTENDS TriageStore, TLC

\* Workers are interchangeable; used by the runs without liveness only.
WorkerSymmetry == Permutations(Workers)

=============================================================================
