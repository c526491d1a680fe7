--------------------------- MODULE MCTriageWorker ---------------------------
(***************************************************************************)
(* Model-checking instances of TriageWorker: one pull request is opened    *)
(* and pushed to.                                                          *)
(***************************************************************************)
EXTENDS TriageWorker, TLC

CONSTANTS d1, d2, p1

SamePr == d1 :> p1 @@ d2 :> p1

OpenedThenPushed == d1 :> "opened" @@ d2 :> "synchronized"

\* One delivery suffices for the runs about what becomes of a single job.
OnePr == d1 :> p1

OneOpened == d1 :> "opened"

=============================================================================
