------------------------------ MODULE AgentRun ------------------------------
(***************************************************************************)
(* TriageAgent::run as module TriageWorker sees it: gather, decide, write  *)
(* the comment, add the labels; it may skip or fail before it has written  *)
(* anything, and fail while it writes.                                     *)
(***************************************************************************)

VARIABLES
    phase,       \* how far the run has got
    commented,   \* the triage comment may have been written
    labelled     \* the labels may have been added

runVars == <<phase, commented, labelled>>

Init == phase = "gather" /\ commented = FALSE /\ labelled = FALSE

Becomes(from, to) == phase \in from /\ phase' \in to

Gather == Becomes({"gather"}, {"decide", "skipped", "failed"}) /\ UNCHANGED <<commented, labelled>>

Decide == Becomes({"decide"}, {"comment", "skipped", "failed"}) /\ UNCHANGED <<commented, labelled>>

PostComment ==
    /\ UNCHANGED labelled
    /\ \/ Becomes({"comment"}, {"labels"}) /\ commented' = TRUE
       \/ Becomes({"comment"}, {"failed"}) /\ commented' \in BOOLEAN

PostLabels ==
    /\ UNCHANGED commented
    /\ \/ Becomes({"labels"}, {"completed"}) /\ labelled' = TRUE
       \/ Becomes({"labels"}, {"failed"}) /\ labelled' \in BOOLEAN

Next == Gather \/ Decide \/ PostComment \/ PostLabels

Spec == Init /\ [][Next]_runVars

=============================================================================
