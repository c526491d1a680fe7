---------------------------- MODULE MCTriageAgent ---------------------------
(***************************************************************************)
(* Model-checking instance of TriageAgent.                                 *)
(***************************************************************************)
EXTENDS TriageAgent

\* A strict repository and a lax one, with maintainers; globs of all kinds.
ConfigFiles ==
    { Absent, Invalid,
      [DefaultConfig EXCEPT !.threshold = 10, !.maintainers = {"alice", "bob"},
                            !.escalationLabel = "human", !.skipDrafts = FALSE,
                            !.testGlobs = {InvalidGlob}],
      [DefaultConfig EXCEPT !.threshold = 0, !.maintainers = {"alice"},
                            !.onSynchronize = FALSE, !.minDescription = 0,
                            !.sourceGlobs = {{"src", "test"}, InvalidGlob}],
      [DefaultConfig EXCEPT !.threshold = NaN] }

PullRequests ==
    [ draft : BOOLEAN, mergeable : {"yes", "no", "unknown"}, description : {0, 40},
      checks : SUBSET {"failure", "success", "stale"}, files : SUBSET {"src", "test"} ]

\* At once, in three seconds, and at a date three seconds from now.
Headers == { [secs |-> 0, whole |-> TRUE], [secs |-> 3, whole |-> TRUE],
             [secs |-> 3, whole |-> FALSE] }

Confidences == {-1, 0, 6, 7, 10, 11}

ModelClassifications == [ category : {"feature", "needs-discussion"}, confidence : Confidences ]

ModelDecisions ==
    [ escalate : BOOLEAN, reason : {None, "given"}, labels : {{}, {"needs-tests"}},
      priority : {"priority:low", "priority:high"}, confidence : Confidences ]

=============================================================================
