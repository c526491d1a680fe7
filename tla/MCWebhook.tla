----------------------------- MODULE MCWebhook ------------------------------
(***************************************************************************)
(* Model-checking instances of Server: a pull request is pushed to, and an *)
(* installation is created with one repository, gets another, and is       *)
(* deleted with both.                                                      *)
(***************************************************************************)
EXTENDS Server, TLC

CONSTANTS pushed, forged, created, changed, deleted, c1

Request(kind, action, customer, added, removed) ==
    [ signed |-> TRUE, hasId |-> TRUE, parses |-> TRUE, kind |-> kind, action |-> action,
      customer |-> customer, added |-> added, removed |-> removed ]

Events ==
    pushed  :> Request("pull_request", "synchronize", c1, 0, 0) @@
    forged  :> [Request("installation_repositories", "added", c1, 1, 0) EXCEPT !.signed = FALSE] @@
    created :> Request("installation", "created", c1, 1, 0) @@
    changed :> Request("installation_repositories", "added", c1, 1, 0) @@
    deleted :> Request("installation", "deleted", c1, 0, 2)

PlanLimit == [f \in Features |-> 1]

\* The differences the events above lead to.
Deltas == -2 .. 2

=============================================================================
