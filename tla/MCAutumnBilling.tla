--------------------------- MODULE MCAutumnBilling --------------------------
(***************************************************************************)
(* Model-checking instance of AutumnBilling: the two features of the plan. *)
(***************************************************************************)
EXTENDS AutumnBilling, TLC

\* A repository is enabled or removed; 0 stands for no value.
Deltas == -1 .. 1

PlanLimit == [f \in Features |-> 1]

=============================================================================
