--------------------------- MODULE MCUsageMetering --------------------------
(***************************************************************************)
(* Model-checking instance of UsageMetering.                               *)
(***************************************************************************)
EXTENDS UsageMetering, TLC

CONSTANTS t1, t2, t3, t4, c1, c2

\* Three triages of one customer, and one of another.
TwoCustomers == t1 :> c1 @@ t2 :> c1 @@ t3 :> c1 @@ t4 :> c2

=============================================================================
