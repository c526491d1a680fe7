------------------------------ MODULE JobTable ------------------------------
(***************************************************************************)
(* The triage_jobs table of scaffold-store and the statements PgStore runs *)
(* on it, one operator per statement, from a table to a table.             *)
(*                                                                         *)
(* A table is the sequence of its rows in the order they became visible;   *)
(* rows are never deleted.  The BIGSERIAL id is another order: it is drawn *)
(* when an INSERT begins, so a row may show after one with a higher id,    *)
(* and ids that were drawn in vain stay gaps.  The pull request and the    *)
(* trigger of a row are functions of the delivery and are left to the      *)
(* modules that need them.                                                 *)
(***************************************************************************)
EXTENDS Naturals, Sequences

CONSTANTS
    Deliveries,      \* X-GitHub-Delivery ids the webhook may receive
    MaxJobAttempts,  \* MAX_JOB_ATTEMPTS
    BackoffUnit,     \* the 30 s of fail_job, in ticks of the model's clock
    MaxAhead         \* bound on the ids drawn beyond the number of visible rows

ASSUME AttemptsAssumption == MaxJobAttempts \in Nat \ {0}
ASSUME BackoffAssumption  == BackoffUnit \in Nat
ASSUME AheadAssumption    == MaxAhead \in Nat \ {0}

Status   == {"queued", "running", "done", "dead"}
Terminal == {"done", "dead"}

Row == [ id        : Nat,
         delivery  : Deliveries,
         status    : Status,
         attempts  : Nat,
         runAfter  : Nat,
         createdAt : Nat ]

Ids(table) == 1 .. Len(table)

Known(table, d) == \E i \in Ids(table) : table[i].delivery = d

NewRow(d, t, id) == [ id        |-> id,
                      delivery  |-> d,
                      status    |-> "queued",
                      attempts  |-> 0,
                      runAfter  |-> t,
                      createdAt |-> t ]

\* nextval of the sequence: an id drawn earlier may be below those of rows that
\* are visible already.  (Wider than Postgres: a gap stays free for later rows.)
FreeIds(table) == (1 .. Len(table) + MaxAhead) \ { table[i].id : i \in Ids(table) }

\* Mutant: the INSERT without ON CONFLICT (delivery_id) DO NOTHING.
EnqueueAlways(table, d, t, id) == Append(table, NewRow(d, t, id))

\* enqueue_job: one row per delivery id, a redelivery inserts nothing (its id
\* is a gap).
EnqueueJob(table, d, t, id) ==
    IF Known(table, d) THEN table ELSE Append(table, NewRow(d, t, id))

\* WHERE status = 'queued' AND run_after <= now()
Runnable(table, i, t) ==
    /\ table[i].status = "queued"
    /\ table[i].runAfter <= t

\* Mutant: the claim does not count the attempt.
ClaimUncounted(table, i) == [table EXCEPT ![i].status = "running"]

\* SET status = 'running', attempts = attempts + 1
ClaimJob(table, i) ==
    [table EXCEPT ![i].status   = "running",
                 ![i].attempts = @ + 1]

\* Mutant: a status the schema does not know.
CompleteMisspelt(table, i) == [table EXCEPT ![i].status = "completed"]

\* complete_job
CompleteJob(table, i) == [table EXCEPT ![i].status = "done"]

\* Mutant: attempts > $2 for attempts >= $2.
DispositionOffByOne(table, i) ==
    IF table[i].attempts > MaxJobAttempts THEN "dead" ELSE "queued"

\* CASE WHEN attempts >= $2 THEN 'dead' ELSE 'queued' END
Disposition(table, i) ==
    IF table[i].attempts >= MaxJobAttempts THEN "dead" ELSE "queued"

\* Mutant: a constant delay, as if the "* attempts" were dropped.
FailConstantDelay(table, i, t) ==
    [table EXCEPT ![i].status   = Disposition(table, i),
                 ![i].runAfter = t + BackoffUnit]

\* Mutant: only the error and the delay are written, the status stays.
FailKeepsRunning(table, i, t) ==
    [table EXCEPT ![i].runAfter = t + BackoffUnit * table[i].attempts]

\* fail_job: linear backoff, dead once the attempts are used up.
FailJob(table, i, t) ==
    [table EXCEPT ![i].status   = Disposition(table, i),
                 ![i].runAfter = t + BackoffUnit * table[i].attempts]

=============================================================================
