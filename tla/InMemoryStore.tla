---------------------------- MODULE InMemoryStore ----------------------------
(***************************************************************************)
(* InMemoryStore of scaffold-store, the TriageStore "for tests and DB-free *)
(* local runs": four vectors and two counters behind one mutex.            *)
(*                                                                         *)
(* Every operation locks the mutex, does its work and unlocks.  For        *)
(* claim_next_job the lock and the work are two steps; the others have     *)
(* nothing to say about the time in between and are one, taken while the   *)
(* mutex is free.  The counters start at 0 and grow with every push, so    *)
(* the id of a row is its position.                                        *)
(*                                                                         *)
(* memory.rs:1-2: "Mirrors the Postgres semantics (idempotent enqueue,     *)
(* attempt-capped retries)".  The end of the module says in which sense it *)
(* does: this store is the queue of module JobQueue with a backoff of zero *)
(* on a clock that stands still.                                           *)
(***************************************************************************)
EXTENDS Naturals, Sequences, FiniteSets

CONSTANTS
    Deliveries, Workers,
    MaxJobAttempts,  \* MAX_JOB_ATTEMPTS
    PullRequests,
    DrainLimit,      \* DRAIN_BATCH_SIZE, the limit of a drain
    MaxLost,         \* bound on the jobs abandoned by their worker
    MaxUsage         \* bound on the rows of audits and of usage

VARIABLES
    rows,       \* Inner.jobs
    guard,      \* the worker whose claim_next_job holds the mutex
    inHand,     \* inHand[w]: the id of the job worker w has claimed
    dropped,    \* ghost: the running jobs no worker has in hand any more
    audited,    \* Inner.audits: the pull requests, oldest first
    usage,      \* Inner.usage
    batch       \* what the retracker drained and has not tracked yet

jobVars   == <<rows, guard, inHand, dropped>>
usageVars == <<audited, usage, batch>>
memoryVars == <<jobVars, usageVars>>

None  == 0
Free  == guard = {}
Ids   == 1 .. Len(rows)

\* find(|j| j.status == Queued): the first one, if there is one.
Queued == { i \in Ids : rows[i].status = "queued" }
Found  == { i \in Queued : \A j \in Queued : i <= j }

-----------------------------------------------------------------------------

Init ==
    /\ rows = << >>
    /\ guard = {}
    /\ inHand = [w \in Workers |-> None]
    /\ dropped = {}
    /\ audited = << >>
    /\ usage = << >>
    /\ batch = << >>

Stored(d) == \E i \in Ids : rows[i].delivery = d

\* Mutant: pushed without the look for the delivery.
EnqueueJobAlways(d) ==
    /\ Free
    /\ Len(rows) < 3
    /\ rows' = Append(rows, [delivery |-> d, attempts |-> 0, status |-> "queued"])
    /\ UNCHANGED <<guard, inHand, dropped, usageVars>>

\* Ok(false) for a delivery that is stored, whatever has become of its job.
EnqueueJob(d) ==
    /\ Free
    /\ rows' = IF Stored(d) THEN rows
               ELSE Append(rows, [delivery |-> d, attempts |-> 0, status |-> "queued"])
    /\ UNCHANGED <<guard, inHand, dropped, usageVars>>

\* claim_next_job has the mutex.
LockForClaim(w) ==
    /\ Free /\ inHand[w] = None
    /\ guard' = {w}
    /\ UNCHANGED <<rows, inHand, dropped, usageVars>>

\* The job found runs in the hands of w; None when there is none.
ClaimNextJob(w) ==
    /\ guard = {w}
    /\ guard' = {}
    /\ \/ Found = {} /\ UNCHANGED <<rows, inHand>>
       \/ \E i \in Found :
            /\ rows' = [rows EXCEPT ![i].status = "running", ![i].attempts = @ + 1]
            /\ inHand' = [inHand EXCEPT ![w] = i]
    /\ UNCHANGED <<dropped, usageVars>>

CompleteJob(w) ==
    /\ Free /\ inHand[w] # None
    /\ rows' = [rows EXCEPT ![inHand[w]].status = "done"]
    /\ inHand' = [inHand EXCEPT ![w] = None]
    /\ UNCHANGED <<guard, dropped, usageVars>>

\* Mutant: a failed job is queued again for ever.
FailJobUncapped(w) ==
    /\ Free /\ inHand[w] # None
    /\ rows' = [rows EXCEPT ![inHand[w]].status = "queued"]
    /\ inHand' = [inHand EXCEPT ![w] = None]
    /\ UNCHANGED <<guard, dropped, usageVars>>

\* Dead after the last attempt; otherwise queued, and claimable at once.
FailJob(w) ==
    /\ Free /\ inHand[w] # None
    /\ rows' = [rows EXCEPT ![inHand[w]].status =
                   IF rows[inHand[w]].attempts >= MaxJobAttempts THEN "dead" ELSE "queued"]
    /\ inHand' = [inHand EXCEPT ![w] = None]
    /\ UNCHANGED <<guard, dropped, usageVars>>

\* A worker's task ends, by a panic, with the job it has in hand.
Abandon(w) ==
    /\ inHand[w] # None
    /\ Cardinality(dropped) < MaxLost
    /\ dropped' = dropped \cup {inHand[w]}
    /\ inHand' = [inHand EXCEPT ![w] = None]
    /\ UNCHANGED <<rows, guard, usageVars>>

-----------------------------------------------------------------------------
(* The audits and the journal of usage.  last_triaged_at only reads: the   *)
(* latest finished_at among the reports of a pull request.                 *)

RecordAudit(p) ==
    /\ Free /\ Len(audited) < MaxUsage
    /\ audited' = Append(audited, p)
    /\ UNCHANGED <<jobVars, usage, batch>>

JournalUntrackedUsage(p) ==
    /\ Free /\ Len(usage) < MaxUsage
    /\ usage' = Append(usage, [pr |-> p, tracked |-> FALSE])
    /\ UNCHANGED <<jobVars, audited, batch>>

Untracked == { i \in 1 .. Len(usage) : ~ usage[i].tracked }

\* The ids of the first `limit` rows that are not tracked.
DrainUntrackedUsage ==
    /\ Free /\ batch = << >>
    /\ batch' = SelectSeq([i \in 1 .. Len(usage) |-> i],
                          LAMBDA i : /\ i \in Untracked
                                     /\ Cardinality({ j \in Untracked : j <= i }) <= DrainLimit)
    /\ UNCHANGED <<jobVars, audited, usage>>

\* The unit was tracked: mark_usage_tracked.
MarkUsageTracked ==
    /\ Free /\ batch # << >>
    /\ usage' = [usage EXCEPT ![Head(batch)].tracked = TRUE]
    /\ batch' = Tail(batch)
    /\ UNCHANGED <<jobVars, audited>>

\* The unit was not: the rest of the batch waits for the next drain.
StopBatch ==
    /\ batch # << >>
    /\ batch' = << >>
    /\ UNCHANGED <<jobVars, audited, usage>>

-----------------------------------------------------------------------------

Next ==
    \/ \E d \in Deliveries : EnqueueJob(d)
    \/ \E w \in Workers :
         LockForClaim(w) \/ ClaimNextJob(w) \/ CompleteJob(w) \/ FailJob(w) \/ Abandon(w)
    \/ \E p \in PullRequests : RecordAudit(p) \/ JournalUntrackedUsage(p)
    \/ DrainUntrackedUsage \/ MarkUsageTracked \/ StopBatch

Spec == Init /\ [][Next]_memoryVars

StoredJob == [ delivery : Deliveries,
               attempts : Nat,
               status   : {"queued", "running", "done", "dead"} ]

\* Type invariant.
TypeOK ==
    /\ rows \in Seq(StoredJob)
    /\ guard \in {{}} \cup { {w} : w \in Workers }
    /\ inHand \in [Workers -> {None} \cup Ids]
    /\ dropped \subseteq Ids
    /\ \A w \in Workers : w \in guard => inHand[w] = None

-----------------------------------------------------------------------------

\* The i-th stored job as a row of triage_jobs that was due from the beginning.
AsRow(i, r) == [ id |-> i, delivery |-> r.delivery, status |-> r.status,
                 attempts |-> r.attempts, runAfter |-> 0, createdAt |-> 0 ]

AsTable == [ i \in Ids |-> AsRow(i, rows[i]) ]

\* The mutex does for a claim what the row lock does in Postgres.
AsLocks == [ w \in Workers |->
               IF w \in guard /\ Found # {} THEN CHOOSE i \in Found : TRUE ELSE None ]

Queue == INSTANCE JobQueue
         WITH jobs <- AsTable, now <- 0, locked <- AsLocks, held <- inHand,
              lost <- dropped, BackoffUnit <- 0, MaxTime <- 0, MaxAhead <- 1

\* memory.rs:1-2: this store behaves as the Postgres queue does, but for the
\* time a failed job waits and for the ids, which have no gaps and no overtaking.
MirrorsPostgres == Queue!Spec

=============================================================================
