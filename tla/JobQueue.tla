------------------------------ MODULE JobQueue ------------------------------
(***************************************************************************)
(* The job queue shared by the webhook route and any number of workers     *)
(* (run_worker: "Run one or more of these as background tasks; claiming is *)
(* concurrency-safe").                                                     *)
(*                                                                         *)
(* The claim is one UPDATE whose subquery locks a row FOR UPDATE SKIP      *)
(* LOCKED.  Two claims overlap in the database, so the model splits it in  *)
(* two: SelectForUpdate takes the row lock, CommitClaim commits the        *)
(* UPDATE, and other statements come in between.                           *)
(*                                                                         *)
(* What a worker does with a job it holds is left open here: it completes  *)
(* it, fails it, or abandons it (the process dies, or process_job returns  *)
(* a store error with `?` and run_worker only logs it).  Module            *)
(* TriageWorker fills this in.                                             *)
(***************************************************************************)
EXTENDS JobTable, FiniteSets

CONSTANTS
    Workers,   \* the run_worker loops, in one server process or several
    MaxTime,   \* bound on the clock
    MaxLost    \* bound on the jobs abandoned by their worker

ASSUME MaxLostAssumption == MaxLost \in Nat

VARIABLES
    jobs,      \* the table triage_jobs
    now,       \* the database clock, now()
    locked,    \* locked[w]: the row w's claim has locked and not committed
    held,      \* held[w]: the claimed job in the memory of worker w
    lost       \* ghost: the running jobs no worker holds any more

queueVars == <<jobs, now, locked, held, lost>>

NoJob == 0

Idle(w) == locked[w] = NoJob /\ held[w] = NoJob

-----------------------------------------------------------------------------

Init ==
    /\ jobs = << >>
    /\ now = 0
    /\ locked = [w \in Workers |-> NoJob]
    /\ held = [w \in Workers |-> NoJob]
    /\ lost = {}

Tick ==
    /\ now < MaxTime
    /\ now' = now + 1
    /\ UNCHANGED <<jobs, locked, held, lost>>

\* A webhook delivery, or a redelivery of one, reaches enqueue_job; the INSERT
\* of an earlier one may commit after it.
Enqueue(d) ==
    /\ \E id \in FreeIds(jobs) : jobs' = EnqueueJob(jobs, d, now, id)
    /\ UNCHANGED <<now, locked, held, lost>>

\* Mutant: FOR UPDATE SKIP LOCKED dropped from the subquery, and no recheck
\* of the row when the UPDATE gets to it.
ClaimableUnlocked(w, i) == Runnable(jobs, i, now)

\* The rows the subquery of the claim may return: due, not locked by another
\* claim.
Claimable(w, i) ==
    /\ Runnable(jobs, i, now)
    /\ \A v \in Workers \ {w} : locked[v] # i

\* Mutant: the subquery without ORDER BY.
SelectAnyForUpdate(w) ==
    /\ Idle(w)
    /\ \E i \in Ids(jobs) :
         /\ Claimable(w, i)
         /\ locked' = [locked EXCEPT ![w] = i]
    /\ UNCHANGED <<jobs, now, held, lost>>

\* ORDER BY id FOR UPDATE SKIP LOCKED LIMIT 1
SelectForUpdate(w) ==
    /\ Idle(w)
    /\ \E i \in Ids(jobs) :
         /\ Claimable(w, i)
         /\ \A j \in Ids(jobs) : Claimable(w, j) => jobs[i].id <= jobs[j].id
         /\ locked' = [locked EXCEPT ![w] = i]
    /\ UNCHANGED <<jobs, now, held, lost>>

\* The UPDATE commits and claim_next_job returns the job.
CommitClaim(w) ==
    /\ locked[w] # NoJob
    /\ jobs' = ClaimJob(jobs, locked[w])
    /\ held' = [held EXCEPT ![w] = locked[w]]
    /\ locked' = [locked EXCEPT ![w] = NoJob]
    /\ UNCHANGED <<now, lost>>

\* The claim fails before it commits: the row stays as it was.
RollbackClaim(w) ==
    /\ locked[w] # NoJob
    /\ locked' = [locked EXCEPT ![w] = NoJob]
    /\ UNCHANGED <<jobs, now, held, lost>>

\* The UPDATE commits but its reply is lost: claim_next_job returns Err and
\* run_worker goes to sleep without the job.
LoseClaim(w) ==
    /\ locked[w] # NoJob
    /\ Cardinality(lost) < MaxLost
    /\ jobs' = ClaimJob(jobs, locked[w])
    /\ locked' = [locked EXCEPT ![w] = NoJob]
    /\ lost' = lost \cup {locked[w]}
    /\ UNCHANGED <<now, held>>

Complete(w) ==
    /\ held[w] # NoJob
    /\ jobs' = CompleteJob(jobs, held[w])
    /\ held' = [held EXCEPT ![w] = NoJob]
    /\ UNCHANGED <<now, locked, lost>>

\* Mutant: a worker that has just failed a job processes it once more from
\* its own copy, instead of leaving it to the next claim.
FailAndKeep(w) ==
    /\ held[w] # NoJob
    /\ jobs' = FailJob(jobs, held[w], now)
    /\ UNCHANGED <<now, locked, held, lost>>

Fail(w) ==
    /\ held[w] # NoJob
    /\ jobs' = FailJob(jobs, held[w], now)
    /\ held' = [held EXCEPT ![w] = NoJob]
    /\ UNCHANGED <<now, locked, lost>>

\* The worker is gone with the job it holds: nothing else ever reads a row
\* whose status is 'running'.
Abandon(w) ==
    /\ held[w] # NoJob
    /\ Cardinality(lost) < MaxLost
    /\ held' = [held EXCEPT ![w] = NoJob]
    /\ lost' = lost \cup {held[w]}
    /\ UNCHANGED <<jobs, now, locked>>

Next ==
    \/ Tick
    \/ \E d \in Deliveries : Enqueue(d)
    \/ \E w \in Workers :
         \/ SelectForUpdate(w)
         \/ CommitClaim(w)
         \/ RollbackClaim(w)
         \/ LoseClaim(w)
         \/ Complete(w)
         \/ Fail(w)
         \/ Abandon(w)

Spec == Init /\ [][Next]_queueVars

\* Time passes, every worker keeps polling (run_worker never leaves its loop),
\* the database does not roll back a worker's claims for ever, and processing a
\* job that is held ends in one of the two ways the code reports.
Fairness ==
    /\ WF_queueVars(Tick)
    /\ \A w \in Workers :
         /\ WF_queueVars(SelectForUpdate(w))
         /\ SF_queueVars(CommitClaim(w))
         /\ WF_queueVars(Complete(w) \/ Fail(w))

FairSpec == Spec /\ Fairness

-----------------------------------------------------------------------------

\* Type invariant.
TypeOK ==
    /\ jobs \in Seq(Row)
    /\ now \in Nat
    /\ locked \in [Workers -> {NoJob} \cup Ids(jobs)]
    /\ held \in [Workers -> {NoJob} \cup Ids(jobs)]
    /\ lost \subseteq Ids(jobs)

\* A delivery id never has two rows, whatever GitHub redelivers and when: the
\* ON CONFLICT clause of enqueue_job deduplicates webhook retries.
UniqueDelivery ==
    \A i, j \in Ids(jobs) : jobs[i].delivery = jobs[j].delivery => i = j

\* The claim is exclusive: no two workers work on one job, nor have locked the
\* same row, nor does one work on a job another has abandoned, nor claim a job
\* while it holds one (worker.rs: "claiming is concurrency-safe").
ExclusiveClaim ==
    /\ \A v, w \in Workers : v # w =>
         /\ held[v] # NoJob => held[v] # held[w]
         /\ locked[v] # NoJob => locked[v] # locked[w]
    /\ \A w \in Workers : /\ held[w] \notin lost
                          /\ locked[w] # NoJob => held[w] = NoJob

\* A row whose lock is held by a claim is still queued and due: no statement of
\* another worker moves it between the subquery and the UPDATE.
LockedIsRunnable ==
    \A w \in Workers : locked[w] # NoJob => Runnable(jobs, locked[w], now)

\* A row is 'running' exactly while a worker has it in memory or some worker has
\* abandoned it: a job in progress is never forgotten by the table, and a
\* settled or queued job is in no worker's hands.
RunningIsAccounted ==
    \A i \in Ids(jobs) :
        jobs[i].status = "running" <=>
            i \in lost \/ \E w \in Workers : held[w] = i

\* The attempts of a job are bounded: at most MaxJobAttempts claims ever, a
\* queued job has one left, and only a job that used them all is dead.
WithinBudget(r) ==
    /\ r.attempts <= MaxJobAttempts
    /\ r.status = "queued" => r.attempts < MaxJobAttempts
    /\ r.status = "dead" => r.attempts = MaxJobAttempts
    /\ r.status \in {"running", "done"} => r.attempts > 0

AttemptBudget == \A i \in Ids(jobs) : WithinBudget(jobs[i])

\* The backoff of fail_job is linear, so the waits add up: the k-th attempt of
\* a job starts no earlier than BackoffUnit * (1 + ... + (k-1)) after the
\* delivery, and while it waits for the next one, run_after says so.
Spaced(r, t) ==
    LET k == r.attempts IN
    IF r.status = "queued"
      THEN 2 * r.runAfter >= 2 * r.createdAt + BackoffUnit * (k * (k + 1))
      ELSE 2 * t >= 2 * r.createdAt + BackoffUnit * (k * (k - 1))

BackoffSpacing == \A i \in Ids(jobs) : Spaced(jobs[i], now)

\* A step never changes a job that is done or dead: no late answer of a worker
\* revives it, reclaims it or turns the one into the other.
TerminalIsFinal ==
    [][\A i \in Ids(jobs) :
          jobs[i].status \in Terminal => jobs'[i] = jobs[i]]_queueVars

Settled(d) ==
    \E i \in Ids(jobs) : jobs[i].delivery = d /\ jobs[i].status \in Terminal

\* The next attempt is due after the end of the model's clock.
BeyondHorizon(d) ==
    \E i \in Ids(jobs) :
        /\ jobs[i].delivery = d
        /\ jobs[i].status = "queued"
        /\ jobs[i].runAfter > MaxTime

\* Every delivery that was accepted is eventually done or dead: README.md says
\* a failing job is retried and then marked dead "instead of being silently
\* dropped".  It needs that no worker abandons its job.
Settles ==
    \A d \in Deliveries :
        Known(jobs, d) ~> (Settled(d) \/ BeyondHorizon(d))

-----------------------------------------------------------------------------

\* The life of a delivery, as module JobLifecycle sees it.
RowOf(d) == jobs[CHOOSE i \in Ids(jobs) : jobs[i].delivery = d]

LifeOf == [d \in Deliveries |->
              IF Known(jobs, d) THEN RowOf(d).status ELSE "unseen"]

TriesOf == [d \in Deliveries |->
              IF Known(jobs, d) THEN RowOf(d).attempts ELSE 0]

Lifecycle == INSTANCE JobLifecycle WITH life <- LifeOf, tries <- TriesOf

\* Every step of the queue is, for each delivery, a step of its life cycle.
ImplementsLifecycle == Lifecycle!Spec

=============================================================================
