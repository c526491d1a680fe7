---------------------------- MODULE TriageWorker ----------------------------
(***************************************************************************)
(* scaffold-server's worker: run_worker claims a job from the queue and    *)
(* process_job takes it through the billing gate, the agent, the metering, *)
(* the audit trail and the job table, one await at a time.                 *)
(*                                                                         *)
(* The queue is module JobQueue, on the same variables: each step here     *)
(* that touches the table is one of its actions, and a worker that leaves  *)
(* a job without completing or failing it (a store error returned with     *)
(* `?`, or the end of the process) is its Abandon.                         *)
(*                                                                         *)
(* Outside the workers, and only as the workers see them: the pull         *)
(* requests (the sticky comment and the labels), the billing provider (the *)
(* plan, the usage it recorded), and the language model (its decision or   *)
(* an error).  The reviewer request at the end of act is best effort and   *)
(* touches nothing modelled here.                                          *)
(***************************************************************************)
EXTENDS Naturals, Sequences, FiniteSets

CONSTANTS
    Deliveries, Workers, MaxJobAttempts, BackoffUnit, MaxAhead, MaxTime, MaxLost,
    PullRequests,
    PrOf,          \* PrOf[d]: the pull request of delivery d
    TriggerOf,     \* TriggerOf[d]: "opened" or "synchronized"
    Cooldown,      \* cooldown_minutes, in ticks
    Faults         \* the calls that may fail: any of "host", "store", "crash"

ASSUME QueueAssumption    == /\ MaxJobAttempts \in Nat \ {0}
                             /\ BackoffUnit \in Nat
                             /\ MaxAhead \in Nat \ {0}
                             /\ MaxLost \in Nat
ASSUME PrAssumption       == PrOf \in [Deliveries -> PullRequests]
ASSUME TriggerAssumption  == TriggerOf \in [Deliveries -> {"opened", "synchronized"}]
ASSUME CooldownAssumption == Cooldown \in Nat
ASSUME FaultsAssumption   == Faults \subseteq {"host", "store", "crash"}

VARIABLES
    jobs, now, locked, held, lost,   \* the queue: see JobQueue
    pc,         \* pc[w]: the call worker w is about to make
    work,       \* work[w]: what w keeps in memory while it processes a job
    comment,    \* comment[p]: what the sticky comment of p says
    labels,     \* labels[p]: whether p was labelled, and for a human
    plan,       \* the customer's plan at the billing provider
    billed,     \* billed[d]: units of usage recorded by the provider for d
    journal,    \* journal[d]: rows of untracked_usage for d
    audits,     \* the table triage_audit
    executed    \* ghost: the deliveries whose agent run has completed

queueVars == <<jobs, now, locked, held, lost>>
hostVars  == <<comment, labels>>
usageVars == <<billed, journal>>
vars == <<queueVars, pc, work, hostVars, plan, usageVars, audits, executed>>

Q == INSTANCE JobQueue

Steps == { "idle", "check_triage", "quota_comment", "last_triaged_at", "gather",
           "decide", "comment", "labels", "track_triage", "journal", "audit",
           "complete", "fail", "dead_comment", "dead_label" }

Audit == [ delivery : Deliveries, at : Nat, escalated : BOOLEAN ]

NoWork == [ job |-> 0, verdict |-> "none", last |-> {}, escalate |-> FALSE ]

Delivery(w) == jobs[work[w].job].delivery
Pr(w)       == PrOf[Delivery(w)]

Goto(w, step)  == pc' = [pc EXCEPT ![w] = step]
Forget(w)      == Goto(w, "idle") /\ work' = [work EXCEPT ![w] = NoWork]
At(w, step)    == pc[w] = step

-----------------------------------------------------------------------------

Init ==
    /\ Q!Init
    /\ pc = [w \in Workers |-> "idle"]
    /\ work = [w \in Workers |-> NoWork]
    /\ comment = [p \in PullRequests |-> "none"]
    /\ labels = [p \in PullRequests |-> {}]
    /\ plan \in {"available", "exhausted"}
    /\ billed = [d \in Deliveries |-> 0]
    /\ journal = [d \in Deliveries |-> 0]
    /\ audits = << >>
    /\ executed = {}

Tick ==
    /\ Q!Tick
    /\ UNCHANGED <<pc, work, hostVars, plan, usageVars, audits, executed>>

Enqueue(d) ==
    /\ Q!Enqueue(d)
    /\ UNCHANGED <<pc, work, hostVars, plan, usageVars, audits, executed>>

\* The billing period rolls over, or the customer upgrades.
QuotaReset ==
    /\ plan = "exhausted"
    /\ plan' = "available"
    /\ UNCHANGED <<queueVars, pc, work, hostVars, usageVars, audits, executed>>

-----------------------------------------------------------------------------
(* run_worker.                                                             *)

\* claim_next_job reaches the table.
SelectJob(w) ==
    /\ At(w, "idle")
    /\ Q!SelectForUpdate(w)
    /\ UNCHANGED <<pc, work, hostVars, plan, usageVars, audits, executed>>

\* claim_next_job returns a job.
ClaimJob(w) ==
    /\ Q!CommitClaim(w)
    /\ Goto(w, "check_triage")
    /\ work' = [work EXCEPT ![w] = [NoWork EXCEPT !.job = locked[w]]]
    /\ UNCHANGED <<hostVars, plan, usageVars, audits, executed>>

\* claim_next_job returns Err, whether or not the claim was committed.
ClaimError(w) ==
    /\ "store" \in Faults
    /\ Q!RollbackClaim(w) \/ Q!LoseClaim(w)
    /\ UNCHANGED <<pc, work, hostVars, plan, usageVars, audits, executed>>

-----------------------------------------------------------------------------
(* process_job, up to the agent.                                           *)

\* check_triage cannot fail: an outage is the verdict "unavailable".
CheckTriage(w) ==
    /\ At(w, "check_triage")
    /\ \E v \in {"unavailable", IF plan = "available" THEN "allowed" ELSE "denied"} :
         /\ work' = [work EXCEPT ![w].verdict = v]
         /\ Goto(w, IF v = "denied" THEN "quota_comment" ELSE "last_triaged_at")
    /\ UNCHANGED <<queueVars, hostVars, plan, usageVars, audits, executed>>

\* upsert_triage_comment: the comment is written, or the call fails, or both.
Upsert(p, body, ok) ==
    \/ comment' = [comment EXCEPT ![p] = body]
    \/ ~ ok /\ UNCHANGED comment

\* add_labels, likewise.  Labels are only ever added.
AddLabels(p, ls, ok) ==
    \/ labels' = [labels EXCEPT ![p] = @ \cup ls]
    \/ ~ ok /\ UNCHANGED labels

Answers == {TRUE} \cup (IF "host" \in Faults THEN {FALSE} ELSE {})

\* Denied: post the quota comment if possible, then complete the job.
QuotaComment(w) ==
    /\ At(w, "quota_comment")
    /\ \E ok \in Answers : Upsert(Pr(w), "quota", ok)
    /\ Goto(w, "complete")
    /\ UNCHANGED <<queueVars, work, labels, plan, usageVars, audits, executed>>

AuditTimes(p) == { audits[k].at : k \in { n \in DOMAIN audits : PrOf[audits[n].delivery] = p } }

\* SELECT max(created_at): {} when the pull request was never triaged.
LastTriagedAt(w) ==
    /\ At(w, "last_triaged_at")
    /\ work' = [work EXCEPT ![w].last =
                   { t \in AuditTimes(Pr(w)) : \A u \in AuditTimes(Pr(w)) : u <= t }]
    /\ Goto(w, "gather")
    /\ UNCHANGED <<queueVars, hostVars, plan, usageVars, audits, executed>>

-----------------------------------------------------------------------------
(* TriageAgent::run.                                                       *)

\* Mutant: the cooldown compares the other way round.
WithinCooldownSwapped(w) == \E t \in work[w].last : now - t > Cooldown

WithinCooldown(w) == \E t \in work[w].last : now - t < Cooldown

\* Mutant: a skipped job is dropped without complete_job.
GatherDropping(w) ==
    /\ At(w, "gather")
    /\ IF TriggerOf[Delivery(w)] = "synchronized" /\ WithinCooldown(w)
         THEN Forget(w) ELSE Goto(w, "decide") /\ UNCHANGED work
    /\ UNCHANGED <<queueVars, hostVars, plan, usageVars, audits, executed>>

\* load_config, then the two skips of a `synchronized` event.
Gather(w) ==
    /\ At(w, "gather")
    /\ \/ "host" \in Faults /\ Goto(w, "fail")
       \/ \E triageOnSynchronize \in BOOLEAN :
            Goto(w, IF /\ TriggerOf[Delivery(w)] = "synchronized"
                       /\ ~ triageOnSynchronize \/ WithinCooldown(w)
                    THEN "complete" ELSE "decide")
    /\ UNCHANGED <<queueVars, work, hostVars, plan, usageVars, audits, executed>>

\* fetch_snapshot, the draft skip, the two model calls and resolve_decision:
\* nothing but the decision comes out of them.
Decide(w) ==
    /\ At(w, "decide")
    /\ \/ /\ pc' \in { [pc EXCEPT ![w] = step] : step \in {"fail", "complete"} }
          /\ UNCHANGED work
       \/ /\ Goto(w, "comment")
          /\ \E e \in BOOLEAN : work' = [work EXCEPT ![w].escalate = e]
    /\ UNCHANGED <<queueVars, hostVars, plan, usageVars, audits, executed>>

PostComment(w) ==
    /\ At(w, "comment")
    /\ \E ok \in Answers :
         /\ Upsert(Pr(w), "triage", ok)
         /\ Goto(w, IF ok THEN "labels" ELSE "fail")
    /\ UNCHANGED <<queueVars, work, labels, plan, usageVars, audits, executed>>

\* Category and priority, and the escalation label for a human.
DecisionLabels(w) == {"triaged"} \cup (IF work[w].escalate THEN {"human"} ELSE {})

\* Mutant: act ignores the error of add_labels.
PostLabelsIgnoringErrors(w) ==
    /\ At(w, "labels")
    /\ \E ok \in Answers : AddLabels(Pr(w), DecisionLabels(w), ok)
    /\ Goto(w, "track_triage")
    /\ executed' = executed \cup {Delivery(w)}
    /\ UNCHANGED <<queueVars, work, comment, plan, usageVars, audits>>

\* The last call of act that can fail; then run returns Completed.
PostLabels(w) ==
    /\ At(w, "labels")
    /\ \E ok \in Answers :
         /\ AddLabels(Pr(w), DecisionLabels(w), ok)
         /\ IF ok THEN /\ Goto(w, "track_triage")
                       /\ executed' = executed \cup {Delivery(w)}
                  ELSE /\ Goto(w, "fail")
                       /\ UNCHANGED executed
    /\ UNCHANGED <<queueVars, work, comment, plan, usageVars, audits>>

-----------------------------------------------------------------------------
(* process_job, after the agent: meter, audit, complete.                   *)

\* Mutant: a triage executed during an outage is not journaled.
TrackTriageFreely(w) ==
    /\ At(w, "track_triage")
    /\ Goto(w, "audit")
    /\ billed' = [billed EXCEPT ![Delivery(w)] =
                     IF work[w].verdict = "unavailable" THEN @ ELSE @ + 1]
    /\ UNCHANGED <<queueVars, work, hostVars, plan, journal, audits, executed>>

\* A verdict from an outage goes to the journal without a call; otherwise one
\* unit is tracked, and an error (which may come after the unit was recorded)
\* goes to the journal too.
TrackTriage(w) ==
    /\ At(w, "track_triage")
    /\ \/ /\ work[w].verdict # "unavailable"
          /\ billed' = [billed EXCEPT ![Delivery(w)] = @ + 1]
          /\ Goto(w, "audit")
       \/ /\ Goto(w, "journal")
          /\ \/ UNCHANGED billed
             \/ /\ work[w].verdict # "unavailable"
                /\ billed' = [billed EXCEPT ![Delivery(w)] = @ + 1]
    /\ UNCHANGED <<queueVars, work, hostVars, plan, journal, audits, executed>>

\* Mutant: returns after journaling, as if tracking and auditing were two
\* branches.
JournalOnly(w) ==
    /\ At(w, "journal")
    /\ journal' = [journal EXCEPT ![Delivery(w)] = @ + 1]
    /\ Goto(w, "complete")
    /\ UNCHANGED <<queueVars, work, hostVars, plan, billed, audits, executed>>

\* journal_untracked_usage
Journal(w) ==
    /\ At(w, "journal")
    /\ journal' = [journal EXCEPT ![Delivery(w)] = @ + 1]
    /\ Goto(w, "audit")
    /\ UNCHANGED <<queueVars, work, hostVars, plan, billed, audits, executed>>

RecordAudit(w) ==
    /\ At(w, "audit")
    /\ audits' = Append(audits, [ delivery |-> Delivery(w), at |-> now,
                                  escalated |-> work[w].escalate ])
    /\ Goto(w, "complete")
    /\ UNCHANGED <<queueVars, work, hostVars, plan, usageVars, executed>>

CompleteJob(w) ==
    /\ At(w, "complete")
    /\ Q!Complete(w)
    /\ Forget(w)
    /\ UNCHANGED <<hostVars, plan, usageVars, audits, executed>>

-----------------------------------------------------------------------------
(* process_job when the agent returns an error.                            *)

\* Mutant: degrades after every failure, not only the last.
FailJobDegrading(w) ==
    /\ At(w, "fail")
    /\ Q!Fail(w)
    /\ Goto(w, "dead_comment")
    /\ UNCHANGED <<work, hostVars, plan, usageVars, audits, executed>>

\* fail_job; a dead job is degraded to a human.  When the answer of fail_job is
\* lost, process_job returns and nobody learns that the job is dead.
FailJob(w) ==
    /\ At(w, "fail")
    /\ Q!Fail(w)
    /\ \/ /\ jobs'[work[w].job].status = "dead"
          /\ Goto(w, "dead_comment")
          /\ UNCHANGED work
       \/ /\ jobs'[work[w].job].status # "dead" \/ "store" \in Faults
          /\ Forget(w)
    /\ UNCHANGED <<hostVars, plan, usageVars, audits, executed>>

\* Mutant: the comment is all a dead job leaves.
DeadCommentOnly(w) ==
    /\ At(w, "dead_comment")
    /\ \E ok \in Answers : Upsert(Pr(w), "dead", ok)
    /\ Forget(w)
    /\ UNCHANGED <<queueVars, labels, plan, usageVars, audits, executed>>

\* degrade_to_escalation: both calls are made whatever the first one answers.
DeadComment(w) ==
    /\ At(w, "dead_comment")
    /\ \E ok \in Answers : Upsert(Pr(w), "dead", ok)
    /\ Goto(w, "dead_label")
    /\ UNCHANGED <<queueVars, work, labels, plan, usageVars, audits, executed>>

DeadLabel(w) ==
    /\ At(w, "dead_label")
    /\ \E ok \in Answers : AddLabels(Pr(w), {"human"}, ok)
    /\ Forget(w)
    /\ UNCHANGED <<queueVars, comment, plan, usageVars, audits, executed>>

-----------------------------------------------------------------------------
(* Faults.                                                                 *)

\* The statement of a store call takes effect and its answer is lost.
StoreEffect(w) ==
    \/ /\ At(w, "journal")
       /\ journal' = [journal EXCEPT ![Delivery(w)] = @ + 1]
       /\ UNCHANGED audits
    \/ /\ At(w, "audit")
       /\ audits' = Append(audits, [ delivery |-> Delivery(w), at |-> now,
                                     escalated |-> work[w].escalate ])
       /\ UNCHANGED journal
    \/ UNCHANGED <<journal, audits>>

\* Mutant: a store error fails the job, as an error of the agent does.
StoreErrorRetries(w) ==
    /\ "store" \in Faults
    /\ pc[w] \in {"last_triaged_at", "journal", "audit", "complete", "fail"}
    /\ StoreEffect(w)
    /\ Q!Fail(w)
    /\ Forget(w)
    /\ UNCHANGED <<hostVars, plan, billed, executed>>

\* A store call fails: process_job returns the error, run_worker logs it.
StoreError(w) ==
    /\ "store" \in Faults
    /\ pc[w] \in {"last_triaged_at", "journal", "audit", "complete", "fail"}
    /\ StoreEffect(w)
    /\ Q!Abandon(w)
    /\ Forget(w)
    /\ UNCHANGED <<hostVars, plan, billed, executed>>

\* The worker's process ends (a deploy, a crash) and starts again.
Crash(w) ==
    /\ "crash" \in Faults
    /\ \/ Q!Abandon(w)
       \/ Q!RollbackClaim(w)
       \/ pc[w] \in {"dead_comment", "dead_label"} /\ UNCHANGED queueVars
    /\ Forget(w)
    /\ UNCHANGED <<hostVars, plan, usageVars, audits, executed>>

-----------------------------------------------------------------------------

ProcessJob(w) ==
    \/ CheckTriage(w) \/ QuotaComment(w) \/ LastTriagedAt(w)
    \/ Gather(w) \/ Decide(w) \/ PostComment(w) \/ PostLabels(w)
    \/ TrackTriage(w) \/ Journal(w) \/ RecordAudit(w) \/ CompleteJob(w)
    \/ FailJob(w) \/ DeadComment(w) \/ DeadLabel(w)

Next ==
    \/ Tick
    \/ \E d \in Deliveries : Enqueue(d)
    \/ QuotaReset
    \/ \E w \in Workers :
         \/ SelectJob(w) \/ ClaimJob(w) \/ ClaimError(w)
         \/ ProcessJob(w)
         \/ StoreError(w) \/ Crash(w)

Spec == Init /\ [][Next]_vars

\* The clock runs, the quota comes back some day, every worker keeps polling
\* and every call it awaits answers (the HTTP clients have no timeout of their
\* own, so this is an assumption on the services).
Fairness ==
    /\ WF_vars(Tick)
    /\ WF_vars(QuotaReset)
    /\ \A w \in Workers :
         /\ WF_vars(SelectJob(w))
         /\ SF_vars(ClaimJob(w))
         /\ WF_vars(ProcessJob(w))

FairSpec == Spec /\ Fairness

-----------------------------------------------------------------------------

Stage(d) == IF Q!Known(jobs, d) THEN Q!RowOf(d).status ELSE "unseen"

AuditsOf(d) == { k \in DOMAIN audits : audits[k].delivery = d }
Audited(d)  == AuditsOf(d) # {}

\* Type invariant.  A worker between two jobs remembers nothing of the first.
TypeOK ==
    /\ Q!TypeOK
    /\ pc \in [Workers -> Steps]
    /\ work \in [Workers -> [ job : {0} \cup Q!Ids(jobs),
                               verdict : {"none", "allowed", "denied", "unavailable"},
                               last : SUBSET Nat,
                               escalate : BOOLEAN ]]
    /\ \A w \in Workers : At(w, "idle") => work[w] = NoWork
    /\ comment \in [PullRequests -> {"none", "quota", "triage", "dead"}]
    /\ labels \in [PullRequests -> SUBSET {"triaged", "human"}]
    /\ plan \in {"available", "exhausted"}
    /\ billed \in [Deliveries -> Nat]
    /\ journal \in [Deliveries -> Nat]
    /\ audits \in Seq(Audit)
    /\ executed \subseteq Deliveries

\* process_job meters first and audits then: an audited triage has been billed
\* or journaled, whatever failed on the way and whichever worker did it.
AuditedIsMetered ==
    \A k \in DOMAIN audits :
        billed[audits[k].delivery] + journal[audits[k].delivery] > 0

\* A delivery is executed at most once.  Once its agent run has completed, its
\* job is never retried nor buried: every later failure (tracking, journaling,
\* auditing, completing) leaves the job where no worker runs it again.  So no
\* retry of fail_job meters, journals or audits a delivery a second time.
ExecutedOnce ==
    \A d \in Deliveries :
        /\ d \in executed \/ billed[d] + journal[d] > 0 \/ Audited(d)
              => d \in executed /\ Stage(d) \in {"running", "done"}
        /\ billed[d] <= 1
        /\ journal[d] <= 1
        /\ Cardinality(AuditsOf(d)) <= 1

\* An executed delivery whose job is done left its audit record and its usage.
DoneIsAudited ==
    \A d \in executed :
        Stage(d) = "done" => Audited(d) /\ billed[d] + journal[d] > 0

\* An escalation on record is visible: the pull request carries the label for
\* a human, although comment, labels, audit and completion are separate calls
\* that may each fail and be retried with another decision of the model.
EscalationIsLabelled ==
    \A k \in DOMAIN audits :
        audits[k].escalated => "human" \in labels[PrOf[audits[k].delivery]]

\* Two triages of a pull request, the later one for a push, are at least
\* cooldown_minutes apart (config.rs: "Minimum minutes between re-triages of
\* the same PR on `synchronized`").
CooldownRespected ==
    \A m, n \in DOMAIN audits :
        /\ m < n
        /\ PrOf[audits[m].delivery] = PrOf[audits[n].delivery]
        /\ TriggerOf[audits[n].delivery] = "synchronized"
        => audits[n].at - audits[m].at >= Cooldown

\* Workers and job table agree: a worker inside process_job holds the very job
\* it works on, until fail_job takes it away; a job that is being degraded is
\* dead, and it was never executed.
WorkIsHeld ==
    \A w \in Workers :
        CASE At(w, "idle") -> held[w] = 0
          [] pc[w] \in {"dead_comment", "dead_label"} ->
               held[w] = 0 /\ Stage(Delivery(w)) = "dead" /\ Delivery(w) \notin executed
          [] OTHER -> held[w] = work[w].job /\ Stage(Delivery(w)) = "running"

\* The row of another delivery came later: it has the higher id, and it was not
\* there yet when the first one was.
Later(i, j) == j < i /\ jobs[j].id < jobs[i].id

\* The triage of an older push never takes the place of a newer one's in the
\* single comment, unless it is the retry of one that failed: with one worker,
\* first claims follow the rows.  (A job that is tried again minutes later does
\* write over what a later delivery has said.  Two rows whose INSERTs overlap
\* may be visible in the order opposite to their ids, and then be claimed in
\* either.)
CommentsAdvance ==
    \A w \in Workers, i \in Q!Ids(jobs) :
        /\ pc[w] \in {"comment", "quota_comment", "dead_comment"}
        /\ jobs[i].delivery \in executed
        /\ PrOf[jobs[i].delivery] = Pr(w)
        /\ Later(i, work[w].job)
        => jobs[work[w].job].attempts > 1

\* README.md on retries: after the last attempt the job is marked dead "and the
\* PR gets a comment plus a `needs-maintainer-review` label".
DeadJobSurfaces ==
    \A d \in Deliveries :
        Stage(d) = "dead" ~> "human" \in labels[PrOf[d]] /\ comment[PrOf[d]] # "none"

\* worker.rs on QUOTA_COMMENT: "Replaced by a real triage comment once quota is
\* available again."
QuotaCommentReplaced ==
    \A p \in PullRequests : comment[p] = "quota" ~> comment[p] = "triage"

\* Every delivery that was accepted is done or dead in the end, through retries,
\* outages of the billing provider and the quota.
DeliveriesSettle == Q!Settles

\* What JobQueue assumes of its workers holds of run_worker and process_job:
\* every step is a step of the queue, and every job that is held is completed
\* or failed in the end, because each branch of process_job leads there.
ImplementsFairQueue == Q!FairSpec

=============================================================================
