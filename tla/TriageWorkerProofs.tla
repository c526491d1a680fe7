------------------------- MODULE TriageWorkerProofs -------------------------
(***************************************************************************)
(* Theorems of TriageWorker for any number of workers, deliveries and      *)
(* faults.                                                                 *)
(*                                                                         *)
(* First, the workers implement JobQueue: the theorems of JobQueueProofs   *)
(* hold of them.                                                           *)
(*                                                                         *)
(* Second, what the workers owe: that each delivery is executed, metered   *)
(* and audited in order and at most once, whatever fails and however many  *)
(* workers there are.  The argument is about one delivery at a time.  Its  *)
(* four entries, the units billed and journaled, the audits and whether it *)
(* was executed, are written by the worker that holds its row and by       *)
(* nobody else; and the place of that worker in process_job tells which of *)
(* them it has written.                                                    *)
(*                                                                         *)
(* Third, what one worker owes and two do not: that jobs are taken in the  *)
(* order of the table, so that an old comment never takes the place of a   *)
(* newer one but by a retry, and that the cooldown is kept.                *)
(***************************************************************************)
EXTENDS TriageWorker, SequenceTheorems, FiniteSetTheorems, TLAPS

Queue == INSTANCE JobQueueProofs

\* Every step of a worker, its crashes and store errors included, is one
\* statement on the job table or leaves the table alone.
LEMMA QueueSteps == [Next]_vars => [Q!Next]_(Q!queueVars)
  <1> SUFFICES ASSUME [Next]_vars PROVE [Q!Next]_(Q!queueVars)
    OBVIOUS
  <1> USE DEF queueVars, Q!queueVars
  <1>1. CASE Tick
    BY <1>1 DEF Tick, Q!Next
  <1>2. CASE \E d \in Deliveries : Enqueue(d)
    BY <1>2 DEF Enqueue, Q!Next
  <1>3. CASE QuotaReset
    BY <1>3 DEF QuotaReset
  <1>4. ASSUME NEW w \in Workers, SelectJob(w) \/ ClaimJob(w) \/ ClaimError(w)
        PROVE  Q!Next
    BY <1>4 DEF SelectJob, ClaimJob, ClaimError, Q!Next
  <1>5. ASSUME NEW w \in Workers, ProcessJob(w)
        PROVE  Q!Next \/ UNCHANGED queueVars
    BY <1>5
    DEF ProcessJob, CheckTriage, QuotaComment, LastTriagedAt, Gather, Decide,
        PostComment, PostLabels, TrackTriage, Journal, RecordAudit,
        CompleteJob, FailJob, DeadComment, DeadLabel, Q!Next
  <1>6. ASSUME NEW w \in Workers, StoreError(w) \/ Crash(w)
        PROVE  Q!Next \/ UNCHANGED queueVars
    BY <1>6 DEF StoreError, Crash, Q!Next
  <1>7. CASE UNCHANGED vars
    BY <1>7 DEF vars
  <1> QED
    BY <1>1, <1>2, <1>3, <1>4, <1>5, <1>6, <1>7 DEF Next

\* The queue's statements are all a worker does to the table.
THEOREM WorkersImplementQueue == Spec => Q!Spec
  <1>1. Init => Q!Init
    BY DEF Init
  <1> QED
    BY <1>1, QueueSteps, PTL DEF Spec, Q!Spec

\* The actions of the queue are the ones its theorems are about.
LEMMA SameActions ==
    /\ Q!Tick => Queue!Tick
    /\ \A d \in Deliveries : Q!Enqueue(d) => Queue!Enqueue(d)
    /\ \A w \in Workers :
         /\ Q!SelectForUpdate(w) => Queue!SelectForUpdate(w)
         /\ Q!CommitClaim(w) => Queue!CommitClaim(w)
         /\ Q!RollbackClaim(w) => Queue!RollbackClaim(w)
         /\ Q!LoseClaim(w) => Queue!LoseClaim(w)
         /\ Q!Complete(w) => Queue!Complete(w)
         /\ Q!Fail(w) => Queue!Fail(w)
         /\ Q!Abandon(w) => Queue!Abandon(w)
  <1>1. ASSUME Q!Tick PROVE Queue!Tick
    BY <1>1
    DEF Q!Tick, Queue!Tick
  <1>2. ASSUME NEW d \in Deliveries, Q!Enqueue(d) PROVE Queue!Enqueue(d)
    BY <1>2
    DEF Q!Enqueue, Queue!Enqueue, Q!EnqueueJob, Queue!EnqueueJob,
        Q!Known, Queue!Known, Q!NewRow, Queue!NewRow, Q!Ids, Queue!Ids,
        Q!FreeIds, Queue!FreeIds
  <1>3. ASSUME NEW w \in Workers, Q!SelectForUpdate(w) PROVE Queue!SelectForUpdate(w)
    BY <1>3
    DEF Q!SelectForUpdate, Queue!SelectForUpdate, Q!Ids, Queue!Ids,
        Q!Idle, Queue!Idle, Q!NoJob, Queue!NoJob, Q!Claimable,
        Queue!Claimable, Q!Runnable, Queue!Runnable
  <1>4. ASSUME NEW w \in Workers, Q!CommitClaim(w) PROVE Queue!CommitClaim(w)
    BY <1>4
    DEF Q!CommitClaim, Queue!CommitClaim, Q!NoJob, Queue!NoJob,
        Q!ClaimJob, Queue!ClaimJob
  <1>5. ASSUME NEW w \in Workers, Q!RollbackClaim(w) PROVE Queue!RollbackClaim(w)
    BY <1>5
    DEF Q!RollbackClaim, Queue!RollbackClaim, Q!NoJob, Queue!NoJob
  <1>6. ASSUME NEW w \in Workers, Q!LoseClaim(w) PROVE Queue!LoseClaim(w)
    BY <1>6
    DEF Q!LoseClaim, Queue!LoseClaim, Q!NoJob, Queue!NoJob,
        Q!ClaimJob, Queue!ClaimJob, Q!Cardinality, Queue!Cardinality
  <1>7. ASSUME NEW w \in Workers, Q!Complete(w) PROVE Queue!Complete(w)
    BY <1>7
    DEF Q!Complete, Queue!Complete, Q!NoJob, Queue!NoJob,
        Q!CompleteJob, Queue!CompleteJob
  <1>8. ASSUME NEW w \in Workers, Q!Fail(w) PROVE Queue!Fail(w)
    BY <1>8
    DEF Q!Fail, Queue!Fail, Q!NoJob, Queue!NoJob, Q!FailJob,
        Queue!FailJob, Q!Disposition, Queue!Disposition
  <1>9. ASSUME NEW w \in Workers, Q!Abandon(w) PROVE Queue!Abandon(w)
    BY <1>9
    DEF Q!Abandon, Queue!Abandon, Q!NoJob, Queue!NoJob,
        Q!Cardinality, Queue!Cardinality
  <1> QED
    BY <1>1, <1>2, <1>3, <1>4, <1>5, <1>6, <1>7, <1>8, <1>9

\* The specification of the queue is the one its theorems are about.
LEMMA SameQueue == Q!Spec => Queue!Spec
  <1>1. Q!Init => Queue!Init
    BY DEF Q!Init, Queue!Init, Q!NoJob, Queue!NoJob
  <1>2. [Q!Next]_(Q!queueVars) => [Queue!Next]_(Queue!queueVars)
    BY SameActions DEF Q!Next, Queue!Next, Q!queueVars, Queue!queueVars
  <1> QED
    BY <1>1, <1>2, PTL DEF Q!Spec, Queue!Spec

\* However the workers interleave, fail and die, no job is processed by two of
\* them, and the table says running of exactly the jobs held or abandoned.
THEOREM WorkersClaimExclusively == Spec => [](Queue!ExclusiveClaim /\ Queue!RunningIsAccounted)
  <1>1. Queue!Spec => [](Queue!ExclusiveClaim /\ Queue!LockedIsRunnable /\ Queue!RunningIsAccounted)
    BY Queue!ClaimsAreExclusive, QueueAssumption
  <1> QED
    BY <1>1, WorkersImplementQueue, SameQueue, PTL

-----------------------------------------------------------------------------
(* The table, as its theorems see it, and what the workers' actions do to   *)
(* its rows.                                                               *)

Table == Queue!IInv

LEMMA TableHolds == Spec => []Table
  BY WorkersImplementQueue, SameQueue, Queue!Invariance, QueueAssumption, PTL DEF Table

Row(i) == i \in Queue!Ids(jobs)
Of(i)  == jobs[i].delivery

\* Only row i changes, and only in status, attempts and due time.
OnlyRow(i) ==
    /\ Queue!Ids(jobs') = Queue!Ids(jobs)
    /\ jobs'[i].delivery = jobs[i].delivery
    /\ jobs'[i].id = jobs[i].id
    /\ \A j \in Queue!Ids(jobs) : j # i => jobs'[j] = jobs[j]

LEMMA ClaimRows ==
    ASSUME Table, NEW w \in Workers, Q!CommitClaim(w) \/ Q!LoseClaim(w)
    PROVE  /\ Row(locked[w]) /\ OnlyRow(locked[w])
           /\ jobs[locked[w]].status = "queued"
           /\ jobs'[locked[w]].status = "running"
  <1>1. Queue!CommitClaim(w) \/ Queue!LoseClaim(w)
    BY SameActions
  <1>2. Queue!TypeOK /\ Queue!LockedIsRunnable
    BY DEF Table, Queue!IInv, Queue!Claims
  <1> QED
    BY <1>1, <1>2, Queue!ClaimStep, QueueAssumption DEF Row, OnlyRow, Queue!Runnable

LEMMA CompleteRows ==
    ASSUME Table, NEW w \in Workers, Q!Complete(w)
    PROVE  /\ Row(held[w]) /\ OnlyRow(held[w])
           /\ jobs'[held[w]].status = "done"
  <1>1. Queue!Complete(w)
    BY SameActions
  <1>2. Queue!TypeOK
    BY DEF Table, Queue!IInv
  <1> QED
    BY <1>1, <1>2, Queue!CompleteStep, QueueAssumption DEF Row, OnlyRow

LEMMA FailRows ==
    ASSUME Table, NEW w \in Workers, Q!Fail(w)
    PROVE  /\ Row(held[w]) /\ OnlyRow(held[w])
           /\ jobs'[held[w]].status \in {"queued", "dead"}
  <1>1. Queue!Fail(w)
    BY SameActions
  <1>2. Queue!TypeOK
    BY DEF Table, Queue!IInv
  <1> QED
    BY <1>1, <1>2, Queue!FailStep, QueueAssumption DEF Row, OnlyRow, Queue!Disposition

LEMMA EnqueueRows ==
    ASSUME Table, NEW d \in Deliveries, Q!Enqueue(d)
    PROVE  \/ jobs' = jobs
           \/ /\ \A j : Row(j) => Of(j) # d
              /\ \E n : /\ Queue!Ids(jobs') = Queue!Ids(jobs) \cup {n}
                       /\ jobs'[n].delivery = d /\ jobs'[n].status = "queued"
                       /\ ~ Row(n)
                       /\ \A j \in Queue!Ids(jobs) : jobs'[j] = jobs[j]
  <1>1. Queue!Enqueue(d)
    BY SameActions
  <1>2. Queue!TypeOK
    BY DEF Table, Queue!IInv
  <1>3. CASE jobs' = jobs
    BY <1>3
  <1>4. CASE jobs' # jobs
    <2>1. /\ ~ Queue!Known(jobs, d)
          /\ \E n : /\ Queue!Ids(jobs') = Queue!Ids(jobs) \cup {n}
                   /\ jobs'[n].delivery = d /\ jobs'[n].status = "queued"
                   /\ n \notin Queue!Ids(jobs)
                   /\ \A j \in Queue!Ids(jobs) : jobs'[j] = jobs[j]
      BY <1>1, <1>2, <1>4, Queue!EnqueueStep, QueueAssumption
    <2> QED
      BY <2>1 DEF Queue!Known, Row, Of
  <1> QED
    BY <1>3, <1>4

\* Rows, deliveries and hands.
LEMMA TableFacts ==
    ASSUME Table
    PROVE  /\ \A i : Row(i) => Of(i) \in Deliveries
           /\ \A i, j : Row(i) /\ Row(j) /\ Of(i) = Of(j) => i = j
           /\ \A w \in Workers :
                held[w] # 0 => Row(held[w]) /\ jobs[held[w]].status = "running"
           /\ \A v, w \in Workers : v # w /\ held[v] # 0 => held[v] # held[w]
  <1>1. Queue!TypeOK /\ Queue!Claims /\ Queue!UniqueDelivery
    BY DEF Table, Queue!IInv
  <1>2. \A i : Row(i) => jobs[i] \in Queue!Row
    BY <1>1, ElementOfSeq DEF Queue!TypeOK, Row, Queue!Ids
  <1>3. \A w \in Workers : held[w] # 0 => Row(held[w])
    BY <1>1 DEF Queue!TypeOK, Queue!NoJob, Row
  <1> QED
    BY <1>1, <1>2, <1>3
    DEF Row, Of, Queue!Row, Queue!UniqueDelivery, Queue!Claims, Queue!ExclusiveClaim,
        Queue!RunningIsAccounted, Queue!NoJob

-----------------------------------------------------------------------------
(* Types, and who moves.                                                    *)

Job == [ job : {0} \cup Q!Ids(jobs),
         verdict : {"none", "allowed", "denied", "unavailable"},
         last : SUBSET Nat,
         escalate : BOOLEAN ]

\* Worker w moves to a step; the others stay where they are, with what they have.
Moves(w) ==
    /\ pc' \in [Workers -> Steps]
    /\ work' \in [Workers -> Job']
    /\ \A v \in Workers : v # w => pc'[v] = pc[v] /\ work'[v] = work[v]

LEMMA GoesTo ==
    ASSUME TypeOK, NEW w \in Workers, NEW step \in Steps,
           NEW r \in Job',
           Queue!Ids(jobs) \subseteq Queue!Ids(jobs'),
           pc' = [pc EXCEPT ![w] = step],
           work' = [work EXCEPT ![w] = r]
    PROVE  Moves(w) /\ pc'[w] = step /\ work'[w] = r
  <1>1. Q!Ids(jobs) \subseteq Q!Ids(jobs')
    BY DEF Q!Ids, Queue!Ids
  <1>2. pc \in [Workers -> Steps] /\ work \in [Workers -> Job]
    BY DEF TypeOK, Job
  <1>3. Job \subseteq Job'
    BY <1>1 DEF Job
  <1> QED
    BY <1>1, <1>2, <1>3 DEF Moves

\* The same when the worker remembers what it did.
LEMMA GoesOn ==
    ASSUME TypeOK, NEW w \in Workers, NEW step \in Steps,
           UNCHANGED <<jobs, work>>,
           pc' = [pc EXCEPT ![w] = step]
    PROVE  Moves(w) /\ pc'[w] = step /\ work'[w] = work[w]
  <1>1. pc \in [Workers -> Steps] /\ work \in [Workers -> Job] /\ Job' = Job
    BY DEF TypeOK, Job, Q!Ids
  <1> QED
    BY <1>1 DEF Moves

\* The same when it is done with its job.
LEMMA GoesIdle ==
    ASSUME TypeOK, NEW w \in Workers,
           Queue!Ids(jobs) \subseteq Queue!Ids(jobs'),
           Forget(w)
    PROVE  Moves(w) /\ pc'[w] = "idle" /\ work'[w] = NoWork
  <1>1. NoWork \in Job'
    BY DEF NoWork, Job
  <1> HIDE DEF NoWork
  <1>2. /\ pc' = [pc EXCEPT ![w] = "idle"]
        /\ work' = [work EXCEPT ![w] = NoWork]
    BY DEF Forget, Goto
  <1> QED
    BY <1>1, <1>2, GoesTo DEF Steps

\* The steps before the agent has acted, those that only call the agent's
\* services or the gate.
Before == { "check_triage", "quota_comment", "last_triaged_at", "gather", "decide",
            "comment", "labels", "fail" }

NoEntries == UNCHANGED <<billed, journal, audits, executed>>

LEMMA EarlySteps ==
    ASSUME TypeOK, NEW w \in Workers,
           \/ CheckTriage(w) \/ QuotaComment(w) \/ LastTriagedAt(w)
           \/ Gather(w) \/ Decide(w) \/ PostComment(w)
    PROVE  /\ Moves(w) /\ NoEntries /\ UNCHANGED queueVars
           /\ pc[w] \in Before /\ pc'[w] \in Before \cup {"complete"}
           /\ work'[w].job = work[w].job
  <1> USE DEF At, Goto, NoEntries, usageVars, queueVars
  <1>a. UNCHANGED jobs
    BY DEF CheckTriage, QuotaComment, LastTriagedAt, Gather, Decide, PostComment
  <1>0. work[w] \in Job /\ Job' = Job
    BY <1>a DEF TypeOK, Job, Q!Ids
  <1>1. CASE CheckTriage(w)
    <2>1. PICK v \in {"allowed", "denied", "unavailable"}, step \in {"quota_comment", "last_triaged_at"} :
             /\ work' = [work EXCEPT ![w].verdict = v]
             /\ pc' = [pc EXCEPT ![w] = step]
      BY <1>1 DEF CheckTriage
    <2> DEFINE r == [work[w] EXCEPT !.verdict = v]
    <2>2. r \in Job /\ r.job = work[w].job
      BY <1>0 DEF Job
    <2>3. work' = [work EXCEPT ![w] = r]
      BY <2>1
    <2> HIDE DEF r
    <2> QED
      BY <1>0, <1>1, <2>1, <2>2, <2>3, GoesTo DEF CheckTriage, Before, Steps
  <1>2. CASE LastTriagedAt(w)
    <2> DEFINE last == { t \in AuditTimes(Pr(w)) : \A u \in AuditTimes(Pr(w)) : u <= t }
               r == [work[w] EXCEPT !.last = last]
    <2>1. last \subseteq Nat
      <3>1. \A k \in DOMAIN audits : audits[k].at \in Nat
        <4>1. audits \in Seq(Audit) /\ DOMAIN audits = 1 .. Len(audits)
          BY LenProperties DEF TypeOK
        <4>2. \A k \in DOMAIN audits : audits[k] \in Audit
          BY <4>1, ElementOfSeq
        <4> QED
          BY <4>2 DEF Audit
      <3> QED
        BY <3>1 DEF AuditTimes
    <2>2. work' = [work EXCEPT ![w] = r] /\ pc' = [pc EXCEPT ![w] = "gather"]
      BY <1>2 DEF LastTriagedAt
    <2> HIDE DEF last
    <2>3. r \in Job /\ r.job = work[w].job
      BY <1>0, <2>1 DEF Job
    <2> HIDE DEF r
    <2> QED
      BY <1>0, <1>2, <2>2, <2>3, GoesTo DEF LastTriagedAt, Before, Steps
  <1>3. CASE Decide(w)
    <2>1. CASE \E e \in BOOLEAN : work' = [work EXCEPT ![w].escalate = e] /\ pc' = [pc EXCEPT ![w] = "comment"]
      <3>1. PICK e \in BOOLEAN : work' = [work EXCEPT ![w].escalate = e]
        BY <2>1
      <3> DEFINE r == [work[w] EXCEPT !.escalate = e]
      <3>2. r \in Job /\ r.job = work[w].job
        BY <1>0 DEF Job
      <3>3. work' = [work EXCEPT ![w] = r]
        BY <3>1
      <3> HIDE DEF r
      <3> QED
        BY <1>0, <1>3, <2>1, <3>2, <3>3, GoesTo DEF Decide, Before, Steps
    <2>2. CASE UNCHANGED work /\ \E step \in {"fail", "complete"} : pc' = [pc EXCEPT ![w] = step]
      BY <1>3, <2>2, GoesOn DEF Decide, Before, Steps
    <2> QED
      BY <1>3, <2>1, <2>2 DEF Decide
  <1>4. CASE QuotaComment(w)
    BY <1>4, GoesOn DEF QuotaComment, Before, Steps
  <1>5. CASE Gather(w)
    <2>1. PICK step \in {"fail", "complete", "decide"} : pc' = [pc EXCEPT ![w] = step]
      BY <1>5 DEF Gather
    <2> QED
      BY <1>5, <2>1, GoesOn DEF Gather, Before, Steps
  <1>6. CASE PostComment(w)
    <2>1. PICK step \in {"labels", "fail"} : pc' = [pc EXCEPT ![w] = step]
      BY <1>6 DEF PostComment
    <2> QED
      BY <1>6, <2>1, GoesOn DEF PostComment, Before, Steps
  <1> QED
    BY <1>1, <1>2, <1>3, <1>4, <1>5, <1>6

-----------------------------------------------------------------------------
(* The entries of a delivery, from nothing to an audit.                     *)

Clean(d)    == d \notin executed /\ billed[d] = 0 /\ journal[d] = 0 /\ AuditsOf(d) = {}
Ran(d)      == d \in executed /\ billed[d] = 0 /\ journal[d] = 0 /\ AuditsOf(d) = {}
Owing(d)    == d \in executed /\ billed[d] \in {0, 1} /\ journal[d] = 0 /\ AuditsOf(d) = {}
Metered(d)  == /\ d \in executed /\ {billed[d], journal[d]} \subseteq {0, 1}
               /\ billed[d] + journal[d] > 0 /\ AuditsOf(d) = {}
Recorded(d) == /\ d \in executed /\ {billed[d], journal[d]} \subseteq {0, 1}
               /\ billed[d] + journal[d] > 0 /\ \E k : AuditsOf(d) = {k}

Sane(d) == Clean(d) \/ Owing(d) \/ Metered(d) \/ Recorded(d)

\* Nothing is written about d.
Untouched(d) ==
    /\ billed'[d] = billed[d] /\ journal'[d] = journal[d]
    /\ d \in executed' <=> d \in executed
    /\ AuditsOf(d)' = AuditsOf(d)

LEMMA UntouchedStays ==
    ASSUME NEW d, Untouched(d)
    PROVE  /\ Clean(d)' <=> Clean(d)
           /\ Ran(d)' <=> Ran(d)
           /\ Owing(d)' <=> Owing(d)
           /\ Metered(d)' <=> Metered(d)
           /\ Recorded(d)' <=> Recorded(d)
           /\ Sane(d)' <=> Sane(d)
  BY DEF Untouched, Clean, Ran, Owing, Metered, Recorded, Sane

LEMMA NoEntriesTouchNone ==
    ASSUME NoEntries
    PROVE  \A d : Untouched(d)
  BY DEF NoEntries, Untouched, AuditsOf

\* record_audit
LEMMA AuditAppended ==
    ASSUME audits \in Seq(Audit), NEW a \in Audit, audits' = Append(audits, a)
    PROVE  /\ audits' \in Seq(Audit)
           /\ \A d : d # a.delivery => AuditsOf(d)' = AuditsOf(d)
           /\ AuditsOf(a.delivery) = {} => \E k : AuditsOf(a.delivery)' = {k}
  <1> DEFINE n == Len(audits)
  <1>1. n \in Nat /\ DOMAIN audits = 1 .. n
    BY LenProperties
  <1>2. /\ audits' \in Seq(Audit) /\ DOMAIN audits' = 1 .. (n + 1)
        /\ \A k \in 1 .. n : audits'[k] = audits[k]
        /\ audits'[n + 1] = a
    BY AppendProperties, LenProperties
  <1> HIDE DEF n
  <1>3. ASSUME NEW d
        PROVE  AuditsOf(d)' = AuditsOf(d) \cup (IF d = a.delivery THEN {n + 1} ELSE {})
    BY <1>1, <1>2 DEF AuditsOf
  <1> QED
    BY <1>2, <1>3

\* What worker w writes about the delivery d it works on.
Writes(w, d) ==
    /\ \A e \in Deliveries : e # d => Untouched(e)
    /\ CASE pc'[w] = "track_triage" -> Clean(d) => Ran(d)'
         [] pc[w] = "track_triage"  -> Ran(d) => IF pc'[w] = "journal" THEN Owing(d)' ELSE Metered(d)'
         [] pc[w] = "journal"       -> Owing(d) => Metered(d)'
         [] pc[w] = "audit"         -> Metered(d) => Recorded(d)'
         [] OTHER                   -> Untouched(d)

EntryTypes ==
    /\ billed \in [Deliveries -> Nat] /\ journal \in [Deliveries -> Nat]
    /\ audits \in Seq(Audit) /\ executed \subseteq Deliveries

Progress == { <<"labels", "fail">>, <<"labels", "track_triage">>, <<"track_triage", "journal">>,
              <<"track_triage", "audit">>, <<"journal", "audit">>, <<"audit", "complete">> }

LEMMA JournalWritten ==
    ASSUME EntryTypes, NEW d \in Deliveries,
           journal' = [journal EXCEPT ![d] = @ + 1], UNCHANGED <<billed, audits, executed>>
    PROVE  /\ \A e \in Deliveries : e # d => Untouched(e)
           /\ Owing(d) => Metered(d)'
           /\ EntryTypes'
  BY DEF EntryTypes, Untouched, Owing, Metered, AuditsOf

LEMMA AuditWritten ==
    ASSUME EntryTypes, NEW d \in Deliveries, NEW a \in Audit, a.delivery = d,
           audits' = Append(audits, a), UNCHANGED <<billed, journal, executed>>
    PROVE  /\ \A e \in Deliveries : e # d => Untouched(e)
           /\ Metered(d) => Recorded(d)'
           /\ EntryTypes'
  <1>1. /\ audits' \in Seq(Audit)
        /\ \A e : e # d => AuditsOf(e)' = AuditsOf(e)
        /\ AuditsOf(d) = {} => \E k : AuditsOf(d)' = {k}
    BY AuditAppended DEF EntryTypes
  <1> QED
    BY <1>1 DEF EntryTypes, Untouched, Metered, Recorded

LEMMA LateSteps ==
    ASSUME TypeOK, NEW w \in Workers, NEW d \in Deliveries, d = Delivery(w),
           PostLabels(w) \/ TrackTriage(w) \/ Journal(w) \/ RecordAudit(w)
    PROVE  /\ Moves(w) /\ Writes(w, d) /\ EntryTypes' /\ UNCHANGED queueVars
           /\ <<pc[w], pc'[w]>> \in Progress
           /\ work'[w] = work[w]
  <1> USE DEF At, Goto, usageVars, queueVars
  <1>1. EntryTypes /\ pc \in [Workers -> Steps]
    BY DEF TypeOK, EntryTypes
  <1>2. CASE PostLabels(w)
    <2>1. PICK step \in {"fail", "track_triage"} :
             /\ pc[w] = "labels" /\ pc' = [pc EXCEPT ![w] = step]
             /\ UNCHANGED <<jobs, work, now, locked, held, lost, billed, journal, audits>>
             /\ \/ step = "fail" /\ UNCHANGED executed
                \/ step = "track_triage" /\ executed' = executed \cup {d}
      BY <1>2 DEF PostLabels
    <2>2. Moves(w) /\ pc'[w] = step /\ work'[w] = work[w]
      BY <2>1, GoesOn DEF Steps
    <2>3. \A e : AuditsOf(e)' = AuditsOf(e)
      BY <2>1 DEF AuditsOf
    <2>4. Writes(w, d) /\ EntryTypes'
      BY <1>1, <2>1, <2>2, <2>3 DEF Writes, Untouched, Clean, Ran, EntryTypes
    <2> QED
      BY <2>1, <2>2, <2>4 DEF Progress
  <1>3. CASE TrackTriage(w)
    <2>1. PICK step \in {"journal", "audit"} :
             /\ pc[w] = "track_triage" /\ pc' = [pc EXCEPT ![w] = step]
             /\ UNCHANGED <<jobs, work, now, locked, held, lost, executed, journal, audits>>
             /\ \/ step = "journal" /\ UNCHANGED billed
                \/ billed' = [billed EXCEPT ![d] = @ + 1]
      BY <1>3 DEF TrackTriage
    <2>2. Moves(w) /\ pc'[w] = step /\ work'[w] = work[w]
      BY <2>1, GoesOn DEF Steps
    <2>3. \A e : AuditsOf(e)' = AuditsOf(e)
      BY <2>1 DEF AuditsOf
    <2>4. Writes(w, d) /\ EntryTypes'
      BY <1>1, <2>1, <2>2, <2>3 DEF Writes, Untouched, Ran, Owing, Metered, EntryTypes
    <2> QED
      BY <2>1, <2>2, <2>4 DEF Progress
  <1>4. CASE Journal(w)
    <2>1. /\ pc[w] = "journal" /\ pc' = [pc EXCEPT ![w] = "audit"]
          /\ UNCHANGED <<jobs, work, now, locked, held, lost, billed, executed, audits>>
          /\ journal' = [journal EXCEPT ![d] = @ + 1]
      BY <1>4 DEF Journal
    <2>2. Moves(w) /\ pc'[w] = "audit" /\ work'[w] = work[w]
      BY <2>1, GoesOn DEF Steps
    <2>3. Writes(w, d) /\ EntryTypes'
      BY <1>1, <2>1, <2>2, JournalWritten DEF Writes
    <2> QED
      BY <2>1, <2>2, <2>3 DEF Progress
  <1>5. CASE RecordAudit(w)
    <2>1. PICK a \in Audit :
            /\ pc[w] = "audit" /\ pc' = [pc EXCEPT ![w] = "complete"]
            /\ UNCHANGED <<jobs, work, now, locked, held, lost, billed, journal, executed>>
            /\ a.delivery = d /\ audits' = Append(audits, a)
      <3>1. now \in Nat /\ work[w].escalate \in BOOLEAN
        BY DEF TypeOK, Q!TypeOK
      <3> QED
        BY <1>5, <3>1 DEF RecordAudit, Audit
    <2>2. Moves(w) /\ pc'[w] = "complete" /\ work'[w] = work[w]
      BY <2>1, GoesOn DEF Steps
    <2>3. Writes(w, d) /\ EntryTypes'
      BY <1>1, <2>1, <2>2, AuditWritten DEF Writes
    <2> QED
      BY <2>1, <2>2, <2>3 DEF Progress
  <1> QED
    BY <1>2, <1>3, <1>4, <1>5

-----------------------------------------------------------------------------
(* The ledger: for each worker, what it has written about its delivery so   *)
(* far; for each row of the table, what its status says of its delivery.    *)

Dying == { "dead_comment", "dead_label" }
Late  == { "track_triage", "journal", "audit", "complete" }

Hands(w) ==
    /\ pc[w] = "idle" => held[w] = 0
    /\ pc[w] \in Dying => /\ held[w] = 0 /\ Row(work[w].job)
                          /\ jobs[work[w].job].status = "dead"
    /\ pc[w] \in Before \cup Late => held[w] = work[w].job /\ held[w] # 0

Written(step, d) ==
    /\ step \in Before => Clean(d)
    /\ step = "track_triage" => Ran(d)
    /\ step = "journal" => Owing(d)
    /\ step = "audit" => Metered(d)
    /\ step = "complete" => Clean(d) \/ Recorded(d)

Says(status, d) ==
    /\ status \in {"queued", "dead"} => Clean(d)
    /\ status = "running" => Sane(d)
    /\ status = "done" => Clean(d) \/ Recorded(d)

InStep(w)   == \A d \in Deliveries : d = Delivery(w) => Written(pc[w], d)
InRow(i)    == \A d \in Deliveries : d = Of(i) => Says(jobs[i].status, d)
Unseen(d)   == \A i : Row(i) => Of(i) # d

Ledger ==
    /\ EntryTypes
    /\ \A w \in Workers : Hands(w) /\ InStep(w)
    /\ \A i : Row(i) => InRow(i)
    /\ \A d \in Deliveries : Unseen(d) => Clean(d)

\* What a worker inside process_job has in its hands.
LEMMA HandFacts ==
    ASSUME Table, Ledger, NEW w \in Workers, pc[w] \in Before \cup Late
    PROVE  /\ held[w] # 0 /\ held[w] = work[w].job
           /\ Row(held[w]) /\ jobs[held[w]].status = "running"
           /\ Delivery(w) = Of(held[w]) /\ Delivery(w) \in Deliveries
           /\ InStep(w) /\ InRow(held[w])
           /\ \A v \in Workers : v # w /\ pc[v] # "idle" /\ pc[v] \in Steps
                                 => work[v].job # held[w]
  <1>1. Hands(w) /\ InStep(w) /\ \A v \in Workers : Hands(v)
    BY DEF Ledger
  <1>2. held[w] # 0 /\ held[w] = work[w].job
    BY <1>1 DEF Hands
  <1>3. Row(held[w]) /\ jobs[held[w]].status = "running"
    BY <1>2, TableFacts
  <1>4. Delivery(w) = Of(held[w]) /\ Of(held[w]) \in Deliveries
    BY <1>2, <1>3, TableFacts DEF Delivery, Of
  <1>5. ASSUME NEW v \in Workers, v # w, pc[v] # "idle", pc[v] \in Steps
        PROVE  work[v].job # held[w]
    <2>1. pc[v] \in Dying \/ pc[v] \in Before \cup Late
      BY <1>5 DEF Steps, Dying, Before, Late
    <2>2. CASE pc[v] \in Dying
      BY <1>1, <1>3, <1>5, <2>2 DEF Hands
    <2>3. CASE pc[v] \in Before \cup Late
      BY <1>1, <1>2, <1>5, <2>3, TableFacts DEF Hands
    <2> QED
      BY <2>1, <2>2, <2>3
  <1>6. InRow(held[w])
    BY <1>3 DEF Ledger
  <1> QED
    BY <1>1, <1>2, <1>3, <1>4, <1>5, <1>6

\* A step that is about nothing but row i and worker w.
LEMMA Frame ==
    ASSUME Table, TypeOK, Ledger,
           NEW w \in Workers, NEW i, Row(i), OnlyRow(i), Moves(w),
           \A v \in Workers : v # w => held'[v] = held[v],
           \A v \in Workers : v # w /\ pc[v] # "idle" => work[v].job # i,
           \A d \in Deliveries : d # Of(i) => Untouched(d),
           EntryTypes', Hands(w)', InStep(w)', InRow(i)'
    PROVE  Ledger'
  <1>1. ASSUME NEW v \in Workers, v # w PROVE Hands(v)' /\ InStep(v)'
    <2>1. /\ pc'[v] = pc[v] /\ work'[v] = work[v] /\ held'[v] = held[v]
          /\ Hands(v) /\ InStep(v)
          /\ pc[v] # "idle" => work[v].job # i
      BY <1>1 DEF Moves, Ledger
    <2>2. pc[v] \in Steps
      BY DEF TypeOK
    <2>3. CASE pc[v] = "idle"
      BY <2>1, <2>3 DEF Hands, InStep, Written, Dying, Before, Late
    <2>4. CASE pc[v] # "idle"
      <3>1. pc[v] \in Dying \/ pc[v] \in Before \cup Late
        BY <2>2, <2>4 DEF Steps, Dying, Before, Late
      <3>2. Row(work[v].job) /\ work[v].job # i
        BY <2>1, <2>4, <3>1, HandFacts DEF Hands
      <3>3. jobs'[work[v].job] = jobs[work[v].job] /\ Row(work[v].job)'
        BY <2>1, <3>2 DEF OnlyRow, Row
      <3>4. Hands(v)'
        BY <2>1, <3>3 DEF Hands
      <3>5. ASSUME NEW d \in Deliveries, d = Delivery(v)' PROVE Written(pc[v], d)'
        <4>1. d = Delivery(v) /\ d = Of(work[v].job)
          BY <2>1, <3>3, <3>5 DEF Delivery, Of
        <4>2. Untouched(d)
          BY <3>2, <4>1, TableFacts
        <4>3. Written(pc[v], d)
          BY <2>1, <4>1 DEF InStep
        <4> QED
          BY <2>1, <4>2, <4>3, UntouchedStays DEF Written
      <3> QED
        BY <3>4, <3>5 DEF InStep
    <2> QED
      BY <2>3, <2>4
  <1>2. ASSUME NEW j, Row(j)' PROVE InRow(j)'
    <2>1. CASE j = i
      BY <2>1
    <2>2. CASE j # i
      <3>1. Row(j) /\ jobs'[j] = jobs[j]
        BY <1>2, <2>2 DEF Row, OnlyRow
      <3>2. ASSUME NEW d \in Deliveries, d = Of(j)' PROVE Says(jobs[j].status, d)'
        <4>1. d = Of(j) /\ Untouched(d)
          BY <2>2, <3>1, <3>2, TableFacts DEF Of
        <4>2. Says(jobs[j].status, d)
          BY <3>1, <4>1 DEF Ledger, InRow
        <4> QED
          BY <3>1, <4>1, <4>2, UntouchedStays DEF Says
      <3> QED
        BY <3>2 DEF InRow
    <2> QED
      BY <2>1, <2>2
  <1>3. ASSUME NEW d \in Deliveries, Unseen(d)' PROVE Clean(d)'
    <2>1. \A j : Row(j)' <=> Row(j)
      BY DEF Row, OnlyRow
    <2>2. \A j : Row(j) => Of(j)' = Of(j)
      BY DEF Row, Of, OnlyRow
    <2>3. Unseen(d)
      BY <1>3, <2>1, <2>2 DEF Unseen
    <2>4. Untouched(d) /\ Clean(d)
      BY <2>3 DEF Unseen, Ledger
    <2> QED
      BY <2>4, UntouchedStays
  <1> QED
    BY <1>1, <1>2, <1>3 DEF Ledger

\* A step that changes no row and writes no entry, seen from a worker it leaves alone.
LEMMA QuietWorker ==
    ASSUME Ledger, NoEntries, UNCHANGED jobs,
           NEW v \in Workers, pc'[v] = pc[v], work'[v] = work[v], held'[v] = held[v]
    PROVE  Hands(v)' /\ InStep(v)'
  <1>1. Hands(v) /\ InStep(v)
    BY DEF Ledger
  <1>2. ASSUME NEW d \in Deliveries, d = Delivery(v)' PROVE Written(pc[v], d)'
    <2>1. Written(pc[v], d)
      BY <1>1, <1>2 DEF InStep, Delivery
    <2> QED
      BY <2>1, NoEntriesTouchNone, UntouchedStays DEF Written
  <1> QED
    BY <1>1, <1>2 DEF Hands, InStep, Row

\* The same step, seen from the table.
LEMMA QuietTable ==
    ASSUME Ledger, NoEntries, UNCHANGED jobs, \A v \in Workers : Hands(v)' /\ InStep(v)'
    PROVE  Ledger'
  <1>1. \A d : Untouched(d)
    BY NoEntriesTouchNone
  <1>2. \A j : (Row(j)' <=> Row(j)) /\ Of(j)' = Of(j)
    BY DEF Row, Of
  <1>3. ASSUME NEW j, Row(j)' PROVE InRow(j)'
    <2>1. ASSUME NEW d \in Deliveries, d = Of(j)' PROVE Says(jobs[j].status, d)'
      <3>1. Says(jobs[j].status, d)
        BY <1>2, <1>3, <2>1 DEF Ledger, InRow
      <3> QED
        BY <1>1, <3>1, UntouchedStays DEF Says
    <2> QED
      BY <2>1 DEF InRow
  <1>4. ASSUME NEW d \in Deliveries, Unseen(d)' PROVE Clean(d)'
    BY <1>1, <1>2, <1>4, UntouchedStays DEF Unseen, Ledger
  <1>5. EntryTypes'
    BY DEF Ledger, EntryTypes, NoEntries
  <1> QED
    BY <1>3, <1>4, <1>5 DEF Ledger

LEMMA Quiet ==
    ASSUME Ledger, NEW w \in Workers, Moves(w), NoEntries,
           UNCHANGED jobs, \A v \in Workers : v # w => held'[v] = held[v],
           Hands(w)', InStep(w)'
    PROVE  Ledger'
  BY QuietWorker, QuietTable DEF Moves

-----------------------------------------------------------------------------
(* One lemma for each kind of step.                                         *)

\* What a worker remembers.
Memory ==
    /\ pc \in [Workers -> Steps] /\ work \in [Workers -> Job]
    /\ \A w \in Workers : pc[w] = "idle" => work[w] = NoWork

LEMMA MovesKeepsMemory ==
    ASSUME Memory, NEW w \in Workers, Moves(w), pc'[w] = "idle" => work'[w] = NoWork
    PROVE  Memory'
  BY DEF Memory, Moves

\* A row that worker w holds stays, and its status with it.
LEMMA SameRow ==
    ASSUME UNCHANGED jobs
    PROVE  \A i : Row(i) => OnlyRow(i)
  BY DEF Row, OnlyRow

LEMMA EarlyKeepsLedger ==
    ASSUME Table, TypeOK, Memory, Ledger, NEW w \in Workers,
           \/ CheckTriage(w) \/ QuotaComment(w) \/ LastTriagedAt(w)
           \/ Gather(w) \/ Decide(w) \/ PostComment(w)
    PROVE  Ledger' /\ Memory'
  <1>1. /\ Moves(w) /\ NoEntries /\ UNCHANGED <<jobs, held>>
        /\ pc[w] \in Before /\ pc'[w] \in Before \cup {"complete"}
        /\ work'[w].job = work[w].job
    BY EarlySteps DEF queueVars
  <1>2. Hands(w) /\ InStep(w)
    BY DEF Ledger
  <1>3. Hands(w)'
    BY <1>1, <1>2 DEF Hands, Before, Late, Dying
  <1>4. InStep(w)'
    <2>1. ASSUME NEW d \in Deliveries, d = Delivery(w)' PROVE Written(pc[w], d)'
      <3>1. Clean(d)
        BY <1>1, <1>2, <2>1 DEF Delivery, InStep, Written
      <3>2. Clean(d)'
        BY <1>1, <3>1, NoEntriesTouchNone, UntouchedStays
      <3> QED
        BY <1>1, <3>2 DEF Written, Before
    <2> QED
      BY <2>1 DEF InStep
  <1>5. pc'[w] # "idle"
    BY <1>1 DEF Before
  <1> QED
    BY <1>1, <1>3, <1>4, <1>5, Quiet, MovesKeepsMemory

LEMMA LateKeepsLedger ==
    ASSUME Table, TypeOK, Memory, Ledger, NEW w \in Workers,
           PostLabels(w) \/ TrackTriage(w) \/ Journal(w) \/ RecordAudit(w)
    PROVE  Ledger' /\ Memory'
  <1>1. pc[w] \in Before \cup Late
    BY DEF PostLabels, TrackTriage, Journal, RecordAudit, At, Before, Late
  <1>2. PICK d \in Deliveries, i \in Nat :
           /\ d = Delivery(w) /\ d = Of(i) /\ i = held[w] /\ Row(i) /\ i # 0
           /\ i = work[w].job /\ jobs[i].status = "running" /\ InStep(w)
           /\ \A v \in Workers : v # w /\ pc[v] # "idle" /\ pc[v] \in Steps
                                 => work[v].job # i
    <2>1. \A i : Row(i) => i \in Nat
      BY DEF Row, Queue!Ids
    <2> QED
      BY <1>1, <2>1, HandFacts
  <1>3. /\ Moves(w) /\ Writes(w, d) /\ EntryTypes' /\ UNCHANGED <<jobs, held>>
        /\ <<pc[w], pc'[w]>> \in Progress
        /\ work'[w] = work[w]
    BY <1>2, LateSteps DEF queueVars
  <1>4. Written(pc[w], d)
    BY <1>2 DEF InStep
  <1>5. Written(pc[w], d)' /\ Sane(d)'
    <2>1. CASE pc[w] = "labels" /\ pc'[w] = "fail"
      <3>1. Clean(d) /\ Untouched(d)
        BY <1>3, <1>4, <2>1 DEF Writes, Written, Before
      <3>2. Clean(d)'
        BY <3>1, UntouchedStays
      <3> QED
        BY <2>1, <3>2 DEF Written, Sane, Before
    <2>2. CASE pc[w] = "labels" /\ pc'[w] = "track_triage"
      <3>1. Ran(d)'
        BY <1>3, <1>4, <2>2 DEF Writes, Written, Before
      <3>2. Owing(d)'
        BY <3>1 DEF Ran, Owing
      <3> QED
        BY <2>2, <3>1, <3>2 DEF Written, Sane, Before
    <2>3. CASE pc[w] = "track_triage" /\ pc'[w] \in {"journal", "audit"}
      <3>1. IF pc'[w] = "journal" THEN Owing(d)' ELSE Metered(d)'
        BY <1>3, <1>4, <2>3 DEF Writes, Written
      <3> QED
        BY <1>3, <1>4, <2>3, <3>1 DEF Written, Sane, Before
    <2>4. CASE pc[w] = "journal" /\ pc'[w] = "audit"
      <3>1. Metered(d)'
        BY <1>3, <1>4, <2>4 DEF Writes, Written
      <3> QED
        BY <2>4, <3>1 DEF Written, Sane, Before
    <2>5. CASE pc[w] = "audit" /\ pc'[w] = "complete"
      <3>1. Recorded(d)'
        BY <1>3, <1>4, <2>5 DEF Writes, Written
      <3> QED
        BY <2>5, <3>1 DEF Written, Sane, Before
    <2> QED
      BY <1>3, <2>1, <2>2, <2>3, <2>4, <2>5 DEF Progress
  <1>6. Delivery(w)' = d /\ Of(i)' = d
    BY <1>2, <1>3 DEF Delivery, Of
  <1>7. pc'[w] \in Before \cup Late /\ pc'[w] # "idle" /\ pc'[w] \notin Dying
    BY <1>3 DEF Progress, Before, Late, Dying
  <1>8. Hands(w)'
    BY <1>2, <1>3, <1>7 DEF Hands
  <1>9. InStep(w)' /\ InRow(i)'
    BY <1>2, <1>3, <1>5, <1>6 DEF InStep, InRow, Says
  <1>10. OnlyRow(i) /\ \A e \in Deliveries : e # Of(i) => Untouched(e)
    BY <1>2, <1>3, SameRow DEF Writes
  <1>11. \A v \in Workers : v # w /\ pc[v] # "idle" => work[v].job # i
    BY <1>2 DEF TypeOK
  <1> QED
    BY <1>2, <1>3, <1>7, <1>8, <1>9, <1>10, <1>11, Frame, MovesKeepsMemory

\* Nobody moves and no entry is written: the clock, the plan, a lock.
LEMMA StillKeepsLedger ==
    ASSUME Memory, Ledger, NoEntries, UNCHANGED <<jobs, held, pc, work>>
    PROVE  Ledger' /\ Memory'
  <1>1. Memory'
    BY DEF Memory, Job, Q!Ids
  <1> QED
    BY <1>1, QuietWorker, QuietTable

LEMMA EnqueueKeepsLedger ==
    ASSUME Table, TypeOK, Memory, Ledger, NEW d \in Deliveries, Enqueue(d)
    PROVE  Ledger' /\ Memory'
  <1>1. /\ Q!Enqueue(d) /\ NoEntries /\ UNCHANGED <<held, pc, work>>
    BY DEF Enqueue, Q!Enqueue, NoEntries, usageVars
  <1>2. CASE jobs' = jobs
    BY <1>1, <1>2, StillKeepsLedger
  <1>3. CASE jobs' # jobs
    <2>1. PICK n \in Queue!Ids(jobs') :
             /\ Queue!Ids(jobs') = Queue!Ids(jobs) \cup {n}
             /\ jobs'[n].delivery = d /\ jobs'[n].status = "queued"
             /\ ~ Row(n)
             /\ \A j \in Queue!Ids(jobs) : jobs'[j] = jobs[j]
      BY <1>1, <1>3, EnqueueRows
    <2>2. Unseen(d)
      BY <1>1, <1>3, EnqueueRows DEF Unseen
    <2>3. \A e : Untouched(e)
      BY <1>1, NoEntriesTouchNone
    <2>4. Clean(d)'
      BY <2>2, <2>3, UntouchedStays DEF Ledger
    <2>5. \A j : Row(j) => Row(j)' /\ jobs'[j] = jobs[j] /\ Of(j)' = Of(j)
      BY <2>1 DEF Row, Of
    <2>6. ASSUME NEW v \in Workers PROVE Hands(v)' /\ InStep(v)'
      <3>1. Hands(v) /\ InStep(v) /\ pc[v] \in Steps
        BY DEF Ledger, TypeOK
      <3>2. Hands(v)'
        BY <1>1, <2>5, <3>1 DEF Hands
      <3>3. ASSUME NEW e \in Deliveries, e = Delivery(v)' PROVE Written(pc[v], e)'
        <4>1. CASE pc[v] \in Before \cup Late
          <5>1. Row(work[v].job)
            BY <4>1, HandFacts
          <5>2. Written(pc[v], e)
            BY <1>1, <2>5, <3>1, <3>3, <5>1 DEF Delivery, InStep, Of
          <5> QED
            BY <1>1, <2>3, <5>2, UntouchedStays DEF Written
        <4>2. CASE pc[v] \notin Before \cup Late
          BY <1>1, <4>2 DEF Written, Late
        <4> QED
          BY <4>1, <4>2
      <3> QED
        BY <3>2, <3>3 DEF InStep
    <2>7. ASSUME NEW j, Row(j)' PROVE InRow(j)'
      <3>1. CASE j = n
        BY <2>1, <2>4, <3>1 DEF InRow, Of, Says
      <3>2. CASE j # n
        <4>1. Row(j)
          BY <2>1, <2>7, <3>2 DEF Row
        <4>2. ASSUME NEW e \in Deliveries, e = Of(j)' PROVE Says(jobs[j].status, e)'
          <5>1. Says(jobs[j].status, e)
            BY <2>5, <4>1, <4>2 DEF Ledger, InRow
          <5> QED
            BY <2>3, <2>5, <4>1, <5>1, UntouchedStays DEF Says
        <4> QED
          BY <4>2 DEF InRow
      <3> QED
        BY <3>1, <3>2
    <2>8. ASSUME NEW e \in Deliveries, Unseen(e)' PROVE Clean(e)'
      <3>1. Unseen(e)
        BY <2>5, <2>8 DEF Unseen
      <3> QED
        BY <2>3, <3>1, UntouchedStays DEF Ledger
    <2>9. EntryTypes'
      BY <1>1 DEF Ledger, EntryTypes, NoEntries
    <2>10. Memory'
      <3>1. Q!Ids(jobs) \subseteq Q!Ids(jobs')
        BY <2>1 DEF Q!Ids, Queue!Ids
      <3>2. Job \subseteq Job'
        BY <3>1 DEF Job
      <3> QED
        BY <1>1, <3>2 DEF Memory
    <2> QED
      BY <2>6, <2>7, <2>8, <2>9, <2>10 DEF Ledger
  <1> QED
    BY <1>2, <1>3

\* A claim that commits, whether its answer arrives or not.
LEMMA ClaimKeepsLedger ==
    ASSUME Table, TypeOK, Memory, Ledger, NEW w \in Workers,
           Q!CommitClaim(w) \/ Q!LoseClaim(w), NoEntries,
           Q!CommitClaim(w) => /\ pc' = [pc EXCEPT ![w] = "check_triage"]
                               /\ work' = [work EXCEPT ![w] = [NoWork EXCEPT !.job = locked[w]]],
           Q!LoseClaim(w) => UNCHANGED <<pc, work>>
    PROVE  Ledger' /\ Memory'
  <1>1. PICK i \in Nat, d \in Deliveries :
           /\ i = locked[w] /\ d = Of(i)
           /\ Row(i) /\ OnlyRow(i) /\ jobs[i].status = "queued" /\ jobs'[i].status = "running"
    <2>1. Row(locked[w]) => locked[w] \in Nat /\ Of(locked[w]) \in Deliveries
      BY TableFacts DEF Row, Queue!Ids
    <2> QED
      BY <2>1, ClaimRows
  <1>2. Clean(d)
    BY <1>1 DEF Ledger, InRow, Says
  <1>3. Clean(d)' /\ (\A e : Untouched(e)) /\ EntryTypes' /\ Of(i)' = d
    BY <1>1, <1>2, NoEntriesTouchNone, UntouchedStays DEF Ledger, EntryTypes, NoEntries, Of, OnlyRow
  <1>4. InRow(i)'
    <2>1. Sane(d)'
      BY <1>3 DEF Sane
    <2> QED
      BY <1>1, <1>3, <2>1 DEF InRow, Says
  <1>5. i # 0 /\ held[w] = 0
    <2>1. locked[w] # 0 => held[w] = 0
      BY DEF Table, Queue!IInv, Queue!Claims, Queue!ExclusiveClaim, Queue!NoJob
    <2> QED
      BY <1>1, <2>1 DEF Row, Queue!Ids
  <1>6. \A v \in Workers : v # w => held'[v] = held[v]
    BY DEF Q!CommitClaim, Q!LoseClaim, TypeOK, Q!TypeOK
  <1>7. \A v \in Workers : v # w /\ pc[v] # "idle" => work[v].job # i
    <2>1. ASSUME NEW v \in Workers, v # w, pc[v] # "idle" PROVE work[v].job # i
      <3>1. pc[v] \in Dying \/ pc[v] \in Before \cup Late
        BY <2>1 DEF TypeOK, Steps, Dying, Before, Late
      <3>2. CASE pc[v] \in Dying
        BY <1>1, <3>2 DEF Ledger, Hands
      <3>3. CASE pc[v] \in Before \cup Late
        BY <1>1, <3>3, HandFacts
      <3> QED
        BY <3>1, <3>2, <3>3
    <2> QED
      BY <2>1
  <1>8. CASE Q!CommitClaim(w)
    <2> DEFINE r == [NoWork EXCEPT !.job = locked[w]]
    <2>1. r \in Job' /\ r.job = i
      BY <1>1 DEF NoWork, Job, Row, OnlyRow, Q!Ids, Queue!Ids
    <2>2. pc' = [pc EXCEPT ![w] = "check_triage"] /\ work' = [work EXCEPT ![w] = r]
      BY <1>8
    <2> HIDE DEF r
    <2>3. Moves(w) /\ pc'[w] = "check_triage" /\ work'[w].job = i
      BY <1>1, <2>1, <2>2, GoesTo DEF Steps, OnlyRow
    <2>4. held'[w] = i
      BY <1>1, <1>8 DEF Q!CommitClaim, TypeOK, Q!TypeOK
    <2>5. Hands(w)'
      BY <1>5, <2>3, <2>4 DEF Hands, Dying
    <2>6. InStep(w)'
      BY <1>3, <2>3 DEF InStep, Delivery, Of, Written, Before
    <2> QED
      BY <1>1, <1>3, <1>4, <1>6, <1>7, <2>3, <2>5, <2>6, Frame, MovesKeepsMemory
  <1>9. CASE Q!LoseClaim(w)
    <2>1. UNCHANGED <<pc, work, held>>
      BY <1>9 DEF Q!LoseClaim
    <2>2. Moves(w)
      <3>1. Q!Ids(jobs) = Q!Ids(jobs')
        BY <1>1 DEF OnlyRow, Q!Ids, Queue!Ids
      <3> QED
        BY <2>1, <3>1 DEF Moves, Memory, Job
    <2>3. Hands(w) /\ pc[w] \notin Before \cup Late
      BY <1>5 DEF Ledger, Hands
    <2>4. Hands(w)'
      BY <1>1, <2>1, <2>3 DEF Hands, Row, OnlyRow
    <2>5. InStep(w)'
      BY <2>1, <2>3 DEF InStep, Written, Late
    <2> QED
      BY <1>1, <1>3, <1>4, <1>6, <1>7, <2>1, <2>2, <2>4, <2>5, Frame, MovesKeepsMemory DEF Memory
  <1> QED
    BY <1>8, <1>9

\* A worker that leaves its job: completed, failed, or simply abandoned.
LEMMA LeavingKeepsLedger ==
    ASSUME Table, TypeOK, Memory, Ledger, NEW w \in Workers, NEW d \in Deliveries,
           pc[w] \in Before \cup Late, d = Delivery(w),
           OnlyRow(held[w]), Moves(w),
           held' = [held EXCEPT ![w] = 0],
           \/ pc'[w] = "idle" /\ work'[w] = NoWork
           \/ pc'[w] \in Dying /\ jobs'[held[w]].status = "dead" /\ work'[w] = work[w],
           \A e \in Deliveries : e # d => Untouched(e),
           EntryTypes', NEW s, s = jobs'[held[w]].status, Says(s, d)'
    PROVE  Ledger' /\ Memory'
  <1>1. PICK i \in Nat :
           /\ i = held[w] /\ i = work[w].job /\ i # 0 /\ Row(i) /\ d = Of(i)
           /\ \A v \in Workers : v # w /\ pc[v] # "idle" /\ pc[v] \in Steps
                                 => work[v].job # i
    <2>1. \A i : Row(i) => i \in Nat
      BY DEF Row, Queue!Ids
    <2> QED
      BY <2>1, HandFacts
  <1>2. OnlyRow(i) /\ Row(i)' /\ Of(i)' = d
    BY <1>1 DEF OnlyRow, Row, Of
  <1>3. held'[w] = 0 /\ \A v \in Workers : v # w => held'[v] = held[v]
    BY DEF TypeOK, Q!TypeOK
  <1>4. Hands(w)'
    BY <1>1, <1>2, <1>3 DEF Hands, Before, Late, Dying
  <1>5. InStep(w)'
    BY DEF InStep, Written, Before, Late, Dying
  <1>6. s = jobs'[i].status
    BY <1>1
  <1>7. InRow(i)'
    BY <1>2, <1>6 DEF InRow
  <1>8. \A v \in Workers : v # w /\ pc[v] # "idle" => work[v].job # i
    BY <1>1 DEF TypeOK
  <1>9. Ledger'
    BY <1>1, <1>2, <1>3, <1>4, <1>5, <1>7, <1>8, Frame
  <1>10. Memory'
    BY MovesKeepsMemory DEF Dying
  <1> QED
    BY <1>9, <1>10

\* complete_job and fail_job.
LEMMA EndKeepsLedger ==
    ASSUME Table, TypeOK, Memory, Ledger, NEW w \in Workers, CompleteJob(w) \/ FailJob(w)
    PROVE  Ledger' /\ Memory'
  <1>1. pc[w] \in Before \cup Late
    BY DEF CompleteJob, FailJob, At, Before, Late
  <1>2. PICK d \in Deliveries : d = Delivery(w) /\ d = Of(held[w])
    BY <1>1, HandFacts
  <1>3. NoEntries
    BY DEF CompleteJob, FailJob, NoEntries, usageVars
  <1>4. EntryTypes' /\ \A e : Untouched(e)
    BY <1>3, NoEntriesTouchNone DEF Ledger, EntryTypes, NoEntries
  <1>5. Written(pc[w], d) /\ held[w] = work[w].job
    BY <1>1, <1>2, HandFacts DEF InStep
  <1>6. CASE CompleteJob(w)
    <2>1. pc[w] = "complete" /\ Q!Complete(w) /\ Forget(w)
      BY <1>6 DEF CompleteJob, At
    <2>2. OnlyRow(held[w]) /\ jobs'[held[w]].status = "done"
      BY <2>1, CompleteRows
    <2>3. Moves(w) /\ pc'[w] = "idle" /\ work'[w] = NoWork
      BY <2>1, <2>2, GoesIdle DEF OnlyRow
    <2>4. held' = [held EXCEPT ![w] = 0]
      BY <2>1 DEF Q!Complete, Q!NoJob
    <2>5. Clean(d)' \/ Recorded(d)'
      BY <1>4, <1>5, <2>1, UntouchedStays DEF Written
    <2>6. Says("done", d)'
      BY <2>5 DEF Says
    <2> QED
      BY <1>1, <1>2, <1>4, <2>2, <2>3, <2>4, <2>6, LeavingKeepsLedger
  <1>7. CASE FailJob(w)
    <2>1. pc[w] = "fail" /\ Q!Fail(w)
      BY <1>7 DEF FailJob, At
    <2>2. OnlyRow(held[w]) /\ jobs'[held[w]].status \in {"queued", "dead"}
      BY <2>1, FailRows
    <2>3. held' = [held EXCEPT ![w] = 0]
      BY <2>1 DEF Q!Fail, Q!NoJob
    <2>4. Clean(d)'
      BY <1>4, <1>5, <2>1, UntouchedStays DEF Written, Before
    <2>5. PICK s \in {"queued", "dead"} : s = jobs'[held[w]].status
      BY <2>2
    <2>6. Says(s, d)'
      BY <2>4 DEF Says
    <2>7. CASE Forget(w)
      <3>1. Moves(w) /\ pc'[w] = "idle" /\ work'[w] = NoWork
        BY <2>2, <2>7, GoesIdle DEF OnlyRow
      <3> QED
        BY <1>1, <1>2, <1>4, <2>2, <2>3, <2>5, <2>6, <3>1, LeavingKeepsLedger
    <2>8. CASE jobs'[work[w].job].status = "dead" /\ Goto(w, "dead_comment") /\ UNCHANGED work
      <3>1. work[w] \in Job'
        BY <2>2 DEF TypeOK, Job, OnlyRow, Q!Ids, Queue!Ids
      <3>2. work' = [work EXCEPT ![w] = work[w]]
        BY <2>8 DEF TypeOK
      <3>3. Moves(w) /\ pc'[w] = "dead_comment" /\ work'[w] = work[w]
        BY <2>2, <2>8, <3>1, <3>2, GoesTo DEF OnlyRow, Goto, Steps
      <3>4. pc'[w] \in Dying
        BY <3>3 DEF Dying
      <3> QED
        BY <1>1, <1>2, <1>4, <1>5, <2>2, <2>3, <2>5, <2>6, <2>8, <3>3, <3>4, LeavingKeepsLedger
    <2> QED
      BY <1>7, <2>7, <2>8 DEF FailJob
  <1> QED
    BY <1>6, <1>7

\* A store call that takes effect, then process_job returns its error.
LEMMA StoreErrorKeepsLedger ==
    ASSUME Table, TypeOK, Memory, Ledger, NEW w \in Workers, StoreError(w)
    PROVE  Ledger' /\ Memory'
  <1>1. pc[w] \in Before \cup Late
    BY DEF StoreError, Before, Late
  <1>2. PICK d \in Deliveries :
           /\ d = Delivery(w) /\ Row(held[w])
           /\ jobs[held[w]].status = "running" /\ Says("running", d)
    BY <1>1, HandFacts DEF InRow
  <1>3. Written(pc[w], d)
    BY <1>1, <1>2, HandFacts DEF InStep
  <1>4. UNCHANGED <<jobs, billed, executed>> /\ held' = [held EXCEPT ![w] = 0] /\ Forget(w)
    BY DEF StoreError, Q!Abandon, Q!NoJob
  <1>5. OnlyRow(held[w]) /\ Moves(w) /\ pc'[w] = "idle" /\ work'[w] = NoWork
    BY <1>2, <1>4, SameRow, GoesIdle
  <1>6. EntryTypes
    BY DEF Ledger
  <1>7. EntryTypes' /\ (\A e \in Deliveries : e # d => Untouched(e)) /\ Sane(d)'
    <2>1. CASE pc[w] = "journal" /\ journal' = [journal EXCEPT ![d] = @ + 1] /\ UNCHANGED audits
      <3>1. Owing(d)
        BY <1>3, <2>1 DEF Written
      <3> QED
        BY <1>4, <1>6, <2>1, <3>1, JournalWritten DEF Sane
    <2>2. CASE /\ pc[w] = "audit" /\ UNCHANGED journal
               /\ \E a \in Audit : a.delivery = d /\ audits' = Append(audits, a)
      <3>1. Metered(d)
        BY <1>3, <2>2 DEF Written
      <3> QED
        BY <1>4, <1>6, <2>2, <3>1, AuditWritten DEF Sane
    <2>3. CASE UNCHANGED <<journal, audits>>
      <3>1. \A e : Untouched(e)
        BY <1>4, <2>3, NoEntriesTouchNone DEF NoEntries
      <3> QED
        BY <1>2, <1>4, <1>6, <2>3, <3>1, UntouchedStays DEF Says, EntryTypes
    <2>4. [ delivery |-> Delivery(w), at |-> now, escalated |-> work[w].escalate ] \in Audit
      BY <1>2 DEF TypeOK, Q!TypeOK, Audit
    <2> QED
      BY <1>2, <2>1, <2>2, <2>3, <2>4 DEF StoreError, StoreEffect, At
  <1>8. Says("running", d)'
    BY <1>7 DEF Says
  <1>9. jobs'[held[w]].status = "running"
    BY <1>2, <1>4
  <1> QED
    BY <1>1, <1>2, <1>4, <1>5, <1>7, <1>8, <1>9, LeavingKeepsLedger

\* A worker with nothing in its hands, or about to degrade a dead job.
LEMMA EmptyHandedKeepsLedger ==
    ASSUME Table, TypeOK, Memory, Ledger, NEW w \in Workers,
           UNCHANGED <<jobs, held>>, NoEntries, held[w] = 0,
           \/ Forget(w)
           \/ pc[w] \in Dying /\ Goto(w, "dead_label") /\ UNCHANGED work
    PROVE  Ledger' /\ Memory'
  <1>1. CASE Forget(w)
    <2>1. Moves(w) /\ pc'[w] = "idle" /\ work'[w] = NoWork
      BY <1>1, GoesIdle
    <2>2. Hands(w)' /\ InStep(w)'
      BY <2>1 DEF Hands, InStep, Written, Before, Late, Dying
    <2> QED
      BY <2>1, <2>2, Quiet, MovesKeepsMemory
  <1>2. CASE pc[w] \in Dying /\ Goto(w, "dead_label") /\ UNCHANGED work
    <2>1. Moves(w) /\ pc'[w] = "dead_label" /\ work'[w] = work[w]
      BY <1>2, GoesOn DEF Goto, Steps
    <2>2. Hands(w)
      BY DEF Ledger
    <2>3. Hands(w)' /\ InStep(w)'
      BY <1>2, <2>1, <2>2 DEF Hands, Row, InStep, Written, Before, Late, Dying
    <2> QED
      BY <2>1, <2>3, Quiet, MovesKeepsMemory
  <1> QED
    BY <1>1, <1>2

LEMMA CrashKeepsLedger ==
    ASSUME Table, TypeOK, Memory, Ledger, NEW w \in Workers, Crash(w)
    PROVE  Ledger' /\ Memory'
  <1>1. UNCHANGED jobs /\ NoEntries /\ Forget(w)
    BY DEF Crash, Q!Abandon, Q!RollbackClaim, queueVars, NoEntries, usageVars
  <1>2. CASE Q!Abandon(w)
    <2>1. held[w] # 0 /\ held' = [held EXCEPT ![w] = 0]
      BY <1>2 DEF Q!Abandon, Q!NoJob
    <2>2. pc[w] \in Before \cup Late
      BY <2>1 DEF Ledger, Hands, TypeOK, Steps, Before, Late, Dying
    <2>3. PICK d \in Deliveries :
             /\ d = Delivery(w) /\ Row(held[w])
             /\ jobs[held[w]].status = "running" /\ Says("running", d)
      BY <2>2, HandFacts DEF InRow
    <2>4. OnlyRow(held[w]) /\ Moves(w) /\ pc'[w] = "idle" /\ work'[w] = NoWork
      BY <1>1, <2>3, SameRow, GoesIdle
    <2>5. EntryTypes' /\ \A e : Untouched(e)
      BY <1>1, NoEntriesTouchNone DEF Ledger, EntryTypes, NoEntries
    <2>6. Says("running", d)'
      BY <2>3, <2>5, UntouchedStays DEF Says
    <2>7. jobs'[held[w]].status = "running"
      BY <1>1, <2>3
    <2> QED
      BY <2>1, <2>2, <2>3, <2>4, <2>5, <2>6, <2>7, LeavingKeepsLedger
  <1>3. CASE ~ Q!Abandon(w)
    <2>1. UNCHANGED held /\ held[w] = 0
      <3>1. CASE Q!RollbackClaim(w)
        BY <3>1 DEF Q!RollbackClaim, Q!NoJob, Table, Queue!IInv, Queue!Claims,
                    Queue!ExclusiveClaim, Queue!NoJob
      <3>2. CASE pc[w] \in Dying /\ UNCHANGED queueVars
        BY <3>2 DEF Ledger, Hands, queueVars
      <3> QED
        BY <1>3, <3>1, <3>2 DEF Crash, Dying
    <2> QED
      BY <1>1, <2>1, EmptyHandedKeepsLedger
  <1> QED
    BY <1>2, <1>3

-----------------------------------------------------------------------------
(* The labels: a worker past `labels` has left there what it decided.       *)

Places ==
    /\ comment \in [PullRequests -> {"none", "quota", "triage", "dead"}]
    /\ labels \in [PullRequests -> SUBSET {"triaged", "human"}]
    /\ plan \in {"available", "exhausted"}

\* No step of anyone removes a label.
LabelsGrow == \A p \in PullRequests : labels[p] \subseteq labels'[p]

LEMMA HostStep ==
    ASSUME Places, [Next]_vars, \A w \in Workers : pc[w] # "idle" => Pr(w) \in PullRequests
    PROVE  Places' /\ LabelsGrow
  <1> USE DEF Places, LabelsGrow
  <1>1. ASSUME NEW w \in Workers, NEW body \in {"quota", "triage", "dead"}, NEW ok \in Answers,
               Pr(w) \in PullRequests, Upsert(Pr(w), body, ok), UNCHANGED <<labels, plan>>
        PROVE  Places' /\ LabelsGrow
    BY <1>1 DEF Upsert
  <1>2. ASSUME NEW w \in Workers, NEW ls \in SUBSET {"triaged", "human"}, NEW ok \in Answers,
               Pr(w) \in PullRequests, AddLabels(Pr(w), ls, ok), UNCHANGED <<comment, plan>>
        PROVE  Places' /\ LabelsGrow
    BY <1>2 DEF AddLabels
  <1>3. CASE UNCHANGED <<comment, labels>> /\ plan' \in {"available", "exhausted"}
    BY <1>3
  <1>4. ASSUME NEW w \in Workers, QuotaComment(w) \/ PostComment(w) \/ DeadComment(w)
        PROVE  Places' /\ LabelsGrow
    BY <1>1, <1>4 DEF QuotaComment, PostComment, DeadComment, At
  <1>5. ASSUME NEW w \in Workers, PostLabels(w) \/ DeadLabel(w)
        PROVE  Places' /\ LabelsGrow
    <2>1. DecisionLabels(w) \in SUBSET {"triaged", "human"}
      BY DEF DecisionLabels
    <2> QED
      BY <1>2, <1>5, <2>1 DEF PostLabels, DeadLabel, At
  <1>6. ASSUME Tick \/ QuotaReset \/ (\E d \in Deliveries : Enqueue(d)) \/ UNCHANGED vars
        PROVE  UNCHANGED <<comment, labels>> /\ plan' \in {"available", "exhausted"}
    BY <1>6 DEF Tick, QuotaReset, Enqueue, vars, hostVars
  <1>7. ASSUME NEW w \in Workers,
               \/ SelectJob(w) \/ ClaimJob(w) \/ ClaimError(w) \/ StoreError(w) \/ Crash(w)
               \/ CheckTriage(w) \/ LastTriagedAt(w) \/ Gather(w) \/ Decide(w)
               \/ TrackTriage(w) \/ Journal(w) \/ RecordAudit(w)
               \/ CompleteJob(w) \/ FailJob(w)
        PROVE  UNCHANGED <<comment, labels>> /\ plan' \in {"available", "exhausted"}
    BY <1>7 DEF SelectJob, ClaimJob, ClaimError, StoreError, Crash, CheckTriage,
                LastTriagedAt, Gather, Decide, TrackTriage, Journal, RecordAudit,
                CompleteJob, FailJob, hostVars
  <1> QED
    BY <1>3, <1>4, <1>5, <1>6, <1>7 DEF Next, ProcessJob

\* No step of anyone takes a row away, or gives it to another delivery.
LEMMA RowsStay ==
    ASSUME Table, [Next]_vars
    PROVE  \A i : Row(i) => Row(i)' /\ Of(i)' = Of(i) /\ jobs'[i].id = jobs[i].id
  <1>1. CASE UNCHANGED jobs
    BY <1>1 DEF Row, Of
  <1>2. ASSUME NEW w \in Workers, OnlyRow(locked[w]) \/ OnlyRow(held[w])
        PROVE  \A i : Row(i) => Row(i)' /\ Of(i)' = Of(i) /\ jobs'[i].id = jobs[i].id
    BY <1>2 DEF OnlyRow, Row, Of
  <1>3. ASSUME NEW d \in Deliveries, Q!Enqueue(d), ~ UNCHANGED jobs
        PROVE  \A i : Row(i) => Row(i)' /\ Of(i)' = Of(i) /\ jobs'[i].id = jobs[i].id
    BY <1>3, EnqueueRows DEF Row, Of
  <1>4. [Q!Next]_queueVars
    <2>1. [Next]_vars => [Q!Next]_(Q!queueVars)
      BY QueueSteps
    <2> QED
      BY <2>1 DEF queueVars, Q!queueVars
  <1>5. ASSUME NEW w \in Workers, Q!CommitClaim(w) \/ Q!LoseClaim(w)
        PROVE  OnlyRow(locked[w])
    BY <1>5, ClaimRows
  <1>6. ASSUME NEW w \in Workers, Q!Complete(w) \/ Q!Fail(w)
        PROVE  OnlyRow(held[w])
    BY <1>6, CompleteRows, FailRows
  <1>7. ASSUME NEW w \in Workers, Q!SelectForUpdate(w) \/ Q!RollbackClaim(w) \/ Q!Abandon(w)
        PROVE  UNCHANGED jobs
    BY <1>7 DEF Q!SelectForUpdate, Q!RollbackClaim, Q!Abandon
  <1>8. Q!Tick \/ UNCHANGED queueVars => UNCHANGED jobs
    BY DEF Q!Tick, queueVars
  <1> QED
    BY <1>1, <1>2, <1>3, <1>4, <1>5, <1>6, <1>7, <1>8 DEF Q!Next

\* The audit that worker w is about to write.
NewAudit(w) == [ delivery |-> Delivery(w), at |-> now, escalated |-> work[w].escalate ]

LEMMA AuditsGrow ==
    ASSUME TypeOK, [Next]_vars
    PROVE  \/ UNCHANGED audits
           \/ \E w \in Workers : /\ pc[w] = "audit" /\ pc'[w] \in {"complete", "idle"}
                                 /\ audits' = Append(audits, NewAudit(w))
  <1>0. pc \in [Workers -> Steps]
    BY DEF TypeOK
  <1>1. CASE Tick \/ QuotaReset \/ (\E d \in Deliveries : Enqueue(d)) \/ UNCHANGED vars
    BY <1>1 DEF Tick, QuotaReset, Enqueue, vars
  <1>2. ASSUME NEW w \in Workers, SelectJob(w) \/ ClaimJob(w) \/ ClaimError(w) \/ Crash(w)
        PROVE  UNCHANGED audits
    BY <1>2 DEF SelectJob, ClaimJob, ClaimError, Crash
  <1>3. ASSUME NEW w \in Workers, StoreError(w) \/ RecordAudit(w)
        PROVE  \/ UNCHANGED audits
               \/ /\ pc[w] = "audit" /\ pc'[w] \in {"complete", "idle"}
                  /\ audits' = Append(audits, NewAudit(w))
    BY <1>0, <1>3 DEF StoreError, StoreEffect, RecordAudit, At, NewAudit, Forget, Goto
  <1>4. ASSUME NEW w \in Workers, ProcessJob(w), ~ RecordAudit(w)
        PROVE  UNCHANGED audits
    BY <1>4 DEF ProcessJob, CheckTriage, QuotaComment, LastTriagedAt, Gather, Decide,
                PostComment, PostLabels, TrackTriage, Journal, CompleteJob, FailJob,
                DeadComment, DeadLabel
  <1> QED
    BY <1>1, <1>2, <1>3, <1>4 DEF Next

\* From act's labels to the audit, what a worker decided is on the pull request.
PastLabels == { "track_triage", "journal", "audit" }

Labelled ==
    \A w \in Workers :
        pc[w] \in PastLabels /\ work[w].escalate => "human" \in labels[Pr(w)]

\* The way past the labels goes through them.
LEMMA PastLabelsOrigin ==
    ASSUME TypeOK, [Next]_vars, NEW w \in Workers, pc'[w] \in PastLabels
    PROVE  /\ work'[w] = work[w]
           /\ \/ pc[w] \in PastLabels
              \/ /\ pc[w] = "labels"
                 /\ labels' = [labels EXCEPT ![Pr(w)] = @ \cup DecisionLabels(w)]
  <1> USE DEF PastLabels, At, Goto
  <1>1. pc \in [Workers -> Steps] /\ work \in [Workers -> Job]
    BY DEF TypeOK, Job
  <1>2. CASE UNCHANGED <<pc, work>>
    BY <1>2
  <1>3. ASSUME NEW v \in Workers, NEW step, pc' = [pc EXCEPT ![v] = step],
               v # w, \A u \in Workers : u # v => work'[u] = work[u]
        PROVE  work'[w] = work[w] /\ pc[w] \in PastLabels
    BY <1>1, <1>3
  <1>4. ASSUME NEW v \in Workers, NEW step \in Steps \ PastLabels, pc' = [pc EXCEPT ![v] = step]
        PROVE  v # w
    BY <1>1, <1>4
  <1>5. ASSUME NEW v \in Workers,
               \/ ClaimJob(v) \/ CheckTriage(v) \/ LastTriagedAt(v) \/ Decide(v)
               \/ QuotaComment(v) \/ Gather(v) \/ PostComment(v) \/ RecordAudit(v)
               \/ CompleteJob(v) \/ FailJob(v) \/ DeadComment(v) \/ DeadLabel(v)
               \/ StoreError(v) \/ Crash(v)
        PROVE  /\ \E step \in Steps \ PastLabels : pc' = [pc EXCEPT ![v] = step]
               /\ \A u \in Workers : u # v => work'[u] = work[u]
    BY <1>1, <1>5
    DEF ClaimJob, CheckTriage, LastTriagedAt, Decide, QuotaComment, Gather, PostComment,
        RecordAudit, CompleteJob, FailJob, DeadComment, DeadLabel, StoreError, Crash,
        Forget, Steps
  <1>6. ASSUME NEW v \in Workers, TrackTriage(v) \/ Journal(v)
        PROVE  work'[w] = work[w] /\ pc[w] \in PastLabels
    BY <1>1, <1>6 DEF TrackTriage, Journal
  <1>7. ASSUME NEW v \in Workers, PostLabels(v)
        PROVE  /\ work'[w] = work[w]
               /\ \/ pc[w] \in PastLabels
                  \/ /\ pc[w] = "labels"
                     /\ labels' = [labels EXCEPT ![Pr(w)] = @ \cup DecisionLabels(w)]
    <2>1. UNCHANGED work
      BY <1>7 DEF PostLabels
    <2>2. CASE v # w
      <3>1. \E step \in Steps : pc' = [pc EXCEPT ![v] = step]
        BY <1>7 DEF PostLabels, Steps
      <3> QED
        BY <1>1, <2>1, <2>2, <3>1
    <2>3. CASE v = w
      BY <1>1, <1>7, <2>1, <2>3 DEF PostLabels, AddLabels
    <2> QED
      BY <2>2, <2>3
  <1>8. ASSUME \/ Tick \/ QuotaReset \/ (\E d \in Deliveries : Enqueue(d)) \/ UNCHANGED vars
               \/ \E v \in Workers : SelectJob(v) \/ ClaimError(v)
        PROVE  UNCHANGED <<pc, work>>
    BY <1>8 DEF Tick, QuotaReset, Enqueue, vars, SelectJob, ClaimError
  <1>9. ASSUME NEW v \in Workers,
               \/ ClaimJob(v) \/ CheckTriage(v) \/ LastTriagedAt(v) \/ Decide(v)
               \/ QuotaComment(v) \/ Gather(v) \/ PostComment(v) \/ RecordAudit(v)
               \/ CompleteJob(v) \/ FailJob(v) \/ DeadComment(v) \/ DeadLabel(v)
               \/ StoreError(v) \/ Crash(v)
        PROVE  work'[w] = work[w] /\ pc[w] \in PastLabels
    <2>1. PICK step \in Steps \ PastLabels : pc' = [pc EXCEPT ![v] = step]
      BY <1>5, <1>9
    <2>2. \A u \in Workers : u # v => work'[u] = work[u]
      BY <1>5, <1>9
    <2> QED
      BY <1>3, <1>4, <2>1, <2>2
  <1> QED
    BY <1>2, <1>6, <1>7, <1>8, <1>9 DEF Next, ProcessJob

-----------------------------------------------------------------------------
(* The inductive invariant.                                                 *)

Inv == TypeOK /\ Ledger /\ Labelled /\ EscalationIsLabelled

LEMMA SameTypes ==
    ASSUME Table
    PROVE  TypeOK <=> Memory /\ Places /\ EntryTypes
  <1>1. Q!TypeOK
    BY DEF Table, Queue!IInv, Queue!TypeOK, Q!TypeOK, Queue!Row, Q!Row, Queue!Status, Q!Status,
           Queue!Ids, Q!Ids, Queue!NoJob, Q!NoJob
  <1> QED
    BY <1>1 DEF TypeOK, Memory, Places, EntryTypes, At, Job

LEMMA InvInit == Init /\ Table => Inv
  <1> SUFFICES ASSUME Init, Table PROVE Inv
    OBVIOUS
  <1>1. Queue!Ids(jobs) = {} /\ audits = << >> /\ DOMAIN audits = {}
    BY DEF Init, Q!Init, Queue!Ids
  <1>2. \A d \in Deliveries : Clean(d)
    BY <1>1 DEF Init, Clean, AuditsOf
  <1>3. EntryTypes
    BY <1>1 DEF Init, EntryTypes
  <1>4. NoWork \in Job
    BY DEF NoWork, Job
  <1>5. Memory /\ Places
    BY <1>4 DEF Init, Memory, Places, Steps
  <1>6. TypeOK
    BY <1>3, <1>5, SameTypes
  <1>7. \A w \in Workers : Hands(w) /\ InStep(w)
    BY <1>4 DEF Init, Q!Init, Q!NoJob, Hands, InStep, Written, Before, Late, Dying
  <1>8. Ledger
    BY <1>1, <1>2, <1>3, <1>7 DEF Ledger, Row
  <1>9. Labelled /\ EscalationIsLabelled
    BY <1>1 DEF Init, Labelled, PastLabels, EscalationIsLabelled
  <1> QED
    BY <1>6, <1>8, <1>9 DEF Inv

LEMMA LedgerStep ==
    ASSUME Table, TypeOK, Ledger, [Next]_vars
    PROVE  Ledger' /\ Memory'
  <1>1. Memory
    BY SameTypes
  <1> USE DEF NoEntries, usageVars
  <1>2. CASE Tick \/ QuotaReset \/ UNCHANGED vars \/ (\E w \in Workers : SelectJob(w))
    BY <1>1, <1>2, StillKeepsLedger
    DEF Tick, Q!Tick, QuotaReset, vars, queueVars, SelectJob, Q!SelectForUpdate
  <1>3. CASE \E d \in Deliveries : Enqueue(d)
    BY <1>1, <1>3, EnqueueKeepsLedger
  <1>4. ASSUME NEW w \in Workers, ClaimError(w) PROVE Ledger' /\ Memory'
    <2>1. NoEntries /\ UNCHANGED <<pc, work>>
      BY <1>4 DEF ClaimError
    <2>2. CASE Q!RollbackClaim(w)
      BY <1>1, <2>1, <2>2, StillKeepsLedger DEF Q!RollbackClaim
    <2>3. CASE Q!LoseClaim(w) /\ ~ Q!CommitClaim(w)
      BY <1>1, <2>1, <2>3, ClaimKeepsLedger
    <2>4. Q!LoseClaim(w) => ~ Q!CommitClaim(w)
      <3>1. SUFFICES ASSUME Q!LoseClaim(w), Q!CommitClaim(w) PROVE FALSE
        OBVIOUS
      <3>2. locked[w] # 0 /\ held[w] = locked[w]
        BY <3>1 DEF Q!LoseClaim, Q!CommitClaim, Q!NoJob, TypeOK, Q!TypeOK
      <3> QED
        BY <3>2 DEF Table, Queue!IInv, Queue!Claims, Queue!ExclusiveClaim, Queue!NoJob
    <2> QED
      BY <1>4, <2>2, <2>3, <2>4 DEF ClaimError
  <1>5. ASSUME NEW w \in Workers, ClaimJob(w) PROVE Ledger' /\ Memory'
    <2>1. /\ Q!CommitClaim(w) /\ NoEntries
          /\ pc' = [pc EXCEPT ![w] = "check_triage"]
          /\ work' = [work EXCEPT ![w] = [NoWork EXCEPT !.job = locked[w]]]
      BY <1>5 DEF ClaimJob, Goto
    <2>2. ~ Q!LoseClaim(w)
      <3>1. SUFFICES ASSUME Q!LoseClaim(w) PROVE FALSE
        OBVIOUS
      <3>2. locked[w] # 0 /\ held[w] = locked[w]
        BY <2>1, <3>1 DEF Q!LoseClaim, Q!CommitClaim, Q!NoJob, TypeOK, Q!TypeOK
      <3> QED
        BY <3>2 DEF Table, Queue!IInv, Queue!Claims, Queue!ExclusiveClaim, Queue!NoJob
    <2> QED
      BY <1>1, <2>1, <2>2, ClaimKeepsLedger
  <1>6. ASSUME NEW w \in Workers, DeadComment(w) \/ DeadLabel(w) PROVE Ledger' /\ Memory'
    <2>1. /\ UNCHANGED <<jobs, held>> /\ NoEntries /\ pc[w] \in Dying
          /\ Forget(w) \/ (Goto(w, "dead_label") /\ UNCHANGED work)
      BY <1>6 DEF DeadComment, DeadLabel, queueVars, At, Dying
    <2>2. held[w] = 0
      BY <2>1 DEF Ledger, Hands
    <2> QED
      BY <1>1, <2>1, <2>2, EmptyHandedKeepsLedger
  <1>7. ASSUME NEW w \in Workers, ProcessJob(w) \/ StoreError(w) \/ Crash(w)
        PROVE  Ledger' /\ Memory'
    BY <1>1, <1>6, <1>7, EarlyKeepsLedger, LateKeepsLedger, EndKeepsLedger,
       StoreErrorKeepsLedger, CrashKeepsLedger
    DEF ProcessJob
  <1> QED
    BY <1>2, <1>3, <1>4, <1>5, <1>7 DEF Next

LEMMA KnownPr ==
    ASSUME Table, TypeOK, Ledger
    PROVE  \A w \in Workers : pc[w] # "idle" =>
             /\ Row(work[w].job) /\ Delivery(w) \in Deliveries /\ Pr(w) \in PullRequests
  <1> SUFFICES ASSUME NEW w \in Workers, pc[w] # "idle"
               PROVE  Row(work[w].job) /\ Delivery(w) \in Deliveries /\ Pr(w) \in PullRequests
    OBVIOUS
  <1>1. pc[w] \in Dying \/ pc[w] \in Before \cup Late
    BY DEF TypeOK, Steps, Dying, Before, Late
  <1>2. Row(work[w].job)
    BY <1>1, HandFacts DEF Ledger, Hands
  <1>3. Delivery(w) \in Deliveries
    BY <1>2, TableFacts DEF Delivery, Of
  <1> QED
    BY <1>2, <1>3, PrAssumption DEF Pr

LEMMA LabelledStep ==
    ASSUME Table, Inv, [Next]_vars
    PROVE  Labelled' /\ EscalationIsLabelled'
  <1>1. TypeOK /\ Ledger /\ Labelled /\ EscalationIsLabelled /\ EntryTypes
    BY DEF Inv, Ledger
  <1>2. \A w \in Workers : pc[w] # "idle" =>
             /\ Row(work[w].job) /\ Delivery(w) \in Deliveries /\ Pr(w) \in PullRequests
    BY <1>1, KnownPr
  <1>3. LabelsGrow /\ Places
    BY <1>1, <1>2, HostStep, SameTypes
  <1>4. ASSUME NEW w \in Workers, pc'[w] \in PastLabels, work'[w].escalate
        PROVE  "human" \in labels'[Pr(w)']
    <2>1. /\ work'[w] = work[w]
          /\ \/ pc[w] \in PastLabels
             \/ /\ pc[w] = "labels"
                /\ labels' = [labels EXCEPT ![Pr(w)] = @ \cup DecisionLabels(w)]
      BY <1>1, <1>4, PastLabelsOrigin
    <2>2. Row(work[w].job) /\ Pr(w) \in PullRequests
      BY <1>2, <2>1 DEF PastLabels
    <2>3. Pr(w)' = Pr(w)
      BY <2>1, <2>2, RowsStay DEF Pr, Delivery, Of
    <2>4. CASE pc[w] \in PastLabels
      BY <1>1, <1>3, <1>4, <2>1, <2>2, <2>3, <2>4 DEF Labelled, LabelsGrow
    <2>5. CASE labels' = [labels EXCEPT ![Pr(w)] = @ \cup DecisionLabels(w)]
      BY <1>3, <1>4, <2>1, <2>2, <2>3, <2>5 DEF Places, DecisionLabels
    <2> QED
      BY <2>1, <2>4, <2>5
  <1>5. Labelled'
    BY <1>4 DEF Labelled
  <1>6. ASSUME NEW k \in DOMAIN audits', audits'[k].escalated
        PROVE  "human" \in labels'[PrOf[audits'[k].delivery]]
    <2>1. CASE k \in DOMAIN audits /\ audits'[k] = audits[k]
      <3>1. audits[k] \in Audit
        BY <1>1, <2>1, ElementOfSeq, LenProperties DEF EntryTypes
      <3>2. PrOf[audits[k].delivery] \in PullRequests
        BY <3>1, PrAssumption DEF Audit
      <3> QED
        BY <1>1, <1>3, <1>6, <2>1, <3>2 DEF EscalationIsLabelled, LabelsGrow
    <2>2. ASSUME NEW w \in Workers, pc[w] = "audit", audits'[k] = NewAudit(w)
          PROVE  "human" \in labels'[PrOf[audits'[k].delivery]]
      <3>1. work[w].escalate /\ audits'[k].delivery = Delivery(w)
        BY <1>6, <2>2 DEF NewAudit
      <3>2. "human" \in labels[Pr(w)] /\ Pr(w) \in PullRequests
        BY <1>1, <1>2, <2>2, <3>1 DEF Labelled, PastLabels
      <3> QED
        BY <1>3, <3>1, <3>2 DEF LabelsGrow, Pr
    <2>3. ASSUME NEW w \in Workers, pc[w] = "audit", audits' = Append(audits, NewAudit(w))
          PROVE  (k \in DOMAIN audits /\ audits'[k] = audits[k]) \/ audits'[k] = NewAudit(w)
      <3>1. NewAudit(w) \in Audit
        BY <1>1, <1>2, <2>3 DEF NewAudit, Audit, TypeOK, Q!TypeOK
      <3>2. PICK a \in Audit : a = NewAudit(w)
        BY <3>1
      <3>3. DOMAIN audits = 1 .. Len(audits) /\ Len(audits) \in Nat
        BY <1>1, LenProperties DEF EntryTypes
      <3>4. /\ DOMAIN audits' = 1 .. (Len(audits) + 1)
            /\ \A n \in 1 .. Len(audits) : audits'[n] = audits[n]
            /\ audits'[Len(audits) + 1] = a
        BY <1>1, <2>3, <3>2, AppendProperties, LenProperties DEF EntryTypes
      <3> QED
        BY <1>6, <3>2, <3>3, <3>4
    <2> QED
      BY <1>1, <1>6, <2>1, <2>2, <2>3, AuditsGrow
  <1>7. EscalationIsLabelled'
    BY <1>6 DEF EscalationIsLabelled
  <1> QED
    BY <1>5, <1>7

LEMMA InvStep == Table /\ Table' /\ Inv /\ [Next]_vars => Inv'
  <1> SUFFICES ASSUME Table, Table', Inv, [Next]_vars PROVE Inv'
    OBVIOUS
  <1>1. TypeOK /\ Ledger
    BY DEF Inv
  <1>2. Ledger' /\ Memory' /\ EntryTypes'
    BY <1>1, LedgerStep DEF Ledger
  <1>3. Places'
    BY <1>1, KnownPr, HostStep, SameTypes
  <1>4. Q!TypeOK'
    BY DEF Table, Queue!IInv, Queue!TypeOK, Q!TypeOK, Queue!Row, Q!Row, Queue!Status, Q!Status,
           Queue!Ids, Q!Ids, Queue!NoJob, Q!NoJob
  <1>5. TypeOK'
    BY <1>2, <1>3, <1>4 DEF TypeOK, Memory, Places, EntryTypes, At, Job
  <1> QED
    BY <1>2, <1>5, LabelledStep DEF Inv

\* A worker inside process_job works on the job it holds, and the steps it has
\* behind it are exactly the entries its delivery has.
THEOREM WorkerInvariant == Spec => [](Table /\ Inv)
  BY TableHolds, InvInit, InvStep, PTL DEF Spec

-----------------------------------------------------------------------------
(* What it says.                                                            *)

\* The stage of a delivery is the status of its one row.
LEMMA StageOfRow ==
    ASSUME Table
    PROVE  \A i : Row(i) => Stage(Of(i)) = jobs[i].status
  <1> SUFFICES ASSUME NEW i, Row(i) PROVE Stage(Of(i)) = jobs[i].status
    OBVIOUS
  <1> DEFINE j == CHOOSE n \in Q!Ids(jobs) : jobs[n].delivery = Of(i)
  <1>1. Q!Ids(jobs) = Queue!Ids(jobs)
    BY DEF Q!Ids, Queue!Ids
  <1>2. Q!Known(jobs, Of(i))
    BY <1>1 DEF Q!Known, Row, Of
  <1>3. Row(j) /\ Of(j) = Of(i)
    BY <1>1 DEF Row, Of
  <1>4. j = i
    BY <1>3, TableFacts
  <1> QED
    BY <1>2, <1>4 DEF Stage, Q!RowOf

\* A delivery with entries has its row, and the row is running or done.
LEMMA EntriesNeedRow ==
    ASSUME Table, Ledger, NEW d \in Deliveries, ~ Clean(d)
    PROVE  /\ Sane(d) /\ Stage(d) \in {"running", "done"}
           /\ Stage(d) = "done" => Recorded(d)
  <1>1. PICK i : Row(i) /\ Of(i) = d
    BY DEF Ledger, Unseen
  <1>2. Says(jobs[i].status, d)
    BY <1>1 DEF Ledger, InRow
  <1>3. jobs[i].status \in {"queued", "running", "done", "dead"}
    <2>1. Queue!TypeOK
      BY DEF Table, Queue!IInv
    <2>2. jobs[i] \in Queue!Row
      BY <1>1, <2>1, ElementOfSeq DEF Queue!TypeOK, Row, Queue!Ids
    <2> QED
      BY <2>2 DEF Queue!Row, Queue!Status
  <1>4. Sane(d) /\ jobs[i].status \in {"running", "done"}
    BY <1>2, <1>3 DEF Says, Sane
  <1> QED
    BY <1>1, <1>2, <1>4, StageOfRow DEF Says

\* Workers and job table agree, step by step, through crashes and lost answers.
THEOREM WorkersHoldTheirJobs == Spec => []WorkIsHeld
  <1>1. Table /\ Inv => WorkIsHeld
    <2> SUFFICES ASSUME Table, Inv, NEW w \in Workers
                 PROVE  CASE At(w, "idle") -> held[w] = 0
                          [] pc[w] \in {"dead_comment", "dead_label"} ->
                               held[w] = 0 /\ Stage(Delivery(w)) = "dead" /\ Delivery(w) \notin executed
                          [] OTHER -> held[w] = work[w].job /\ Stage(Delivery(w)) = "running"
      BY DEF WorkIsHeld
    <2>1. TypeOK /\ Ledger /\ Hands(w)
      BY DEF Inv, Ledger
    <2>2. CASE At(w, "idle")
      BY <2>1, <2>2 DEF At, Hands
    <2>3. CASE pc[w] \in Dying
      <3>1. /\ held[w] = 0 /\ Row(work[w].job) /\ jobs[work[w].job].status = "dead"
        BY <2>1, <2>3 DEF Hands
      <3>2. Delivery(w) = Of(work[w].job) /\ Delivery(w) \in Deliveries
        BY <3>1, TableFacts DEF Delivery, Of
      <3>3. Stage(Delivery(w)) = "dead"
        BY <3>1, <3>2, StageOfRow
      <3>4. Delivery(w) \notin executed
        BY <2>1, <3>1, <3>2 DEF Ledger, InRow, Says, Clean
      <3> QED
        BY <2>3, <3>1, <3>3, <3>4 DEF Dying, At
    <2>4. CASE pc[w] \in Before \cup Late
      <3>1. /\ held[w] = work[w].job /\ Row(held[w])
            /\ jobs[held[w]].status = "running" /\ Delivery(w) = Of(held[w])
        BY <2>1, <2>4, HandFacts
      <3>2. Stage(Delivery(w)) = "running"
        BY <3>1, StageOfRow
      <3> QED
        BY <2>4, <3>1, <3>2 DEF Before, Late, At
    <2> QED
      BY <2>1, <2>2, <2>3, <2>4 DEF TypeOK, Steps, Before, Late, Dying, At
  <1> QED
    BY <1>1, WorkerInvariant, PTL

\* An audited triage was billed or journaled, whatever failed on the way.
THEOREM AuditsAreMetered == Spec => []AuditedIsMetered
  <1>1. Table /\ Inv => AuditedIsMetered
    <2> SUFFICES ASSUME Table, Inv, NEW k \in DOMAIN audits
                 PROVE  billed[audits[k].delivery] + journal[audits[k].delivery] > 0
      BY DEF AuditedIsMetered
    <2>1. Ledger /\ EntryTypes
      BY DEF Inv, Ledger
    <2>2. audits[k] \in Audit
      BY <2>1, ElementOfSeq, LenProperties DEF EntryTypes
    <2>3. PICK d \in Deliveries : d = audits[k].delivery
      BY <2>2 DEF Audit
    <2>4. k \in AuditsOf(d)
      BY <2>3 DEF AuditsOf
    <2>5. ~ Clean(d)
      BY <2>4 DEF Clean
    <2>6. Sane(d)
      BY <2>1, <2>5, EntriesNeedRow
    <2>7. Recorded(d)
      BY <2>4, <2>6 DEF Sane, Clean, Owing, Metered
    <2> QED
      BY <2>3, <2>7 DEF Recorded
  <1> QED
    BY <1>1, WorkerInvariant, PTL

\* No retry, lost answer or restart meters, journals or audits a delivery twice,
\* nor takes an executed one back to the queue.
THEOREM ExecutedAtMostOnce == Spec => []ExecutedOnce
  <1>1. Table /\ Inv => ExecutedOnce
    <2> SUFFICES ASSUME Table, Inv, NEW d \in Deliveries
                 PROVE  /\ d \in executed \/ billed[d] + journal[d] > 0 \/ Audited(d)
                              => d \in executed /\ Stage(d) \in {"running", "done"}
                        /\ billed[d] <= 1 /\ journal[d] <= 1
                        /\ Cardinality(AuditsOf(d)) <= 1
      BY DEF ExecutedOnce
    <2>1. Ledger /\ EntryTypes
      BY DEF Inv, Ledger
    <2>2. Cardinality({}) = 0 /\ \A k : Cardinality({k}) = 1
      BY FS_EmptySet, FS_Singleton
    <2>3. CASE Clean(d)
      BY <2>2, <2>3 DEF Clean, Audited
    <2>4. CASE ~ Clean(d)
      <3>1. Sane(d) /\ Stage(d) \in {"running", "done"}
        BY <2>1, <2>4, EntriesNeedRow
      <3>2. d \in executed /\ billed[d] \in {0, 1} /\ journal[d] \in {0, 1}
        BY <2>4, <3>1 DEF Sane, Owing, Metered, Recorded
      <3>3. AuditsOf(d) = {} \/ \E k : AuditsOf(d) = {k}
        BY <2>4, <3>1 DEF Sane, Owing, Metered, Recorded
      <3>4. Cardinality(AuditsOf(d)) \in {0, 1}
        BY <2>2, <3>3
      <3> QED
        BY <3>1, <3>2, <3>4
    <2> QED
      BY <2>3, <2>4
  <1> QED
    BY <1>1, WorkerInvariant, PTL

\* An executed delivery whose job is done has its audit and its usage.
THEOREM DoneLeavesARecord == Spec => []DoneIsAudited
  <1>1. Table /\ Inv => DoneIsAudited
    <2> SUFFICES ASSUME Table, Inv, NEW d \in executed, Stage(d) = "done"
                 PROVE  Audited(d) /\ billed[d] + journal[d] > 0
      BY DEF DoneIsAudited
    <2>1. Ledger /\ d \in Deliveries
      BY DEF Inv, Ledger, EntryTypes
    <2>2. ~ Clean(d)
      BY DEF Clean
    <2>3. Recorded(d)
      BY <2>1, <2>2, EntriesNeedRow
    <2> QED
      BY <2>3 DEF Recorded, Audited
  <1> QED
    BY <1>1, WorkerInvariant, PTL

\* Every escalation on record is on its pull request as the label for a human.
THEOREM EscalationsAreVisible == Spec => []EscalationIsLabelled
  BY WorkerInvariant, PTL DEF Inv

\* TriageWorker's type invariant.
THEOREM WorkerTypeCorrect == Spec => []TypeOK
  BY WorkerInvariant, PTL DEF Inv

-----------------------------------------------------------------------------
(* One worker, as main spawns it: what it does is in the order of the table. *)

OneWorker == \A v, w \in Workers : v = w

\* A job that a worker has in hand was in its hand before, or it claims it now.
LEMMA JobKept ==
    ASSUME Table, TypeOK, Ledger, [Next]_vars, NEW w \in Workers, pc'[w] # "idle"
    PROVE  \/ ClaimJob(w)
           \/ pc[w] # "idle" /\ work'[w].job = work[w].job
  <1>1. pc \in [Workers -> Steps] /\ work \in [Workers -> Job]
    BY DEF TypeOK, Job
  <1>2. CASE UNCHANGED <<pc, work>>
    BY <1>2
  <1>3. ASSUME NEW v \in Workers,
               \/ CheckTriage(v) \/ QuotaComment(v) \/ LastTriagedAt(v)
               \/ Gather(v) \/ Decide(v) \/ PostComment(v)
        PROVE  pc[w] # "idle" /\ work'[w].job = work[w].job
    <2>1. Moves(v) /\ pc[v] \in Before /\ work'[v].job = work[v].job
      BY <1>3, EarlySteps
    <2> QED
      BY <2>1 DEF Moves, Before
  <1>4. ASSUME NEW v \in Workers,
               PostLabels(v) \/ TrackTriage(v) \/ Journal(v) \/ RecordAudit(v)
        PROVE  pc[w] # "idle" /\ work'[w].job = work[w].job
    <2>1. UNCHANGED work /\ \E a, b \in Steps \ {"idle"} : pc[v] = a /\ pc' = [pc EXCEPT ![v] = b]
      BY <1>4 DEF PostLabels, TrackTriage, Journal, RecordAudit, At, Goto, Steps
    <2> QED
      BY <1>1, <2>1
  <1>5. ASSUME NEW v \in Workers, pc[v] # "idle",
               \/ Forget(v)
               \/ (\E step \in Steps : Goto(v, step)) /\ UNCHANGED work
        PROVE  pc[w] # "idle" /\ work'[w].job = work[w].job
    BY <1>1, <1>5 DEF Forget, Goto
  <1>6. ASSUME NEW v \in Workers, CompleteJob(v) \/ FailJob(v) \/ DeadComment(v) \/ DeadLabel(v)
        PROVE  pc[w] # "idle" /\ work'[w].job = work[w].job
    BY <1>1, <1>5, <1>6 DEF CompleteJob, FailJob, DeadComment, DeadLabel, At, Steps
  <1>7. ASSUME NEW v \in Workers, StoreError(v) \/ Crash(v), v # w
        PROVE  pc[w] # "idle" /\ work'[w].job = work[w].job
    BY <1>1, <1>7 DEF StoreError, Crash, Forget, Goto
  <1>8. ASSUME StoreError(w) \/ Crash(w) PROVE FALSE
    BY <1>1, <1>8 DEF StoreError, Crash, Forget, Goto
  <1>9. ASSUME NEW v \in Workers, ClaimJob(v), v # w
        PROVE  pc[w] # "idle" /\ work'[w].job = work[w].job
    BY <1>1, <1>9 DEF ClaimJob, Goto
  <1>10. ASSUME \/ Tick \/ QuotaReset \/ (\E d \in Deliveries : Enqueue(d)) \/ UNCHANGED vars
                \/ \E v \in Workers : SelectJob(v) \/ ClaimError(v)
         PROVE  UNCHANGED <<pc, work>>
    BY <1>10 DEF Tick, QuotaReset, Enqueue, vars, SelectJob, ClaimError
  <1> QED
    BY <1>2, <1>3, <1>4, <1>6, <1>7, <1>8, <1>9, <1>10 DEF Next, ProcessJob

Tries(i) == jobs[i].attempts

\* With one worker, no row is passed over for a later one, and none is claimed again
\* before its retry is due.
InOrder ==
    /\ \A i : Row(i) /\ Tries(i) = 0 => Queue!Runnable(jobs, i, now)
    /\ \A i, j : Row(i) /\ Row(j) /\ Later(i, j) /\ Tries(i) # 0 => Tries(j) # 0
    /\ \A w \in Workers : locked[w] # 0 =>
         \A j : Row(j) /\ Later(locked[w], j) => Tries(j) # 0

LEMMA RowTypes ==
    ASSUME Table
    PROVE  /\ now \in Nat /\ Queue!TypeOK
           /\ \A i : Row(i) => /\ i \in Nat /\ i # 0 /\ Tries(i) \in Nat /\ jobs[i].runAfter \in Nat
                               /\ jobs[i].id \in Nat
                               /\ jobs[i].status \in {"queued", "running", "done", "dead"}
  <1>1. Queue!TypeOK
    BY DEF Table, Queue!IInv
  <1>2. \A i : Row(i) => jobs[i] \in Queue!Row /\ i \in Nat /\ i # 0
    BY <1>1, ElementOfSeq DEF Queue!TypeOK, Row, Queue!Ids
  <1> QED
    BY <1>1, <1>2 DEF Tries, Queue!Row, Queue!Status, Queue!TypeOK

\* The same rows with the same attempts; those that were due are due.
SameTries ==
    /\ Queue!Ids(jobs') = Queue!Ids(jobs)
    /\ \A i : Row(i) => /\ Tries(i)' = Tries(i)
                        /\ jobs'[i].id = jobs[i].id
                        /\ Tries(i) = 0 /\ Queue!Runnable(jobs, i, now)
                             => Queue!Runnable(jobs', i, now')

LEMMA SameTriesInOrder ==
    ASSUME Table, InOrder, SameTries,
           \A w \in Workers : locked'[w] # 0 => locked'[w] = locked[w]
    PROVE  InOrder'
  <1>1. \A i : Row(i)' <=> Row(i)
    BY DEF SameTries, Row
  <1>2. \A i, j : Row(i) /\ Row(j) => (Later(i, j)' <=> Later(i, j))
    BY DEF SameTries, Later
  <1>3. \A i : Row(i)' /\ Tries(i)' = 0 => Queue!Runnable(jobs, i, now)'
    BY <1>1 DEF InOrder, SameTries
  <1>4. \A i, j : Row(i)' /\ Row(j)' /\ Later(i, j)' /\ Tries(i)' # 0 => Tries(j)' # 0
    BY <1>1, <1>2 DEF InOrder, SameTries
  <1>5. ASSUME NEW w \in Workers, locked'[w] # 0, NEW j, Row(j)', Later(locked[w], j)'
        PROVE  Tries(j)' # 0
    <2>1. Row(locked'[w])
      BY <1>5, RowTypes DEF Queue!TypeOK, Queue!NoJob, Row
    <2>2. locked'[w] = locked[w]
      BY <1>5
    <2> QED
      BY <1>1, <1>2, <1>5, <2>1, <2>2 DEF InOrder, SameTries, Later
  <1> QED
    BY <1>3, <1>4, <1>5 DEF InOrder

\* What a statement on a row does to its attempts.
LEMMA ClaimTries ==
    ASSUME Table, NEW w \in Workers, Q!CommitClaim(w) \/ Q!LoseClaim(w)
    PROVE  /\ locked[w] # 0 /\ Row(locked[w]) /\ Queue!Ids(jobs') = Queue!Ids(jobs)
           /\ jobs'[locked[w]].attempts = Tries(locked[w]) + 1
           /\ jobs'[locked[w]].id = jobs[locked[w]].id
           /\ \A j : Row(j) /\ j # locked[w] => jobs'[j] = jobs[j]
           /\ now' = now /\ locked' = [locked EXCEPT ![w] = 0]
  <1>1. Queue!CommitClaim(w) \/ Queue!LoseClaim(w)
    BY SameActions
  <1>2. Queue!TypeOK /\ Queue!LockedIsRunnable
    BY DEF Table, Queue!IInv, Queue!Claims
  <1>3. /\ locked[w] \in Queue!Ids(jobs) /\ Queue!Ids(jobs') = Queue!Ids(jobs)
        /\ jobs'[locked[w]].attempts = jobs[locked[w]].attempts + 1
        /\ jobs'[locked[w]].id = jobs[locked[w]].id
        /\ \A j \in Queue!Ids(jobs) : j # locked[w] => jobs'[j] = jobs[j]
    BY <1>1, <1>2, Queue!ClaimStep, QueueAssumption
  <1>4. now' = now /\ locked' = [locked EXCEPT ![w] = 0] /\ locked[w] # 0 /\ locked'[w] = 0
    BY <1>1, <1>2 DEF Queue!CommitClaim, Queue!LoseClaim, Queue!NoJob, Queue!TypeOK
  <1> QED
    BY <1>3, <1>4 DEF Row, Tries

LEMMA SettleTries ==
    ASSUME Table, InOrder, NEW w \in Workers, Q!Complete(w) \/ Q!Fail(w)
    PROVE  SameTries /\ UNCHANGED <<now, locked>>
  <1>1. Queue!Complete(w) \/ Queue!Fail(w)
    BY SameActions
  <1>2. /\ held[w] \in Queue!Ids(jobs) /\ Queue!Ids(jobs') = Queue!Ids(jobs)
        /\ jobs'[held[w]].attempts = jobs[held[w]].attempts
        /\ jobs'[held[w]].id = jobs[held[w]].id
        /\ \A j \in Queue!Ids(jobs) : j # held[w] => jobs'[j] = jobs[j]
    BY <1>1, RowTypes, Queue!CompleteStep, Queue!FailStep, QueueAssumption
  <1>3. now' = now /\ locked' = locked /\ held[w] # 0
    BY <1>1 DEF Queue!Complete, Queue!Fail, Queue!NoJob
  <1>4. Tries(held[w]) # 0
    BY <1>2, <1>3, TableFacts DEF InOrder, Queue!Runnable, Row
  <1> QED
    BY <1>2, <1>3, <1>4 DEF SameTries, Tries, Row, Queue!Runnable

LEMMA OrderStep ==
    ASSUME OneWorker, Table, InOrder, [Next]_vars
    PROVE  InOrder'
  <1>1. [Q!Next]_queueVars
    <2>1. [Next]_vars => [Q!Next]_(Q!queueVars)
      BY QueueSteps
    <2> QED
      BY <2>1 DEF queueVars, Q!queueVars
  <1>2. /\ now \in Nat /\ DOMAIN locked = Workers
        /\ \A i : Row(i) => /\ i \in Nat /\ i # 0 /\ Tries(i) \in Nat
                            /\ jobs[i].runAfter \in Nat /\ jobs[i].id \in Nat
    BY RowTypes DEF Queue!TypeOK
  <1>3. CASE UNCHANGED queueVars
    BY <1>3, SameTriesInOrder DEF SameTries, Tries, Row, queueVars
  <1>4. CASE Q!Tick
    <2>1. now' = now + 1 /\ UNCHANGED <<jobs, locked>>
      BY <1>4 DEF Q!Tick
    <2>2. SameTries
      BY <1>2, <2>1 DEF SameTries, Tries, Row, Queue!Runnable
    <2> QED
      BY <2>1, <2>2, SameTriesInOrder
  <1>5. ASSUME NEW d \in Deliveries, Q!Enqueue(d) PROVE InOrder'
    <2>1. Queue!Enqueue(d) /\ UNCHANGED <<now, locked>>
      BY <1>5, SameActions DEF Q!Enqueue
    <2>2. CASE jobs' = jobs
      BY <2>1, <2>2, SameTriesInOrder DEF SameTries, Tries, Row
    <2>3. CASE jobs' # jobs
      <3>0. PICK n \in Nat : n = Len(jobs) + 1
        BY LenProperties, RowTypes DEF Queue!TypeOK
      <3>1. /\ Queue!Ids(jobs') = Queue!Ids(jobs) \cup {n} /\ n \notin Queue!Ids(jobs)
            /\ jobs'[n].status = "queued" /\ jobs'[n].attempts = 0 /\ jobs'[n].runAfter = now
            /\ \A j \in Queue!Ids(jobs) : jobs'[j] = jobs[j]
        BY <2>1, <2>3, <3>0, RowTypes, Queue!EnqueueStep, QueueAssumption
      <3>2. \A i : Row(i) => i < n
        BY <3>0, LenProperties, RowTypes DEF Queue!TypeOK, Row, Queue!Ids
      <3>3. \A w \in Workers : locked[w] # 0 => Row(locked[w])
        BY RowTypes DEF Queue!TypeOK, Row, Queue!NoJob
      <3>4. \A i : Row(i)' <=> Row(i) \/ i = n
        BY <3>1 DEF Row
      <3>5. \A i : Row(i) => Tries(i)' = Tries(i) /\ (Queue!Runnable(jobs, i, now) => Queue!Runnable(jobs, i, now)')
        BY <2>1, <3>1 DEF Tries, Row, Queue!Runnable
      <3>6. Tries(n)' = 0 /\ Queue!Runnable(jobs, n, now)'
        BY <1>2, <2>1, <3>1 DEF Tries, Queue!Runnable
      <3>7. \A i : Row(i)' /\ Tries(i)' = 0 => Queue!Runnable(jobs, i, now)'
        BY <3>4, <3>5, <3>6 DEF InOrder
      <3>10. \A i, j : Row(i) /\ Row(j) => (Later(i, j)' <=> Later(i, j))
        BY <3>1 DEF Later, Row
      <3>11. \A i : Row(i) => ~ Later(i, n)'
        BY <1>2, <3>0, <3>2 DEF Later
      <3>8. ASSUME NEW i, NEW j, Row(i)', Row(j)', Later(i, j)', Tries(i)' # 0
            PROVE  Tries(j)' # 0
        <4>1. i # n /\ Row(i)
          BY <3>4, <3>6, <3>8
        <4>2. j # n /\ Row(j)
          BY <3>4, <3>8, <3>11, <4>1
        <4> QED
          BY <3>5, <3>8, <3>10, <4>1, <4>2 DEF InOrder
      <3>9. ASSUME NEW w \in Workers, locked'[w] # 0,
                   NEW j, Row(j)', Later(locked[w], j)'
            PROVE  Tries(j)' # 0
        <4>1. PICK k \in Queue!Ids(jobs) : k = locked[w] /\ Row(k)
          BY <2>1, <3>3, <3>9 DEF Row
        <4>2. k = locked'[w] /\ Later(k, j)'
          BY <2>1, <3>9, <4>1 DEF Later
        <4>3. j # n /\ Row(j)
          BY <3>4, <3>9, <3>11, <4>1, <4>2
        <4> QED
          BY <2>1, <3>5, <3>9, <3>10, <4>1, <4>2, <4>3 DEF InOrder
      <3>12. \A w \in Workers : locked'[w] # 0 =>
                 \A j : Row(j)' /\ Later(locked[w], j)' => Tries(j)' # 0
        BY <3>9
      <3> QED
        BY <3>7, <3>8, <3>12 DEF InOrder
    <2> QED
      BY <2>2, <2>3
  <1>6. ASSUME NEW w \in Workers, Q!SelectForUpdate(w) PROVE InOrder'
    <2>1. PICK i \in Queue!Ids(jobs) :
             /\ \A j \in Queue!Ids(jobs) : Queue!Claimable(w, j) => jobs[i].id <= jobs[j].id
             /\ locked' = [locked EXCEPT ![w] = i]
             /\ UNCHANGED <<jobs, now>>
      BY <1>6, SameActions DEF Queue!SelectForUpdate
    <2>2. \A j : Row(j) /\ Queue!Runnable(jobs, j, now) => jobs[i].id <= jobs[j].id
      BY <2>1 DEF Row, Queue!Claimable, OneWorker
    <2>3. \A j : Row(j) /\ Later(i, j) => Tries(j) # 0
      BY <1>2, <2>1, <2>2 DEF InOrder, Row, Later
    <2>4. \A v \in Workers : locked'[v] = i
      BY <1>2, <2>1 DEF OneWorker
    <2> QED
      BY <2>1, <2>3, <2>4 DEF InOrder, Row, Tries, Later
  <1>7. ASSUME NEW w \in Workers, Q!RollbackClaim(w) \/ Q!Abandon(w) PROVE InOrder'
    <2>1. UNCHANGED <<jobs, now>> /\ (locked' = locked \/ locked' = [locked EXCEPT ![w] = 0])
      BY <1>7 DEF Q!RollbackClaim, Q!Abandon, Q!NoJob
    <2>2. SameTries
      BY <2>1 DEF SameTries, Tries, Row
    <2>3. \A v \in Workers : locked'[v] # 0 => locked'[v] = locked[v]
      BY <1>2, <2>1
    <2> QED
      BY <2>2, <2>3, SameTriesInOrder
  <1>8. ASSUME NEW w \in Workers, Q!Complete(w) \/ Q!Fail(w) PROVE InOrder'
    BY <1>8, SettleTries, SameTriesInOrder
  <1>9. ASSUME NEW w \in Workers, Q!CommitClaim(w) \/ Q!LoseClaim(w) PROVE InOrder'
    <2>1. PICK i \in Queue!Ids(jobs) : i = locked[w] /\ i # 0
      BY <1>9, ClaimTries DEF Row
    <2>2. /\ Queue!Ids(jobs') = Queue!Ids(jobs)
          /\ Tries(i)' = Tries(i) + 1 /\ jobs'[i].id = jobs[i].id
          /\ \A j : Row(j) /\ j # i => jobs'[j] = jobs[j]
          /\ now' = now /\ locked' = [locked EXCEPT ![w] = 0]
      BY <1>9, <2>1, ClaimTries DEF Tries
    <2>3. \A j : Row(j) /\ Later(i, j) => Tries(j) # 0
      BY <2>1 DEF InOrder
    <2>4. \A j : Row(j)' <=> Row(j)
      BY <2>2 DEF Row
    <2>5. \A j : Row(j) /\ j # i => /\ Tries(j)' = Tries(j)
                                    /\ Queue!Runnable(jobs, j, now)' <=> Queue!Runnable(jobs, j, now)
      BY <2>2 DEF Tries, Queue!Runnable
    <2>6. Tries(i)' # 0
      BY <1>2, <2>1, <2>2 DEF Row
    <2>7. \A v \in Workers : locked'[v] = 0
      BY <1>2, <2>2 DEF OneWorker
    <2>8. \A j : Row(j)' /\ Tries(j)' = 0 => Queue!Runnable(jobs, j, now)'
      BY <2>4, <2>5, <2>6 DEF InOrder
    <2>10. \A j, k : Row(j) /\ Row(k) => (Later(j, k)' <=> Later(j, k))
      BY <2>2 DEF Later, Row
    <2>9. \A j, k : Row(j)' /\ Row(k)' /\ Later(j, k)' /\ Tries(j)' # 0 => Tries(k)' # 0
      BY <2>3, <2>4, <2>5, <2>6, <2>10 DEF InOrder
    <2> QED
      BY <2>7, <2>8, <2>9 DEF InOrder
  <1> QED
    BY <1>1, <1>3, <1>4, <1>5, <1>6, <1>7, <1>8, <1>9 DEF Q!Next

\* Nothing counts an attempt but a claim.
LEMMA QuietTries ==
    ASSUME OneWorker, Table, InOrder, [Next]_vars, NEW w \in Workers, locked[w] = 0
    PROVE  /\ \A i : Row(i) => Tries(i)' = Tries(i)
           /\ \A i : Row(i)' /\ ~ Row(i) => Tries(i)' = 0
  <1>1. [Q!Next]_queueVars
    <2>1. [Next]_vars => [Q!Next]_(Q!queueVars)
      BY QueueSteps
    <2> QED
      BY <2>1 DEF queueVars, Q!queueVars
  <1>2. \A v \in Workers : ~ Q!CommitClaim(v) /\ ~ Q!LoseClaim(v)
    BY DEF OneWorker, Q!CommitClaim, Q!LoseClaim, Q!NoJob
  <1>3. CASE UNCHANGED jobs
    BY <1>3 DEF Row, Tries
  <1>4. ASSUME NEW d \in Deliveries, Q!Enqueue(d), jobs' # jobs
        PROVE  /\ \A i : Row(i) => Tries(i)' = Tries(i)
               /\ \A i : Row(i)' /\ ~ Row(i) => Tries(i)' = 0
    <2>1. Queue!Enqueue(d)
      BY <1>4, SameActions
    <2> QED
      BY <1>4, <2>1, RowTypes, Queue!EnqueueStep, QueueAssumption DEF Row, Tries
  <1>5. ASSUME NEW v \in Workers, Q!Complete(v) \/ Q!Fail(v) PROVE SameTries
    BY <1>5, SettleTries
  <1>6. SameTries => /\ \A i : Row(i) => Tries(i)' = Tries(i)
                     /\ \A i : Row(i)' => Row(i)
    BY DEF SameTries, Row
  <1>7. ASSUME \/ Q!Tick \/ UNCHANGED queueVars
               \/ \E v \in Workers : Q!SelectForUpdate(v) \/ Q!RollbackClaim(v) \/ Q!Abandon(v)
        PROVE  UNCHANGED jobs
    BY <1>7 DEF Q!Tick, queueVars, Q!SelectForUpdate, Q!RollbackClaim, Q!Abandon
  <1> QED
    BY <1>1, <1>2, <1>3, <1>4, <1>5, <1>6, <1>7 DEF Q!Next

\* A worker with a lock has no job; and the job it has in hand was passed over by no
\* later one, or has been tried before.
Retries ==
    \A w \in Workers :
        /\ locked[w] # 0 => pc[w] = "idle"
        /\ pc[w] # "idle" =>
             \A i : Row(i) /\ Later(i, work[w].job) /\ Tries(i) # 0 => Tries(work[w].job) > 1

\* Locks are taken by idle workers, and kept by them.
LEMMA LockedIdle ==
    ASSUME Table, TypeOK, Ledger, Retries, [Next]_vars, NEW w \in Workers, locked'[w] # 0
    PROVE  pc'[w] = "idle"
  <1>1. /\ pc \in [Workers -> Steps] /\ DOMAIN locked = Workers
        /\ work \in [Workers -> Job]
    BY RowTypes DEF TypeOK, Job, Queue!TypeOK
  <1>2. CASE locked[w] # 0 /\ pc[w] = "idle"
    <2>1. SUFFICES ASSUME pc'[w] # "idle" PROVE FALSE
      OBVIOUS
    <2>2. ClaimJob(w)
      BY <1>2, <2>1, JobKept
    <2>3. locked'[w] = 0
      BY <1>1, <2>2, ClaimTries DEF ClaimJob
    <2> QED
      BY <2>3
  <1>3. CASE locked[w] = 0
    <2>1. [Q!Next]_queueVars
      <3>1. [Next]_vars => [Q!Next]_(Q!queueVars)
        BY QueueSteps
      <3> QED
        BY <3>1 DEF queueVars, Q!queueVars
    <2>2. PICK v \in Workers : SelectJob(v) /\ locked'[w] # locked[w]
      <3>1. SUFFICES ASSUME \A v \in Workers : ~ SelectJob(v) PROVE FALSE
        BY <1>3
      <3>2. ASSUME NEW v \in Workers, Q!RollbackClaim(v) \/ Q!CommitClaim(v) \/ Q!LoseClaim(v)
            PROVE  locked'[w] = 0
        BY <1>1, <1>3, <3>2 DEF Q!RollbackClaim, Q!CommitClaim, Q!LoseClaim, Q!NoJob
      <3>3. ASSUME NEW v \in Workers, Q!Complete(v) \/ Q!Fail(v) \/ Q!Abandon(v)
            PROVE  locked'[w] = 0
        BY <1>3, <3>3 DEF Q!Complete, Q!Fail, Q!Abandon
      <3>4. CASE Tick \/ QuotaReset \/ (\E d \in Deliveries : Enqueue(d)) \/ UNCHANGED vars
        BY <1>3, <3>4 DEF Tick, QuotaReset, Enqueue, Q!Tick, Q!Enqueue, vars, queueVars
      <3>5. ASSUME NEW v \in Workers, ClaimJob(v) \/ ClaimError(v) \/ StoreError(v) \/ Crash(v)
            PROVE  locked'[w] = 0
        BY <1>3, <3>2, <3>3, <3>5 DEF ClaimJob, ClaimError, StoreError, Crash, queueVars
      <3>6. ASSUME NEW v \in Workers, ProcessJob(v) PROVE locked'[w] = 0
        BY <1>3, <3>3, <3>6
        DEF ProcessJob, CheckTriage, QuotaComment, LastTriagedAt, Gather, Decide,
            PostComment, PostLabels, TrackTriage, Journal, RecordAudit,
            CompleteJob, FailJob, DeadComment, DeadLabel, queueVars
      <3> QED
        BY <3>1, <3>4, <3>5, <3>6 DEF Next
    <2>3. v = w
      BY <1>1, <2>2 DEF SelectJob, Q!SelectForUpdate
    <2> QED
      BY <2>2, <2>3 DEF SelectJob, At
  <1> QED
    BY <1>2, <1>3 DEF Retries

LEMMA RetriesStep ==
    ASSUME OneWorker, Table, TypeOK, Ledger, InOrder, Retries, [Next]_vars
    PROVE  Retries'
  <1>1. \A w \in Workers : locked'[w] # 0 => pc'[w] = "idle"
    BY LockedIdle
  <1>2. ASSUME NEW w \in Workers, pc'[w] # "idle",
               NEW i, Row(i)', Later(i, work[w].job)', Tries(i)' # 0
        PROVE  jobs'[work'[w].job].attempts > 1
    <2>0. \A j : Row(j) => j \in Nat /\ j # 0 /\ Tries(j) \in Nat
      BY RowTypes
    <2>1. CASE ClaimJob(w)
      <3>1. PICK k \in Queue!Ids(jobs) : k = locked[w] /\ k # 0
        BY <2>1, ClaimTries DEF ClaimJob, Row
      <3>2. /\ Queue!Ids(jobs') = Queue!Ids(jobs) /\ Tries(k)' = Tries(k) + 1
            /\ \A j : Row(j) /\ j # k => jobs'[j] = jobs[j]
        BY <2>1, <3>1, ClaimTries DEF ClaimJob, Tries
      <3>6. \A j : Row(j) => jobs'[j].id = jobs[j].id
        BY <2>1, <3>1, ClaimTries DEF ClaimJob
      <3>3. work'[w].job = k
        BY <2>1, <3>1 DEF ClaimJob, TypeOK, NoWork
      <3>7. Row(i) /\ i # k /\ Later(i, k)
        BY <1>2, <2>0, <3>1, <3>2, <3>3, <3>6 DEF Row, Later
      <3>4. Row(i) /\ Tries(i) # 0 /\ Later(i, k)
        BY <1>2, <3>2, <3>7 DEF Tries
      <3>5. Tries(k) # 0
        BY <3>1, <3>4 DEF InOrder, Row
      <3> QED
        BY <2>0, <3>1, <3>2, <3>3, <3>5 DEF Row, Tries
    <2>2. CASE ~ ClaimJob(w)
      <3>1. pc[w] # "idle" /\ work'[w].job = work[w].job
        BY <1>2, <2>2, JobKept
      <3>2. Row(work[w].job)
        BY <3>1, KnownPr
      <3>3. PICK k \in Queue!Ids(jobs) : Row(k) /\ k = work[w].job
        BY <3>2 DEF Row
      <3>4. locked[w] = 0
        BY <3>1 DEF Retries
      <3>5. Row(i) => Tries(i)' = Tries(i) /\ Tries(k)' = Tries(k)
        BY <3>3, <3>4, QuietTries
      <3>8. Row(i) => jobs'[i].id = jobs[i].id /\ jobs'[k].id = jobs[k].id
        BY <3>3, RowsStay
      <3>9. Row(i) /\ Later(i, work[w].job)' => Later(i, k)
        BY <3>1, <3>3, <3>8 DEF Later
      <3>6. ~ Row(i) => Tries(i)' = 0
        BY <1>2, <3>4, QuietTries
      <3>7. Row(i) /\ Tries(i) # 0 /\ Tries(k)' = Tries(k)
        BY <1>2, <3>5, <3>6
      <3> QED
        BY <1>2, <3>1, <3>3, <3>7, <3>9 DEF Retries, Tries
    <2> QED
      BY <2>1, <2>2
  <1> QED
    BY <1>1, <1>2 DEF Retries, Tries

\* With one worker, the triage of an older push takes the place of a newer one's in
\* the sticky comment only as a retry.
THEOREM CommentsFollowPushes == OneWorker => (Spec => []CommentsAdvance)
  <1> SUFFICES ASSUME OneWorker PROVE Spec => []CommentsAdvance
    OBVIOUS
  <1>1. Init /\ Table => InOrder /\ Retries
    BY DEF Init, Q!Init, Q!NoJob, InOrder, Retries, Row, Queue!Ids
  <1>2. (Table /\ Inv) /\ (InOrder /\ Retries) /\ [Next]_vars => (InOrder /\ Retries)'
    BY OrderStep, RetriesStep DEF Inv
  <1>3. (Table /\ Inv) /\ (InOrder /\ Retries) => CommentsAdvance
    <2> SUFFICES ASSUME Table, Inv, InOrder, Retries, NEW w \in Workers, NEW i \in Q!Ids(jobs),
                        pc[w] \in {"comment", "quota_comment", "dead_comment"},
                        jobs[i].delivery \in executed, Later(i, work[w].job)
                 PROVE  jobs[work[w].job].attempts > 1
      BY DEF CommentsAdvance
    <2>1. Ledger /\ TypeOK
      BY DEF Inv
    <2>2. Row(i)
      BY DEF Row, Queue!Ids, Q!Ids
    <2>3. Of(i) \in Deliveries /\ InRow(i)
      BY <2>1, <2>2, TableFacts DEF Ledger
    <2>4. jobs[i].status # "queued"
      BY <2>3 DEF InRow, Says, Clean, Of
    <2>5. Tries(i) # 0
      BY <2>2, <2>4 DEF InOrder, Queue!Runnable
    <2> QED
      BY <2>2, <2>5 DEF Retries, Tries
  <1>4. Spec => [](InOrder /\ Retries)
    <2>1. Init /\ Table /\ [](Table /\ Inv) /\ [][Next]_vars => [](InOrder /\ Retries)
      BY <1>1, <1>2, PTL
    <2> QED
      BY <2>1, TableHolds, WorkerInvariant, PTL DEF Spec
  <1> QED
    BY <1>3, <1>4, WorkerInvariant, PTL

-----------------------------------------------------------------------------
(* The cooldown.                                                            *)

\* From the look at the cooldown to the audit.
Asked == { "decide", "comment", "labels", "track_triage", "journal", "audit" }

\* The audits are in the past, and a pull request that has some has a latest one.
AuditsInPast == \A p \in PullRequests : \A t \in AuditTimes(p) : t \in Nat /\ t <= now
HaveLatest   == \A p \in PullRequests :
                    AuditTimes(p) = {} \/ \E t \in AuditTimes(p) : \A u \in AuditTimes(p) : u <= t

\* What the worker read as the last triage is the last triage, until it audits; and a
\* push it goes on with came long enough after every triage.
ReadsLatest ==
    \A w \in Workers : pc[w] = "gather" =>
        \A u \in AuditTimes(Pr(w)) : \E t \in work[w].last : u <= t
Cooled ==
    \A w \in Workers :
        pc[w] \in Asked /\ TriggerOf[Delivery(w)] = "synchronized" =>
            \A u \in AuditTimes(Pr(w)) : now - u >= Cooldown

Cool == AuditsInPast /\ HaveLatest /\ ReadsLatest /\ Cooled /\ CooldownRespected

\* A worker past the cooldown was there before, or looks at it now.
LEMMA AskedOrigin ==
    ASSUME TypeOK, [Next]_vars, NEW w \in Workers, pc'[w] \in {"gather"} \cup Asked
    PROVE  \/ pc[w] \in Asked /\ pc'[w] \in Asked
           \/ Gather(w) /\ pc'[w] = "decide"
           \/ pc[w] = "gather" /\ pc'[w] = "gather" /\ work'[w] = work[w]
           \/ LastTriagedAt(w) /\ pc'[w] = "gather"
  <1> USE DEF Asked, At, Goto
  <1>1. pc \in [Workers -> Steps] /\ work \in [Workers -> Job]
    BY DEF TypeOK, Job
  <1>2. CASE UNCHANGED <<pc, work>>
    BY <1>2
  <1>3. ASSUME NEW v \in Workers, v # w,
               SelectJob(v) \/ ClaimJob(v) \/ ClaimError(v) \/ ProcessJob(v) \/ StoreError(v) \/ Crash(v)
        PROVE  pc'[w] = pc[w] /\ work'[w] = work[w]
    BY <1>1, <1>3
    DEF SelectJob, ClaimJob, ClaimError, ProcessJob, StoreError, Crash, CheckTriage,
        QuotaComment, LastTriagedAt, Gather, Decide, PostComment, PostLabels, TrackTriage,
        Journal, RecordAudit, CompleteJob, FailJob, DeadComment, DeadLabel, Forget
  <1>4. CASE CheckTriage(w) \/ QuotaComment(w) \/ CompleteJob(w) \/ FailJob(w) \/ DeadComment(w)
             \/ DeadLabel(w) \/ ClaimJob(w) \/ StoreError(w) \/ Crash(w)
    <2>1. \E step \in Steps \ ({"gather"} \cup Asked) : pc' = [pc EXCEPT ![w] = step]
      BY <1>4 DEF CheckTriage, QuotaComment, CompleteJob, FailJob, DeadComment, DeadLabel,
                  ClaimJob, StoreError, Crash, Forget, Steps
    <2> QED
      BY <1>1, <2>1
  <1>5. CASE Decide(w) \/ PostComment(w) \/ PostLabels(w) \/ TrackTriage(w) \/ Journal(w) \/ RecordAudit(w)
    BY <1>1, <1>5 DEF Decide, PostComment, PostLabels, TrackTriage, Journal, RecordAudit
  <1>6. CASE Gather(w) \/ LastTriagedAt(w)
    BY <1>1, <1>6 DEF Gather, LastTriagedAt
  <1>7. ASSUME \/ Tick \/ QuotaReset \/ (\E d \in Deliveries : Enqueue(d)) \/ UNCHANGED vars
               \/ SelectJob(w) \/ ClaimError(w)
        PROVE  UNCHANGED <<pc, work>>
    BY <1>7 DEF Tick, QuotaReset, Enqueue, vars, SelectJob, ClaimError
  <1>8. ASSUME pc'[w] = pc[w], work'[w] = work[w]
        PROVE  \/ pc[w] \in Asked /\ pc'[w] \in Asked
               \/ pc[w] = "gather" /\ pc'[w] = "gather" /\ work'[w] = work[w]
    BY <1>8
  <1>9. ASSUME NEW v \in Workers,
               SelectJob(v) \/ ClaimJob(v) \/ ClaimError(v) \/ ProcessJob(v) \/ StoreError(v) \/ Crash(v)
        PROVE  \/ v # w
               \/ SelectJob(w) \/ ClaimJob(w) \/ ClaimError(w) \/ ProcessJob(w) \/ StoreError(w) \/ Crash(w)
    BY <1>9
  <1> QED
    BY <1>3, <1>4, <1>5, <1>6, <1>7, <1>8, <1>9 DEF Next, ProcessJob

\* The clock never goes back.
LEMMA ClockRuns == [Next]_vars /\ Table => now' >= now /\ now \in Nat /\ now' \in Nat
  <1> SUFFICES ASSUME [Next]_vars, Table PROVE now' >= now /\ now \in Nat /\ now' \in Nat
    OBVIOUS
  <1>1. [Q!Next]_queueVars
    <2>1. [Next]_vars => [Q!Next]_(Q!queueVars)
      BY QueueSteps
    <2> QED
      BY <2>1 DEF queueVars, Q!queueVars
  <1>2. now \in Nat
    BY RowTypes
  <1> QED
    BY <1>1, <1>2
    DEF Q!Next, Q!Tick, Q!Enqueue, Q!SelectForUpdate, Q!CommitClaim, Q!RollbackClaim,
        Q!LoseClaim, Q!Complete, Q!Fail, Q!Abandon, queueVars

\* What an audit adds to the times of a pull request.
LEMMA TimesGrow ==
    ASSUME audits \in Seq(Audit), NEW a \in Audit, audits' = Append(audits, a)
    PROVE  /\ \A p : AuditTimes(p)' = AuditTimes(p) \cup (IF PrOf[a.delivery] = p THEN {a.at} ELSE {})
           /\ DOMAIN audits = 1 .. Len(audits) /\ Len(audits) \in Nat
           /\ DOMAIN audits' = 1 .. (Len(audits) + 1)
           /\ \A k \in DOMAIN audits : audits'[k] = audits[k]
           /\ audits'[Len(audits) + 1] = a
  <1> DEFINE n == Len(audits)
  <1>1. /\ n \in Nat /\ DOMAIN audits = 1 .. n
        /\ DOMAIN audits' = 1 .. (n + 1)
        /\ \A k \in 1 .. n : audits'[k] = audits[k]
        /\ audits'[n + 1] = a
    BY AppendProperties, LenProperties
  <1> HIDE DEF n
  <1>2. ASSUME NEW p
        PROVE  AuditTimes(p)' = AuditTimes(p) \cup (IF PrOf[a.delivery] = p THEN {a.at} ELSE {})
    BY <1>1 DEF AuditTimes
  <1> QED
    BY <1>1, <1>2 DEF n

\* Time since an earlier triage is no less, and grows.
LEMMA LaterIsCooler ==
    ASSUME NEW s \in Nat, NEW t \in Nat, NEW u \in Nat, NEW v \in Nat, NEW c \in Nat,
           s <= t, u <= v, ~ (u - t < c)
    PROVE  v - s >= c
  OBVIOUS

LEMMA CoolStep ==
    ASSUME OneWorker, Table, Inv, Cool, [Next]_vars
    PROVE  Cool'
  <1> USE DEF Cool
  <1>1. TypeOK /\ Ledger /\ EntryTypes
    BY DEF Inv, Ledger
  <1>2. now' >= now /\ now \in Nat /\ now' \in Nat
    BY ClockRuns
  <1>3. \A w \in Workers : pc[w] # "idle" =>
             /\ Row(work[w].job) /\ Delivery(w) \in Deliveries /\ Pr(w) \in PullRequests
    BY <1>1, KnownPr
  <1>4. ASSUME NEW w \in Workers, pc[w] # "idle", work'[w].job = work[w].job
        PROVE  Delivery(w)' = Delivery(w) /\ Pr(w)' = Pr(w)
    BY <1>3, <1>4, RowsStay DEF Pr, Delivery, Of
  <1>5. CASE UNCHANGED audits
    <2>1. \A p : AuditTimes(p)' = AuditTimes(p)
      BY <1>5 DEF AuditTimes
    <2>2. AuditsInPast' /\ HaveLatest' /\ CooldownRespected'
      BY <1>2, <1>5, <2>1 DEF AuditsInPast, HaveLatest, CooldownRespected
    <2>3. ASSUME NEW w \in Workers, pc'[w] = "gather",
                 NEW u \in AuditTimes(Pr(w)')
          PROVE  \E t \in work'[w].last : u <= t
      <3>1. \/ pc[w] = "gather" /\ work'[w] = work[w]
            \/ LastTriagedAt(w)
        BY <1>1, <2>3, AskedOrigin DEF Asked, Gather
      <3>2. CASE pc[w] = "gather" /\ work'[w] = work[w]
        <4>1. Pr(w)' = Pr(w)
          BY <1>4, <3>2
        <4> QED
          BY <2>3, <3>2, <4>1 DEF ReadsLatest
      <3>3. CASE LastTriagedAt(w)
        <4>1. /\ pc[w] = "last_triaged_at" /\ UNCHANGED jobs
              /\ work'[w].last = { t \in AuditTimes(Pr(w)) : \A x \in AuditTimes(Pr(w)) : x <= t }
              /\ work'[w].job = work[w].job
          <5>1. LastTriagedAt(w) => work'[w].job = work[w].job
            BY <1>1, EarlySteps
          <5>2. work \in [Workers -> Job]
            BY <1>1 DEF TypeOK, Job
          <5>3. work'[w].last = { t \in AuditTimes(Pr(w)) : \A x \in AuditTimes(Pr(w)) : x <= t }
            BY <3>3, <5>2 DEF LastTriagedAt, Job
          <5> QED
            BY <3>3, <5>1, <5>3 DEF LastTriagedAt, At, queueVars
        <4>2. Pr(w)' = Pr(w) /\ Pr(w) \in PullRequests
          BY <1>3, <1>4, <4>1
        <4>3. PICK t \in AuditTimes(Pr(w)) : \A x \in AuditTimes(Pr(w)) : x <= t
          BY <2>3, <4>2 DEF HaveLatest
        <4> QED
          BY <2>3, <4>1, <4>2, <4>3
      <3> QED
        BY <3>1, <3>2, <3>3
    <2>4. ReadsLatest'
      BY <2>1, <2>3 DEF ReadsLatest
    <2>5. ASSUME NEW w \in Workers, pc'[w] \in Asked, TriggerOf[Delivery(w)'] = "synchronized",
                 NEW u \in AuditTimes(Pr(w)')
          PROVE  now' - u >= Cooldown
      <3>1. pc[w] \in Asked \/ (Gather(w) /\ pc'[w] = "decide")
        BY <1>1, <2>5, AskedOrigin DEF Asked
      <3>2. pc[w] # "idle" /\ ~ ClaimJob(w)
        <4>1. ClaimJob(w) => pc'[w] = "check_triage"
          BY <1>1 DEF ClaimJob, Goto, TypeOK
        <4> QED
          BY <2>5, <3>1, <4>1 DEF Asked, Gather, At
      <3>3. work'[w].job = work[w].job
        BY <1>1, <2>5, <3>2, JobKept DEF Asked
      <3>4. Delivery(w)' = Delivery(w) /\ Pr(w)' = Pr(w) /\ Pr(w) \in PullRequests
        BY <1>3, <1>4, <3>2, <3>3
      <3>5. u \in Nat /\ u <= now
        BY <2>5, <3>4 DEF AuditsInPast
      <3>6. CASE pc[w] \in Asked
        <4>1. now - u >= Cooldown
          BY <2>5, <3>4, <3>6 DEF Cooled
        <4> QED
          <5>1. PICK x \in Nat : x = u
            BY <3>5
          <5>2. x <= x /\ now <= now' /\ ~ (now - x < Cooldown)
            BY <1>2, <4>1, <5>1, CooldownAssumption
          <5> QED
            BY <1>2, <5>1, <5>2, LaterIsCooler, CooldownAssumption
      <3>7. CASE Gather(w) /\ pc'[w] = "decide"
        <4>1. pc[w] = "gather" /\ ~ WithinCooldown(w)
          <5>1. pc \in [Workers -> Steps]
            BY <1>1 DEF TypeOK
          <5> QED
            BY <2>5, <3>4, <3>7, <5>1 DEF Gather, At, Goto
        <4>2. PICK t \in work[w].last : u <= t
          BY <2>5, <3>4, <4>1 DEF ReadsLatest
        <4>3. t \in Nat
          BY <1>1, <4>2 DEF TypeOK
        <4>4. ~ (now - t < Cooldown)
          BY <4>1, <4>2 DEF WithinCooldown
        <4> QED
          BY <1>2, <3>5, <4>2, <4>3, <4>4, LaterIsCooler, CooldownAssumption
      <3> QED
        BY <3>1, <3>6, <3>7
    <2>6. Cooled'
      BY <2>1, <2>5 DEF Cooled
    <2> QED
      BY <2>2, <2>4, <2>6
  <1>6. ASSUME NEW w \in Workers, pc[w] = "audit", pc'[w] \in {"complete", "idle"},
               audits' = Append(audits, NewAudit(w))
        PROVE  Cool'
    <2>1. NewAudit(w) \in Audit
      BY <1>1, <1>2, <1>3, <1>6 DEF NewAudit, Audit, TypeOK
    <2>2. PICK a \in Audit : a = NewAudit(w) /\ a.at = now /\ a.delivery = Delivery(w)
      BY <2>1 DEF NewAudit
    <2> DEFINE n == Len(audits)
    <2>3. /\ \A p : AuditTimes(p)' = AuditTimes(p) \cup (IF PrOf[a.delivery] = p THEN {a.at} ELSE {})
          /\ DOMAIN audits = 1 .. n /\ n \in Nat /\ DOMAIN audits' = 1 .. (n + 1)
          /\ \A k \in DOMAIN audits : audits'[k] = audits[k]
          /\ audits'[n + 1] = a
      BY <1>1, <1>6, <2>2, TimesGrow DEF EntryTypes
    <2> HIDE DEF n
    <2>4. AuditsInPast'
      BY <1>2, <2>2, <2>3 DEF AuditsInPast
    <2>5. HaveLatest'
      BY <1>2, <2>2, <2>3 DEF AuditsInPast, HaveLatest
    <2>6. ReadsLatest' /\ Cooled'
      BY <1>6 DEF OneWorker, ReadsLatest, Cooled, Asked
    <2>7. ASSUME NEW l \in DOMAIN audits', NEW k \in DOMAIN audits', l < k,
                 PrOf[audits'[l].delivery] = PrOf[audits'[k].delivery],
                 TriggerOf[audits'[k].delivery] = "synchronized"
          PROVE  audits'[k].at - audits'[l].at >= Cooldown
      <3>1. CASE k \in DOMAIN audits
        <4>1. l \in DOMAIN audits
          BY <2>3, <2>7, <3>1
        <4> QED
          BY <2>3, <2>7, <3>1, <4>1 DEF CooldownRespected
      <3>2. CASE k = n + 1
        <4>1. l \in DOMAIN audits /\ audits'[l] = audits[l] /\ audits'[k] = a
          BY <2>3, <2>7, <3>2
        <4>2. audits[l].at \in AuditTimes(Pr(w))
          BY <2>2, <2>7, <4>1 DEF AuditTimes, Pr
        <4>3. TriggerOf[Delivery(w)] = "synchronized"
          BY <2>2, <2>7, <4>1
        <4>4. now - audits[l].at >= Cooldown
          BY <1>6, <4>2, <4>3 DEF Cooled, Asked
        <4> QED
          BY <2>2, <4>1, <4>4
      <3> QED
        BY <2>3, <2>7, <3>1, <3>2
    <2>8. CooldownRespected'
      BY <2>7 DEF CooldownRespected
    <2> QED
      BY <2>4, <2>5, <2>6, <2>8
  <1> QED
    BY <1>1, <1>5, <1>6, AuditsGrow

\* With one worker, a push is triaged no sooner than the cooldown after every triage
\* of its pull request that is on record, whatever fails in between.
THEOREM CooldownIsKept == OneWorker => (Spec => []CooldownRespected)
  <1> SUFFICES ASSUME OneWorker PROVE Spec => []CooldownRespected
    OBVIOUS
  <1>1. Init => Cool
    <2> SUFFICES ASSUME Init PROVE Cool
      OBVIOUS
    <2>1. audits = << >> /\ DOMAIN audits = {} /\ \A p : AuditTimes(p) = {}
      BY DEF Init, AuditTimes
    <2> QED
      BY <2>1 DEF Init, Cool, AuditsInPast, HaveLatest, ReadsLatest, Cooled, Asked, CooldownRespected
  <1>2. (Table /\ Inv) /\ Cool /\ [Next]_vars => Cool'
    BY CoolStep
  <1>3. Spec => []Cool
    BY <1>1, <1>2, WorkerInvariant, PTL DEF Spec
  <1>4. Cool => CooldownRespected
    BY DEF Cool
  <1> QED
    BY <1>3, <1>4, PTL

=============================================================================
