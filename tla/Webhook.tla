------------------------------- MODULE Webhook ------------------------------
(***************************************************************************)
(* The webhook route of scaffold-server: github_webhook verifies a         *)
(* delivery, and either enqueues a triage job or onboards an installation  *)
(* and reports its repositories to the billing gate.                       *)
(*                                                                         *)
(* The job table is module JobTable, the billing gate is AutumnBilling     *)
(* with the request handlers as its callers.  GitHub is external: it sends *)
(* a delivery, waits for the answer, gives up after 10 s, and sends again  *)
(* what it holds for failed ("Non-2xx so GitHub redelivers"), and what an  *)
(* operator has it replay.  A handler whose client has gone either runs on *)
(* or is dropped at the call it was waiting for.                           *)
(***************************************************************************)
EXTENDS JobTable, Integers, FiniteSets, FiniteSetsExt

CONSTANTS
    Handlers,      \* requests served at a time
    EventOf,       \* EventOf[d]: the request of delivery d
    MaxSends,      \* bound on the attempts of a delivery
    Replayed,      \* bound on the deliveries an operator may replay
    Customers, Features, Limit, Values, Misconfigured, MaxFaults, MaxUnits

ASSUME SendsAssumption == MaxSends \in Nat
ASSUME NameAssumption == "none" \notin Deliveries
ASSUME EventAssumption ==
    \A d \in Deliveries :
        /\ EventOf[d].signed \in BOOLEAN /\ EventOf[d].hasId \in BOOLEAN
        /\ EventOf[d].customer \in Customers
        /\ EventOf[d].added \in Nat /\ EventOf[d].removed \in Nat
\* Those of the billing gate.
ASSUME BillingAssumption ==
    /\ Limit \in [Features -> Nat]
    /\ Values \subseteq Int /\ MaxUnits \in Nat
    /\ Misconfigured \subseteq Features /\ MaxFaults \in Nat

VARIABLES
    jobs,                                     \* the table triage_jobs
    customers, usage, call, faults, trace,    \* the billing gate: AutumnBilling
    pc,         \* pc[h]: where handler h is
    serves,     \* serves[h]: the delivery it serves
    status,     \* status[h]: the status code it will answer
    waiting,    \* waiting[h]: its client is still there
    sends,      \* sends[d]: attempts of delivery d
    answered    \* answered[d]: what GitHub knows of its last attempt of d;
                \* "failed" also when it was asked for another one

billingVars == <<customers, usage, call, faults, trace>>
githubVars  == <<sends, answered>>
vars == <<jobs, billingVars, pc, serves, status, waiting, githubVars>>

B == INSTANCE AutumnBilling WITH Callers <- Handlers

Places == {"idle", "enqueue", "ensure", "ensuring", "track", "tracking", "reply"}

At(h, place) == pc[h] = place
Goto(h, place) == pc' = [pc EXCEPT ![h] = place]

Event(h) == EventOf[serves[h]]

-----------------------------------------------------------------------------
(* What a request asks for.                                                *)

\* Mutant: pushes are dropped, as a misspelt action would have it.
TriggerSynchronized(e) == e.action \in {"opened", "reopened", "synchronized"}

\* PullRequestEvent::trigger
Trigger(e) == e.action \in {"opened", "reopened", "synchronize"}

\* Mutant: an uninstalled app keeps its repositories.
DeltaKeeping(e) ==
    CASE e.kind = "installation" /\ e.action = "created" -> e.added
      [] e.kind = "installation_repositories" -> e.added - e.removed
      [] OTHER -> 0

\* The repositories to report: `repositories` of an installation that comes or
\* goes, or the difference of the two lists of installation_repositories.
Delta(e) ==
    CASE e.kind = "installation" /\ e.action = "created" -> e.added
      [] e.kind = "installation" /\ e.action = "deleted" -> - e.removed
      [] e.kind = "installation_repositories" -> e.added - e.removed
      [] OTHER -> 0

\* verify_signature over the raw body, and a delivery id.
Accepts(e) == e.signed /\ e.hasId

\* Where github_webhook goes with a request: the first call it waits for, or
\* straight to the answer.
Dispatch(e) ==
    CASE ~ Accepts(e) \/ ~ e.parses -> "reply"
      [] Accepts(e) /\ e.parses /\ e.kind = "pull_request" /\ Trigger(e) -> "enqueue"
      [] Accepts(e) /\ e.parses /\ e.kind = "installation" /\ e.action = "created" -> "ensure"
      [] OTHER -> IF Delta(e) # 0 THEN "track" ELSE "reply"

\* The status when it answers at once; an unparseable installation is ignored.
StatusAtOnce(e) ==
    CASE ~ e.signed -> 401
      [] e.signed /\ (~ e.hasId \/ (~ e.parses /\ e.kind = "pull_request")) -> 400
      [] OTHER -> 200

-----------------------------------------------------------------------------

Init ==
    /\ jobs = << >>
    /\ B!Init
    /\ pc = [h \in Handlers |-> "idle"]
    /\ serves = [h \in Handlers |-> "none"]
    /\ status = [h \in Handlers |-> 0]
    /\ waiting = [h \in Handlers |-> FALSE]
    /\ sends = [d \in Deliveries |-> 0]
    /\ answered = [d \in Deliveries |-> "none"]

\* GitHub sends a delivery, or sends one again that failed or is replayed.
Receive(h, d) ==
    /\ At(h, "idle")
    /\ answered[d] \in {"none", "failed"}
    /\ sends[d] < MaxSends
    /\ sends' = [sends EXCEPT ![d] = @ + 1]
    /\ answered' = [answered EXCEPT ![d] = "pending"]
    /\ serves' = [serves EXCEPT ![h] = d]
    /\ waiting' = [waiting EXCEPT ![h] = TRUE]
    /\ Goto(h, Dispatch(EventOf[d]))
    /\ status' = [status EXCEPT ![h] =
                     IF Dispatch(EventOf[d]) = "reply" THEN StatusAtOnce(EventOf[d]) ELSE 0]
    /\ UNCHANGED <<jobs, billingVars>>

Answer(h, code) == Goto(h, "reply") /\ status' = [status EXCEPT ![h] = code]

\* A statement of the store fails, before or after it took effect.
StoreFault ==
    /\ faults < MaxFaults
    /\ faults' = faults + 1
    /\ UNCHANGED <<customers, usage, call, trace>>

\* check_webhook --redeliver: a delivery that was acknowledged is sent again.
\* (Counted, and bounded, with the failures.)
Redeliver(d) ==
    /\ d \in Replayed /\ answered[d] = "ok"
    /\ StoreFault
    /\ answered' = [answered EXCEPT ![d] = "failed"]
    /\ UNCHANGED <<jobs, pc, serves, status, waiting, sends>>

\* The tables that the INSERT of delivery d may lead to.
Inserted(d) == { EnqueueJob(jobs, d, 0, id) : id \in FreeIds(jobs) }

\* Mutant: the error is logged and the delivery acknowledged.
EnqueueAcked(h) ==
    /\ At(h, "enqueue")
    /\ \/ /\ jobs' \in Inserted(serves[h])
          /\ Answer(h, IF Known(jobs, serves[h]) THEN 200 ELSE 202)
          /\ UNCHANGED billingVars
       \/ Answer(h, 200) /\ StoreFault /\ UNCHANGED jobs
    /\ UNCHANGED <<serves, waiting, githubVars>>

\* handle_pull_request: 202 for a new job, 200 for a duplicate, 500 when the
\* store fails.
Enqueue(h) ==
    /\ At(h, "enqueue")
    /\ \/ /\ jobs' \in Inserted(serves[h])
          /\ Answer(h, IF Known(jobs, serves[h]) THEN 200 ELSE 202)
          /\ UNCHANGED billingVars
       \/ /\ jobs' \in {jobs} \cup Inserted(serves[h])
          /\ Answer(h, 500)
          /\ StoreFault
    /\ UNCHANGED <<serves, waiting, githubVars>>

EnsureCustomer(h) ==
    /\ At(h, "ensure")
    /\ B!Request(h, "ensure", Event(h).customer, "repos", 0)
    /\ Goto(h, "ensuring")
    /\ UNCHANGED <<jobs, serves, status, waiting, githubVars>>

\* An error of ensure_customer is logged; the repositories are reported all
\* the same.
Ensured(h) ==
    /\ At(h, "ensuring")
    /\ B!Return(h)
    /\ IF Delta(Event(h)) # 0
         THEN Goto(h, "track") /\ UNCHANGED status
         ELSE Answer(h, 200)
    /\ UNCHANGED <<jobs, serves, waiting, githubVars>>

TrackRepo(h) ==
    /\ At(h, "track")
    /\ B!Request(h, "track", Event(h).customer, "repos", Delta(Event(h)))
    /\ Goto(h, "tracking")
    /\ UNCHANGED <<jobs, serves, status, waiting, githubVars>>

\* An error of track_repo is logged.
Tracked(h) ==
    /\ At(h, "tracking")
    /\ B!Return(h)
    /\ Answer(h, 200)
    /\ UNCHANGED <<jobs, serves, waiting, githubVars>>

\* A request of the billing gate is answered.
Billing(h) ==
    /\ B!Answer(h)
    /\ UNCHANGED <<jobs, pc, serves, status, waiting, githubVars>>

Forget(h) ==
    /\ Goto(h, "idle")
    /\ serves' = [serves EXCEPT ![h] = "none"]
    /\ status' = [status EXCEPT ![h] = 0]
    /\ waiting' = [waiting EXCEPT ![h] = FALSE]

Success(code) == code \in 200 .. 299

\* The answer reaches GitHub, unless nobody waits for it.
Reply(h) ==
    /\ At(h, "reply")
    /\ answered' = IF waiting[h]
                     THEN [answered EXCEPT ![serves[h]] =
                             IF Success(status[h]) THEN "ok" ELSE "failed"]
                     ELSE answered
    /\ Forget(h)
    /\ UNCHANGED <<jobs, billingVars, sends>>

\* GitHub gives up on the request, or the connection breaks.
GiveUp(h) ==
    /\ waiting[h]
    /\ StoreFault
    /\ answered' = [answered EXCEPT ![serves[h]] = "failed"]
    /\ waiting' = [waiting EXCEPT ![h] = FALSE]
    /\ UNCHANGED <<jobs, pc, serves, status, sends>>

\* The handler is dropped with the connection; what it has under way may still
\* take effect.
Drop(h) ==
    /\ pc[h] # "idle" /\ ~ waiting[h]
    /\ IF B!Open(h) THEN B!Cancel(h)
       ELSE IF call[h] # B!NoCall THEN B!Return(h) ELSE UNCHANGED billingVars
    /\ jobs' \in {jobs} \cup (IF At(h, "enqueue") THEN Inserted(serves[h]) ELSE {})
    /\ Forget(h)
    /\ UNCHANGED githubVars

Progress(h) ==
    \/ Enqueue(h) \/ EnsureCustomer(h) \/ Ensured(h) \/ TrackRepo(h) \/ Tracked(h)
    \/ Billing(h) \/ Reply(h)

Next ==
    \/ \E h \in Handlers :
         \/ \E d \in Deliveries : Receive(h, d)
         \/ Progress(h) \/ GiveUp(h) \/ Drop(h)
    \/ \E d \in Deliveries : Redeliver(d)

Spec == Init /\ [][Next]_vars

\* Requests are served, calls are answered, and GitHub sends again what it
\* holds for failed (the comment at routes.rs, "Non-2xx so GitHub redelivers").
Fairness ==
    /\ \A h \in Handlers : WF_vars(Progress(h))
    /\ \A d \in Deliveries : WF_vars(\E h \in Handlers : Receive(h, d))

FairSpec == Spec /\ Fairness

-----------------------------------------------------------------------------

ToTriage(d) ==
    LET e == EventOf[d] IN
    /\ e.signed /\ e.hasId /\ e.parses
    /\ e.kind = "pull_request"
    /\ e.action \in {"opened", "reopened", "synchronize"}

\* Type invariant.
TypeOK ==
    /\ jobs \in Seq(Row)
    /\ B!TypeOK
    /\ pc \in [Handlers -> Places]
    /\ serves \in [Handlers -> Deliveries \cup {"none"}]
    /\ status \in [Handlers -> {0, 200, 202, 400, 401, 500}]
    /\ waiting \in [Handlers -> BOOLEAN]
    /\ sends \in [Deliveries -> 0 .. MaxSends]
    /\ answered \in [Deliveries -> {"none", "pending", "ok", "failed"}]
    /\ \A h \in Handlers : /\ At(h, "idle") <=> serves[h] = "none"
                           /\ call[h] # B!NoCall <=> pc[h] \in {"ensuring", "tracking"}

\* A delivery that GitHub takes for delivered has its job in the table: one row,
\* however often it was sent or replayed, though two attempts of it may be served
\* at once and a process may end half way through one.
AckedIsQueued ==
    /\ \A d \in Deliveries : ToTriage(d) /\ answered[d] = "ok" => Known(jobs, d)
    /\ \A i, j \in Ids(jobs) : jobs[i].delivery = jobs[j].delivery => i = j
    /\ \A i \in Ids(jobs) : ToTriage(jobs[i].delivery)

\* What GitHub reports about the repositories of customer c.
RepoEvents(c) ==
    { d \in Deliveries : /\ EventOf[d].signed /\ EventOf[d].customer = c
                         /\ EventOf[d].kind \in {"installation", "installation_repositories"} }

\* All of it was acknowledged, and nothing is under way any more.
Delivered(c) ==
    /\ \A d \in RepoEvents(c) : answered[d] = "ok"
    /\ \A h \in Handlers : At(h, "idle")

\* The sum of n[d] over the elements d of S.
SumOf(n, S) == MapThenSumSet(LAMBDA d : n[d], S)

EverEnabled(c) == SumOf([d \in Deliveries |-> EventOf[d].added], RepoEvents(c))
EverRemoved(c) == SumOf([d \in Deliveries |-> EventOf[d].removed], RepoEvents(c))

MostRepos == Max({ EventOf[d].added + EventOf[d].removed : d \in Deliveries })

\* In whatever order the events of an installation are served, the reported
\* number of repositories ends where the events lead, but for one event counted
\* too often or too rarely per failure on the way, and one counted once more per
\* replay of an acknowledged delivery (the route remembers none of these events).
DriftIsExplained ==
    \A c \in Customers :
        Delivered(c) =>
            LET drift == usage[c]["repos"] - (EverEnabled(c) - EverRemoved(c)) IN
            /\ drift <= faults * MostRepos
            /\ - drift <= faults * MostRepos

\* routes.rs on onboarding: "the create is an idempotent upsert, so webhook
\* retries are harmless".  Then no customer is ever charged with more
\* repositories than it has enabled.
RetriesAreHarmless == \A c \in Customers : usage[c]["repos"] <= EverEnabled(c)

\* Every delivery to be triaged is queued in the end, as long as GitHub sends
\* again what was not acknowledged.
EventuallyQueued == \A d \in Deliveries : ToTriage(d) => <>Known(jobs, d)

=============================================================================
