# scaffold-ai in TLA+

This directory models scaffold-ai, a GitHub App that triages pull requests: the
process and its start, the webhook route, the job queue in Postgres and the one in
memory, the worker, the agent, the metering and the clients of the three services
it calls. TLC checks the models on small instances; TLAPS proves every safety
property of the passing runs and the refinements, but for one under fairness, for every
value of the constants.

    tlc -config MCJobQueue.cfg MCJobQueue      # one of the runs listed below
    tlapm JobQueueProofs.tla                   # the proofs

Paths such as `worker.rs:60` are files of the crate that has one of that name;
`agent`, `autumn`, `github` and `anthropic lib.rs` are the `lib.rs` of those
crates, `pg.rs` is in `scaffold-store`.

## 1. Inventory

### Parts, state and operations

| Part | Source | State it keeps | Operations |
|---|---|---|---|
| Webhook route | `routes.rs`, `webhook.rs` | none between requests | `github_webhook`, `handle_pull_request`, `handle_installation`, `handle_installation_repos` |
| Job queue | `pg.rs:42-129`, `triage_jobs` | one row per delivery: status, attempts, run_after | `enqueue_job`, `claim_next_job`, `complete_job`, `fail_job` |
| Audit trail | `pg.rs:131-165`, `triage_audit` | one row per executed triage | `record_audit`, `last_triaged_at` |
| Usage journal | `pg.rs:167-221`, `untracked_usage` | units not yet tracked | `journal_untracked_usage`, `drain_untracked_usage`, `mark_usage_tracked` |
| Worker | `worker.rs:25-121` | the job in hand | `run_worker`, `process_job`, `degrade_to_escalation` |
| Retracker | `worker.rs:124-150` | the batch in hand | `run_usage_retracker` |
| Agent | `agent lib.rs`, `policy.rs` | one run's config, snapshot, classification, decision | `run`, `load_config`, `act`, `check`, `resolve_decision` |
| Model client | `anthropic lib.rs` | the attempt counter of a call | `classify`, `decide` through `structured` |
| GitHub client | `github lib.rs` | tokens (in octocrab) | `fetch_snapshot`, `fetch_repo_config`, `upsert_triage_comment`, `add_labels`, `request_reviewers` |
| Billing client | `autumn lib.rs` | none | `check_*`, `track_*`, `ensure_customer`, `attach` |
| In-memory store | `memory.rs` | the three tables, under one mutex | those of the store; used by tests |
| Start-up | `main.rs`, `config.rs`, `state.rs` | configuration | `ServerConfig::load`, connect, `GithubHost::new`, spawns one worker and one retracker, binds, serves the route |
| Diagnostics | `bin/*.rs` | none | scripts run by hand |

The provider's usage counters, the pull request (its head, sticky comment, labels,
reviewers), GitHub's record of which deliveries were answered and the environment
the process starts in are state outside the repository that its correctness is
about.

### How they interact

GitHub posts a delivery to the route, which writes a row of `triage_jobs`. A
worker polls the table, claims a row, asks the billing gate, reads the last
audit, runs the agent (which calls model and GitHub), tracks the unit at the
provider or journals it, writes the audit and completes the row; an error of the
agent goes to `fail_job`, and the last one to a comment and a label. The
retracker empties the journal. Installation events go from the route to the
billing gate. Everything between parts is either a table or an awaited call;
there is no shared memory but the connection pool.

### What is hard

* **Interleaving**: handlers, workers and retrackers of several processes on the
  same rows and the same customer; two claims of one row.
* **Crashes and lost answers** between any two awaits: nothing spans the agent's
  writes, the provider and the tables.
* **Redelivery**: GitHub sends a delivery again when it was answered late or with
  an error, also when it was in fact served; and anybody may replay any delivery by
  hand (`check_webhook --redeliver`), also one that was acknowledged.
* **Two orders of the rows**: a BIGSERIAL id is drawn when an insert begins, the row is
  seen when it commits.
* **Four requests, one snapshot**: the author pushes while the pull request is read;
  long diffs are cut twice, by the host and by the prompt.
* **Start and restart**: what a failed start reports, what a dead process leaves.
* **Retries with delay**: the queue's linear backoff, the client's retry-after,
  the billing client's self-heal.
* **Fail-open billing**: outage, lag and misconfiguration must not block a triage
  and must not lose or double its unit.

### What makes each part correct

| Part | Properties |
|---|---|
| Route | what GitHub holds for delivered is queued, once, and nothing else is; repositories reported drift by no more than the failures and the replays; deliveries are queued in the end |
| Start-up | one report for what `load` checks, a later start of its own for each value it passes on unchecked; an operator who corrects what a start reported never sees a problem twice |
| Queue | one row per delivery; exclusive claims; bounded attempts, spaced; settled rows stay settled; every delivery settles |
| In-memory store | mirrors the queue in Postgres, but for the backoff |
| Worker | executed once; metered before audited; done means audited; dead means visible; cooldown kept; comments advance in the order of the rows, where the two orders agree |
| Metering | nothing dropped silently; errors explained by faults; overrun bounded; the journal keeps only rows of customers the provider refuses, and rows behind one |
| Billing client | a track records once; what fails open has a reason; the self-heal ends |
| Agent | what is not flagged is confident; the reason given for a flag is true, but for one case (section 5); what is flagged is visible; checks are monotone |
| Model client | all attempts used; a retry-after in whole seconds honoured |
| Snapshot | the answers it is made of are in order, its checks are of its head; a cut is told |
| Sticky comment | one of them; never stale |

`PROJECT.json` lists the hazards behind these properties, each at its line.

## 2. Modules

    JobTable ─┬─ JobQueue ─┬─ TriageStore ── InMemoryStore     JobLifecycle (abstract)
              │            └─ TriageWorker
              └─ Webhook ── AutumnBilling                       BillingGate (abstract)
                    └─ Server
    StickyComment ── GithubHost         UsageMetering
    TriageDecision ── TriageAgent ── AnthropicClient            AgentRun (abstract)

Theorems are in JobQueueProofs, InMemoryStoreProofs, TriageWorkerProofs,
ServerProofs, AutumnBillingProofs, UsageMeteringProofs, GithubHostProofs and
TriageAgentProofs.

* **JobTable**: the table `triage_jobs` as a sequence of rows, and the statements
  of `pg.rs` on it as operators. The sequence is the order in which rows become
  visible. A row's `id` is another order, since it is drawn when the INSERT begins: a new
  row gets any id that is free, up to `MaxAhead` beyond the number of rows, and may so
  show after rows with higher ids. Claims go by id (`pg.rs:71`). Shared by the queue and
  the route, so that both insert by the same definition.
* **JobQueue**: the table with the claims of any number of workers. The claim is
  one SQL statement, but two of them overlap in Postgres; `SelectForUpdate` takes
  the row lock and `CommitClaim` commits, with other statements in between. A
  claim may roll back, or commit and lose its answer (`LoseClaim`). What a worker
  does with a job is left open: `Complete`, `Fail` or `Abandon`.
* **InMemoryStore**: `memory.rs`, four vectors behind one mutex. Taking the mutex
  for a claim and the claim are two steps; the other operations are one each. The end
  of the module maps its state to that of JobQueue: a backoff of zero, a clock that
  stands still, the mutex in the place of the row lock.
* **TriageStore**: either store, as `AppState` holds one: the choice is made once, at
  the start, so one state space has the behaviours of both.
* **JobLifecycle**: what the queue promises about one delivery: unseen, queued,
  running, then done, queued again, or dead after the last attempt.
* **TriageWorker**: `run_worker` and `process_job`, one action per await. It is
  composed with JobQueue on the same variables: each of its steps that touches
  the table is an action of the queue. The host (comment, labels), the plan and
  the language model's outcome are as the worker sees them. `Faults` says which
  calls may fail: `"host"` and `"store"` fail before or after their effect,
  `"crash"` ends the process between two calls.
* **UsageMetering**: the two tasks that meter, `process_job` from check to journal
  and `run_usage_retracker`, against a provider that goes down and comes back.
  The agent in between is left out; the fault budget `MaxSlips` is per triage, so
  that a property can say which error is explained by which fault. A triage has at most
  one row in the journal, at a `place` in the order of the ids, which need not be the
  order of the inserts. The provider refuses the usage of the customers in `Rejected`;
  a batch ends at the first row it cannot track (`worker.rs:146`).
* **BillingGate**: the contract of the trait: a check answers once and never with
  an error, a track that succeeds records once and one that fails at most once.
* **AutumnBilling**: `check_feature`, `track_feature` and
  `ensure_customer_exists` of the HTTP client as requests with one or two
  self-healing detours, by several tasks on one customer; shown to implement
  BillingGate.
* **Webhook**: the route with its handlers; the table is JobTable, the gate is an
  instance of AutumnBilling with the handlers as its callers. GitHub sends,
  gives up, and sends again; a handler whose client has gone runs on or is
  dropped at its await. `Redeliver` is the replay by hand of an acknowledged delivery;
  replays are counted, and bounded, with the failures.
* **Server**: the process around the route. A start goes through the checks of
  `ServerConfig::load`, the connection (a database URL may be set and lead nowhere), the
  GitHub client and the address, in any environment; what fails is reported, the
  operator corrects it and no more, and the process is started again. `Crash` ends it with all its handlers; what they had under
  way may still take effect.
* **StickyComment**: `upsert_triage_comment` as list, then update or create, with
  other people's comments and deletions in between and pages of the listing.
* **GithubHost**: `fetch_snapshot` before it, four requests to a pull request that is
  pushed to between any two of them, with the two cuts of the diff and the note that
  `render_snapshot` writes.
* **TriageDecision**: the pure rules: configuration defaults, policy checks,
  confidence checks, resolution of the decision, labels and comment. Confidences
  are tenths or NaN; a glob is the set of paths it matches or invalid.
* **AnthropicClient**: the retry loop of one typed model call.
* **TriageAgent**: `run` from configuration to `act`, both model calls being calls
  of an instance of AnthropicClient. Shown to implement **AgentRun**, the view of
  a run that TriageWorker has (gather, decide, comment, labels).
* **...Proofs**: the theorems of section 4, each module about the one it is named after
  (GithubHostProofs about StickyComment too, ServerProofs about Webhook).
* **MC...**: instances for TLC. They define the values of constants and nothing
  that the models replace.

Definitions headed "Mutant:" are plausible wrong versions of the definition that
follows them. No specification uses them; `PROJECT.json` names, for every
property, the mutant that breaks it.

### Correspondence

Variables are named after what they model; ghosts are marked "ghost" where they
are declared and are read by no guard, but for the fault budgets `lost`, `faults`
and `slips`, which bound how often the environment misbehaves. Actions bear the
name of the function, or of the call an `await` waits for; an error returned with
`?` is the second disjunct of the call's action or, in TriageWorker, `StoreError`.
`PROJECT.json`, `"map"`, has the lines of every definition.

## 3. Runs

All runs are exhaustive for their instance. Every `TypeOK` is proved (section 4), and
`queue_safety` checks the one of JobQueue; what Server and GithubHost add to the modules
they extend is typed by the invariants of their proofs (`StartInv`, `HostInv`). The other
cfgs leave them out for properties that say more: add `TypeOK` under INVARIANTS after a
change to a module.

| Run | Instance | Shows |
|---|---|---|
| `queue_safety` | either store; 2 deliveries, 2 workers, 3 attempts, clock 6, 1 abandoned job | the queue's invariants, finality of settled rows, refinement of JobLifecycle; the store in memory mirrors the queue |
| `workers_faults` | 2 deliveries of one pull request, 2 workers, all faults, 1 abandoned job | executed once, metered before audited, done is audited, escalations labelled, workers and table agree |
| `worker_live` | 1 worker, 2 deliveries, no faults but those of model and plan | every delivery settles, dead jobs surface, cooldown kept, only a retry writes over the triage of a later row, JobQueue's fairness is provided |
| `metering` | 3 triages of a customer and 1 of another, whose usage is refused; 2 in progress, 1 retracker, batches of 2, 1 outage, 1 fault per triage | accounting, errors explained by faults, bounded overrun, the journal keeps only refused rows and rows behind one |
| `billing` | 2 tasks, 1 customer, 2 features, 2 failed requests | self-heal records once and ends, calls fail open for a reason only, BillingGate is implemented |
| `webhook` | a start in any environment, 2 handlers, 5 deliveries sent twice, 1 failure of store, provider, connection or process, or 1 replay | one report for what `load` checks, one start for each thing it does not; acknowledged is queued, once, and nothing else; drift is explained; queued in the end |
| `sticky` | 1 writer, 2 pushes, 3 texts, 2 comments of people on pages of 3, 2 deletions, 2 failed requests | snapshots are coherent, cuts are told, one sticky comment, never stale |
| `agent` | 5 configurations, 192 pull requests, all confidences around the thresholds, 3 attempts | flags are justified, escalations visible, checks monotone, retries no sooner than asked in whole seconds, AgentRun is implemented |
| `worker_job_lost` | 1 delivery, crash | **violated**: the job of a worker that died stays `running` for ever |
| `worker_quota_comment` | 1 delivery, quota comes back | **violated**: the quota comment is not replaced |
| `webhook_retry` | 1 installation event sent twice, no replay | **violated**: its repositories are counted twice |
| `sticky_page` | comments before the sticky one fill a page | **violated**: a second sticky comment |

### Findings

Each run marked "violated" checks one statement of the repository against what
the code does; `PROJECT.json`, `"findings"`, quotes the statement.

1. README.md:51-55 promises that failures surface "instead of being silently
   dropped". `claim_next_job` selects `queued` rows only and nothing resets a
   `running` one, so a job whose worker is gone is dropped silently
   (`worker_job_lost`).
2. `worker.rs:12-13` promises that the quota comment is "replaced by a real triage
   comment once quota is available again"; the job is completed and nothing
   triages the pull request until the next push (`worker_quota_comment`).
3. `routes.rs:107-110` calls webhook retries harmless; the upsert is, the
   `track_repo` after it is not (`webhook_retry`).
4. `traits.rs:41` speaks of "the single sticky triage comment"; the client searches
   the first page of comments only (`sticky_page`).

Some statements hold only under conditions the runs state, and are recorded as hazards
with a note: DeadJobSurfaces (no crash between `fail_job` and the comment), that an
executed triage is audited (no store fault after the agent has acted: `DoneIsAudited`
is what remains with one), CooldownRespected (one worker), CommentsAdvance (one worker,
and a later row is one with a higher id that also became visible later: of two rows
that were inserted at the same time either may be claimed first), JournalDrains (no
refused row in front), DriftIsExplained (a replayed installation event counts once
more), RetryAfterHonoured (whole seconds), OneRoundOfFixes (a start for each of the
values `load` does not look at), `OneSticky` (one writer, few comments;
`StickyPerWriter` is what remains with several),
one unit per triage (no lost answers, one
retracker per database), and the mirror of the Postgres store (no backoff).

### Bounds, and why they are enough

* **Two** of what runs concurrently (workers, handlers, tasks). Each conflict in
  this code is between two statements on one row, one customer or one pull
  request. The theorems of section 4 hold for any number, where they do not say one.
* **Two deliveries of one pull request**, opened and then pushed to, are the least
  for cooldown, metering and comments to interact.
* `queue_safety` has the code's three attempts and a clock of 6, the time by which
  the last attempt is due at the earliest (1 + 2, with slack for late claims).
  `workers_faults` and `worker_live` have 2 attempts: one retry and one death.
* **Fault budgets** (`MaxLost`, `MaxFaults`, `MaxSlips`, `MaxOutages`) of one or
  two: enough for a fault, its retry, and a fault of the retry where the code
  treats that differently (`billing`).
* `metering` has more triages than a batch holds and than are in progress, so the
  journal is drained in several batches while triages go on. The one triage of the
  refused customer may have any place among the rows: before, between or after those of
  the other, also inserted late in front of them.
* `MaxAhead` is 2 where the order of the ids matters (`queue_safety`, `workers_faults`,
  `worker_live`, `metering`): with it two rows can show in either order, with gaps. It is 1
  in the runs of one row or that claim none.
* `webhook` sends each delivery twice, so the second attempt overlaps the first. Every
  event but the forged one may be replayed; a replay takes one of the sends and the one
  fault of the instance. `webhook_retry` has no replays, since the retry it shows is
  GitHub's own.
* It counts a crash as one fault per handler that is busy, and a delivery that
  reaches no process as one. Refused deliveries are modelled once the environment is
  sound: before the first start that serves there is nothing they can race with.
* `sticky` scales the client's numbers down and keeps their order: pages of 3 comments
  and 2 files (GitHub's have 30), budgets of 7 bytes for the host and 4 for the prompt
  (300 and 120 thousand), characters of at most 2 bytes (4). Its three revisions have a
  diff below both budgets, one between them and one above both, and fewer and more
  files than a page. A push outside a fetch is one before its first request.
  With one writer `OneSticky` is `StickyPerWriter`, which is a theorem for any number.
  (With two, an instance with one revision, one deletion and one failed request has
  1.2 million states; replace `Writers` in the cfg, and `OneSticky` and `NoStaleText`,
  which a second writer breaks, by `StickyPerWriter`.)
* `agent` has confidences -1, 0, 6, 7, 10 and 11 tenths, around both ends of the
  range and the threshold 7; thresholds 0, 7, 10 and nan. Its retry-after headers are
  absent, 0, 3 seconds, and one that is no whole number.

Runs that end by themselves (a finite number of deliveries, triages or steps)
say `CHECK_DEADLOCK FALSE` and why; the others check deadlock.

### Fairness

Weak fairness of a call means it is answered in the end, by the service or by an
error. The HTTP clients set no timeouts, so this is an assumption on services and
network, stated where it is used. `run_worker` and `run_usage_retracker` never
leave their loops, so their polling is weakly fair; committing a claim is strongly
fair, since another worker's lock may make it wait again and again, but a database
that rolls back every claim of one worker for ever is excluded. Outages end and
the quota resets (external, weakly fair); `Retrack` and `Mark` are strongly fair
because a crash can interrupt each batch but not all of them. GitHub's redelivery
of failed deliveries is what `routes.rs:96` relies on. That a process which ended is
started again, and that an operator reads what a failed start said, are assumptions on
the deployment; no restart is assumed to find the job a dead worker held. JobQueue's
assumption that a held job is completed or failed is not taken on trust: `worker_live`
checks `ImplementsFairQueue`, that `process_job` provides it.

## 4. Proofs

Assumptions: the named ASSUMEs of the modules (types of the constants, `PageSize` and
the attempts positive, a character no longer than a budget, a value for "none" that is
none of the others, names of problems that differ) and, where a theorem needs more, a condition in its statement. Sets
of deliveries, workers, handlers, callers, customers, triages, revisions,
configurations and pull requests are arbitrary, and so are the clock and the number of
faults.

| Module | Theorem | Says |
|---|---|---|
| JobQueueProofs | `TypeCorrect` | type invariant |
| | `ClaimsAreExclusive`, `RunningJobsAreAccounted` | exclusive claims, locked rows stay due, running rows are exactly those held or abandoned |
| | `DeliveriesAreUnique` | one row per delivery |
| | `AttemptsAreBounded` | at most `MaxJobAttempts` claims, dead only then |
| | `AttemptsAreSpaced` | the waits add up: `BackoffUnit * k (k - 1) / 2` before attempt k |
| | `SettledForEver` | no step changes a done or dead row |
| | `QueueImplementsLifecycle` | the queue implements JobLifecycle |
| InMemoryStoreProofs | `MemoryTypeCorrect` | type invariant |
| | `MemoryMirrorsPostgres` | the store in memory implements JobQueue with no backoff |
| TriageWorkerProofs | `WorkerTypeCorrect`, `WorkersImplementQueue` | type invariant; every step is one of JobQueue or leaves it alone |
| | `WorkersClaimExclusively`, `WorkersHoldTheirJobs` | workers and table agree |
| | `AuditsAreMetered`, `ExecutedAtMostOnce`, `DoneLeavesARecord`, `EscalationsAreVisible` | the four safety invariants of `workers_faults` |
| | `CooldownIsKept`, `CommentsFollowPushes` | those of `worker_live`, for one worker; the second for rows whose ids and visibility agree on which is later |
| UsageMeteringProofs | `MeteringTypeCorrect`, `UsageIsAccounted` | nothing that was metered is lost |
| | `ErrorsHaveTheirFaults` | with one retracker, every error has its fault |
| | `OverrunIsExplained` | with one retracker, a customer's quota is overrun by no more than the other triages in progress, the journaled ones and the faults |
| AutumnBillingProofs | `BillingTypeCorrect`, `TracksRecordOnce`, `FailuresHaveAReason` | the invariants of `billing` |
| | `GateIsImplemented` | the client implements BillingGate, if 0 and 1 are among the values it may be asked for |
| ServerProofs | `AcknowledgedIsQueued` | what GitHub holds for delivered is queued once, and nothing else is |
| | `StartsReportAtOnce` | nothing corrected comes back; variables not set and a wrong app id come in one report; database URL, RSA key, base URL and bind address in later starts of their own |
| | `WebhookTypeCorrect` | type invariant of the route and of the billing client in it |
| | `GateHoldsInTheProcess` | the two invariants of `billing` hold of the handlers too, which are dropped in the middle of a call and end with the process |
| | `DriftFollowsFailures` | the reported repositories end where the events lead, but for one event per failure and per replay |
| GithubHostProofs | `SnapshotsAreCoherent`, `TruncationIsAlwaysTold` | the two properties of the snapshot |
| | `StickyCommentIsSingle`, `StickyTextIsCurrent` | with one writer and fewer comments of people than a page holds: one comment, never stale |
| | `StickyCommentPerWriter` | with any number of writers and the same page: no more comments than writers (`StickyPerWriter`) |
| | `CommentTypeCorrect` | type invariant; only a triage comment is ever updated |
| TriageAgentProofs | `AgentTypeCorrect` | type invariant |
| | `RetriesAreHonoured` | no attempt earlier than asked in whole seconds, none left unused |
| | `FlagsAreJustified` | what is not flagged is confident; a reason shown is the model's own or true, but for "below the threshold" when only the model flags and gives none |
| | `EscalationsAreShown` | a completed escalation has its comment, which mentions the maintainers, and its label |
| | `PolicyChecksAreMonotone` | more checks, less description, a conflict, fewer other files and more files that are no tests take no finding away |
| | `AgentImplementsRun` | the agent implements AgentRun, which TriageWorker takes it for |

The conditions on their number are the program's: `main.rs` spawns one worker and one
retracker. Few comments on a pull request are not its doing: `sticky_page` is what
happens otherwise. Two theorems are about totals, and assume that what is added up is
finite: the triages, and the deliveries and requests; `StickyCommentPerWriter` counts
writers, and assumes that they are finitely many. `DriftFollowsFailures` also assumes
(`DriftAssumptions`) that the feature `repos` exists in Autumn's dashboard, since an
answer `feature_not_found` records nothing and is no failure of the model, and that
installation events are what GitHub sends: they parse, one that comes removes nothing,
one that goes adds nothing, and any other action (`suspend`) changes nothing. The route
answers 200 to an installation event that does not parse, and would drift without a
failure.

### The inductive invariants

**Queue.** `ExclusiveClaim` alone is not inductive: that the UPDATE of a claim moves
no row under another worker needs that the locked row is still queued
(`LockedIsRunnable`), and that in turn that no worker holds a queued row
(`RunningIsAccounted`). Their conjunction, `Claims`, with `TypeOK`, is. Uniqueness,
budget, spacing and finality are then each inductive relative to it. The lemmas are in
two layers: what each statement does to the table (`ClaimJobRow`, ...), then what each
action does to the row it names (`ClaimStep`, ...), so that the invariant proofs never
expand a record. Spacing needs the one piece of arithmetic, `BackoffSum`. For the
lifecycle, each action is one row's, and with `UniqueDelivery` a row is a delivery.

**Store in memory.** The refinement mapping gives every stored job the row of a job
that was due from the beginning, and takes the job that the mutex is about to hand out
for the locked row. `TypeOK` and that the first queued job is the one the claim finds
are all it needs.

**Worker.** `WorkersImplementQueue` goes by the actions: each is an action of the queue
on the shared variables or leaves them unchanged, so the queue's invariants hold
(`Table`). The rest is about one delivery at a time: a ledger of what is written about
it. It goes from `Clean` (nothing) over `Ran`, `Owing` and `Metered` to `Recorded`
(executed, metered, audited); `Hands` says that a worker in `process_job` holds its
row, `InStep` that the place it is at tells the state of the ledger, `InRow` that the
row's status does once nobody holds it. `Frame` is the lemma that a step on one row
leaves the ledgers of the others alone. `Labelled` adds what the labels of a decision
still to be audited are.

With one worker, `InOrder` says that a row never tried is due, and that of two rows one
of which is later by its id and also became visible later (`Later`), the earlier was
tried first: the claim goes by id, and the later one was not there before the earlier.
Of rows that became visible against the order of their ids nothing is said. `Retries`
says that the job in hand, if a later one was tried, is at least at its second attempt.
For the cooldown, `Cool` says that what the worker read is the latest audit as long as
it has not audited itself, and that a push past the check came long enough after every
audit.

**Metering.** `AccountInv` says that a row that is marked, or about to be, was billed,
and that a triage has a row only once it has come to the journal (`RowsAreOwn`); for the
errors, `BudgetInv` bounds what was billed for a triage by the slips it has had and one
unit more, and without that unit while its row is still to be paid. `OneRetracker`
enters there: two batches may hold the same row. A batch holds rows still to be tracked
(`BatchIsPending`), so an insert, which can go before rows of a batch, changes neither
the batch nor which of its rows is next (`NextRowKept`). The overrun is a bound
on a set: of a customer's triages, those that are billed without a row in the journal,
or still may be (`Direct`), number at most the quota and the other workers
(`DirectIsBounded`). Only a check adds to them, and it does so when the customer's usage
is below the quota. What else was billed has a row, or slipped (`Budget`). Units are
counted as pairs of a triage and a number, so that all of this is about the cardinality
of finite sets and none of it about sums.

**Billing client.** The place of a call tells how far it can have got (`trace`); after
a self-heal its customer exists, and customers are never removed, so that the second
request does not fail for the same reason. A call maps to unasked, asked and answered,
its one step in the abstract being that of the request that takes effect.

**Route and process.** A handler past the enqueue has its row (`HandlersInv`), a
delivery answered with success had such a handler, and rows stay (`WebhookInv`). For
the start, `StartInv` says which problems an environment can no longer have once they
were reported and corrected (`Gone`), and what a report leaves in order (`Past`): one
other than that of a malformed .env, every required variable and the app id; one of a
value in `Late`, all that `load` checks.

The drift is accounted per event. `Account` says that the usage of a customer is the sum
of a `u[d]` for each of its events d, that `u[d]` is off its target by at most `b[d]`,
and that the sum of the `b[d]` is at most one event's worth per failure. The target is
the event's difference once GitHub holds it for delivered or the handler it waits for
has recorded it (`Settled`), and 0 before. What makes this inductive is that every handler
that may still record d although GitHub has given up on it (`Strays`) is paid for in
advance, by the failure that parted them, and that a replay, which takes the target back
to 0 while the unit stays, is paid for as a failure is: when the stray records, or is dropped, the
distance may grow by what the stray gives back. `PlaceInv` says where a handler is and
what its call is for, on top of the invariant of the billing client, which is reused
through an instance of AutumnBillingProofs; that it holds in the process as well
(`DriftInvariance`) is also what `GateHoldsInTheProcess` and the types follow from. The witnesses u and b of the next state are
those of this one, raised at one event or at a set of them (`AccountStep`,
`AbandonStep`).

The laws of finite sums this needs (take out any element, compare term by term, sum over
a part) are proved from the definition of the library's `MapThenSumSet`: induction
over the subsets of a finite set is the well-foundedness of the strict subset order,
with the set of the good subsets in the place of a predicate.

**GitHub client.** A fetch carries the revisions it has read in order, each no later
than the head. With one writer, a call that has found no sticky comment on the page
knows that there is none, since people's comments do not fill the page, and nobody else
writes one before it does. With several, somebody may. `CountInv` counts: the sticky
comments and the calls about to create one are together no more than the writers. A
call joins the latter only when it finds no sticky comment, and then there is none, since
the oldest of them has only comments of people before it (`PageShowsOldest`). So when one
joins, the calls alone are counted, and there are no more than writers; a create moves one
from the calls to the comments, and no other step raises either number.

**Agent.** `ClientInv` is about the client's attempts and clock; `RunInv` says of each
place of a run what the values in hand have been made of.

### Only model-checked

* Everything under fairness, as the prover has no ENABLED: DeliveriesSettle,
  DeadJobSurfaces, ImplementsFairQueue, JournalDrains, CallsReturn, EventuallyQueued.

## 5. Not modelled

* Text: prompts, comments, log lines, the JSON of audits. What is said of a text (that
  it gives a reason, that it is cut) is modelled, its wording is not.
* HMAC and JSON parsing: a request is signed or not, parses or not.
* Time within a call: retry-after is honoured however long it is, and requests have no
  timeout, so one answer may hold the only worker for hours (`anthropic lib.rs:100`).
  The models know that a call is answered in the end, not when.
* The arithmetic of `cooldown_minutes` (`agent lib.rs:50`): the comparison's
  outcome is an input of TriageAgent and a comparison of naturals in TriageWorker.
  A value out of chrono's range panics in the code; see the hazards.
* `attach` of the billing client: nothing calls it and it keeps no state.
* App authentication (inside octocrab), `check_auth`, the diagnostics and smoke tests:
  scripts run by hand that only read. The one that does more, `check_webhook
  --redeliver`, is the replay of Webhook.
* The connection pool and its limit of ten.

### Where the code does less than its docs suggest

The models follow the code in these places, and the properties say only what it does.
`PROJECT.json` lists them among the hazards, but for the last, where the code means it.

* `config.rs:3-4` "validates *everything* up front and reports all problems in one
  error": a malformed database URL, a key that is not RSA, a base URL and a bind address
  are looked at by `main.rs`, each in a start of its own (`Late`).
* `anthropic lib.rs:54-56` honours `retry-after`; `retry_after_secs` (`:154`) parses
  whole seconds only, and a date or a fraction is followed by a wait of `attempt`
  seconds, maybe sooner than asked.
* README.md:105-107 re-tracks journaled usage "once the provider recovers"; a batch ends
  at the first row the provider refuses (`worker.rs:146`), so one customer that is refused
  for ever keeps the later rows of all others waiting (`Blocked`).
* README.md:50 offers replay by hand; the route remembers no installation event, and
  counts a replayed one again (`routes.rs:135`).
* Two deliveries whose inserts overlap (`pg.rs:48`) can become visible in the order
  opposite to their ids, and the older push may be triaged last, at its first attempt.
* An escalation that only the model asks for, and gives no reason for, is explained by
  "Confidence below the configured threshold" (`agent lib.rs:200`), whatever the confidence.
* `request_reviewers` may fail with a log line (`agent lib.rs:154`): an escalation is
  shown by comment, mentions and label, and the reviewers are a best effort.

## 6. Plan

Done: the queue and its proofs; the worker on top of it; metering; billing client;
route; sticky comment; agent and model client; the store in memory; the process around
the route; the snapshot; a proof of every safety property the passing runs check.

What would come next:

1. Several writers inside the worker: the dead-job comment of an old delivery over the
   triage of a later one is excluded by CommentsAdvance but for retries; which retries
   ought to be dropped is a question to the program first.
2. An upper bound on the time of a call, once the clients have timeouts: then
   `ImplementsFairQueue` can be said with a clock.
3. A recovery of jobs left `running`, once the program has one: `worker_job_lost` is
   the run that has to pass then.
