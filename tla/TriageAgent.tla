----------------------------- MODULE TriageAgent ----------------------------
(***************************************************************************)
(* TriageAgent::run of scaffold-agent, the loop of gather, classify, check *)
(* the policy, decide and act, one await at a time.  The rules are module  *)
(* TriageDecision, the two calls of the model are calls of AnthropicClient.*)
(*                                                                         *)
(* The model's outputs are any value that fits the JSON schema, whatever   *)
(* it was asked.  The host is external: the files and pull requests it may *)
(* answer with are constants, and each request may fail, with or without   *)
(* effect.  What the code no longer uses is dropped from the state.        *)
(***************************************************************************)
EXTENDS TriageDecision

CONSTANTS
    Files,             \* what .scaffold.toml may be
    Snapshots,         \* the pull requests fetch_snapshot may return
    Classifications,   \* what the model may classify
    Decisions,         \* what the model may decide
    MaxAttempts, RetryAfters

ASSUME ClientAssumption == MaxAttempts \in Nat \ {0} /\ RetryAfters \subseteq [secs : Nat, whole : BOOLEAN]

\* fetch_repo_config: a file that is not found, or has no content to decode, is
\* Absent.
FetchRepoConfig == {Absent} \cup Files

\* load_config of what was fetched.
Configs == { LoadConfig(file) : file \in FetchRepoConfig }

\* fetch_snapshot: a pull request whose checks cannot be listed is taken to have
\* none.
FetchSnapshot == Snapshots \cup { [s EXCEPT !.checks = {}] : s \in Snapshots }

\* A threshold and a length are numbers, but for nan; NaN is none.
ASSUME ConfigAssumption ==
    /\ NaN \notin Int
    /\ \A c \in Configs : c.threshold \in Int \cup {NaN} /\ c.minDescription \in Nat

ASSUME SnapshotAssumption ==
    \A s \in Snapshots :
        /\ {"mergeable", "description", "checks", "files"} \subseteq DOMAIN s
        /\ s.description \in Nat

\* The model's reasons are told apart from the two that are made up for it, and
\* an output and a comment from none.
ASSUME DecisionAssumption ==
    /\ None \notin Classifications \cup Decisions
    /\ \A d \in Decisions :
        /\ d.reason \notin {"discussion", "threshold"}
        /\ \A k \in Classifications, c \in Configs : CommentText(d, k, c) # None

VARIABLES
    call, met,     \* the model's client: AnthropicClient
    pc,            \* the call the run is about to make, or its outcome
    event,         \* the trigger, and whether a triage was within the cooldown
    config,        \* the repository's configuration
    snapshot,      \* the pull request, until it has been classified
    findings,      \* the policy findings, until the decision
    class,         \* the classification
    decision,      \* the model's decision
    shown          \* what the run has put on the pull request

clientVars == <<call, met>>
inputs     == <<event, config, snapshot, findings>>
outputs    == <<class, decision>>
vars       == <<clientVars, pc, inputs, outputs, shown>>

Client == INSTANCE AnthropicClient

Nothing == [comment |-> None, labels |-> {}, reviewers |-> {}]

Outcomes == {"completed", "skipped", "failed"}

At(step)   == pc = step
Goto(step) == pc' = step

-----------------------------------------------------------------------------

Init ==
    /\ Client!Init
    /\ pc = "config"
    /\ event \in [ trigger : {"opened", "reopened", "synchronized"}, within : BOOLEAN ]
    /\ config = None
    /\ snapshot = None
    /\ findings = {}
    /\ class = None
    /\ decision = None
    /\ shown = Nothing

\* The two skips of a synchronized event.
Skips(c) == event.trigger = "synchronized" /\ (~ c.onSynchronize \/ event.within)

\* fetch_repo_config and load_config
GatherConfig ==
    /\ At("config")
    /\ \/ \E file \in FetchRepoConfig :
            /\ config' = LoadConfig(file)
            /\ Goto(IF Skips(LoadConfig(file)) THEN "skipped" ELSE "snapshot")
       \/ Goto("failed") /\ UNCHANGED config
    /\ UNCHANGED <<clientVars, event, snapshot, findings, outputs, shown>>

\* The draft skip and policy::check.
GatherSnapshot ==
    /\ At("snapshot")
    /\ \/ \E s \in FetchSnapshot :
            IF s.draft /\ config.skipDrafts
              THEN Goto("skipped") /\ UNCHANGED <<snapshot, findings>>
              ELSE /\ Goto("classify")
                   /\ snapshot' = s
                   /\ findings' = PolicyCheck(s, config)
       \/ Goto("failed") /\ UNCHANGED <<snapshot, findings>>
    /\ UNCHANGED <<clientVars, event, config, outputs, shown>>

StartClassify ==
    /\ At("classify")
    /\ Client!Start
    /\ Goto("classifying")
    /\ snapshot' = None
    /\ UNCHANGED <<event, config, findings, outputs, shown>>

Classified ==
    /\ At("classifying")
    /\ Client!Return
    /\ \/ /\ call.step = "ok"
          /\ \E k \in Classifications :
               IF ValidConfidence(k.confidence)
                 THEN Goto("decide") /\ class' = k
                 ELSE Goto("failed") /\ UNCHANGED class
       \/ call.step = "error" /\ Goto("failed") /\ UNCHANGED class
    /\ UNCHANGED <<inputs, decision, shown>>

StartDecide ==
    /\ At("decide")
    /\ Client!Start
    /\ Goto("deciding")
    /\ findings' = {}
    /\ UNCHANGED <<event, config, snapshot, outputs, shown>>

Decided ==
    /\ At("deciding")
    /\ Client!Return
    /\ \/ /\ call.step = "ok"
          /\ \E d \in Decisions :
               IF ValidConfidence(d.confidence)
                 THEN Goto("comment") /\ decision' = d
                 ELSE Goto("failed") /\ UNCHANGED decision
       \/ call.step = "error" /\ Goto("failed") /\ UNCHANGED decision
    /\ UNCHANGED <<inputs, class, shown>>

\* A request or a sleep of the model's client.
ModelCall ==
    /\ Client!Post \/ Client!Wake
    /\ UNCHANGED <<pc, inputs, outputs, shown>>

\* Mutant: the comment is best effort.
PostCommentLenient ==
    /\ At("comment")
    /\ shown' \in {shown, [shown EXCEPT !.comment = CommentText(decision, class, config)]}
    /\ Goto("labels")
    /\ UNCHANGED <<clientVars, inputs, outputs>>

\* act: upsert_triage_comment
PostComment ==
    LET commented == [shown EXCEPT !.comment = CommentText(decision, class, config)] IN
    /\ At("comment")
    /\ \/ shown' = commented /\ Goto("labels")
       \/ shown' \in {shown, commented} /\ Goto("failed")
    /\ UNCHANGED <<clientVars, inputs, outputs>>

\* act: add_labels; then reviewers are requested for an escalation.
PostLabels ==
    LET labelled == [shown EXCEPT !.labels = @ \cup Labels(decision, class, config)] IN
    /\ At("labels")
    /\ \/ /\ shown' = labelled
          /\ Goto(IF Escalates(decision, class, config) /\ config.maintainers # {}
                    THEN "reviewers" ELSE "completed")
       \/ shown' \in {shown, labelled} /\ Goto("failed")
    /\ UNCHANGED <<clientVars, inputs, outputs>>

\* Mutant: the error of request_reviewers is propagated.
RequestReviewersStrict ==
    /\ At("reviewers")
    /\ \/ shown' = [shown EXCEPT !.reviewers = config.maintainers] /\ Goto("completed")
       \/ UNCHANGED shown /\ Goto("failed")
    /\ UNCHANGED <<clientVars, inputs, outputs>>

\* act: request_reviewers; an error is logged only.
RequestReviewers ==
    /\ At("reviewers")
    /\ shown' \in {shown, [shown EXCEPT !.reviewers = config.maintainers]}
    /\ Goto("completed")
    /\ UNCHANGED <<clientVars, inputs, outputs>>

Next ==
    \/ GatherConfig \/ GatherSnapshot
    \/ StartClassify \/ Classified \/ StartDecide \/ Decided \/ ModelCall
    \/ PostComment \/ PostLabels \/ RequestReviewers

Spec == Init /\ [][Next]_vars

-----------------------------------------------------------------------------

\* Type invariant.  An output of the model is kept only when its confidence is
\* one.
TypeOK ==
    /\ Client!ClientTypeOK
    /\ pc \in { "config", "snapshot", "classify", "classifying", "decide", "deciding",
                "comment", "labels", "reviewers" } \cup Outcomes
    /\ config = None \/ config \in Configs
    /\ snapshot = None \/ snapshot \in FetchSnapshot
    /\ findings \subseteq Findings
    /\ class = None \/ (class \in Classifications /\ class.confidence \in 0 .. 10)
    /\ decision = None \/ (decision \in Decisions /\ decision.confidence \in 0 .. 10)
    /\ shown.comment # None => class # None /\ decision # None
    /\ call.step # "idle" => pc \in {"classifying", "deciding"}

\* What stands behind a comment that is not flagged: two confidences at the
\* threshold or above, a category that is not for discussion, and the model's own
\* word.  (A threshold of nan is no threshold: nothing is below it.)
Confident ==
    /\ config.threshold # NaN =>
         class.confidence >= config.threshold /\ decision.confidence >= config.threshold
    /\ class.category # "needs-discussion"
    /\ ~ decision.escalate

\* What the reason of a flagged comment says is so.  The exception is a model
\* that escalates a pull request it is confident of and gives no reason: it is
\* said to have been below the threshold.
ReasonHolds(reason) ==
    CASE reason = "discussion" -> class.category = "needs-discussion"
      [] reason = "threshold"  ->
           \/ decision.escalate /\ decision.reason = None
           \/ config.threshold # NaN /\ \E c \in {class, decision} : c.confidence < config.threshold
      [] OTHER -> reason = decision.reason

\* lib.rs: "Low confidence always escalates".  What the comment tells the author
\* and the maintainers of the decision is true of the confidences it was made
\* with, two calls and three requests earlier: it is flagged unless the triage is
\* confident, and the reason it gives is the case.
FlagIsJustified ==
    shown.comment # None =>
        /\ {class.confidence, decision.confidence} \subseteq 0 .. 10
        /\ IF shown.comment.flagged THEN ReasonHolds(shown.comment.reason) ELSE Confident

\* "the label + mention already guarantee visibility": a completed escalation
\* shows the escalation label and mentions every maintainer, also when there
\* are none or none can be asked for a review.
EscalationVisible ==
    pc = "completed" =>
        /\ shown.comment # None
        /\ {class.category, decision.priority} \subseteq shown.labels
        /\ shown.comment.flagged => /\ config.escalationLabel \in shown.labels
                                    /\ config.maintainers \subseteq shown.comment.mentions

\* t is s with more checks, a shorter description, a conflict perhaps, without
\* some files that are no source and with more that are no tests.
Worse(s, t) ==
    /\ s.checks \subseteq t.checks
    /\ t.description <= s.description
    /\ s.mergeable = "no" => t.mergeable = "no"
    /\ \A f \in s.files \ t.files : ~ Touches({f}, config.sourceGlobs)
    /\ \A f \in t.files \ s.files : ~ Touches({f}, config.testGlobs)

\* The policy checks are monotone: more failing checks, a shorter description,
\* a conflict, fewer tests or more source never clear a finding.
PolicyIsMonotone ==
    snapshot # None =>
        \A t \in FetchSnapshot :
            Worse(snapshot, t) => findings \subseteq PolicyCheck(t, config)

\* No request is sent sooner than the answers before it have asked for in whole
\* seconds, and overloads are not given up early, in each of the two calls.
RetryAfterHonoured == Client!RetryAfterHonoured

-----------------------------------------------------------------------------

Phase ==
    CASE pc = "config"    -> "gather"
      [] pc = "reviewers" -> "completed"
      [] pc \in {"comment", "labels"} \cup Outcomes -> pc
      [] OTHER            -> "decide"

View == INSTANCE AgentRun WITH
            phase     <- Phase,
            commented <- shown.comment # None,
            labelled  <- shown.labels # {}

\* The steps TriageWorker takes the agent for are the ones it makes.
ImplementsAgentRun == View!Spec

=============================================================================
