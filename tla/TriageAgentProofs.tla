-------------------------- MODULE TriageAgentProofs -------------------------
(***************************************************************************)
(* Theorems of TriageAgent and of the model's client in it, for any        *)
(* configuration, pull request and model: the retries, the flag and its    *)
(* reason, the visibility of an escalation, the monotony of the policy     *)
(* checks, and that a run is an AgentRun.                                  *)
(***************************************************************************)
EXTENDS TriageAgent, TLAPS

-----------------------------------------------------------------------------
(* The model's client.                                                     *)

Steps == {"idle", "send", "sleep", "ok", "error"}

Lasts == { "none", "no_answer", "overloaded", "rejected", "unreadable",
           "refusal", "max_tokens", "malformed", "valid" }

Calls == [ step : Steps, attempt : Nat, delay : Nat ]

Mets == [ posts : Nat, slept : Nat, asked : Nat, last : Lasts ]

\* What has been asked for is slept, or is the delay before the next request; a
\* request is left as long as fewer than MaxAttempts were made.
ClientInv ==
    /\ call \in Calls /\ met \in Mets
    /\ met.posts = call.attempt
    /\ call.step \in {"send", "sleep"} => call.attempt < MaxAttempts
    /\ call.step = "send" => met.slept >= met.asked
    /\ call.step = "sleep" => met.slept + call.delay >= met.asked
    /\ call.step = "error" /\ met.last \in {"overloaded", "no_answer"}
         => call.attempt = MaxAttempts
    /\ call.step = "idle" => call = Client!NoCall

\* What an answer does to the call and to what it has met.
LEMMA Answered ==
    ASSUME call \in Calls, met \in Mets,
           NEW step \in Steps, NEW delay \in Nat, NEW last \in Lasts, NEW asked \in Nat,
           Client!Moves(step, delay), Client!Met(last, asked)
    PROVE  /\ call' \in Calls /\ met' \in Mets
           /\ call'.step = step /\ call'.delay = delay /\ call'.attempt = call.attempt + 1
           /\ met'.posts = met.posts + 1 /\ met'.slept = met.slept
           /\ met'.asked = met.asked + asked /\ met'.last = last
  <1>1. /\ call' \in Calls
        /\ call'.step = step /\ call'.delay = delay /\ call'.attempt = call.attempt + 1
    BY DEF Client!Moves, Calls
  <1>2. /\ DOMAIN met = {"posts", "slept", "asked", "last"}
        /\ met.posts \in Nat /\ met.slept \in Nat /\ met.asked \in Nat
    BY DEF Mets
  <1>3. /\ met'.posts = met.posts + 1 /\ met'.slept = met.slept
        /\ met'.asked = met.asked + asked /\ met'.last = last
    BY <1>2 DEF Client!Met
  <1>4. met' = [posts |-> met.posts + 1, slept |-> met.slept, asked |-> met.asked + asked, last |-> last]
    BY <1>2 DEF Client!Met, Mets
  <1> QED
    BY <1>1, <1>2, <1>3, <1>4 DEF Mets

\* A request that is answered, and tried again as long as there are attempts.
LEMMA PostKeepsClient ==
    ASSUME ClientInv, Client!Post
    PROVE  ClientInv'
  <1>1. call.step = "send"
    BY DEF Client!Post, Client!NoAnswer, Client!Overloaded,
           Client!Rejected, Client!Unreadable, Client!Success
  <1>2. /\ call \in Calls /\ met \in Mets /\ met.posts = call.attempt
        /\ met.slept >= met.asked /\ call.attempt < MaxAttempts
        /\ {call.attempt, met.slept, met.asked, MaxAttempts} \subseteq Nat
    BY <1>1, ClientAssumption DEF ClientInv, Calls, Mets
  <1>3. ASSUME NEW step \in Steps \ {"idle", "send"}, NEW delay \in Nat, NEW last \in Lasts,
               NEW asked \in Nat, Client!Moves(step, delay), Client!Met(last, asked),
               step = "sleep" => delay >= asked /\ call.attempt + 1 < MaxAttempts,
               step = "error" /\ last \in {"overloaded", "no_answer"}
                 => ~ (call.attempt + 1 < MaxAttempts)
        PROVE  ClientInv'
    <2>1. /\ call' \in Calls /\ met' \in Mets
          /\ call'.step = step /\ call'.delay = delay /\ call'.attempt = call.attempt + 1
          /\ met'.posts = met.posts + 1 /\ met'.slept = met.slept
          /\ met'.asked = met.asked + asked /\ met'.last = last
      BY <1>2, <1>3, Answered
    <2> QED
      BY <1>2, <1>3, <2>1 DEF ClientInv
  <1>4. CASE Client!NoAnswer
    BY <1>2, <1>3, <1>4 DEF Client!NoAnswer, Client!RetriesLeft, Steps, Lasts
  <1>5. CASE Client!Overloaded
    <2>1. PICK header \in RetryAfters \cup {None} :
            /\ IF Client!RetriesLeft
                 THEN Client!Moves("sleep", Client!Delay(header)) ELSE Client!Moves("error", 0)
            /\ Client!Met("overloaded", Client!AskedSeconds(header))
      BY <1>5 DEF Client!Overloaded
    <2>2. /\ Client!Delay(header) \in Nat /\ Client!AskedSeconds(header) \in Nat
          /\ Client!Delay(header) >= Client!AskedSeconds(header)
      <3>1. Client!Parses(header) => header.secs \in Nat
        BY ClientAssumption DEF Client!Parses
      <3> QED
        BY <1>2, <3>1 DEF Client!Delay, Client!AskedSeconds
    <2>3. PICK d \in Nat, a \in Nat : d = Client!Delay(header) /\ a = Client!AskedSeconds(header)
      BY <2>2
    <2>4. /\ IF Client!RetriesLeft THEN Client!Moves("sleep", d) ELSE Client!Moves("error", 0)
          /\ Client!Met("overloaded", a) /\ d >= a
      BY <2>1, <2>2, <2>3
    <2> QED
      BY <1>2, <1>3, <2>4 DEF Client!RetriesLeft, Steps, Lasts
  <1>6. CASE Client!Rejected \/ Client!Unreadable
    BY <1>3, <1>6 DEF Client!Rejected, Client!Unreadable, Steps, Lasts
  <1>7. CASE Client!Success
    <2>1. PICK stop \in Client!Stops, text \in Client!Texts :
            /\ Client!Moves(IF Client!Usable(stop, text) THEN "ok" ELSE "error", 0)
            /\ Client!Met(IF stop = "end_turn" THEN text ELSE stop, 0)
      BY <1>7 DEF Client!Success
    <2>2. PICK step \in {"ok", "error"} : step = IF Client!Usable(stop, text) THEN "ok" ELSE "error"
      OBVIOUS
    <2>3. PICK last \in Lasts \ {"overloaded", "no_answer"} :
            last = IF stop = "end_turn" THEN text ELSE stop
      BY DEF Client!Stops, Client!Texts, Lasts
    <2>4. Client!Moves(step, 0) /\ Client!Met(last, 0)
      BY <2>1, <2>2, <2>3
    <2> QED
      BY <1>3, <2>4 DEF Steps
  <1> QED
    BY <1>4, <1>5, <1>6, <1>7 DEF Client!Post

\* The sleep is over.
LEMMA WakeKeepsClient ==
    ASSUME ClientInv, Client!Wake
    PROVE  ClientInv'
  <1>1. /\ call \in Calls /\ call.delay \in Nat /\ met \in Mets /\ met.slept \in Nat
        /\ call.step = "sleep" /\ call.attempt < MaxAttempts /\ met.posts = call.attempt
        /\ met.slept + call.delay >= met.asked
    BY DEF Client!Wake, ClientInv, Calls, Mets
  <1>2. /\ call' \in Calls /\ call'.step = "send" /\ call'.attempt = call.attempt
    BY <1>1 DEF Client!Wake, Calls, Steps
  <1>3. /\ met' \in Mets /\ met'.slept = met.slept + call.delay
        /\ met'.posts = met.posts /\ met'.asked = met.asked /\ met'.last = met.last
    BY <1>1 DEF Client!Wake, Mets
  <1> QED
    BY <1>1, <1>2, <1>3 DEF ClientInv

LEMMA StartKeepsClient ==
    ASSUME ClientInv, Client!Start
    PROVE  ClientInv'
  BY ClientAssumption DEF Client!Start, Client!NoCall, Client!NewMet, ClientInv, Calls, Mets, Steps, Lasts

LEMMA ReturnKeepsClient ==
    ASSUME ClientInv, Client!Return
    PROVE  ClientInv'
  BY DEF Client!Return, Client!NoCall, Client!NewMet, ClientInv, Calls, Mets, Steps, Lasts

LEMMA ClientInvariance == Spec => []ClientInv
  <1>1. Init => ClientInv
    BY DEF Init, Client!Init, Client!NoCall, Client!NewMet, ClientInv, Calls, Mets, Steps, Lasts
  <1>2. ClientInv /\ [Next]_vars => ClientInv'
    <2> SUFFICES ASSUME ClientInv, [Next]_vars PROVE ClientInv'
      OBVIOUS
    <2>1. CASE UNCHANGED clientVars
      BY <2>1 DEF ClientInv, clientVars
    <2>2. CASE Client!Post \/ Client!Wake
      BY <2>2, PostKeepsClient, WakeKeepsClient
    <2>3. CASE Client!Start \/ Client!Return
      BY <2>3, StartKeepsClient, ReturnKeepsClient
    <2> QED
      BY <2>1, <2>2, <2>3
      DEF Next, vars, GatherConfig, GatherSnapshot, StartClassify, Classified, StartDecide,
          Decided, ModelCall, PostComment, PostLabels, RequestReviewers
  <1> QED
    BY <1>1, <1>2, PTL DEF Spec

\* No request is sent before the time its predecessors were told to wait in whole
\* seconds, and no overload is given up early.
THEOREM RetriesAreHonoured == Spec => []RetryAfterHonoured
  <1>1. ClientInv => RetryAfterHonoured
    BY DEF ClientInv, RetryAfterHonoured, Client!RetryAfterHonoured
  <1> QED
    BY <1>1, ClientInvariance, PTL

-----------------------------------------------------------------------------
(* The run: what is known at each place of it.                             *)

Judging == {"decide", "deciding"}
Acting  == {"comment", "labels", "reviewers", "completed"}
Quiet   == {"config", "snapshot", "classify", "classifying", "decide", "deciding", "comment", "skipped"}

KnownClass    == class \in Classifications /\ class.confidence \in 0 .. 10
KnownDecision == decision \in Decisions /\ decision.confidence \in 0 .. 10

\* The comment and the labels are those of the decision that was made.
Made == config \in Configs /\ KnownClass /\ KnownDecision

Said == CommentText(decision, class, config)

RunInv ==
    /\ pc \in {"snapshot", "classify", "classifying"} \cup Judging => config \in Configs
    /\ pc \in Judging => KnownClass
    /\ pc \in Acting => Made
    /\ snapshot # None => /\ pc = "classify" /\ snapshot \in FetchSnapshot
                          /\ findings = PolicyCheck(snapshot, config)
    /\ pc \in Quiet => shown = Nothing
    /\ DOMAIN shown = {"comment", "labels", "reviewers"}
    /\ shown.comment # None => Made /\ shown.comment = Said
    /\ pc \in {"labels", "reviewers", "completed"} => shown.comment = Said
    /\ pc \in {"reviewers", "completed"} => Labels(decision, class, config) \subseteq shown.labels

\* Gathering leaves nothing on the pull request.
LEMMA GatherKeepsRun ==
    ASSUME RunInv, GatherConfig \/ GatherSnapshot
    PROVE  RunInv'
  <1>1. CASE GatherConfig
    <2>1. Configs = { LoadConfig(file) : file \in FetchRepoConfig }
      BY DEF Configs
    <2> HIDE DEF Configs
    <2>2. pc = "config" /\ snapshot = None /\ shown = Nothing
      BY <1>1 DEF GatherConfig, At, RunInv, Quiet
    <2>3. \/ pc' \in {"skipped", "snapshot"} /\ config' \in Configs
          \/ pc' = "failed"
      BY <1>1, <2>1 DEF GatherConfig, Goto
    <2>4. UNCHANGED <<snapshot, findings, outputs, shown>>
      BY <1>1 DEF GatherConfig
    <2> QED
      BY <2>2, <2>3, <2>4 DEF RunInv, Quiet, Acting, Judging, Nothing, outputs
  <1>2. CASE GatherSnapshot
    <2>1. pc = "snapshot" /\ snapshot = None /\ shown = Nothing /\ config \in Configs
      BY <1>2 DEF GatherSnapshot, At, RunInv, Quiet
    <2>2. \/ pc' \in {"skipped", "failed"} /\ snapshot' = None
          \/ /\ pc' = "classify" /\ snapshot' \in FetchSnapshot
             /\ findings' = PolicyCheck(snapshot', config)
      BY <1>2, <2>1 DEF GatherSnapshot, Goto
    <2>3. UNCHANGED <<config, outputs, shown>>
      BY <1>2 DEF GatherSnapshot
    <2>4. PolicyCheck(snapshot', config) = PolicyCheck(snapshot, config)'
      BY <2>3 DEF PolicyCheck, Failing, MissingTests, Touches
    <2> QED
      BY <2>1, <2>2, <2>3, <2>4 DEF RunInv, Quiet, Acting, Judging, Nothing, outputs
  <1> QED
    BY <1>1, <1>2

\* The calls of the model leave what it said, if its confidence is one.
LEMMA ModelKeepsRun ==
    ASSUME RunInv, StartClassify \/ Classified \/ StartDecide \/ Decided \/ ModelCall
    PROVE  RunInv'
  <1> USE DEF At, Goto, Quiet, Acting, Judging, Nothing, inputs, outputs
  <1>1. CASE StartClassify
    BY <1>1 DEF StartClassify, RunInv, Made, KnownClass, KnownDecision
  <1>2. CASE Classified
    BY <1>2 DEF Classified, ValidConfidence, RunInv, Made, KnownClass, KnownDecision
  <1>3. CASE StartDecide
    BY <1>3 DEF StartDecide, RunInv, Made, KnownClass, KnownDecision
  <1>4. CASE Decided
    BY <1>4 DEF Decided, ValidConfidence, RunInv, Made, KnownClass, KnownDecision
  <1>5. CASE ModelCall
    BY <1>5 DEF ModelCall, RunInv, Made, KnownClass, KnownDecision, Said
  <1> QED
    BY <1>1, <1>2, <1>3, <1>4, <1>5

\* What act puts on the pull request is what was decided.
LEMMA ActKeepsRun ==
    ASSUME RunInv, PostComment \/ PostLabels \/ RequestReviewers
    PROVE  RunInv'
  <1> DEFINE labels == Labels(decision, class, config)
  <1>1. /\ pc \in {"comment", "labels", "reviewers"} /\ Made /\ snapshot = None
        /\ UNCHANGED <<config, snapshot, findings, class, decision>>
        /\ DOMAIN shown = {"comment", "labels", "reviewers"}
    BY DEF PostComment, PostLabels, RequestReviewers, At, RunInv, Acting, inputs, outputs
  <1>2. Made' /\ Said' = Said /\ labels' = labels
    BY <1>1 DEF Made, KnownClass, KnownDecision, Said, CommentText, Labels, Escalates,
                BelowThreshold, Reason
  <1> HIDE DEF labels
  <1>3. CASE PostComment
    <2>1. /\ pc' \in {"labels", "failed"} /\ DOMAIN shown' = DOMAIN shown
          /\ shown'.comment = Said \/ (shown'.comment = None /\ pc' = "failed")
      BY <1>1, <1>3 DEF PostComment, At, Goto, RunInv, Quiet, Nothing, Said
    <2> QED
      BY <1>1, <1>2, <2>1 DEF RunInv, Quiet, Acting, Judging
  <1>4. CASE PostLabels
    <2>1. /\ pc' \in {"reviewers", "completed", "failed"} /\ DOMAIN shown' = DOMAIN shown
          /\ shown'.comment = shown.comment /\ shown.comment = Said
          /\ pc' # "failed" => labels \subseteq shown'.labels
      BY <1>1, <1>4 DEF PostLabels, At, Goto, RunInv, labels
    <2> QED
      BY <1>1, <1>2, <2>1 DEF RunInv, Quiet, Acting, Judging, labels
  <1>5. CASE RequestReviewers
    <2>1. /\ pc' = "completed" /\ DOMAIN shown' = DOMAIN shown
          /\ shown'.comment = shown.comment /\ shown.comment = Said
          /\ shown'.labels = shown.labels /\ labels \subseteq shown.labels
      BY <1>1, <1>5 DEF RequestReviewers, At, Goto, RunInv, labels
    <2> QED
      BY <1>1, <1>2, <2>1 DEF RunInv, Quiet, Acting, Judging, labels
  <1> QED
    BY <1>3, <1>4, <1>5

LEMMA RunInvariance == Spec => []RunInv
  <1>1. Init => RunInv
    BY DEF Init, RunInv, Quiet, Acting, Judging, Nothing
  <1>2. RunInv /\ [Next]_vars => RunInv'
    <2> SUFFICES ASSUME RunInv, [Next]_vars PROVE RunInv'
      OBVIOUS
    <2>1. CASE UNCHANGED vars
      BY <2>1 DEF vars, inputs, outputs, RunInv, Made, KnownClass, KnownDecision, Said
    <2> QED
      BY <2>1, GatherKeepsRun, ModelKeepsRun, ActKeepsRun DEF Next
  <1> QED
    BY <1>1, <1>2, PTL DEF Spec

-----------------------------------------------------------------------------
(* What the comment says.                                                  *)

\* What is not below a threshold that is a number is at it or above.
LEMMA NotLess ==
    ASSUME NEW a \in 0 .. 10, NEW b \in Int \cup {NaN}, b # NaN
    PROVE  /\ ~ Less(a, b) => a >= b
           /\ Less(a, b) => a < b
  BY ConfigAssumption DEF Less

\* The flag is set unless the triage is confident; a reason the code makes up is
\* the case, unless it stands in for a flag the model gave no reason for.
THEOREM FlagsAreJustified == Spec => []FlagIsJustified
  <1>1. RunInv => FlagIsJustified
    <2> SUFFICES ASSUME RunInv, shown.comment # None
                 PROVE  /\ {class.confidence, decision.confidence} \subseteq 0 .. 10
                        /\ IF shown.comment.flagged THEN ReasonHolds(shown.comment.reason) ELSE Confident
      BY DEF FlagIsJustified
    <2>1. Made /\ shown.comment = Said
      BY DEF RunInv
    <2>2. /\ class.confidence \in 0 .. 10 /\ decision.confidence \in 0 .. 10
          /\ config.threshold \in Int \cup {NaN}
          /\ decision.reason \notin {"discussion", "threshold"}
      BY <2>1, ConfigAssumption, DecisionAssumption DEF Made, KnownClass, KnownDecision
    <2>3. /\ Said.flagged <=> Escalates(decision, class, config)
          /\ Said.flagged => Said.reason = Reason(decision, class)
      BY DEF Said, CommentText
    <2>4. CASE Said.flagged
      <3>1. ASSUME decision.reason # None
            PROVE  ReasonHolds(Reason(decision, class))
        BY <2>2, <3>1 DEF Reason, ReasonHolds
      <3>2. ASSUME decision.reason = None, class.category = "needs-discussion"
            PROVE  ReasonHolds(Reason(decision, class))
        BY <3>2 DEF Reason, ReasonHolds
      <3>3. ASSUME decision.reason = None, class.category # "needs-discussion"
            PROVE  ReasonHolds(Reason(decision, class))
        <4>1. Reason(decision, class) = "threshold"
          BY <3>3 DEF Reason
        <4>2. decision.escalate \/ BelowThreshold(decision, class, config)
          BY <2>3, <2>4, <3>3 DEF Escalates
        <4>3. ASSUME BelowThreshold(decision, class, config)
              PROVE  config.threshold # NaN /\ \E c \in {class, decision} : c.confidence < config.threshold
          BY <2>2, <4>3 DEF BelowThreshold, Less
        <4> QED
          BY <3>3, <4>1, <4>2, <4>3 DEF ReasonHolds
      <3> QED
        BY <2>1, <2>2, <2>3, <2>4, <3>1, <3>2, <3>3
    <2>5. CASE ~ Said.flagged
      <3>1. /\ ~ decision.escalate /\ class.category # "needs-discussion"
            /\ ~ Less(decision.confidence, config.threshold)
            /\ ~ Less(class.confidence, config.threshold)
        BY <2>3, <2>5 DEF Escalates, BelowThreshold
      <3>2. config.threshold # NaN =>
              class.confidence >= config.threshold /\ decision.confidence >= config.threshold
        BY <2>2, <3>1, NotLess
      <3> QED
        BY <2>1, <2>2, <2>5, <3>1, <3>2 DEF Confident
    <2> QED
      BY <2>4, <2>5
  <1> QED
    BY <1>1, RunInvariance, PTL

\* A completed escalation has its comment and its label, and the comment mentions
\* every maintainer.
THEOREM EscalationsAreShown == Spec => []EscalationVisible
  <1>1. RunInv => EscalationVisible
    <2> SUFFICES ASSUME RunInv, pc = "completed"
                 PROVE  /\ shown.comment # None
                        /\ {class.category, decision.priority} \subseteq shown.labels
                        /\ shown.comment.flagged => /\ config.escalationLabel \in shown.labels
                                                    /\ config.maintainers \subseteq shown.comment.mentions
      BY DEF EscalationVisible
    <2>1. /\ Made /\ shown.comment = Said
          /\ Labels(decision, class, config) \subseteq shown.labels
      BY DEF RunInv, Acting
    <2>2. Said # None
      BY <2>1, DecisionAssumption DEF Made, KnownClass, KnownDecision, Said
    <2>3. Said.flagged => Escalates(decision, class, config) /\ Said.mentions = config.maintainers
      BY DEF Said, CommentText
    <2>4. /\ {class.category, decision.priority} \subseteq Labels(decision, class, config)
          /\ Escalates(decision, class, config) => config.escalationLabel \in Labels(decision, class, config)
      BY DEF Labels
    <2> QED
      BY <2>1, <2>2, <2>3, <2>4
  <1> QED
    BY <1>1, RunInvariance, PTL

-----------------------------------------------------------------------------
(* The policy checks.                                                      *)

\* Whatever the answer of the host, a description has a length.
LEMMA Described ==
    ASSUME NEW s \in FetchSnapshot
    PROVE  s.description \in Nat
  BY SnapshotAssumption DEF FetchSnapshot

\* A pull request that is worse has the findings of the better one.
LEMMA PolicyMonotone ==
    ASSUME NEW s \in FetchSnapshot, NEW t \in FetchSnapshot, config \in Configs, Worse(s, t)
    PROVE  PolicyCheck(s, config) \subseteq PolicyCheck(t, config)
  <1>1. "merge_conflict" \in PolicyCheck(s, config) => "merge_conflict" \in PolicyCheck(t, config)
    BY DEF PolicyCheck, Findings, Worse
  <1>2. "failing_ci" \in PolicyCheck(s, config) => "failing_ci" \in PolicyCheck(t, config)
    BY DEF PolicyCheck, Findings, Worse, Failing
  <1>3. "unclear_description" \in PolicyCheck(s, config)
          => "unclear_description" \in PolicyCheck(t, config)
    <2>1. s.description \in Nat /\ t.description \in Nat /\ config.minDescription \in Nat
      BY Described, ConfigAssumption
    <2>2. s.description < config.minDescription => t.description < config.minDescription
      BY <2>1 DEF Worse
    <2> QED
      BY <2>2 DEF PolicyCheck, Findings
  <1>4. "missing_tests" \in PolicyCheck(s, config) => "missing_tests" \in PolicyCheck(t, config)
    <2>1. Touches(s.files, config.sourceGlobs) => Touches(t.files, config.sourceGlobs)
      BY DEF Worse, Touches
    <2>2. Touches(t.files, config.testGlobs) => Touches(s.files, config.testGlobs)
      BY DEF Worse, Touches
    <2>3. MissingTests(s, config) => MissingTests(t, config)
      BY <2>1, <2>2 DEF MissingTests
    <2> QED
      BY <2>3 DEF PolicyCheck, Findings
  <1> QED
    BY <1>1, <1>2, <1>3, <1>4 DEF PolicyCheck, Findings

\* More failing checks, a shorter description, a conflict, fewer tests or more
\* source never clear a finding.
THEOREM PolicyChecksAreMonotone == Spec => []PolicyIsMonotone
  <1>1. RunInv => PolicyIsMonotone
    BY PolicyMonotone DEF RunInv, PolicyIsMonotone
  <1> QED
    BY <1>1, RunInvariance, PTL

-----------------------------------------------------------------------------
(* The run as the worker sees it.                                          *)

\* The phase of each place.
PhaseOf(place, phase) ==
    /\ place = "config" => phase = "gather"
    /\ place \in {"snapshot", "classify", "classifying"} \cup Judging => phase = "decide"
    /\ place \in {"comment", "labels"} \cup Outcomes => phase = place
    /\ place = "reviewers" => phase = "completed"

LEMMA Phases == PhaseOf(pc, Phase) /\ PhaseOf(pc', Phase')
  BY DEF Phase, PhaseOf, Judging, Outcomes

\* What the worker sees of a step before act: the phase, and an untouched pull
\* request.
LEMMA GatherIsSeen ==
    ASSUME GatherConfig \/ GatherSnapshot \/ StartClassify \/ Classified \/ StartDecide
             \/ Decided \/ ModelCall
    PROVE  [View!Next]_(View!runVars)
  <1> USE DEF At, Goto, Judging, Outcomes
  <1>1. /\ (shown.comment # None)' = (shown.comment # None)
        /\ (shown.labels # {})' = (shown.labels # {})
    BY DEF GatherConfig, GatherSnapshot, StartClassify, Classified, StartDecide, Decided, ModelCall
  <1>2. \/ Phase = "gather" /\ Phase' \in {"decide", "skipped", "failed"}
        \/ Phase = "decide" /\ Phase' \in {"comment", "skipped", "failed"}
        \/ Phase' = Phase
    <2>1. CASE GatherConfig
      BY <2>1, Phases DEF PhaseOf, GatherConfig
    <2>2. CASE GatherSnapshot
      BY <2>2, Phases DEF PhaseOf, GatherSnapshot
    <2>3. CASE StartClassify \/ StartDecide
      BY <2>3, Phases DEF PhaseOf, StartClassify, StartDecide
    <2>4. CASE Classified \/ Decided
      BY <2>4, Phases DEF PhaseOf, Classified, Decided
    <2>5. CASE ModelCall
      BY <2>5 DEF ModelCall, Phase
    <2> QED
      BY <2>1, <2>2, <2>3, <2>4, <2>5
  <1> QED
    BY <1>1, <1>2 DEF View!Next, View!Gather, View!Decide, View!Becomes, View!runVars

\* And of the steps of act.
LEMMA ActIsSeen ==
    ASSUME RunInv, PostComment \/ PostLabels \/ RequestReviewers
    PROVE  [View!Next]_(View!runVars)
  <1> USE DEF At, Goto, Outcomes
  <1>1. /\ Said # None /\ Labels(decision, class, config) # {}
        /\ DOMAIN shown = {"comment", "labels", "reviewers"}
    <2>1. Made /\ DOMAIN shown = {"comment", "labels", "reviewers"}
      BY DEF RunInv, Acting, PostComment, PostLabels, RequestReviewers
    <2>2. class.category \in Labels(decision, class, config)
      BY DEF Labels
    <2> QED
      BY <2>1, <2>2, DecisionAssumption DEF Made, KnownClass, KnownDecision, Said
  <1>2. CASE PostComment
    <2>1. /\ Phase = "comment" /\ shown'.labels = shown.labels
          /\ \/ Phase' = "labels" /\ shown'.comment = Said
             \/ Phase' = "failed"
      BY <1>1, <1>2, Phases DEF PhaseOf, PostComment, Said
    <2> QED
      BY <1>1, <2>1 DEF View!Next, View!PostComment, View!Becomes
  <1>3. CASE PostLabels
    <2>1. /\ Phase = "labels" /\ shown'.comment = shown.comment
          /\ \/ Phase' = "completed" /\ Labels(decision, class, config) \subseteq shown'.labels
             \/ Phase' = "failed"
      BY <1>1, <1>3, Phases DEF PhaseOf, PostLabels
    <2> QED
      BY <1>1, <2>1 DEF View!Next, View!PostLabels, View!Becomes
  <1>4. CASE RequestReviewers
    <2>1. /\ Phase = "completed" /\ Phase' = "completed"
          /\ shown'.comment = shown.comment /\ shown'.labels = shown.labels
      BY <1>1, <1>4, Phases DEF PhaseOf, RequestReviewers
    <2> QED
      BY <2>1 DEF View!runVars
  <1> QED
    BY <1>2, <1>3, <1>4

\* TriageWorker takes a run for gather, decide, comment and labels, and may: so
\* it is, with any configuration, pull request, model and failure.
THEOREM AgentImplementsRun == Spec => ImplementsAgentRun
  <1>1. Init => View!Init
    BY Phases DEF PhaseOf, Init, View!Init, Nothing
  <1>2. RunInv /\ [Next]_vars => [View!Next]_(View!runVars)
    <2> SUFFICES ASSUME RunInv, [Next]_vars PROVE [View!Next]_(View!runVars)
      OBVIOUS
    <2>1. CASE UNCHANGED vars
      BY <2>1 DEF vars, View!runVars, Phase
    <2> QED
      BY <2>1, GatherIsSeen, ActIsSeen DEF Next
  <1> QED
    BY <1>1, <1>2, RunInvariance, PTL DEF Spec, ImplementsAgentRun, View!Spec


-----------------------------------------------------------------------------
(* Types.                                                                   *)

\* A call has made no more than its attempts, and is under way in the two places
\* that wait for the model only.
CallInv == call.attempt <= MaxAttempts /\ (call.step # "idle" => pc \in {"classifying", "deciding"})

LEMMA CallStep ==
    ASSUME ClientInv, CallInv, [Next]_vars
    PROVE  CallInv'
  <1>1. call \in Calls /\ call.attempt \in Nat /\ MaxAttempts \in Nat
    BY ClientAssumption DEF ClientInv, Calls
  <1>2. CASE UNCHANGED call
    <2>1. CASE UNCHANGED vars
      BY <2>1 DEF vars, clientVars, CallInv
    <2>2. CASE GatherConfig \/ GatherSnapshot \/ PostComment \/ PostLabels \/ RequestReviewers
      BY <1>2, <2>2 DEF CallInv, GatherConfig, GatherSnapshot, PostComment, PostLabels,
                        RequestReviewers, At
    <2>3. CASE ModelCall
      BY <1>2, <2>3 DEF ModelCall, CallInv
    <2>4. CASE StartClassify \/ StartDecide
      BY <1>2, <2>4 DEF StartClassify, StartDecide, Client!Start, Client!NoCall, CallInv, Goto
    <2>5. CASE Classified \/ Decided
      <3>1. call.step \in {"ok", "error"} /\ call = Client!NoCall
        BY <1>2, <2>5 DEF Classified, Decided, Client!Return
      <3> QED
        BY <3>1 DEF Client!NoCall
    <2> QED
      BY <2>1, <2>2, <2>3, <2>4, <2>5 DEF Next
  <1>3. CASE StartClassify \/ StartDecide
    BY <1>1, <1>3 DEF StartClassify, StartDecide, Client!Start, Client!NoCall, CallInv, Goto
  <1>4. CASE Classified \/ Decided
    BY <1>1, <1>4 DEF Classified, Decided, Client!Return, Client!NoCall, CallInv
  <1>5. CASE ModelCall
    <2>1. call.step \in {"send", "sleep"} /\ UNCHANGED pc
      BY <1>5 DEF ModelCall, Client!Post, Client!NoAnswer, Client!Overloaded,
                  Client!Rejected, Client!Unreadable, Client!Success, Client!Wake
    <2>2. call.attempt < MaxAttempts
      BY <2>1 DEF ClientInv
    <2>3. call'.attempt \in {call.attempt, call.attempt + 1}
      <3>1. ASSUME NEW step, NEW delay, Client!Moves(step, delay)
            PROVE  call'.attempt = call.attempt + 1
        BY <3>1 DEF Client!Moves
      <3>2. CASE Client!Post
        BY <3>1, <3>2 DEF Client!Post, Client!NoAnswer, Client!Overloaded,
                          Client!Rejected, Client!Unreadable, Client!Success
      <3>3. CASE Client!Wake
        BY <1>1, <3>3 DEF Client!Wake, Calls
      <3> QED
        BY <1>5, <3>2, <3>3 DEF ModelCall
    <2> QED
      BY <1>1, <2>1, <2>2, <2>3 DEF CallInv
  <1> QED
    BY <1>2, <1>3, <1>4, <1>5
    DEF Next, vars, clientVars, GatherConfig, GatherSnapshot, PostComment, PostLabels, RequestReviewers

\* The configuration and the outputs that are kept.
KeptInv ==
    /\ config = None \/ config \in Configs
    /\ findings \subseteq Findings
    /\ class = None \/ KnownClass
    /\ decision = None \/ KnownDecision
    /\ pc \in { "config", "snapshot", "classify", "classifying", "decide", "deciding",
                "comment", "labels", "reviewers" } \cup Outcomes

LEMMA KeptStep ==
    ASSUME KeptInv, [Next]_vars
    PROVE  KeptInv'
  <1> USE DEF Goto, At, Outcomes
  <1>1. CASE GatherConfig
    BY <1>1 DEF GatherConfig, KeptInv, Configs, KnownClass, KnownDecision, outputs
  <1>2. CASE GatherSnapshot
    <2>1. findings' \subseteq Findings
      BY <1>2 DEF GatherSnapshot, KeptInv, PolicyCheck
    <2>2. pc' \in {"skipped", "classify", "failed"} /\ UNCHANGED <<config, outputs>>
      BY <1>2 DEF GatherSnapshot
    <2> QED
      BY <2>1, <2>2 DEF KeptInv, KnownClass, KnownDecision, outputs
  <1>3. CASE StartClassify \/ StartDecide \/ ModelCall
    BY <1>3 DEF StartClassify, StartDecide, ModelCall, KeptInv, KnownClass, KnownDecision,
                inputs, outputs
  <1>4. CASE Classified \/ Decided
    BY <1>4 DEF Classified, Decided, ValidConfidence, KeptInv, KnownClass, KnownDecision, inputs
  <1>5. CASE PostComment \/ PostLabels \/ RequestReviewers
    <2>1. pc' \in {"labels", "reviewers", "completed", "failed"} /\ UNCHANGED <<inputs, outputs>>
      BY <1>5 DEF PostComment, PostLabels, RequestReviewers
    <2> QED
      BY <2>1 DEF KeptInv, KnownClass, KnownDecision, inputs, outputs
  <1>6. CASE UNCHANGED vars
    BY <1>6 DEF vars, inputs, outputs, KeptInv, KnownClass, KnownDecision
  <1> QED
    BY <1>1, <1>2, <1>3, <1>4, <1>5, <1>6 DEF Next

\* TriageAgent's type invariant: whatever the model answers, only an output whose
\* confidence is one is kept, and a client is never asked for two answers at once.
THEOREM AgentTypeCorrect == Spec => []TypeOK
  <1>1. Init => CallInv /\ KeptInv
    BY ClientAssumption DEF Init, Client!Init, Client!NoCall, CallInv, KeptInv
  <1>2. ClientInv /\ CallInv /\ KeptInv /\ [Next]_vars => CallInv' /\ KeptInv'
    BY CallStep, KeptStep
  <1>3. ClientInv /\ RunInv /\ CallInv /\ KeptInv => TypeOK
    <2> SUFFICES ASSUME ClientInv, RunInv, CallInv, KeptInv PROVE TypeOK
      OBVIOUS
    <2>1. Client!ClientTypeOK
      BY ClientAssumption DEF ClientInv, CallInv, Client!ClientTypeOK, Calls, Mets, Steps
    <2>2. snapshot = None \/ snapshot \in FetchSnapshot
      BY DEF RunInv
    <2>3. shown.comment # None => class # None /\ decision # None
      BY DecisionAssumption DEF RunInv, Made, KnownClass, KnownDecision
    <2> QED
      BY <2>1, <2>2, <2>3 DEF TypeOK, KeptInv, CallInv, KnownClass, KnownDecision
  <1> QED
    BY <1>1, <1>2, <1>3, ClientInvariance, RunInvariance, PTL DEF Spec

=============================================================================
