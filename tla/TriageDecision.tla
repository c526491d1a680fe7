--------------------------- MODULE TriageDecision ---------------------------
(***************************************************************************)
(* The pure parts of scaffold-agent: the deterministic policy checks, the  *)
(* validation of the model's confidences, the resolution of its decision   *)
(* against the repository's threshold, and the labels that follow from it. *)
(*                                                                         *)
(* Confidences are tenths (7 is 0.7) or NaN, which a threshold can be: it  *)
(* is read from TOML, and TOML knows nan.  A glob is the set of paths it   *)
(* matches, or InvalidGlob.  Texts are left out but for what is said of    *)
(* them: a comment is whom it mentions and why, a description its length.  *)
(* The cooldown is not in the configuration: whether a triage was within   *)
(* it is an input of module TriageAgent.                                   *)
(***************************************************************************)
EXTENDS Integers, FiniteSets

CONSTANTS
    NaN, InvalidGlob,
    Absent, Invalid,   \* no .scaffold.toml, and one that does not parse
    None               \* no value

Categories == {"bug-fix", "feature", "docs", "chore", "needs-discussion"}

Findings == {"merge_conflict", "failing_ci", "unclear_description", "missing_tests"}

-----------------------------------------------------------------------------
(* RepoConfig, read from .scaffold.toml                                    *)

DefaultConfig ==
    [ maintainers       |-> {},
      escalationLabel   |-> "needs-maintainer-review",
      testGlobs         |-> {{"test"}},
      sourceGlobs       |-> {{"src"}},
      threshold         |-> 7,
      onSynchronize     |-> TRUE,
      minDescription    |-> 40,
      skipDrafts        |-> TRUE ]

\* load_config: no file, or one that does not parse, is the default.
LoadConfig(file) == IF file \in {Absent, Invalid} THEN DefaultConfig ELSE file

-----------------------------------------------------------------------------
(* policy.rs                                                               *)

\* map_check_conclusion: what GitHub says of a check that is not among these is
\* pending.
CheckConclusion(raw) ==
    IF raw \in { "success", "failure", "neutral", "cancelled", "timed_out",
                 "action_required", "skipped" }
      THEN raw ELSE "pending"

\* Mutant: every check has to fail.
FailingAll(checks) ==
    /\ checks # {}
    /\ \A c \in checks : CheckConclusion(c) \in {"failure", "timed_out", "action_required"}

Failing(checks) ==
    \E c \in checks : CheckConclusion(c) \in {"failure", "timed_out", "action_required"}

\* build_globset: invalid globs are skipped; without any the check is off.
ValidGlobs(patterns) == patterns \ {InvalidGlob}

Touches(files, patterns) == \E f \in files, g \in ValidGlobs(patterns) : f \in g

MissingTests(s, config) ==
    /\ ValidGlobs(config.sourceGlobs) # {} /\ ValidGlobs(config.testGlobs) # {}
    /\ Touches(s.files, config.sourceGlobs)
    /\ ~ Touches(s.files, config.testGlobs)

\* policy::check
PolicyCheck(s, config) ==
    { f \in Findings :
        CASE f = "merge_conflict"      -> s.mergeable = "no"
          [] f = "failing_ci"          -> Failing(s.checks)
          [] f = "unclear_description" -> s.description < config.minDescription
          [] f = "missing_tests"       -> MissingTests(s, config) }

-----------------------------------------------------------------------------
(* The model's outputs.                                                    *)

\* validate_confidence; JSON has no NaN.
ValidConfidence(v) == v \in 0 .. 10

\* f64 comparison: nothing is less than NaN, and NaN less than nothing.
Less(a, b) == a # NaN /\ b # NaN /\ a < b

\* Mutant: both confidences have to be low.
BelowThresholdBoth(decision, class, config) ==
    /\ Less(decision.confidence, config.threshold)
    /\ Less(class.confidence, config.threshold)

BelowThreshold(decision, class, config) ==
    \/ Less(decision.confidence, config.threshold)
    \/ Less(class.confidence, config.threshold)

\* resolve_decision: Escalate or Proceed.
Escalates(decision, class, config) ==
    \/ decision.escalate
    \/ BelowThreshold(decision, class, config)
    \/ class.category = "needs-discussion"

\* The reason given in the comment of an escalation: the model's, or one that
\* is made up from what forced it.
Reason(decision, class) ==
    IF decision.reason # None THEN decision.reason
    ELSE IF class.category = "needs-discussion" THEN "discussion" ELSE "threshold"

\* act: the labels of the decision, sorted and deduplicated.
Labels(decision, class, config) ==
    {class.category, decision.priority} \cup decision.labels
      \cup (IF Escalates(decision, class, config) THEN {config.escalationLabel} ELSE {})

\* act: the comment; that of an escalation mentions the maintainers.
CommentText(decision, class, config) ==
    IF Escalates(decision, class, config)
      THEN [ flagged |-> TRUE, mentions |-> config.maintainers, reason |-> Reason(decision, class) ]
      ELSE [ flagged |-> FALSE, mentions |-> {}, reason |-> None ]

=============================================================================
