--------------------------- MODULE AnthropicClient --------------------------
(***************************************************************************)
(* AnthropicTriageModel::structured of scaffold-anthropic: one typed call  *)
(* of the model, as requests that are tried again after a 429, a 5xx or no *)
(* answer at all, honouring retry-after, and an answer that is refused     *)
(* unless it is complete and fits the schema.                              *)
(*                                                                         *)
(* The Messages API is external.  Time is counted in seconds of sleep.     *)
(***************************************************************************)
EXTENDS Naturals

CONSTANTS
    MaxAttempts,   \* MAX_ATTEMPTS
    RetryAfters,   \* retry-after headers: the seconds asked for, and whether the
                   \* header gives them as a whole number (and not as a date, say)
    None           \* no header

VARIABLES
    call,      \* the call in progress
    met        \* ghost: what the call has met so far

clientVars == <<call, met>>

NoCall == [step |-> "idle", attempt |-> 0, delay |-> 0]
NewMet == [posts |-> 0, slept |-> 0, asked |-> 0, last |-> "none"]

Stops  == {"end_turn", "refusal", "max_tokens"}
Texts  == {"none", "malformed", "valid"}

Moves(step, delay) ==
    call' = [step |-> step, attempt |-> call.attempt + 1, delay |-> delay]

\* The answer of one request; asked is what its retry-after asks for, in all.
Met(last, asked) ==
    met' = [met EXCEPT !.posts = @ + 1, !.last = last, !.asked = @ + asked]

Init == call = NoCall /\ met = NewMet

\* classify or decide.
Start ==
    /\ call = NoCall
    /\ call' = [NoCall EXCEPT !.step = "send"]
    /\ met' = NewMet

\* Mutant: one attempt less than there should be.
RetriesLeftOffByOne == call.attempt + 1 < MaxAttempts - 1

\* attempt < MAX_ATTEMPTS, attempt being counted already
RetriesLeft == call.attempt + 1 < MaxAttempts

\* Mutant: the header is not looked at.
DelayFixed(header) == call.attempt + 1

\* retry_after_secs: Some of a header that parses as u64.
Parses(header) == header # None /\ header.whole

\* retry_after_secs(&resp).unwrap_or(attempt)
Delay(header) == IF Parses(header) THEN header.secs ELSE call.attempt + 1

AskedSeconds(header) == IF Parses(header) THEN header.secs ELSE 0

\* No connection, or no answer.
NoAnswer ==
    /\ call.step = "send"
    /\ IF RetriesLeft THEN Moves("sleep", call.attempt + 1) ELSE Moves("error", 0)
    /\ Met("no_answer", 0)

\* 429 or 5xx
Overloaded ==
    /\ call.step = "send"
    /\ \E header \in RetryAfters \cup {None} :
         /\ IF RetriesLeft THEN Moves("sleep", Delay(header)) ELSE Moves("error", 0)
         /\ Met("overloaded", AskedSeconds(header))

\* Any other status.
Rejected ==
    /\ call.step = "send"
    /\ Moves("error", 0)
    /\ Met("rejected", 0)

\* A success that cannot be read.
Unreadable ==
    /\ call.step = "send"
    /\ Moves("error", 0)
    /\ Met("unreadable", 0)

\* Neither refused nor cut off, and the first text block fits the schema.
Usable(stop, text) == stop \notin {"refusal", "max_tokens"} /\ text = "valid"

Success ==
    /\ call.step = "send"
    /\ \E stop \in Stops, text \in Texts :
         /\ Moves(IF Usable(stop, text) THEN "ok" ELSE "error", 0)
         /\ Met(IF stop = "end_turn" THEN text ELSE stop, 0)

Wake ==
    /\ call.step = "sleep"
    /\ call' = [call EXCEPT !.step = "send", !.delay = 0]
    /\ met' = [met EXCEPT !.slept = @ + call.delay]

Post == NoAnswer \/ Overloaded \/ Rejected \/ Unreadable \/ Success

\* The caller takes the result.
Return ==
    /\ call.step \in {"ok", "error"}
    /\ call' = NoCall
    /\ met' = NewMet

ClientTypeOK ==
    /\ call \in [ step : {"idle", "send", "sleep", "ok", "error"},
                  attempt : 0 .. MaxAttempts, delay : Nat ]
    /\ met.posts \in Nat /\ met.slept \in Nat /\ met.asked \in Nat

\* "Retries 429/5xx honoring `retry-after`": before each request the call has
\* slept at least as long as the answers so far have asked for in whole seconds,
\* and an overload or a broken connection is given up after MAX_ATTEMPTS requests,
\* not before.  (A header that gives a date or a fraction is not honoured: it
\* does not parse, and the delay is that of an answer without one.)
RetryAfterHonoured ==
    /\ met.posts = call.attempt
    /\ call.step = "send" => met.slept >= met.asked
    /\ call.step = "error" /\ met.last \in {"overloaded", "no_answer"}
         => call.attempt = MaxAttempts

=============================================================================
