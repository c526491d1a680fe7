----------------------------- MODULE BillingGate ----------------------------
(***************************************************************************)
(* What the trait BillingGate promises its callers, whatever requests the  *)
(* implementation makes: a check answers once and never with an error; a   *)
(* denial is a real one; a track that succeeds records its value exactly   *)
(* once and one that fails at most once.                                   *)
(***************************************************************************)
EXTENDS Integers

CONSTANTS
    Callers,     \* the tasks that use the gate, one call at a time
    Customers,   \* GitHub App installations
    Features,    \* metered features of the plan
    Values,      \* the amounts a caller may track
    Limit        \* Limit[f]: units of feature f the plan includes

VARIABLES
    usage,       \* usage[c][f]: units recorded
    asked,       \* asked[k]: the call k waits for
    answer       \* answer[k]: what the gate has answered it

gateVars == <<usage, asked, answer>>

NoRequest == [op |-> "none"]

Answered(k, a) ==
    /\ asked[k].op # "none" /\ answer[k] = "none"
    /\ answer' = [answer EXCEPT ![k] = a]
    /\ UNCHANGED asked

Used(k) == usage[asked[k].customer][asked[k].feature]

Record(k) ==
    usage' = [usage EXCEPT ![asked[k].customer][asked[k].feature] = @ + asked[k].value]

Init ==
    /\ usage = [c \in Customers |-> [f \in Features |-> 0]]
    /\ asked = [k \in Callers |-> NoRequest]
    /\ answer = [k \in Callers |-> "none"]

Request(k, op, c, f, v) ==
    /\ asked[k] = NoRequest
    /\ asked' = [asked EXCEPT ![k] = [op |-> op, customer |-> c, feature |-> f, value |-> v]]
    /\ UNCHANGED <<usage, answer>>

\* Allowed and Denied are decided by the usage; an outage is Unavailable.
Check(k) ==
    /\ asked[k].op = "check"
    /\ \/ Used(k) < Limit[asked[k].feature] /\ Answered(k, "allowed")
       \/ Used(k) >= Limit[asked[k].feature] /\ Answered(k, "denied")
       \/ Answered(k, "unavailable")
    /\ UNCHANGED usage

Track(k) ==
    /\ asked[k].op = "track"
    /\ \/ Answered(k, "ok") /\ Record(k)
       \/ Answered(k, "error") /\ (Record(k) \/ UNCHANGED usage)

Ensure(k) ==
    /\ asked[k].op = "ensure"
    /\ Answered(k, "ok") \/ Answered(k, "error")
    /\ UNCHANGED usage

Return(k) ==
    /\ answer[k] # "none"
    /\ asked' = [asked EXCEPT ![k] = NoRequest]
    /\ answer' = [answer EXCEPT ![k] = "none"]
    /\ UNCHANGED usage

\* The caller is gone; a request of its call may still be under way.
Cancel(k) ==
    /\ asked[k].op # "none"
    /\ asked' = [asked EXCEPT ![k] = NoRequest]
    /\ answer' = [answer EXCEPT ![k] = "none"]
    /\ \/ UNCHANGED usage
       \/ asked[k].op = "track" /\ answer[k] = "none" /\ Record(k)

Next ==
    \E k \in Callers :
        \/ \E op \in {"check", "track", "ensure"}, c \in Customers,
              f \in Features, v \in Values : Request(k, op, c, f, v)
        \/ Check(k) \/ Track(k) \/ Ensure(k) \/ Return(k) \/ Cancel(k)

Spec == Init /\ [][Next]_gateVars

=============================================================================
