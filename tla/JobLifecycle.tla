---------------------------- MODULE JobLifecycle ----------------------------
(***************************************************************************)
(* What the job queue promises for each webhook delivery, without table,   *)
(* clock, locks or workers: a delivery is accepted at most once, attempted *)
(* at most MaxJobAttempts times, one attempt at a time, and ends done or   *)
(* dead, dead only when the attempts are used up.  Rows of the table       *)
(* appear here as the life of their delivery.                              *)
(***************************************************************************)
EXTENDS Naturals

CONSTANTS Deliveries, MaxJobAttempts

VARIABLES
    life,   \* life[d]: what has become of delivery d
    tries   \* tries[d]: the attempts started for d

lifeVars == <<life, tries>>

Becomes(d, from, to) == life[d] = from /\ life' = [life EXCEPT ![d] = to]

Init ==
    /\ life = [d \in Deliveries |-> "unseen"]
    /\ tries = [d \in Deliveries |-> 0]

Accept(d) == Becomes(d, "unseen", "queued") /\ UNCHANGED tries

Start(d) ==
    /\ Becomes(d, "queued", "running")
    /\ tries[d] < MaxJobAttempts
    /\ tries' = [tries EXCEPT ![d] = @ + 1]

Finish(d) == Becomes(d, "running", "done") /\ UNCHANGED tries

Retry(d) ==
    /\ Becomes(d, "running", "queued")
    /\ tries[d] < MaxJobAttempts
    /\ UNCHANGED tries

GiveUp(d) ==
    /\ Becomes(d, "running", "dead")
    /\ tries[d] = MaxJobAttempts
    /\ UNCHANGED tries

Next ==
    \E d \in Deliveries :
        Accept(d) \/ Start(d) \/ Finish(d) \/ Retry(d) \/ GiveUp(d)

Spec == Init /\ [][Next]_lifeVars

=============================================================================
