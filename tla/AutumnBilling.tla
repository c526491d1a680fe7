---------------------------- MODULE AutumnBilling ---------------------------
(***************************************************************************)
(* scaffold-autumn: the billing gate as calls of Autumn's API.  A check or *)
(* a track is POST /check or POST /track; when the provider does not know  *)
(* the customer, the gate creates it (POST /customers) and tries once more.*)
(*                                                                         *)
(* Calls of several tasks (the worker, the retracker, the webhook          *)
(* handlers) overlap: each step here is one request and its answer.  The   *)
(* provider is external: its customers, the usage it recorded, and its     *)
(* answers, which include a failure after the request took effect and a    *)
(* customer_not_found for a customer it has only just created.             *)
(***************************************************************************)
EXTENDS Integers

CONSTANTS
    Callers, Customers,
    Features,        \* FEATURE_PR_TRIAGE, FEATURE_REPOS
    Limit,           \* Limit[f]: units of feature f the plan includes
    Values,          \* the amounts a caller may track
    Misconfigured,   \* features that may be missing from Autumn's dashboard
    MaxFaults,       \* bound on the requests that fail
    MaxUnits         \* bound on the usage of the model

ASSUME LimitAssumption  == Limit \in [Features -> Nat]
ASSUME ValuesAssumption == Values \subseteq Int /\ MaxUnits \in Nat
ASSUME FaultsAssumption == Misconfigured \subseteq Features /\ MaxFaults \in Nat

VARIABLES
    customers,   \* the customers that exist at the provider
    usage,       \* usage[c][f]: units the provider has recorded
    call,        \* call[k]: the call task k has in progress
    faults,      \* requests that failed so far
    trace        \* ghost: trace[k], what the call of k has met so far

billingVars == <<customers, usage, call, faults, trace>>

Ops     == {"check", "track", "ensure"}
Results == {"none", "allowed", "denied", "unavailable", "ok", "error"}

NoCall   == [op |-> "none"]
NewTrace == [posts |-> 0, recorded |-> 0, faulted |-> FALSE]

Open(k)  == call[k].op # "none" /\ call[k].result = "none"
Asking(k, op) == Open(k) /\ call[k].op = op /\ call[k].step = "ask"
Creating(k)   == Open(k) /\ call[k].step = "create"

-----------------------------------------------------------------------------
(* The provider.                                                           *)

\* What the provider may answer to a request of k about its customer and
\* feature.
Missing(k) == call[k].customer \notin customers
Unknown(k) == call[k].feature \in Misconfigured
Served(k)  == ~ Missing(k)

\* No connection, a 5xx, an unparseable answer.
Faulty(k, recorded) ==
    /\ faults < MaxFaults
    /\ faults' = faults + 1
    /\ trace' = [trace EXCEPT ![k] = [ posts |-> @.posts + 1,
                                       recorded |-> @.recorded + recorded,
                                       faulted |-> TRUE ]]

Clean(k, recorded) ==
    /\ trace' = [trace EXCEPT ![k].posts = @ + 1, ![k].recorded = @ + recorded]
    /\ UNCHANGED faults

\* customer_not_found: the customer is missing, or it exists and the provider
\* answers from a copy that lags behind.
NotFound(k) == IF Missing(k) THEN Clean(k, 0) ELSE Faulty(k, 0)

\* feature_not_found
NoFeature(k) ==
    /\ Unknown(k)
    /\ trace' = [trace EXCEPT ![k].posts = @ + 1, ![k].faulted = TRUE]
    /\ UNCHANGED faults

Record(k) ==
    usage' = [usage EXCEPT ![call[k].customer][call[k].feature] = @ + call[k].value]

Verdict(k) ==
    IF usage[call[k].customer][call[k].feature] < Limit[call[k].feature]
      THEN "allowed" ELSE "denied"

-----------------------------------------------------------------------------

Init ==
    /\ customers \in SUBSET Customers
    /\ usage = [c \in Customers |-> [f \in Features |-> 0]]
    /\ call = [k \in Callers |-> NoCall]
    /\ faults = 0
    /\ trace = [k \in Callers |-> NewTrace]

Finish(k, result) == call' = [call EXCEPT ![k].result = result]
Create(k)         == call' = [call EXCEPT ![k].step = "create"]

\* check_triage, check_repo, track_triage, track_repo or ensure_customer.
Request(k, op, c, f, v) ==
    /\ call[k] = NoCall
    /\ call' = [call EXCEPT ![k] =
                  [ op |-> op, customer |-> c, feature |-> f, value |-> v,
                    step |-> IF op = "ensure" THEN "create" ELSE "ask",
                    healed |-> FALSE, result |-> "none" ]]
    /\ trace' = [trace EXCEPT ![k] = NewTrace]
    /\ UNCHANGED <<customers, usage, faults>>

\* Mutant: a missing customer is checked again without having been created.
CheckFeatureAgain(k) ==
    /\ Asking(k, "check")
    /\ \/ Served(k) /\ Clean(k, 0) /\ Finish(k, Verdict(k))
       \/ NoFeature(k) /\ Finish(k, "unavailable")
       \/ Missing(k) /\ UNCHANGED <<call, faults, trace>>
       \/ Faulty(k, 0) /\ Finish(k, "unavailable")
    /\ UNCHANGED <<customers, usage>>

\* Mutant: no self-heal, a missing customer is an outage.
CheckFeatureUnhealed(k) ==
    /\ Asking(k, "check")
    /\ \/ Served(k) /\ Clean(k, 0) /\ Finish(k, Verdict(k))
       \/ NoFeature(k) /\ Finish(k, "unavailable")
       \/ NotFound(k) /\ Finish(k, "unavailable")
       \/ Faulty(k, 0) /\ Finish(k, "unavailable")
    /\ UNCHANGED <<customers, usage>>

\* check_feature: POST /check.  Never an error: whatever is neither a verdict
\* nor a customer to be created is Unavailable, and so is a second
\* customer_not_found.
CheckFeature(k) ==
    /\ Asking(k, "check")
    /\ \/ Served(k) /\ Clean(k, 0) /\ Finish(k, Verdict(k))
       \/ NoFeature(k) /\ Finish(k, "unavailable")
       \/ NotFound(k) /\ IF call[k].healed THEN Finish(k, "unavailable") ELSE Create(k)
       \/ Faulty(k, 0) /\ Finish(k, "unavailable")
    /\ UNCHANGED <<customers, usage>>

\* Mutant: every error of the first request is taken for a missing customer.
TrackFeatureEager(k) ==
    /\ Asking(k, "track")
    /\ \/ Served(k) /\ Clean(k, call[k].value) /\ Record(k) /\ Finish(k, "ok")
       \/ /\ Served(k) /\ Faulty(k, call[k].value) /\ Record(k)
          /\ IF call[k].healed THEN Finish(k, "error") ELSE Create(k)
       \/ /\ NotFound(k) /\ UNCHANGED usage
          /\ IF call[k].healed THEN Finish(k, "error") ELSE Create(k)
       \/ NoFeature(k) /\ Finish(k, "error") /\ UNCHANGED usage
    /\ UNCHANGED customers

\* track_feature: POST /track.  A request that fails may have been recorded;
\* only customer_not_found, which records nothing, is tried again.
TrackFeature(k) ==
    /\ Asking(k, "track")
    /\ \/ Served(k) /\ Clean(k, call[k].value) /\ Record(k) /\ Finish(k, "ok")
       \/ Served(k) /\ Faulty(k, call[k].value) /\ Record(k) /\ Finish(k, "error")
       \/ /\ UNCHANGED usage
          /\ \/ NoFeature(k) /\ Finish(k, "error")
             \/ NotFound(k) /\ IF call[k].healed THEN Finish(k, "error") ELSE Create(k)
             \/ Faulty(k, 0) /\ Finish(k, "error")
    /\ UNCHANGED customers

\* ensure_customer_exists: POST /customers, an idempotent upsert; then back to
\* the request that missed the customer, if there is one.
EnsureCustomerExists(k) ==
    /\ Creating(k)
    /\ \/ /\ customers' = customers \cup {call[k].customer} /\ Clean(k, 0)
          /\ IF call[k].op = "ensure"
               THEN Finish(k, "ok")
               ELSE call' = [call EXCEPT ![k].step = "ask", ![k].healed = TRUE]
       \/ /\ Faulty(k, 0)
          /\ customers' \in {customers, customers \cup {call[k].customer}}
          /\ Finish(k, IF call[k].op = "check" THEN "unavailable" ELSE "error")
    /\ UNCHANGED usage

\* The caller goes on with the answer.
Return(k) ==
    /\ call[k].op # "none" /\ call[k].result # "none"
    /\ call' = [call EXCEPT ![k] = NoCall]
    /\ trace' = [trace EXCEPT ![k] = NewTrace]
    /\ UNCHANGED <<customers, usage, faults>>

\* The caller is gone in the middle of a call: its process ended, or the
\* request it served was dropped.  The request under way may still take effect.
Cancel(k) ==
    /\ Open(k)
    /\ \/ UNCHANGED <<customers, usage>>
       \/ Creating(k) /\ customers' = customers \cup {call[k].customer} /\ UNCHANGED usage
       \/ Asking(k, "track") /\ Served(k) /\ Record(k) /\ UNCHANGED customers
    /\ call' = [call EXCEPT ![k] = NoCall]
    /\ trace' = [trace EXCEPT ![k] = NewTrace]
    /\ UNCHANGED faults

Answer(k) == CheckFeature(k) \/ TrackFeature(k) \/ EnsureCustomerExists(k)

\* track_triage records one unit, track_repo a difference; the other calls
\* carry no value.
ValuesOf(op, f) ==
    CASE op # "track"  -> {0}
      [] f = "repos"   -> Values \ {0}
      [] OTHER         -> {1}

Within(c, f, v) == usage[c][f] + v \in -MaxUnits .. MaxUnits

Next ==
    \E k \in Callers :
        \/ \E op \in Ops, c \in Customers, f \in Features :
             \E v \in ValuesOf(op, f) : Within(c, f, v) /\ Request(k, op, c, f, v)
        \/ Answer(k) \/ Return(k) \/ Cancel(k)

Spec == Init /\ [][Next]_billingVars

\* Every request is answered in the end, by the provider or by the network.
Fairness == \A k \in Callers : WF_billingVars(Answer(k))

FairSpec == Spec /\ Fairness

-----------------------------------------------------------------------------

ResultsOf(op) ==
    {"none"} \cup (IF op = "check" THEN {"allowed", "denied", "unavailable"}
                                  ELSE {"ok", "error"})

\* Type invariant.  traits.rs: "`check_*` methods never return Err".
TypeOK ==
    /\ customers \subseteq Customers
    /\ usage \in [Customers -> [Features -> Int]]
    /\ call \in [Callers -> {NoCall} \cup
                   [ op : Ops, customer : Customers, feature : Features, value : Int,
                     step : {"ask", "create"}, healed : BOOLEAN, result : Results ]]
    /\ \A k \in Callers : call[k].op # "none" => call[k].result \in ResultsOf(call[k].op)
    /\ faults \in 0 .. MaxFaults
    /\ trace \in [Callers -> [posts : Nat, recorded : Int, faulted : BOOLEAN]]

Over(k, result) == call[k].op # "none" /\ call[k].result = result

\* The retry of track_feature never records a value twice: a track that
\* succeeds has recorded its value once, one that fails once or not at all.
TrackRecordsOnce ==
    \A k \in Callers :
        /\ Over(k, "ok") /\ call[k].op = "track" => trace[k].recorded = call[k].value
        /\ Over(k, "error") => trace[k].recorded \in {0, call[k].value}
        /\ call[k].op # "none" /\ call[k].op # "track" => trace[k].recorded = 0

\* A check fails open, and a track fails, only if a request of that very call
\* went wrong or its feature does not exist: a customer that was never
\* onboarded, or is being onboarded by another task, does not count as an outage.
FailsOpenForReason ==
    \A k \in Callers :
        Over(k, "unavailable") \/ Over(k, "error") => trace[k].faulted

\* No call waits for ever: the self-heal is no loop.
CallsReturn == \A k \in Callers : Open(k) ~> ~ Open(k)

-----------------------------------------------------------------------------

AskedOf  == [k \in Callers |->
               IF call[k].op = "none" THEN [op |-> "none"]
               ELSE [ op |-> call[k].op, customer |-> call[k].customer,
                      feature |-> call[k].feature, value |-> call[k].value ]]
AnswerOf == [k \in Callers |-> IF call[k].op = "none" THEN "none" ELSE call[k].result]

Gate == INSTANCE BillingGate WITH asked <- AskedOf, answer <- AnswerOf

\* The calls of the provider add up to the one step that the trait promises.
ImplementsGate == Gate!Init /\ [][Gate!Next]_(Gate!gateVars)

=============================================================================
