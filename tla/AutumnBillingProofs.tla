------------------------ MODULE AutumnBillingProofs ------------------------
(***************************************************************************)
(* Theorems about the billing client, for any number of tasks, customers,  *)
(* features and failures: a track records once, what fails open has a      *)
(* reason, and the requests add up to the one step of BillingGate.         *)
(***************************************************************************)
EXTENDS AutumnBilling, TLAPS

Call  == [ op : Ops, customer : Customers, feature : Features, value : Int,
           step : {"ask", "create"}, healed : BOOLEAN, result : Results ]
Trace == [posts : Nat, recorded : Int, faulted : BOOLEAN]

Calls  == [Callers -> {NoCall} \cup Call]
Traces == [Callers -> Trace]

Types ==
    /\ customers \subseteq Customers
    /\ usage \in [Customers -> [Features -> Int]]
    /\ call \in Calls /\ trace \in Traces
    /\ faults \in 0 .. MaxFaults

\* What a call may have met, by its answer.
Recorded(c, t) ==
    CASE c.op # "track"                -> t.recorded = 0
      [] c.op = "track" /\ c.result = "none"  -> t.recorded = 0
      [] c.op = "track" /\ c.result = "ok"    -> t.recorded = c.value
      [] OTHER                         -> t.recorded \in {0, c.value}

Explained(c, t) == c.result \in {"unavailable", "error"} => t.faulted

Sound(c, t) == c.result \in ResultsOf(c.op) /\ Recorded(c, t) /\ Explained(c, t)

\* A call that has healed itself has a customer that exists: customers stay.
Healed(c) == c.healed => c.customer \in customers

IInv ==
    /\ Types
    /\ \A k \in Callers : call[k] # NoCall => Sound(call[k], trace[k]) /\ Healed(call[k])

LEMMA OpenCall ==
    ASSUME Types, NEW k \in Callers
    PROVE  /\ call[k] # NoCall <=> call[k].op # "none"
           /\ call[k].op # "none" => call[k] \in Call
  BY DEF Types, Calls, NoCall, Call, Ops

-----------------------------------------------------------------------------
(* What the steps do to the call and to its trace.                          *)

CallMoves(k)  == call' \in Calls /\ \A j \in Callers : j # k => call'[j] = call[j]
TraceMoves(k) == trace' \in Traces /\ \A j \in Callers : j # k => trace'[j] = trace[j]

\* Nothing but step, healed and result of a call ever changes.
SameQuestion(c, d) ==
    /\ d \in Call /\ d.op = c.op /\ d.customer = c.customer
    /\ d.feature = c.feature /\ d.value = c.value

LEMMA CallSet ==
    ASSUME Types, NEW k \in Callers, NEW c \in {NoCall} \cup Call, call' = [call EXCEPT ![k] = c]
    PROVE  CallMoves(k) /\ call'[k] = c
  BY DEF Types, Calls, CallMoves

LEMMA TraceSet ==
    ASSUME Types, NEW k \in Callers, NEW t \in Trace, trace' = [trace EXCEPT ![k] = t]
    PROVE  TraceMoves(k) /\ trace'[k] = t
  BY DEF Types, Traces, TraceMoves

LEMMA FinishStep ==
    ASSUME Types, NEW k \in Callers, call[k] \in Call, NEW r \in Results, Finish(k, r)
    PROVE  /\ CallMoves(k) /\ SameQuestion(call[k], call'[k])
           /\ call'[k].result = r /\ call'[k].healed = call[k].healed
  <1> DEFINE c == [call[k] EXCEPT !.result = r]
  <1>1. c \in Call /\ SameQuestion(call[k], c) /\ c.result = r /\ c.healed = call[k].healed
    BY DEF Call, SameQuestion
  <1>2. call' = [call EXCEPT ![k] = c]
    BY DEF Finish
  <1> HIDE DEF c
  <1> QED
    BY <1>1, <1>2, CallSet

LEMMA CreateStep ==
    ASSUME Types, NEW k \in Callers, call[k] \in Call, Create(k)
    PROVE  /\ CallMoves(k) /\ SameQuestion(call[k], call'[k])
           /\ call'[k].result = call[k].result /\ call'[k].healed = call[k].healed
  <1> DEFINE c == [call[k] EXCEPT !.step = "create"]
  <1>1. /\ c \in Call /\ SameQuestion(call[k], c)
        /\ c.result = call[k].result /\ c.healed = call[k].healed
    BY DEF Call, SameQuestion
  <1>2. call' = [call EXCEPT ![k] = c]
    BY DEF Create
  <1> HIDE DEF c
  <1> QED
    BY <1>1, <1>2, CallSet

LEMMA HealStep ==
    ASSUME Types, NEW k \in Callers, call[k] \in Call,
           call' = [call EXCEPT ![k].step = "ask", ![k].healed = TRUE]
    PROVE  /\ CallMoves(k) /\ SameQuestion(call[k], call'[k])
           /\ call'[k].result = call[k].result /\ call'[k].healed
  <1> DEFINE b == [call[k] EXCEPT !.step = "ask"]
             c == [b EXCEPT !.healed = TRUE]
             mid == [call EXCEPT ![k] = b]
  <1>1. b \in Call /\ SameQuestion(call[k], b) /\ b.result = call[k].result
    BY DEF Call, SameQuestion
  <1>2. mid \in Calls /\ mid[k] = b /\ \A j \in Callers : j # k => mid[j] = call[j]
    BY <1>1 DEF Types, Calls
  <1>3. call' = [mid EXCEPT ![k].healed = TRUE]
    OBVIOUS
  <1> HIDE DEF b, mid
  <1>4. c \in Call /\ SameQuestion(b, c) /\ c.result = b.result /\ c.healed
    BY <1>1 DEF Call, SameQuestion
  <1>5. call' = [mid EXCEPT ![k] = c]
    BY <1>2, <1>3
  <1> HIDE DEF c
  <1> QED
    BY <1>1, <1>2, <1>4, <1>5 DEF CallMoves, Calls, SameQuestion

LEMMA CleanStep ==
    ASSUME Types, NEW k \in Callers, NEW n \in Int, Clean(k, n)
    PROVE  /\ TraceMoves(k) /\ faults' \in 0 .. MaxFaults
           /\ trace'[k].recorded = trace[k].recorded + n
           /\ trace'[k].faulted = trace[k].faulted
  <1> DEFINE s == [trace[k] EXCEPT !.posts = @ + 1]
             t == [s EXCEPT !.recorded = @ + n]
             mid == [trace EXCEPT ![k] = s]
  <1>1. s \in Trace /\ s.recorded = trace[k].recorded /\ s.faulted = trace[k].faulted
    BY DEF Types, Traces, Trace
  <1>2. mid \in Traces /\ mid[k] = s /\ \A j \in Callers : j # k => mid[j] = trace[j]
    BY <1>1 DEF Types, Traces
  <1>3. trace' = [mid EXCEPT ![k].recorded = @ + n]
    BY DEF Clean
  <1> HIDE DEF s, mid
  <1>4. t \in Trace /\ t.recorded = s.recorded + n /\ t.faulted = s.faulted
    BY <1>1 DEF Trace
  <1>5. trace' = [mid EXCEPT ![k] = t]
    BY <1>2, <1>3
  <1> HIDE DEF t
  <1>6. trace' \in Traces /\ trace'[k] = t /\ \A j \in Callers : j # k => trace'[j] = mid[j]
    BY <1>2, <1>4, <1>5 DEF Traces
  <1> QED
    BY <1>1, <1>2, <1>4, <1>6 DEF TraceMoves, Clean, Types

LEMMA FaultyStep ==
    ASSUME Types, NEW k \in Callers, NEW n \in Int, Faulty(k, n)
    PROVE  /\ TraceMoves(k) /\ faults' \in 0 .. MaxFaults
           /\ trace'[k].recorded = trace[k].recorded + n
           /\ trace'[k].faulted
  <1> DEFINE t == [ posts |-> trace[k].posts + 1, recorded |-> trace[k].recorded + n,
                    faulted |-> TRUE ]
  <1>1. t \in Trace /\ t.recorded = trace[k].recorded + n /\ t.faulted
    BY DEF Types, Traces, Trace
  <1>2. trace' = [trace EXCEPT ![k] = t]
    BY DEF Faulty, Types, Traces
  <1> HIDE DEF t
  <1>3. faults' \in 0 .. MaxFaults
    BY FaultsAssumption DEF Faulty, Types
  <1> QED
    BY <1>1, <1>2, <1>3, TraceSet

LEMMA NoFeatureStep ==
    ASSUME Types, NEW k \in Callers, NoFeature(k)
    PROVE  /\ TraceMoves(k) /\ faults' \in 0 .. MaxFaults
           /\ trace'[k].recorded = trace[k].recorded
           /\ trace'[k].faulted
  <1> DEFINE s == [trace[k] EXCEPT !.posts = @ + 1]
             t == [s EXCEPT !.faulted = TRUE]
             mid == [trace EXCEPT ![k] = s]
  <1>1. s \in Trace /\ s.recorded = trace[k].recorded
    BY DEF Types, Traces, Trace
  <1>2. mid \in Traces /\ mid[k] = s /\ \A j \in Callers : j # k => mid[j] = trace[j]
    BY <1>1 DEF Types, Traces
  <1>3. trace' = [mid EXCEPT ![k].faulted = TRUE]
    BY DEF NoFeature
  <1> HIDE DEF s, mid
  <1>4. t \in Trace /\ t.recorded = s.recorded /\ t.faulted
    BY <1>1 DEF Trace
  <1>5. trace' = [mid EXCEPT ![k] = t]
    BY <1>2, <1>3
  <1> HIDE DEF t
  <1>6. trace' \in Traces /\ trace'[k] = t /\ \A j \in Callers : j # k => trace'[j] = mid[j]
    BY <1>2, <1>4, <1>5 DEF Traces
  <1> QED
    BY <1>1, <1>2, <1>4, <1>6 DEF TraceMoves, NoFeature, Types

\* customer_not_found: an error for a customer that exists is a fault.
LEMMA NotFoundStep ==
    ASSUME Types, NEW k \in Callers, NotFound(k)
    PROVE  /\ TraceMoves(k) /\ faults' \in 0 .. MaxFaults
           /\ trace'[k].recorded = trace[k].recorded
           /\ call[k].customer \in customers => trace'[k].faulted
  <1>1. trace[k].recorded \in Int
    BY DEF Types, Traces, Trace
  <1>2. CASE Missing(k)
    BY <1>1, <1>2, CleanStep DEF NotFound, Missing
  <1>3. CASE ~ Missing(k)
    BY <1>1, <1>3, FaultyStep DEF NotFound, Missing
  <1> QED
    BY <1>2, <1>3

LEMMA RecordStep ==
    ASSUME Types, NEW k \in Callers, call[k] \in Call, Record(k)
    PROVE  usage' \in [Customers -> [Features -> Int]]
  <1> DEFINE c == call[k].customer
             f == call[k].feature
             u == [usage[c] EXCEPT ![f] = @ + call[k].value]
  <1>1. c \in Customers /\ f \in Features /\ call[k].value \in Int
    BY DEF Call
  <1>2. u \in [Features -> Int]
    BY <1>1 DEF Types
  <1>3. usage' = [usage EXCEPT ![c] = u]
    BY <1>1 DEF Record, Types
  <1> HIDE DEF c, f, u
  <1> QED
    BY <1>1, <1>2, <1>3 DEF Types

-----------------------------------------------------------------------------
(* The invariant.                                                           *)

\* A step of one task is about its own call; customers only come.
LEMMA OneCall ==
    ASSUME IInv, NEW k \in Callers, CallMoves(k), TraceMoves(k),
           customers \subseteq customers', customers' \subseteq Customers,
           usage' \in [Customers -> [Features -> Int]], faults' \in 0 .. MaxFaults,
           call'[k] # NoCall => Sound(call'[k], trace'[k]) /\ Healed(call[k])'
    PROVE  IInv'
  <1>1. ASSUME NEW j \in Callers, j # k, call'[j] # NoCall
        PROVE  Sound(call'[j], trace'[j]) /\ Healed(call[j])'
    <2>1. call'[j] = call[j] /\ trace'[j] = trace[j]
      BY <1>1 DEF CallMoves, TraceMoves
    <2>2. Sound(call[j], trace[j]) /\ Healed(call[j])
      BY <1>1, <2>1 DEF IInv
    <2> QED
      BY <2>1, <2>2 DEF Healed
  <1> QED
    BY <1>1 DEF IInv, Types, CallMoves, TraceMoves

LEMMA Asked ==
    ASSUME IInv, NEW k \in Callers, Open(k)
    PROVE  /\ Types /\ call[k] \in Call /\ call[k].result = "none"
           /\ call[k].op \in Ops /\ call[k].customer \in Customers /\ call[k].value \in Int
           /\ trace[k].recorded = 0 /\ Healed(call[k])
  <1>1. Types /\ call[k] \in Call /\ call[k].result = "none"
    BY OpenCall DEF IInv, Open
  <1>2. Sound(call[k], trace[k]) /\ Healed(call[k])
    BY OpenCall, <1>1 DEF IInv, Open
  <1> QED
    BY <1>1, <1>2 DEF Sound, Recorded, Call

LEMMA CheckKeeps ==
    ASSUME IInv, NEW k \in Callers, CheckFeature(k)
    PROVE  IInv'
  <1>1. Open(k) /\ call[k].op = "check" /\ UNCHANGED <<customers, usage>>
    BY DEF CheckFeature, Asking
  <1>2. Types /\ call[k] \in Call /\ trace[k].recorded = 0 /\ Healed(call[k]) /\ call[k].result = "none"
    BY <1>1, Asked
  <1>3. CASE Clean(k, 0) /\ Finish(k, Verdict(k))
    <2>1. Verdict(k) \in {"allowed", "denied"}
      BY DEF Verdict
    <2>2. /\ CallMoves(k) /\ SameQuestion(call[k], call'[k]) /\ call'[k].result \in {"allowed", "denied"}
          /\ call'[k].healed = call[k].healed
      BY <1>2, <1>3, <2>1, FinishStep DEF Results
    <2>3. TraceMoves(k) /\ faults' \in 0 .. MaxFaults /\ trace'[k].recorded = 0
      BY <1>2, <1>3, CleanStep
    <2> QED
      BY <1>1, <1>2, <2>2, <2>3, OneCall
      DEF Types, SameQuestion, Sound, ResultsOf, Recorded, Explained, Healed
  <1>4. CASE (NoFeature(k) \/ Faulty(k, 0)) /\ Finish(k, "unavailable")
    <2>1. /\ CallMoves(k) /\ SameQuestion(call[k], call'[k]) /\ call'[k].result = "unavailable"
          /\ call'[k].healed = call[k].healed
      BY <1>2, <1>4, FinishStep DEF Results
    <2>2. TraceMoves(k) /\ faults' \in 0 .. MaxFaults /\ trace'[k].recorded = 0 /\ trace'[k].faulted
      BY <1>2, <1>4, NoFeatureStep, FaultyStep
    <2> QED
      BY <1>1, <1>2, <2>1, <2>2, OneCall
      DEF Types, SameQuestion, Sound, ResultsOf, Recorded, Explained, Healed
  <1>5. CASE NotFound(k) /\ IF call[k].healed THEN Finish(k, "unavailable") ELSE Create(k)
    <2>1. /\ TraceMoves(k) /\ faults' \in 0 .. MaxFaults /\ trace'[k].recorded = 0
          /\ call[k].healed => trace'[k].faulted
      BY <1>2, <1>5, NotFoundStep DEF Healed
    <2>2. /\ CallMoves(k) /\ SameQuestion(call[k], call'[k]) /\ call'[k].healed = call[k].healed
          /\ (call'[k].result = "unavailable" /\ call[k].healed) \/ call'[k].result = "none"
      BY <1>2, <1>5, FinishStep, CreateStep DEF Results
    <2> QED
      BY <1>1, <1>2, <2>1, <2>2, OneCall
      DEF Types, SameQuestion, Sound, ResultsOf, Recorded, Explained, Healed
  <1> QED
    BY <1>3, <1>4, <1>5 DEF CheckFeature

LEMMA TrackKeeps ==
    ASSUME IInv, NEW k \in Callers, TrackFeature(k)
    PROVE  IInv'
  <1>1. Open(k) /\ call[k].op = "track" /\ UNCHANGED customers
    BY DEF TrackFeature, Asking
  <1>2. /\ Types /\ call[k] \in Call /\ trace[k].recorded = 0 /\ Healed(call[k])
        /\ call[k].result = "none" /\ call[k].value \in Int
    BY <1>1, Asked
  <1>3. CASE Clean(k, call[k].value) /\ Record(k) /\ Finish(k, "ok")
    <2>1. /\ CallMoves(k) /\ SameQuestion(call[k], call'[k]) /\ call'[k].result = "ok"
          /\ call'[k].healed = call[k].healed
      BY <1>2, <1>3, FinishStep DEF Results
    <2>2. TraceMoves(k) /\ faults' \in 0 .. MaxFaults /\ trace'[k].recorded = call[k].value
      BY <1>2, <1>3, CleanStep
    <2>3. usage' \in [Customers -> [Features -> Int]]
      BY <1>2, <1>3, RecordStep
    <2> QED
      BY <1>1, <1>2, <2>1, <2>2, <2>3, OneCall
      DEF Types, SameQuestion, Sound, ResultsOf, Recorded, Explained, Healed
  <1>4. CASE Faulty(k, call[k].value) /\ Record(k) /\ Finish(k, "error")
    <2>1. /\ CallMoves(k) /\ SameQuestion(call[k], call'[k]) /\ call'[k].result = "error"
          /\ call'[k].healed = call[k].healed
      BY <1>2, <1>4, FinishStep DEF Results
    <2>2. /\ TraceMoves(k) /\ faults' \in 0 .. MaxFaults
          /\ trace'[k].recorded = call[k].value /\ trace'[k].faulted
      BY <1>2, <1>4, FaultyStep
    <2>3. usage' \in [Customers -> [Features -> Int]]
      BY <1>2, <1>4, RecordStep
    <2> QED
      BY <1>1, <1>2, <2>1, <2>2, <2>3, OneCall
      DEF Types, SameQuestion, Sound, ResultsOf, Recorded, Explained, Healed
  <1>5. CASE (NoFeature(k) \/ Faulty(k, 0)) /\ Finish(k, "error") /\ UNCHANGED usage
    <2>1. /\ CallMoves(k) /\ SameQuestion(call[k], call'[k]) /\ call'[k].result = "error"
          /\ call'[k].healed = call[k].healed
      BY <1>2, <1>5, FinishStep DEF Results
    <2>2. TraceMoves(k) /\ faults' \in 0 .. MaxFaults /\ trace'[k].recorded = 0 /\ trace'[k].faulted
      BY <1>2, <1>5, NoFeatureStep, FaultyStep
    <2> QED
      BY <1>1, <1>2, <1>5, <2>1, <2>2, OneCall
      DEF Types, SameQuestion, Sound, ResultsOf, Recorded, Explained, Healed
  <1>6. CASE /\ NotFound(k) /\ UNCHANGED usage
             /\ IF call[k].healed THEN Finish(k, "error") ELSE Create(k)
    <2>1. /\ TraceMoves(k) /\ faults' \in 0 .. MaxFaults /\ trace'[k].recorded = 0
          /\ call[k].healed => trace'[k].faulted
      BY <1>2, <1>6, NotFoundStep DEF Healed
    <2>2. /\ CallMoves(k) /\ SameQuestion(call[k], call'[k]) /\ call'[k].healed = call[k].healed
          /\ (call'[k].result = "error" /\ call[k].healed) \/ call'[k].result = "none"
      BY <1>2, <1>6, FinishStep, CreateStep DEF Results
    <2> QED
      BY <1>1, <1>2, <1>6, <2>1, <2>2, OneCall
      DEF Types, SameQuestion, Sound, ResultsOf, Recorded, Explained, Healed
  <1> QED
    BY <1>3, <1>4, <1>5, <1>6 DEF TrackFeature

LEMMA EnsureKeeps ==
    ASSUME IInv, NEW k \in Callers, EnsureCustomerExists(k)
    PROVE  IInv'
  <1>1. Open(k) /\ UNCHANGED usage
    BY DEF EnsureCustomerExists, Creating
  <1>2. /\ Types /\ call[k] \in Call /\ trace[k].recorded = 0 /\ Healed(call[k])
        /\ call[k].result = "none" /\ call[k].customer \in Customers /\ call[k].op \in Ops
    BY <1>1, Asked
  <1>3. /\ customers \subseteq customers' /\ customers' \subseteq Customers
    BY <1>2 DEF EnsureCustomerExists, Types
  <1>4. CASE /\ customers' = customers \cup {call[k].customer} /\ Clean(k, 0)
             /\ IF call[k].op = "ensure"
                  THEN Finish(k, "ok")
                  ELSE call' = [call EXCEPT ![k].step = "ask", ![k].healed = TRUE]
    <2>1. TraceMoves(k) /\ faults' \in 0 .. MaxFaults /\ trace'[k].recorded = 0
      BY <1>2, <1>4, CleanStep
    <2>2. CASE call[k].op = "ensure" /\ Finish(k, "ok")
      <3>1. /\ CallMoves(k) /\ SameQuestion(call[k], call'[k]) /\ call'[k].result = "ok"
        BY <1>2, <2>2, FinishStep DEF Results
      <3>2. Healed(call[k])'
        BY <1>2, <1>4, <3>1 DEF Healed, SameQuestion
      <3>3. Sound(call'[k], trace'[k])
        BY <2>1, <2>2, <3>1 DEF SameQuestion, Sound, ResultsOf, Recorded, Explained
      <3> QED
        BY <1>1, <1>2, <1>3, <2>1, <3>1, <3>2, <3>3, OneCall DEF Types
    <2>3. CASE call' = [call EXCEPT ![k].step = "ask", ![k].healed = TRUE]
      <3>1. /\ CallMoves(k) /\ SameQuestion(call[k], call'[k]) /\ call'[k].result = "none"
        BY <1>2, <2>3, HealStep
      <3>2. Healed(call[k])'
        BY <1>2, <1>4, <3>1 DEF Healed, SameQuestion
      <3>3. Sound(call'[k], trace'[k])
        BY <2>1, <3>1 DEF SameQuestion, Sound, ResultsOf, Recorded, Explained
      <3> QED
        BY <1>1, <1>2, <1>3, <2>1, <3>1, <3>2, <3>3, OneCall DEF Types
    <2> QED
      BY <1>4, <2>2, <2>3
  <1>5. CASE Faulty(k, 0) /\ Finish(k, IF call[k].op = "check" THEN "unavailable" ELSE "error")
    <2>1. PICK r \in {"unavailable", "error"} :
             Finish(k, r) /\ (r = "unavailable" <=> call[k].op = "check")
      BY <1>5
    <2>2. /\ CallMoves(k) /\ SameQuestion(call[k], call'[k]) /\ call'[k].result = r
          /\ call'[k].healed = call[k].healed
      BY <1>2, <2>1, FinishStep DEF Results
    <2>3. TraceMoves(k) /\ faults' \in 0 .. MaxFaults /\ trace'[k].recorded = 0 /\ trace'[k].faulted
      BY <1>2, <1>5, FaultyStep
    <2>4. Healed(call[k])'
      BY <1>2, <1>3, <2>2 DEF Healed, SameQuestion
    <2>5. Sound(call'[k], trace'[k])
      BY <1>2, <2>1, <2>2, <2>3 DEF SameQuestion, Sound, ResultsOf, Recorded, Explained, Ops
    <2> QED
      BY <1>1, <1>2, <1>3, <2>2, <2>3, <2>4, <2>5, OneCall DEF Types
  <1> QED
    BY <1>4, <1>5 DEF EnsureCustomerExists

LEMMA RequestKeeps ==
    ASSUME IInv, NEW k \in Callers, NEW op \in Ops, NEW c \in Customers, NEW f \in Features,
           NEW v \in Int, Request(k, op, c, f, v)
    PROVE  /\ IInv' /\ CallMoves(k) /\ call'[k] # NoCall /\ call'[k].result = "none"
           /\ call'[k].op = op /\ call'[k].customer = c /\ call'[k].feature = f
           /\ call'[k].value = v
  <1>1. Types
    BY DEF IInv
  <1>2. NewTrace \in Trace
    BY DEF NewTrace, Trace
  <1>3. TraceMoves(k) /\ trace'[k] = NewTrace /\ faults' = faults
    BY <1>1, <1>2, TraceSet DEF Request
  <1> DEFINE r == [ op |-> op, customer |-> c, feature |-> f, value |-> v,
                    step |-> IF op = "ensure" THEN "create" ELSE "ask",
                    healed |-> FALSE, result |-> "none" ]
  <1>4. /\ r \in Call /\ r.op = op /\ r.customer = c /\ r.feature = f /\ r.value = v
        /\ r.result = "none" /\ r.healed = FALSE
    BY DEF Call, Results
  <1>5. call' = [call EXCEPT ![k] = r]
    BY DEF Request
  <1> HIDE DEF r
  <1>6. CallMoves(k) /\ call'[k] = r
    BY <1>1, <1>4, <1>5, CallSet
  <1>7. Sound(call'[k], trace'[k]) /\ Healed(call[k])'
    BY <1>3, <1>4, <1>6 DEF Sound, ResultsOf, Recorded, Explained, Healed, NewTrace
  <1>8. IInv'
    BY <1>1, <1>3, <1>6, <1>7, OneCall DEF Request, Types
  <1>9. r # NoCall
    BY <1>4 DEF NoCall, Ops
  <1> QED
    BY <1>4, <1>6, <1>8, <1>9

LEMMA RestKeeps ==
    ASSUME IInv, NEW k \in Callers, Return(k) \/ Cancel(k)
    PROVE  IInv' /\ CallMoves(k) /\ call'[k] = NoCall
  <1>1. Types
    BY DEF IInv
  <1>2. NewTrace \in Trace
    BY DEF NewTrace, Trace
  <1>3. TraceMoves(k) /\ trace'[k] = NewTrace /\ faults' = faults
    BY <1>1, <1>2, TraceSet DEF Return, Cancel
  <1>4. CallMoves(k) /\ call'[k] = NoCall
    BY <1>1, CallSet DEF Return, Cancel
  <1>5. /\ customers \subseteq customers' /\ customers' \subseteq Customers
        /\ usage' \in [Customers -> [Features -> Int]]
    <2>1. CASE UNCHANGED <<customers, usage>>
      BY <1>1, <2>1 DEF Types
    <2>2. CASE Open(k) /\ ~ UNCHANGED <<customers, usage>>
      <3>1. call[k] \in Call /\ call[k].customer \in Customers
        BY <2>2, Asked
      <3>2. Record(k) \/ UNCHANGED usage
        BY <2>2 DEF Return, Cancel
      <3>3. usage' \in [Customers -> [Features -> Int]]
        BY <1>1, <3>1, <3>2, RecordStep DEF Types
      <3> QED
        BY <1>1, <2>2, <3>1, <3>3 DEF Return, Cancel, Types
    <2> QED
      BY <2>1, <2>2 DEF Return, Cancel
  <1> QED
    BY <1>1, <1>3, <1>4, <1>5, OneCall DEF Types

LEMMA StartsWell == ASSUME Init PROVE IInv
  <1>1. NewTrace \in Trace
    BY DEF NewTrace, Trace
  <1> QED
    BY <1>1, FaultsAssumption DEF Init, IInv, Types, Calls, Traces

LEMMA Invariance == Spec => []IInv
  <1>1. Init => IInv
    BY StartsWell
  <1>2. IInv /\ [Next]_billingVars => IInv'
    <2> SUFFICES ASSUME IInv, [Next]_billingVars PROVE IInv'
      OBVIOUS
    <2>1. CASE UNCHANGED billingVars
      BY <2>1 DEF billingVars, IInv, Types, Healed
    <2>2. ASSUME NEW k \in Callers, Answer(k) PROVE IInv'
      BY <2>2, CheckKeeps, TrackKeeps, EnsureKeeps DEF Answer
    <2>3. ASSUME NEW k \in Callers, Return(k) \/ Cancel(k) PROVE IInv'
      BY <2>3, RestKeeps
    <2>4. ASSUME NEW k \in Callers, NEW op \in Ops, NEW c \in Customers, NEW f \in Features,
                 NEW v \in ValuesOf(op, f), Request(k, op, c, f, v)
          PROVE  IInv'
      <3>1. v \in Int
        BY ValuesAssumption DEF ValuesOf
      <3> QED
        BY <2>4, <3>1, RequestKeeps
    <2> QED
      BY <2>1, <2>2, <2>3, <2>4 DEF Next
  <1> QED
    BY <1>1, <1>2, PTL DEF Spec

-----------------------------------------------------------------------------
(* What a step is worth to a task that counts what is recorded.             *)

\* A value is recorded for one feature of one customer.
Books(c, f, v) ==
    \A d \in Customers, g \in Features :
        usage'[d][g] = usage[d][g] + IF d = c /\ g = f THEN v ELSE 0

LEMMA RecordBooks ==
    ASSUME Types, NEW k \in Callers, call[k] \in Call, Record(k)
    PROVE  Books(call[k].customer, call[k].feature, call[k].value)
  <1> DEFINE c == call[k].customer
             f == call[k].feature
             u == [usage[c] EXCEPT ![f] = @ + call[k].value]
  <1>1. c \in Customers /\ f \in Features /\ call[k].value \in Int
    BY DEF Call
  <1>2. \A d \in Customers, g \in Features : usage[d][g] \in Int
    BY DEF Types
  <1>3. \A g \in Features : u[g] = usage[c][g] + IF g = f THEN call[k].value ELSE 0
    BY <1>1, <1>2 DEF Types
  <1>4. usage' = [usage EXCEPT ![c] = u]
    BY <1>1 DEF Record, Types
  <1> HIDE DEF u
  <1>5. \A d \in Customers : usage'[d] = IF d = c THEN u ELSE usage[d]
    BY <1>4 DEF Types
  <1> QED
    BY <1>2, <1>3, <1>5 DEF Books

LEMMA FaultyGrows ==
    ASSUME Types, NEW k \in Callers, NEW n \in Int, Faulty(k, n)
    PROVE  faults < faults' /\ faults <= faults'
  BY DEF Types, Faulty

LEMMA NotFoundGrows ==
    ASSUME Types, NEW k \in Callers, NotFound(k)
    PROVE  faults <= faults' /\ (call[k].customer \in customers => faults < faults')
  <1>1. CASE Missing(k)
    BY <1>1 DEF Types, NotFound, Missing, Clean
  <1>2. CASE ~ Missing(k)
    BY <1>2, FaultyGrows DEF NotFound
  <1> QED
    BY <1>1, <1>2

\* A request of a track whose feature exists: a track that is over has recorded
\* its value, or cost a failure.
LEMMA TrackEffect ==
    ASSUME IInv, NEW k \in Callers, TrackFeature(k), ~ Unknown(k)
    PROVE  /\ CallMoves(k) /\ SameQuestion(call[k], call'[k]) /\ faults <= faults'
           /\ \/ UNCHANGED usage /\ (call'[k].result # "none" => faults < faults')
              \/ /\ call'[k].result # "none"
                 /\ Books(call[k].customer, call[k].feature, call[k].value)
  <1>1. Open(k) /\ call[k].op = "track"
    BY DEF TrackFeature, Asking
  <1>2. /\ Types /\ call[k] \in Call /\ Healed(call[k])
        /\ call[k].result = "none" /\ call[k].value \in Int
    BY <1>1, Asked
  <1>3. faults \in Int
    BY <1>2 DEF Types
  <1>4. CASE \/ Clean(k, call[k].value) /\ Record(k) /\ Finish(k, "ok")
             \/ Faulty(k, call[k].value) /\ Record(k) /\ Finish(k, "error")
    <2>1. CallMoves(k) /\ SameQuestion(call[k], call'[k]) /\ call'[k].result # "none"
      BY <1>2, <1>4, FinishStep DEF Results
    <2>2. faults <= faults'
      BY <1>2, <1>3, <1>4, FaultyGrows DEF Clean
    <2> QED
      BY <1>2, <1>4, <2>1, <2>2, RecordBooks
  <1>5. CASE UNCHANGED usage /\ Faulty(k, 0) /\ Finish(k, "error")
    <2>1. faults <= faults' /\ faults < faults'
      BY <1>2, <1>5, FaultyGrows
    <2> QED
      BY <1>2, <1>5, <2>1, FinishStep DEF Results
  <1>6. CASE /\ UNCHANGED usage /\ NotFound(k)
             /\ IF call[k].healed THEN Finish(k, "error") ELSE Create(k)
    <2>1. faults <= faults' /\ (call[k].healed => faults < faults')
      BY <1>2, <1>6, NotFoundGrows DEF Healed
    <2>2. /\ CallMoves(k) /\ SameQuestion(call[k], call'[k])
          /\ call'[k].result # "none" => call[k].healed
      BY <1>2, <1>6, FinishStep, CreateStep DEF Results
    <2> QED
      BY <1>6, <2>1, <2>2
  <1> QED
    BY <1>4, <1>5, <1>6 DEF TrackFeature, NoFeature

\* Another request of any call records nothing; a track that it ends cost a
\* failure.
LEMMA OtherEffect ==
    ASSUME IInv, NEW k \in Callers, CheckFeature(k) \/ EnsureCustomerExists(k)
    PROVE  /\ CallMoves(k) /\ SameQuestion(call[k], call'[k]) /\ faults <= faults'
           /\ UNCHANGED usage
           /\ call[k].op = "track" /\ call'[k].result # "none" => faults < faults'
  <1>1. Open(k)
    BY DEF CheckFeature, EnsureCustomerExists, Asking, Creating
  <1>2. Types /\ call[k] \in Call /\ call[k].result = "none"
    BY <1>1, Asked
  <1>3. faults \in Int
    BY <1>2 DEF Types
  <1>4. CASE CheckFeature(k)
    <2>1. Verdict(k) \in {"allowed", "denied"}
      BY DEF Verdict
    <2>2. CallMoves(k) /\ SameQuestion(call[k], call'[k])
      BY <1>2, <1>4, <2>1, FinishStep, CreateStep DEF CheckFeature, Results
    <2>3. faults <= faults'
      BY <1>2, <1>3, <1>4, FaultyGrows, NotFoundGrows DEF CheckFeature, Clean, NoFeature
    <2> QED
      BY <1>4, <2>2, <2>3 DEF CheckFeature, Asking
  <1>5. CASE EnsureCustomerExists(k)
    <2>1. UNCHANGED usage
      BY <1>5 DEF EnsureCustomerExists
    <2>2. CASE Clean(k, 0) /\ call[k].op = "ensure" /\ Finish(k, "ok")
      BY <1>2, <1>3, <2>1, <2>2, FinishStep DEF Results, Clean
    <2>3. CASE Clean(k, 0) /\ call' = [call EXCEPT ![k].step = "ask", ![k].healed = TRUE]
      <3>1. CallMoves(k) /\ SameQuestion(call[k], call'[k]) /\ call'[k].result = "none"
        BY <1>2, <2>3, HealStep
      <3>2. faults <= faults'
        BY <1>3, <2>3 DEF Clean
      <3> QED
        BY <2>1, <3>1, <3>2
    <2>4. CASE Faulty(k, 0) /\ (Finish(k, "unavailable") \/ Finish(k, "error"))
      <3>1. CallMoves(k) /\ SameQuestion(call[k], call'[k])
        BY <1>2, <2>4, FinishStep DEF Results
      <3>2. faults <= faults' /\ faults < faults'
        BY <1>2, <2>4, FaultyGrows
      <3> QED
        BY <2>1, <3>1, <3>2
    <2> QED
      BY <1>5, <2>2, <2>3, <2>4 DEF EnsureCustomerExists
  <1> QED
    BY <1>4, <1>5

\* A call that is dropped while it is asked may be recorded all the same.
LEMMA CancelEffect ==
    ASSUME IInv, NEW k \in Callers, Return(k) \/ Cancel(k)
    PROVE  /\ faults' = faults
           /\ \/ UNCHANGED usage
              \/ /\ Cancel(k) /\ Open(k) /\ call[k].op = "track"
                 /\ Books(call[k].customer, call[k].feature, call[k].value)
  <1>1. CASE Asking(k, "track") /\ Record(k) /\ Cancel(k)
    <2>1. Open(k) /\ call[k].op = "track"
      BY <1>1 DEF Asking
    <2>2. Types /\ call[k] \in Call
      BY <2>1, Asked
    <2> QED
      BY <1>1, <2>1, <2>2, RecordBooks DEF Cancel
  <1>2. CASE UNCHANGED usage
    BY <1>2 DEF Return, Cancel
  <1> QED
    BY <1>1, <1>2 DEF Return, Cancel

\* What the invariant says to the callers.
LEMMA TypesFollow == ASSUME IInv PROVE TypeOK
  <1>1. \A k \in Callers : call[k].op # "none" => call[k].result \in ResultsOf(call[k].op)
    BY OpenCall DEF IInv, Sound
  <1> QED
    BY <1>1 DEF IInv, Types, Calls, Call, Traces, Trace, TypeOK

LEMMA OnceFollows == ASSUME IInv PROVE TrackRecordsOnce
  <1> SUFFICES ASSUME NEW k \in Callers
               PROVE  /\ Over(k, "ok") /\ call[k].op = "track" => trace[k].recorded = call[k].value
                      /\ Over(k, "error") => trace[k].recorded \in {0, call[k].value}
                      /\ call[k].op # "none" /\ call[k].op # "track" => trace[k].recorded = 0
    BY DEF TrackRecordsOnce
  <1>1. CASE call[k] = NoCall
    BY <1>1 DEF NoCall, Over
  <1>2. CASE call[k] # NoCall
    BY <1>2 DEF IInv, Sound, Recorded, Over
  <1> QED
    BY <1>1, <1>2

LEMMA ReasonFollows == ASSUME IInv PROVE FailsOpenForReason
  BY OpenCall DEF IInv, Sound, Explained, Over, FailsOpenForReason

\* AutumnBilling's type invariant; in it, that a check is never an error.
THEOREM BillingTypeCorrect == Spec => []TypeOK
  <1>1. IInv => TypeOK
    BY TypesFollow
  <1> QED
    BY <1>1, Invariance, PTL

\* The retry of a track never records its value twice.
THEOREM TracksRecordOnce == Spec => []TrackRecordsOnce
  <1>1. IInv => TrackRecordsOnce
    BY OnceFollows
  <1> QED
    BY <1>1, Invariance, PTL

\* Nothing fails open, and no track fails, unless a request of that call did.
THEOREM FailuresHaveAReason == Spec => []FailsOpenForReason
  <1>1. IInv => FailsOpenForReason
    BY ReasonFollows
  <1> QED
    BY <1>1, Invariance, PTL

-----------------------------------------------------------------------------
(* The refinement: the gate sees the question and the answer of a call.     *)

Question(c) ==
    IF c.op = "none" THEN [op |-> "none"]
    ELSE [ op |-> c.op, customer |-> c.customer, feature |-> c.feature, value |-> c.value ]

AnswerTo(c) == IF c.op = "none" THEN "none" ELSE c.result

LEMMA GateSees ==
    ASSUME Types, NEW k \in Callers, CallMoves(k)
    PROVE  /\ AskedOf[k] = Question(call[k]) /\ AnswerOf[k] = AnswerTo(call[k])
           /\ AskedOf' = [AskedOf EXCEPT ![k] = Question(call'[k])]
           /\ AnswerOf' = [AnswerOf EXCEPT ![k] = AnswerTo(call'[k])]
  BY DEF AskedOf, AnswerOf, Question, AnswerTo, CallMoves

\* A request that does not end its call: a stuttering step of the gate.
LEMMA GateWaits ==
    ASSUME Types, NEW k \in Callers, call[k] \in Call, CallMoves(k),
           SameQuestion(call[k], call'[k]), call'[k].result = call[k].result, UNCHANGED usage
    PROVE  UNCHANGED Gate!gateVars
  <1>1. Question(call'[k]) = Question(call[k]) /\ AnswerTo(call'[k]) = AnswerTo(call[k])
    BY DEF SameQuestion, Question, AnswerTo
  <1>2. AskedOf' = AskedOf /\ AnswerOf' = AnswerOf
    <2>1. AskedOf[k] = Question(call[k]) /\ AnswerOf[k] = AnswerTo(call[k])
      BY GateSees
    <2>2. AskedOf' = [AskedOf EXCEPT ![k] = AskedOf[k]] /\ AnswerOf' = [AnswerOf EXCEPT ![k] = AnswerOf[k]]
      BY <1>1, <2>1, GateSees
    <2> QED
      BY <2>2 DEF AskedOf, AnswerOf
  <1> QED
    BY <1>2 DEF Gate!gateVars

\* The request that ends it.
LEMMA GateAnswers ==
    ASSUME Types, NEW k \in Callers, call[k] \in Call, call[k].result = "none", CallMoves(k),
           SameQuestion(call[k], call'[k]), NEW r, call'[k].result = r
    PROVE  /\ Gate!Answered(k, r)
           /\ AskedOf[k].op = call[k].op /\ AskedOf[k].customer = call[k].customer
           /\ AskedOf[k].feature = call[k].feature /\ AskedOf[k].value = call[k].value
  <1>1. call[k].op # "none" /\ call'[k].op # "none"
    BY DEF Call, Ops, SameQuestion
  <1>2. Question(call'[k]) = Question(call[k]) /\ AnswerTo(call[k]) = "none" /\ AnswerTo(call'[k]) = r
    BY <1>1 DEF SameQuestion, Question, AnswerTo
  <1>3. /\ AskedOf[k] = Question(call[k]) /\ AnswerOf[k] = "none"
        /\ AskedOf' = [AskedOf EXCEPT ![k] = Question(call[k])]
        /\ AnswerOf' = [AnswerOf EXCEPT ![k] = r]
    BY <1>2, GateSees
  <1>4. AskedOf' = AskedOf
    BY <1>3 DEF AskedOf
  <1>5. /\ AskedOf[k].op = call[k].op /\ AskedOf[k].customer = call[k].customer
        /\ AskedOf[k].feature = call[k].feature /\ AskedOf[k].value = call[k].value
    BY <1>1, <1>3 DEF Question
  <1> QED
    BY <1>1, <1>3, <1>4, <1>5 DEF Gate!Answered

LEMMA GateRecords ==
    ASSUME NEW k \in Callers, Record(k), AskedOf[k].customer = call[k].customer,
           AskedOf[k].feature = call[k].feature, AskedOf[k].value = call[k].value
    PROVE  Gate!Record(k)
  BY DEF Record, Gate!Record

LEMMA AnswerIsGateStep ==
    ASSUME IInv, NEW k \in Callers, Answer(k)
    PROVE  [Gate!Next]_(Gate!gateVars)
  <1>1. Open(k)
    BY DEF Answer, CheckFeature, TrackFeature, EnsureCustomerExists, Asking, Creating
  <1>2. /\ Types /\ call[k] \in Call /\ call[k].result = "none"
        /\ call[k].customer \in Customers /\ call[k].op \in Ops
    BY <1>1, Asked
  <1>3. ASSUME NEW r \in Results, Finish(k, r)
        PROVE  /\ Gate!Answered(k, r)
               /\ AskedOf[k].op = call[k].op /\ AskedOf[k].customer = call[k].customer
               /\ AskedOf[k].feature = call[k].feature /\ AskedOf[k].value = call[k].value
    <2>1. CallMoves(k) /\ SameQuestion(call[k], call'[k]) /\ call'[k].result = r
      BY <1>2, <1>3, FinishStep
    <2> QED
      BY <1>2, <2>1, GateAnswers
  <1>4. ASSUME Create(k), UNCHANGED usage PROVE UNCHANGED Gate!gateVars
    <2>1. /\ CallMoves(k) /\ SameQuestion(call[k], call'[k]) /\ call'[k].result = call[k].result
      BY <1>2, <1>4, CreateStep
    <2> QED
      BY <1>2, <1>4, <2>1, GateWaits
  <1>5. CASE CheckFeature(k)
    <2>1. call[k].op = "check" /\ UNCHANGED usage
      BY <1>5 DEF CheckFeature, Asking
    <2>2. \/ Finish(k, Verdict(k)) \/ Finish(k, "unavailable") \/ Create(k)
      BY <1>5 DEF CheckFeature
    <2>3. CASE Finish(k, "unavailable")
      <3>1. Gate!Check(k)
        BY <1>3, <2>1, <2>3 DEF Gate!Check, Results
      <3> QED
        BY <3>1 DEF Gate!Next
    <2>4. CASE Finish(k, Verdict(k))
      <3>1. PICK r \in {"allowed", "denied"} : r = Verdict(k) /\ Finish(k, r)
        BY <2>4 DEF Verdict
      <3>2. /\ Gate!Answered(k, r) /\ AskedOf[k].op = "check"
            /\ Gate!Used(k) = usage[call[k].customer][call[k].feature]
            /\ Limit[AskedOf[k].feature] = Limit[call[k].feature]
        BY <1>3, <2>1, <3>1 DEF Results, Gate!Used
      <3>3. /\ usage[call[k].customer][call[k].feature] \in Int
            /\ Limit[call[k].feature] \in Nat
        BY <1>2, LimitAssumption DEF Types, Call
      <3>4. Gate!Check(k)
        BY <2>1, <3>1, <3>2, <3>3 DEF Gate!Check, Verdict
      <3> QED
        BY <3>4 DEF Gate!Next
    <2> QED
      BY <1>4, <2>1, <2>2, <2>3, <2>4
  <1>6. CASE TrackFeature(k)
    <2>1. call[k].op = "track"
      BY <1>6 DEF TrackFeature, Asking
    <2>2. \/ Finish(k, "ok") /\ Record(k)
          \/ Finish(k, "error") /\ (Record(k) \/ UNCHANGED usage)
          \/ Create(k) /\ UNCHANGED usage
      BY <1>6 DEF TrackFeature
    <2>3. CASE Finish(k, "ok") /\ Record(k)
      <3>1. Gate!Track(k)
        BY <1>3, <2>1, <2>3, GateRecords DEF Gate!Track, Results
      <3> QED
        BY <3>1 DEF Gate!Next
    <2>4. CASE Finish(k, "error") /\ (Record(k) \/ UNCHANGED usage)
      <3>1. Gate!Track(k)
        BY <1>3, <2>1, <2>4, GateRecords DEF Gate!Track, Results
      <3> QED
        BY <3>1 DEF Gate!Next
    <2> QED
      BY <1>4, <2>2, <2>3, <2>4
  <1>7. CASE EnsureCustomerExists(k)
    <2>1. UNCHANGED usage
      BY <1>7 DEF EnsureCustomerExists
    <2>2. \/ call[k].op = "ensure" /\ (Finish(k, "ok") \/ Finish(k, "error"))
          \/ call[k].op = "check" /\ Finish(k, "unavailable")
          \/ call[k].op = "track" /\ Finish(k, "error")
          \/ call' = [call EXCEPT ![k].step = "ask", ![k].healed = TRUE]
      BY <1>2, <1>7 DEF EnsureCustomerExists, Ops
    <2>3. CASE call[k].op = "ensure" /\ (Finish(k, "ok") \/ Finish(k, "error"))
      <3>1. Gate!Ensure(k)
        BY <1>3, <2>1, <2>3 DEF Gate!Ensure, Results
      <3> QED
        BY <3>1 DEF Gate!Next
    <2>4. CASE call[k].op = "check" /\ Finish(k, "unavailable")
      <3>1. Gate!Check(k)
        BY <1>3, <2>1, <2>4 DEF Gate!Check, Results
      <3> QED
        BY <3>1 DEF Gate!Next
    <2>5. CASE call[k].op = "track" /\ Finish(k, "error")
      <3>1. Gate!Track(k)
        BY <1>3, <2>1, <2>5 DEF Gate!Track, Results
      <3> QED
        BY <3>1 DEF Gate!Next
    <2>6. CASE call' = [call EXCEPT ![k].step = "ask", ![k].healed = TRUE]
      <3>1. CallMoves(k) /\ SameQuestion(call[k], call'[k]) /\ call'[k].result = call[k].result
        BY <1>2, <2>6, HealStep
      <3> QED
        BY <1>2, <2>1, <3>1, GateWaits
    <2> QED
      BY <2>2, <2>3, <2>4, <2>5, <2>6
  <1> QED
    BY <1>5, <1>6, <1>7 DEF Answer

LEMMA RestIsGateStep ==
    ASSUME IInv, {0, 1} \subseteq Values, NEW k \in Callers,
           \/ Return(k) \/ Cancel(k)
           \/ \E op \in Ops, c \in Customers, f \in Features :
                \E v \in ValuesOf(op, f) : Request(k, op, c, f, v)
    PROVE  Gate!Next
  <1>1. Types
    BY DEF IInv
  <1>2. ASSUME NEW op \in Ops, NEW c \in Customers, NEW f \in Features,
               NEW v \in ValuesOf(op, f), Request(k, op, c, f, v)
        PROVE  Gate!Next
    <2> DEFINE r == [ op |-> op, customer |-> c, feature |-> f, value |-> v,
                      step |-> IF op = "ensure" THEN "create" ELSE "ask",
                      healed |-> FALSE, result |-> "none" ]
    <2>1. v \in Int /\ v \in Values
      BY ValuesAssumption DEF ValuesOf
    <2>2. r \in Call
      BY <2>1 DEF Call, Results
    <2>3. /\ Question(r) = [op |-> op, customer |-> c, feature |-> f, value |-> v]
          /\ AnswerTo(r) = "none"
      BY DEF Question, AnswerTo, Ops
    <2>4. call' = [call EXCEPT ![k] = r] /\ call[k] = NoCall /\ UNCHANGED usage
      BY <1>2 DEF Request
    <2> HIDE DEF r
    <2>5. CallMoves(k) /\ call'[k] = r
      BY <1>1, <2>2, <2>4, CallSet
    <2>6. /\ AskedOf[k] = [op |-> "none"] /\ AnswerOf[k] = "none"
          /\ AskedOf' = [AskedOf EXCEPT ![k] = [op |-> op, customer |-> c, feature |-> f, value |-> v]]
          /\ AnswerOf' = [AnswerOf EXCEPT ![k] = "none"]
      <3>1. Question(call[k]) = [op |-> "none"] /\ AnswerTo(call[k]) = "none"
        BY <2>4 DEF Question, AnswerTo, NoCall
      <3>2. /\ AskedOf[k] = Question(call[k]) /\ AnswerOf[k] = AnswerTo(call[k])
            /\ AskedOf' = [AskedOf EXCEPT ![k] = Question(r)]
            /\ AnswerOf' = [AnswerOf EXCEPT ![k] = AnswerTo(r)]
        BY <1>1, <2>5, GateSees
      <3> QED
        BY <2>3, <3>1, <3>2
    <2>7. AnswerOf' = AnswerOf
      BY <2>6 DEF AnswerOf
    <2>8. Gate!Request(k, op, c, f, v)
      BY <2>4, <2>6, <2>7 DEF Gate!Request, Gate!NoRequest
    <2> QED
      BY <2>1, <2>8 DEF Gate!Next, Ops
  <1>3. CASE Return(k) \/ Cancel(k)
    <2>1. call[k].op # "none" /\ call' = [call EXCEPT ![k] = NoCall]
      BY <1>3 DEF Return, Cancel, Open
    <2>2. CallMoves(k) /\ call'[k] = NoCall
      BY <1>1, <2>1, CallSet
    <2>3. Question(NoCall) = [op |-> "none"] /\ AnswerTo(NoCall) = "none"
      BY DEF Question, AnswerTo, NoCall
    <2>4. /\ AskedOf' = [AskedOf EXCEPT ![k] = [op |-> "none"]]
          /\ AnswerOf' = [AnswerOf EXCEPT ![k] = "none"]
          /\ AnswerOf[k] = call[k].result
          /\ AskedOf[k] = Question(call[k])
      BY <1>1, <2>1, <2>2, <2>3, GateSees DEF AnswerTo
    <2>5. /\ AskedOf[k].op = call[k].op /\ AskedOf[k].customer = call[k].customer
          /\ AskedOf[k].feature = call[k].feature /\ AskedOf[k].value = call[k].value
      BY <2>1, <2>4 DEF Question
    <2>6. CASE Return(k)
      <3>1. Gate!Return(k)
        BY <2>4, <2>6 DEF Return, Gate!Return, Gate!NoRequest
      <3> QED
        BY <3>1 DEF Gate!Next
    <2>7. CASE Cancel(k)
      <3>1. \/ UNCHANGED usage
            \/ call[k].op = "track" /\ call[k].result = "none" /\ Record(k)
        BY <2>7 DEF Cancel, Asking, Open
      <3>2. Gate!Cancel(k)
        BY <2>1, <2>4, <2>5, <3>1, GateRecords DEF Gate!Cancel, Gate!NoRequest
      <3> QED
        BY <3>2 DEF Gate!Next
    <2> QED
      BY <1>3, <2>6, <2>7
  <1> QED
    BY <1>2, <1>3

\* The requests of a call, its self-heal and its failures included, add up to
\* the one step that the trait BillingGate promises its callers.
THEOREM GateIsImplemented == {0, 1} \subseteq Values => (Spec => ImplementsGate)
  <1>1. Init => Gate!Init
    BY DEF Init, Gate!Init, Gate!NoRequest, AskedOf, AnswerOf, NoCall
  <1>2. ASSUME {0, 1} \subseteq Values, IInv, [Next]_billingVars
        PROVE  [Gate!Next]_(Gate!gateVars)
    <2>1. CASE UNCHANGED billingVars
      BY <2>1 DEF billingVars, Gate!gateVars, AskedOf, AnswerOf
    <2>2. ASSUME NEW k \in Callers, Answer(k) PROVE [Gate!Next]_(Gate!gateVars)
      BY <1>2, <2>2, AnswerIsGateStep
    <2>3. ASSUME NEW k \in Callers,
                 \/ Return(k) \/ Cancel(k)
                 \/ \E op \in Ops, c \in Customers, f \in Features :
                      \E v \in ValuesOf(op, f) : Within(c, f, v) /\ Request(k, op, c, f, v)
          PROVE  Gate!Next
      BY <1>2, <2>3, RestIsGateStep
    <2> QED
      BY <1>2, <2>1, <2>2, <2>3 DEF Next
  <1>3. SUFFICES ASSUME {0, 1} \subseteq Values PROVE Spec => ImplementsGate
    OBVIOUS
  <1>4. IInv /\ [Next]_billingVars => [Gate!Next]_(Gate!gateVars)
    BY <1>2, <1>3
  <1> QED
    BY <1>1, <1>4, Invariance, PTL DEF Spec, ImplementsGate

=============================================================================
