---------------------------- MODULE UsageMetering ---------------------------
(***************************************************************************)
(* The metering of triages: the workers check the plan and track usage at  *)
(* the billing provider, journal what they could not track in the table    *)
(* untracked_usage, and run_usage_retracker tracks the journal later.      *)
(*                                                                         *)
(* A triage is one pass of process_job through billing; what the agent     *)
(* does in between is left out (module TriageWorker has it).  The provider *)
(* is external: it counts the units tracked and may be down.               *)
(*                                                                         *)
(* A triage inserts at most one row into untracked_usage, so a row goes by *)
(* its triage.  Of its id only the order counts: an insert draws the id    *)
(* (BIGSERIAL) before the row is visible, so a row may show after rows     *)
(* with higher ids, MaxAhead - 1 of them at most.                          *)
(***************************************************************************)
EXTENDS Naturals, FiniteSets

CONSTANTS
    Triages,       \* passes of process_job
    Customers,     \* GitHub App installations
    CustomerOf,    \* CustomerOf[t]: whom triage t is billed to
    Retrackers,    \* run_usage_retracker loops: main.rs spawns one per process
    WorkerCount,   \* triages in progress at a time
    Quota,         \* units of the plan
    BatchLimit,    \* the 50 of drain_untracked_usage
    Rejected,      \* customers whose track call the provider refuses
    MaxAhead,      \* bound on how far ids are drawn ahead of the inserts
    MaxOutages,    \* bound on the outages of the provider
    MaxSlips       \* bound on the faults that hit the metering of one triage

ASSUME CustomerAssumption == CustomerOf \in [Triages -> Customers]
ASSUME MeteringAssumption ==
    /\ WorkerCount \in Nat \ {0}
    /\ Quota \in Nat
    /\ BatchLimit \in Nat \ {0}
    /\ Rejected \subseteq Customers
    /\ MaxAhead \in Nat \ {0}
    /\ MaxOutages \in Nat
    /\ MaxSlips \in Nat

VARIABLES
    up,       \* the provider answers
    outages,  \* outages so far
    billed,   \* billed[t]: units the provider recorded for triage t
    stage,    \* stage[t]: how far triage t has got
    journal,  \* the table untracked_usage: journal[t], the row of triage t
    place,    \* place[t]: where the row of t comes in id order
    batch,    \* batch[r]: rows retracker r has drained and not yet handled
    marking,  \* marking[r]: r has tracked the next row of its batch
    slips     \* ghost: slips[t], the faults that hit the metering of t

vars == <<up, outages, billed, stage, journal, place, batch, marking, slips>>

Stage == { "pending", "allowed", "unavailable", "denied", "skipped",
           "journal", "metered", "unmetered" }

UsageRow == { "none", "untracked", "tracked" }

Rows == { t \in Triages : journal[t] # "none" }

\* The row of t has a lower id than that of u.
Before(t, u) == place[t] < place[u]

Mine(c) == { t \in Triages : CustomerOf[t] = c }

\* The units n[t] counted for the triages of customer c.
UnitsOf(n, c) == UNION { {t} \X (1 .. n[t]) : t \in Mine(c) }

Used(c) == Cardinality(UnitsOf(billed, c))

InProgress == { t \in Triages : stage[t] \in {"allowed", "unavailable", "journal"} }

Bill(t)      == billed' = [billed EXCEPT ![t] = @ + 1]
Move(t, s)   == stage' = [stage EXCEPT ![t] = s]
Slip(t)      == slips[t] < MaxSlips /\ slips' = [slips EXCEPT ![t] = @ + 1]
Tracks(t)    == up /\ CustomerOf[t] \notin Rejected

-----------------------------------------------------------------------------

Init ==
    /\ up \in BOOLEAN
    /\ outages = 0
    /\ billed = [t \in Triages |-> 0]
    /\ stage = [t \in Triages |-> "pending"]
    /\ journal = [t \in Triages |-> "none"]
    /\ place = [t \in Triages |-> 0]
    /\ batch = [r \in Retrackers |-> {}]
    /\ marking = [r \in Retrackers |-> FALSE]
    /\ slips = [t \in Triages |-> 0]

GoDown ==
    /\ up /\ outages < MaxOutages
    /\ up' = FALSE
    /\ outages' = outages + 1
    /\ UNCHANGED <<billed, stage, journal, place, batch, marking, slips>>

Recover ==
    /\ ~ up
    /\ up' = TRUE
    /\ UNCHANGED <<outages, billed, stage, journal, place, batch, marking, slips>>

-----------------------------------------------------------------------------
(* The worker.                                                             *)

\* Mutant: the limit of the plan is inclusive.
VerdictInclusive(c) ==
    IF ~ up THEN "unavailable"
    ELSE IF Used(c) <= Quota THEN "allowed" ELSE "denied"

\* check_triage: fails open.
Verdict(c) ==
    IF ~ up THEN "unavailable"
    ELSE IF Used(c) < Quota THEN "allowed" ELSE "denied"

CheckTriage(t) ==
    /\ stage[t] = "pending"
    /\ Cardinality(InProgress) < WorkerCount
    /\ Move(t, Verdict(CustomerOf[t]))
    /\ UNCHANGED <<up, outages, billed, journal, place, batch, marking, slips>>

\* The agent skips the pull request or fails: nothing to meter.
Skip(t) ==
    /\ stage[t] \in {"allowed", "unavailable"}
    /\ Move(t, "skipped")
    /\ UNCHANGED <<up, outages, billed, journal, place, batch, marking, slips>>

\* Mutant: an outage at the check is tracked like any other triage, and the
\* result of the call is not looked at.
TrackTriageUnchecked(t) ==
    /\ stage[t] \in {"allowed", "unavailable"}
    /\ IF Tracks(t) THEN Bill(t) ELSE UNCHANGED billed
    /\ Move(t, "metered")
    /\ UNCHANGED <<up, outages, journal, place, batch, marking, slips>>

\* Mutant: the journal is written in any case.
TrackTriageTwice(t) ==
    /\ stage[t] \in {"allowed", "unavailable"}
    /\ IF stage[t] = "allowed" /\ Tracks(t) THEN Bill(t) ELSE UNCHANGED billed
    /\ Move(t, "journal")
    /\ UNCHANGED <<up, outages, journal, place, batch, marking, slips>>

\* The triage is executed; one unit is tracked unless the check already found
\* the provider down.  An error sends it to the journal, also when the unit was
\* recorded and only the answer got lost.
TrackTriage(t) ==
    /\ \/ /\ stage[t] = "allowed" /\ Tracks(t)
          /\ Bill(t)
          /\ \/ Move(t, "metered") /\ UNCHANGED slips
             \/ Move(t, "journal") /\ Slip(t)
       \/ /\ \/ stage[t] = "unavailable"
             \/ stage[t] = "allowed" /\ ~ Tracks(t)
          /\ Move(t, "journal")
          /\ UNCHANGED <<billed, slips>>
    /\ UNCHANGED <<up, outages, journal, place, batch, marking>>

\* The places a new row may take: at the end, or before rows inserted while its
\* own insert was running.
NewPlaces == { p \in 1 .. Cardinality(Rows) + 1 : p + MaxAhead > Cardinality(Rows) + 1 }

\* journal_untracked_usage.
Insert(t) ==
    /\ journal' = [journal EXCEPT ![t] = "untracked"]
    /\ \E p \in NewPlaces :
          place' = [u \in Triages |-> IF u = t THEN p
                                     ELSE IF place[u] >= p THEN place[u] + 1
                                     ELSE place[u]]

JournalUsage(t) ==
    /\ stage[t] = "journal"
    /\ Insert(t)
    /\ Move(t, "metered")
    /\ UNCHANGED <<up, outages, billed, batch, marking, slips>>

\* The process ends after the triage was executed, or the insert into the
\* journal fails, with or without effect: process_job returns, and the job is
\* not run again.
LoseUsage(t) ==
    /\ stage[t] \in {"allowed", "unavailable", "journal"}
    /\ Slip(t)
    /\ Move(t, "unmetered")
    /\ \/ UNCHANGED <<journal, place>>
       \/ stage[t] = "journal" /\ Insert(t)
    /\ UNCHANGED <<up, outages, billed, batch, marking>>

-----------------------------------------------------------------------------
(* run_usage_retracker.                                                    *)

\* Mutant: NOT missing from the WHERE clause.
PendingTracked == { t \in Triages : journal[t] = "tracked" }

\* WHERE NOT tracked
Pending == { t \in Triages : journal[t] = "untracked" }

\* ORDER BY id LIMIT BatchLimit
Drained == { t \in Pending : Cardinality({ u \in Pending : Before(u, t) }) < BatchLimit }

\* Sleep, then drain_untracked_usage.  The rows are read, not claimed.
Drain(r) ==
    /\ batch[r] = {}
    /\ Pending # {}
    /\ batch' = [batch EXCEPT ![r] = Drained]
    /\ UNCHANGED <<up, outages, billed, stage, journal, place, marking, slips>>

\* The rows are handled in id order.
Lowest(s) == { t \in s : \A u \in s : ~ Before(u, t) }

NextRow(r) == CHOOSE t \in Lowest(batch[r]) : TRUE

\* track_triage for the next row; the first error ends the batch.
Retrack(r) ==
    /\ batch[r] # {} /\ ~ marking[r]
    /\ \/ /\ Tracks(NextRow(r)) /\ Bill(NextRow(r))
          /\ \/ marking' = [marking EXCEPT ![r] = TRUE] /\ UNCHANGED <<batch, slips>>
             \/ batch' = [batch EXCEPT ![r] = {}] /\ Slip(NextRow(r)) /\ UNCHANGED marking
       \/ /\ ~ Tracks(NextRow(r))
          /\ batch' = [batch EXCEPT ![r] = {}]
          /\ UNCHANGED <<billed, marking, slips>>
    /\ UNCHANGED <<up, outages, stage, journal, place>>

\* mark_usage_tracked; an error is logged and the loop goes on.
Mark(r) ==
    /\ marking[r]
    /\ \/ journal' = [journal EXCEPT ![NextRow(r)] = "tracked"] /\ UNCHANGED slips
       \/ UNCHANGED journal /\ Slip(NextRow(r))
    /\ batch' = [batch EXCEPT ![r] = @ \ {NextRow(r)}]
    /\ marking' = [marking EXCEPT ![r] = FALSE]
    /\ UNCHANGED <<up, outages, billed, stage, place>>

\* The process ends: the batch is in memory only.
CrashRetracker(r) ==
    /\ batch[r] # {}
    /\ IF marking[r] THEN Slip(NextRow(r)) ELSE UNCHANGED slips
    /\ batch' = [batch EXCEPT ![r] = {}]
    /\ marking' = [marking EXCEPT ![r] = FALSE]
    /\ UNCHANGED <<up, outages, billed, stage, journal, place>>

-----------------------------------------------------------------------------

WorkerStep(t) == CheckTriage(t) \/ Skip(t) \/ TrackTriage(t) \/ JournalUsage(t) \/ LoseUsage(t)

RetrackerStep(r) == Drain(r) \/ Retrack(r) \/ Mark(r) \/ CrashRetracker(r)

Next ==
    \/ GoDown \/ Recover
    \/ \E t \in Triages : WorkerStep(t)
    \/ \E r \in Retrackers : RetrackerStep(r)

Spec == Init /\ [][Next]_vars

\* Outages end; the retracker runs every interval and does not die in the middle
\* of every batch.
Fairness ==
    /\ WF_vars(Recover)
    /\ \A r \in Retrackers : WF_vars(Drain(r)) /\ SF_vars(Retrack(r)) /\ SF_vars(Mark(r))

FairSpec == Spec /\ Fairness

-----------------------------------------------------------------------------

\* Type invariant.
TypeOK ==
    /\ up \in BOOLEAN
    /\ outages \in 0 .. MaxOutages
    /\ billed \in [Triages -> Nat]
    /\ stage \in [Triages -> Stage]
    /\ journal \in [Triages -> UsageRow]
    /\ place \in [Triages -> Nat]
    /\ batch \in [Retrackers -> SUBSET Rows]
    /\ marking \in [Retrackers -> BOOLEAN]
    /\ \A r \in Retrackers : marking[r] => batch[r] # {}
    /\ slips \in [Triages -> 0 .. MaxSlips]

\* No usage is dropped silently: a triage that process_job has metered was
\* billed, or waits in the journal to be, in every outage and after every crash
\* of the retracker.
MeteredIsAccounted ==
    \A t \in Triages : stage[t] = "metered" => billed[t] > 0 \/ t \in Pending

\* Every unit too many, and every executed triage not metered, is explained by
\* a lost answer, a failed statement or a crash at that triage: outages alone,
\* retries and batches never bill twice (with one retracker).
ErrorsAreExplained ==
    \A t \in Triages :
        /\ billed[t] <= 1 + slips[t]
        /\ stage[t] = "unmetered" => slips[t] > 0
        /\ stage[t] \in {"pending", "denied", "skipped"} => billed[t] = 0

\* The check and the track are two calls, so the quota is overrun, but by no
\* more than the triages of the other workers in between, the triages that were
\* executed or journaled in an outage, and the units billed in error.
OverrunIsBounded ==
    \A c \in Customers :
        Used(c) <= Quota + (WorkerCount - 1)
                     + Cardinality(Rows \cap Mine(c))
                     + Cardinality(UnitsOf(slips, c))

\* A row of a customer whose usage the provider refuses comes before t's: the
\* batch ends there, each time.
Blocked(t) ==
    \E u \in Rows : CustomerOf[u] \in Rejected /\ Before(u, t)

\* README.md: "a background task re-tracks journaled usage once the provider
\* recovers".  So it does for every row but those of a customer whose usage the
\* provider refuses and, contrary to that line, those that come after one.
JournalDrains ==
    []<>(\A t \in Rows :
           journal[t] = "tracked" \/ CustomerOf[t] \in Rejected \/ Blocked(t))

=============================================================================
