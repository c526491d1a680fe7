------------------------ MODULE UsageMeteringProofs -------------------------
(***************************************************************************)
(* Theorems of UsageMetering for any triages, customers, plan, batch size, *)
(* outages and faults: no usage is dropped silently, by any number of      *)
(* retrackers; and, by one retracker, no unit is billed in error without a *)
(* fault, and the quota is overrun by a bounded number of units.           *)
(***************************************************************************)
EXTENDS UsageMetering, WellFoundedInduction, FiniteSetTheorems, TLAPS

\* A retracker's next row is one of its batch: some id is the lowest.
LEMMA NextRowOfBatch ==
    ASSUME TypeOK, NEW r \in Retrackers, batch[r] # {}
    PROVE  NextRow(r) \in batch[r] /\ NextRow(r) \in Rows /\ NextRow(r) \in Triages
  <1> DEFINE P == { place[t] : t \in batch[r] }
  <1>1. batch[r] \subseteq Rows /\ Rows \subseteq Triages /\ \A t \in Triages : place[t] \in Nat
    BY DEF TypeOK, Rows
  <1>2. P \subseteq Nat /\ P # {}
    BY <1>1
  <1>3. PICK p \in P : \A q \in P : ~ (<<q, p>> \in OpToRel(<, Nat))
    <2> HIDE DEF P
    <2> QED
      BY <1>2, WFMin, NatLessThanWellFounded
  <1>4. PICK t \in batch[r] : place[t] = p
    BY <1>3
  <1>5. \A u \in batch[r] : ~ Before(u, t)
    <2> TAKE u \in batch[r]
    <2>1. place[u] \in P /\ place[u] \in Nat /\ p \in Nat
      BY <1>1, <1>4
    <2> QED
      BY <1>3, <1>4, <2>1, Zenon DEF OpToRel, Before
  <1>6. t \in Lowest(batch[r])
    BY <1>5 DEF Lowest
  <1>7. NextRow(r) \in Lowest(batch[r])
    BY <1>6, Zenon DEF NextRow
  <1> QED
    BY <1>1, <1>7 DEF Lowest

\* The next row stays the same as long as the batch and the order of its rows do.
LEMMA NextRowKept ==
    ASSUME NEW r, batch'[r] = batch[r],
           \A t, u \in batch[r] : Before(t, u)' <=> Before(t, u)
    PROVE  NextRow(r)' = NextRow(r)
  <1>1. Lowest(batch[r])' = Lowest(batch[r])
    BY DEF Lowest
  <1> QED
    BY <1>1, Zenon DEF NextRow

\* A fault counts within its bound, a unit is a unit.
LEMMA SlipTypes ==
    ASSUME TypeOK, NEW t \in Triages, Slip(t)
    PROVE  slips' \in [Triages -> 0 .. MaxSlips]
  <1>1. slips[t] \in 0 .. MaxSlips /\ slips[t] + 1 \in 0 .. MaxSlips
    BY MeteringAssumption DEF TypeOK, Slip
  <1> QED
    BY <1>1 DEF TypeOK, Slip

LEMMA BillTypes ==
    ASSUME TypeOK, NEW t \in Triages, Bill(t)
    PROVE  /\ billed' \in [Triages -> Nat]
           /\ billed'[t] = billed[t] + 1 /\ billed'[t] > 0
           /\ \A u \in Triages : u # t => billed'[u] = billed[u]
           /\ \A u \in Triages : billed'[u] \geq billed[u]
  <1>1. billed \in [Triages -> Nat] /\ billed[t] \in Nat
    BY DEF TypeOK
  <1>2. /\ billed' \in [Triages -> Nat] /\ billed'[t] = billed[t] + 1
        /\ \A u \in Triages : u # t => billed'[u] = billed[u]
    BY <1>1 DEF Bill
  <1> QED
    BY <1>1, <1>2

\* What the insert of a row does to the journal: the new row is untracked, the
\* others stay, in their order.
LEMMA InsertedRow ==
    ASSUME TypeOK, NEW t \in Triages, Insert(t)
    PROVE  /\ journal' \in [Triages -> UsageRow] /\ place' \in [Triages -> Nat]
           /\ journal'[t] = "untracked"
           /\ \A u \in Triages : u # t => journal'[u] = journal[u]
           /\ Rows' = Rows \cup {t}
           /\ \A u, v \in Triages \ {t} : Before(u, v)' <=> Before(u, v)
  <1>1. journal' \in [Triages -> UsageRow]
    BY DEF TypeOK, Insert, UsageRow
  <1>2. journal'[t] = "untracked" /\ \A u \in Triages : u # t => journal'[u] = journal[u]
    BY DEF TypeOK, Insert
  <1>3. Rows' = Rows \cup {t}
    BY <1>2 DEF Rows
  <1>4. PICK p \in NewPlaces :
            place' = [u \in Triages |-> IF u = t THEN p
                                      ELSE IF place[u] >= p THEN place[u] + 1 ELSE place[u]]
    BY DEF Insert
  <1>5. p \in Nat /\ \A u \in Triages : place[u] \in Nat
    BY DEF NewPlaces, TypeOK
  <1>6. place' \in [Triages -> Nat]
    BY <1>4, <1>5
  <1>7. \A u, v \in Triages \ {t} : Before(u, v)' <=> Before(u, v)
    BY <1>4, <1>5 DEF Before
  <1> QED
    BY <1>1, <1>2, <1>3, <1>6, <1>7

\* What marking a row does to the journal.
Marks(t) == journal' = [journal EXCEPT ![t] = "tracked"]

LEMMA MarkedRow ==
    ASSUME TypeOK, NEW t \in Rows, Marks(t)
    PROVE  /\ journal' \in [Triages -> UsageRow]
           /\ journal'[t] = "tracked"
           /\ \A u \in Triages : u # t => journal'[u] = journal[u]
           /\ Rows' = Rows
  <1>1. t \in Triages /\ journal \in [Triages -> UsageRow]
    BY DEF TypeOK, Rows
  <1>2. /\ journal' \in [Triages -> UsageRow]
        /\ journal'[t] = "tracked"
        /\ \A u \in Triages : u # t => journal'[u] = journal[u]
    BY <1>1 DEF Marks, UsageRow
  <1> QED
    BY <1>2 DEF Rows

\* An outage keeps the types.
LEMMA ProviderTypes ==
    ASSUME TypeOK, GoDown \/ Recover
    PROVE  TypeOK'
  <1>1. outages' \in 0 .. MaxOutages
    BY MeteringAssumption DEF TypeOK, GoDown, Recover
  <1> QED
    BY <1>1 DEF TypeOK, GoDown, Recover, Rows

\* Each step of a triage keeps the types.
LEMMA WorkerTypes ==
    ASSUME TypeOK, NEW t \in Triages, WorkerStep(t)
    PROVE  TypeOK'
  <1>1. CASE CheckTriage(t)
    BY <1>1 DEF TypeOK, CheckTriage, Verdict, Move, Stage, Rows
  <1>2. CASE Skip(t)
    BY <1>2 DEF TypeOK, Skip, Move, Stage, Rows
  <1>3. CASE TrackTriage(t)
    <2>1. billed' \in [Triages -> Nat] /\ slips' \in [Triages -> 0 .. MaxSlips]
      BY <1>3, BillTypes, SlipTypes DEF TypeOK, TrackTriage
    <2> QED
      BY <1>3, <2>1 DEF TypeOK, TrackTriage, Move, Stage, Rows
  <1>4. CASE JournalUsage(t)
    <2>1. journal' \in [Triages -> UsageRow] /\ place' \in [Triages -> Nat] /\ Rows \subseteq Rows'
      BY <1>4, InsertedRow DEF JournalUsage
    <2> QED
      BY <1>4, <2>1 DEF TypeOK, JournalUsage, Move, Stage
  <1>5. CASE LoseUsage(t)
    <2>1. journal' \in [Triages -> UsageRow] /\ place' \in [Triages -> Nat] /\ Rows \subseteq Rows'
      <3>1. CASE UNCHANGED <<journal, place>>
        BY <3>1 DEF TypeOK, Rows
      <3>2. CASE Insert(t)
        BY <3>2, InsertedRow
      <3> QED
        BY <1>5, <3>1, <3>2 DEF LoseUsage
    <2> QED
      BY <1>5, <2>1, SlipTypes DEF TypeOK, LoseUsage, Move, Stage
  <1> QED
    BY <1>1, <1>2, <1>3, <1>4, <1>5 DEF WorkerStep

\* Each step of a retracker keeps the types.
LEMMA RetrackerTypes ==
    ASSUME TypeOK, NEW r \in Retrackers, RetrackerStep(r)
    PROVE  TypeOK'
  <1>1. CASE Drain(r)
    BY <1>1 DEF TypeOK, Drain, Drained, Pending, Rows
  <1>2. CASE Retrack(r)
    <2>1. NextRow(r) \in Triages
      BY <1>2, NextRowOfBatch DEF Retrack
    <2>2. billed' \in [Triages -> Nat] /\ slips' \in [Triages -> 0 .. MaxSlips]
      BY <1>2, <2>1, BillTypes, SlipTypes DEF TypeOK, Retrack
    <2> QED
      BY <1>2, <2>2 DEF TypeOK, Retrack, Rows
  <1>3. CASE Mark(r)
    <2>1. NextRow(r) \in Rows /\ NextRow(r) \in Triages
      BY <1>3, NextRowOfBatch DEF Mark, TypeOK
    <2>2. slips' \in [Triages -> 0 .. MaxSlips]
      BY <1>3, <2>1, SlipTypes DEF TypeOK, Mark
    <2>3. journal' \in [Triages -> UsageRow] /\ Rows' = Rows
      <3>1. CASE UNCHANGED journal
        BY <3>1 DEF TypeOK, Rows
      <3>2. CASE Marks(NextRow(r))
        BY <2>1, <3>2, MarkedRow
      <3> QED
        BY <1>3, <3>1, <3>2 DEF Mark, Marks
    <2> QED
      BY <1>3, <2>2, <2>3 DEF TypeOK, Mark
  <1>4. CASE CrashRetracker(r)
    <2>1. NextRow(r) \in Triages
      BY <1>4, NextRowOfBatch DEF CrashRetracker
    <2>2. slips' \in [Triages -> 0 .. MaxSlips]
      BY <1>4, <2>1, SlipTypes DEF TypeOK, CrashRetracker
    <2> QED
      BY <1>4, <2>2 DEF TypeOK, CrashRetracker, Rows
  <1> QED
    BY <1>1, <1>2, <1>3, <1>4 DEF RetrackerStep

\* UsageMetering's type invariant.
THEOREM MeteringTypeCorrect == Spec => []TypeOK
  <1>1. Init => TypeOK
    BY MeteringAssumption DEF Init, TypeOK, Stage, UsageRow, Rows
  <1>2. TypeOK /\ [Next]_vars => TypeOK'
    <2> SUFFICES ASSUME TypeOK, [Next]_vars PROVE TypeOK'
      OBVIOUS
    <2>1. CASE UNCHANGED vars
      BY <2>1 DEF TypeOK, vars, Rows
    <2>2. CASE Next
      BY <2>2, ProviderTypes, WorkerTypes, RetrackerTypes DEF Next
    <2> QED
      BY <2>1, <2>2
  <1> QED
    BY <1>1, <1>2, PTL DEF Spec

-----------------------------------------------------------------------------
(* Nothing is dropped silently: a row is marked only after its unit was    *)
(* recorded, by whichever retracker.                                       *)

\* A row is inserted at the end of a triage.
RowsAreOwn == \A t \in Rows : stage[t] \in {"metered", "unmetered"}

RowIsBilled == \A t \in Triages : journal[t] = "tracked" => billed[t] > 0

MarkIsBilled == \A r \in Retrackers : marking[r] => billed[NextRow(r)] > 0

AccountInv == TypeOK /\ RowsAreOwn /\ RowIsBilled /\ MarkIsBilled /\ MeteredIsAccounted

\* A step of one triage that leaves the journal and the batches alone: the triage
\* has no row, and is not metered without being billed.
LEMMA AccountFrame ==
    ASSUME AccountInv, TypeOK', UNCHANGED <<journal, place, batch, marking>>,
           \A t \in Triages : billed'[t] \geq billed[t],
           \A t \in Triages : stage'[t] = stage[t] \/ stage[t] \notin {"metered", "unmetered"},
           \A t \in Triages : stage'[t] = "metered" => stage[t] = "metered" \/ billed'[t] > 0
    PROVE  AccountInv'
  <1>1. Rows' = Rows /\ Rows \subseteq Triages
    BY DEF Rows
  <1>2. \A t \in Triages : billed[t] \in Nat /\ billed'[t] \in Nat
    BY DEF AccountInv, TypeOK
  <1>3. RowsAreOwn'
    BY <1>1 DEF AccountInv, RowsAreOwn
  <1>4. RowIsBilled'
    BY <1>2 DEF AccountInv, RowIsBilled
  <1>5. MarkIsBilled'
    <2> SUFFICES ASSUME NEW r \in Retrackers, marking[r] PROVE billed'[NextRow(r)'] > 0
      BY DEF MarkIsBilled
    <2>1. NextRow(r)' = NextRow(r)
      BY NextRowKept DEF Before
    <2>2. NextRow(r) \in Triages
      BY NextRowOfBatch DEF AccountInv, TypeOK
    <2> QED
      BY <1>2, <2>1, <2>2 DEF AccountInv, MarkIsBilled
  <1>6. MeteredIsAccounted'
    BY <1>2 DEF AccountInv, MeteredIsAccounted, Pending
  <1> QED
    BY <1>3, <1>4, <1>5, <1>6 DEF AccountInv

\* The insert of a row keeps the account: the row is new, and no batch has it.
LEMMA InsertAccount ==
    ASSUME AccountInv, TypeOK', NEW t \in Triages, Insert(t), stage[t] = "journal",
           stage'[t] \in {"metered", "unmetered"},
           \A u \in Triages : u # t => stage'[u] = stage[u],
           UNCHANGED <<billed, batch, marking>>
    PROVE  AccountInv'
  <1>1. /\ journal'[t] = "untracked"
        /\ \A u \in Triages : u # t => journal'[u] = journal[u]
        /\ Rows' = Rows \cup {t} /\ Rows \subseteq Triages
        /\ \A u, v \in Triages \ {t} : Before(u, v)' <=> Before(u, v)
    BY InsertedRow DEF AccountInv, Rows
  <1>2. t \notin Rows
    BY DEF AccountInv, RowsAreOwn
  <1>3. RowsAreOwn'
    BY <1>1 DEF AccountInv, RowsAreOwn
  <1>4. RowIsBilled'
    BY <1>1 DEF AccountInv, RowIsBilled
  <1>5. MarkIsBilled'
    <2> SUFFICES ASSUME NEW r \in Retrackers, marking[r] PROVE billed[NextRow(r)'] > 0
      BY DEF MarkIsBilled
    <2>1. batch[r] \subseteq Triages \ {t} /\ batch'[r] = batch[r]
      BY <1>1, <1>2 DEF AccountInv, TypeOK
    <2>2. \A u, v \in batch[r] : Before(u, v)' <=> Before(u, v)
      BY <1>1, <2>1
    <2>3. NextRow(r)' = NextRow(r)
      BY <2>1, <2>2, NextRowKept
    <2> QED
      BY <2>3 DEF AccountInv, MarkIsBilled
  <1>6. MeteredIsAccounted'
    BY <1>1 DEF AccountInv, MeteredIsAccounted, Pending
  <1> QED
    BY <1>3, <1>4, <1>5, <1>6 DEF AccountInv

\* A step of a triage keeps the account.
LEMMA WorkerAccount ==
    ASSUME AccountInv, NEW t \in Triages, WorkerStep(t)
    PROVE  AccountInv'
  <1>1. TypeOK /\ TypeOK'
    BY WorkerTypes DEF AccountInv
  <1>2. CASE CheckTriage(t) \/ Skip(t) \/ (LoseUsage(t) /\ UNCHANGED <<journal, place>>)
    BY <1>1, <1>2, AccountFrame DEF TypeOK, CheckTriage, Skip, LoseUsage, Move, Verdict
  <1>3. CASE TrackTriage(t)
    <2>1. \A u \in Triages : billed'[u] \geq billed[u]
      BY <1>1, <1>3, BillTypes DEF TypeOK, TrackTriage
    <2>2. /\ \A u \in Triages : stage'[u] = "metered" => stage[u] = "metered" \/ billed'[u] > 0
          /\ \A u \in Triages : stage'[u] = stage[u] \/ stage[u] \notin {"metered", "unmetered"}
      BY <1>1, <1>3, BillTypes DEF TypeOK, TrackTriage, Move
    <2> QED
      BY <1>1, <1>3, <2>1, <2>2, AccountFrame DEF TrackTriage
  <1>4. CASE JournalUsage(t)
    BY <1>1, <1>4, InsertAccount DEF TypeOK, JournalUsage, Move
  <1>5. CASE LoseUsage(t) /\ stage[t] = "journal" /\ Insert(t)
    BY <1>1, <1>5, InsertAccount DEF TypeOK, LoseUsage, Move
  <1> QED
    BY <1>2, <1>3, <1>4, <1>5 DEF WorkerStep, LoseUsage

\* A step of a retracker keeps the account.
LEMMA RetrackerAccount ==
    ASSUME AccountInv, NEW r \in Retrackers, RetrackerStep(r)
    PROVE  AccountInv'
  <1>1. TypeOK /\ TypeOK'
    BY RetrackerTypes DEF AccountInv
  <1>2. batch[r] # {} => NextRow(r) \in Rows /\ NextRow(r) \in Triages
    BY <1>1, NextRowOfBatch
  <1>3. \A q \in Retrackers : marking[q] => NextRow(q) \in Triages
    BY <1>1, NextRowOfBatch DEF TypeOK
  <1>4. \A t \in Triages : billed[t] \in Nat /\ billed'[t] \in Nat
    BY <1>1 DEF TypeOK
  <1>5. UNCHANGED <<stage, place>>
    BY DEF RetrackerStep, Drain, Retrack, Mark, CrashRetracker
  <1>6. \A q \in Retrackers : batch'[q] = batch[q] => NextRow(q)' = NextRow(q)
    BY <1>5, NextRowKept DEF Before
  <1>7. CASE Mark(r)
    <2>1. marking[r] /\ NextRow(r) \in Rows /\ NextRow(r) \in Triages
      BY <1>1, <1>2, <1>7 DEF Mark, TypeOK
    <2>2. UNCHANGED billed /\ marking' = [marking EXCEPT ![r] = FALSE]
      BY <1>7 DEF Mark
    <2>3. \A q \in Retrackers : q # r => batch'[q] = batch[q] /\ marking'[q] = marking[q]
      BY <1>1, <1>7 DEF Mark, TypeOK
    <2>4. /\ Rows' = Rows
          /\ \A t \in Triages : t # NextRow(r) => journal'[t] = journal[t]
      <3>1. CASE UNCHANGED journal
        BY <3>1 DEF Rows
      <3>2. CASE Marks(NextRow(r))
        BY <1>1, <2>1, <3>2, MarkedRow
      <3> QED
        BY <1>7, <3>1, <3>2 DEF Mark, Marks
    <2>5. billed[NextRow(r)] > 0
      BY <2>1 DEF AccountInv, MarkIsBilled
    <2>6. RowIsBilled' /\ RowsAreOwn'
      BY <1>5, <2>2, <2>4, <2>5 DEF AccountInv, RowIsBilled, RowsAreOwn
    <2>7. MarkIsBilled'
      <3> SUFFICES ASSUME NEW q \in Retrackers, marking'[q] PROVE billed[NextRow(q)'] > 0
        BY <2>2 DEF MarkIsBilled
      <3>1. q # r
        BY <1>1, <2>2 DEF TypeOK
      <3>2. marking[q] /\ NextRow(q)' = NextRow(q)
        BY <1>6, <2>3, <3>1
      <3> QED
        BY <3>2 DEF AccountInv, MarkIsBilled
    <2>8. MeteredIsAccounted'
      BY <1>5, <2>2, <2>4, <2>5 DEF AccountInv, MeteredIsAccounted, Pending
    <2> QED
      BY <1>1, <2>6, <2>7, <2>8 DEF AccountInv
  <1>8. CASE Drain(r) \/ Retrack(r) \/ CrashRetracker(r)
    <2>1. UNCHANGED journal /\ Rows' = Rows
      BY <1>8 DEF Drain, Retrack, CrashRetracker, Rows
    <2>2. \A t \in Triages : billed'[t] \geq billed[t]
      <3>1. CASE UNCHANGED billed
        BY <1>4, <3>1
      <3>2. CASE batch[r] # {} /\ Bill(NextRow(r))
        BY <1>1, <1>2, <3>2, BillTypes
      <3> QED
        BY <1>8, <3>1, <3>2 DEF Drain, Retrack, CrashRetracker
    <2>3. \A q \in Retrackers : q # r => batch'[q] = batch[q] /\ marking'[q] = marking[q]
      BY <1>1, <1>8 DEF Drain, Retrack, CrashRetracker, TypeOK
    <2>4. marking'[r] => \/ batch'[r] = batch[r] /\ marking'[r] = marking[r]
                         \/ batch'[r] = batch[r] /\ batch[r] # {} /\ billed'[NextRow(r)] > 0
      <3>1. CASE Drain(r)
        BY <1>1, <3>1 DEF Drain, TypeOK
      <3>2. CASE Retrack(r)
        <4>1. batch[r] # {} /\ NextRow(r) \in Triages
          BY <1>2, <3>2 DEF Retrack
        <4>2. \/ UNCHANGED marking
              \/ UNCHANGED batch /\ Bill(NextRow(r))
          BY <3>2 DEF Retrack
        <4>3. UNCHANGED marking => ~ marking'[r]
          BY <3>2 DEF Retrack
        <4> QED
          BY <1>1, <4>1, <4>2, <4>3, BillTypes
      <3>3. CASE CrashRetracker(r)
        BY <1>1, <3>3 DEF CrashRetracker, TypeOK
      <3> QED
        BY <1>8, <3>1, <3>2, <3>3
    <2>5. MarkIsBilled'
      <3> SUFFICES ASSUME NEW q \in Retrackers, marking'[q] PROVE billed'[NextRow(q)'] > 0
        BY DEF MarkIsBilled
      <3>1. marking[q] /\ batch'[q] = batch[q] => billed'[NextRow(q)] > 0
        BY <1>3, <1>4, <2>2 DEF AccountInv, MarkIsBilled
      <3> QED
        BY <1>6, <2>3, <2>4, <3>1
    <2>6. RowIsBilled' /\ RowsAreOwn'
      BY <1>4, <1>5, <2>1, <2>2 DEF AccountInv, RowIsBilled, RowsAreOwn
    <2>7. MeteredIsAccounted'
      BY <1>4, <1>5, <2>1, <2>2 DEF AccountInv, MeteredIsAccounted, Pending
    <2> QED
      BY <1>1, <2>5, <2>6, <2>7 DEF AccountInv
  <1> QED
    BY <1>7, <1>8 DEF RetrackerStep

LEMMA AccountInvariance == Spec => []AccountInv
  <1>1. Init => AccountInv
    <2> SUFFICES ASSUME Init PROVE AccountInv
      OBVIOUS
    <2>1. TypeOK
      BY MeteringAssumption DEF Init, TypeOK, Stage, UsageRow, Rows
    <2>2. Rows = {}
      BY DEF Init, Rows
    <2> QED
      BY <2>1, <2>2 DEF Init, AccountInv, RowsAreOwn, RowIsBilled, MarkIsBilled, MeteredIsAccounted
  <1>2. AccountInv /\ [Next]_vars => AccountInv'
    <2> SUFFICES ASSUME AccountInv, [Next]_vars PROVE AccountInv'
      OBVIOUS
    <2>1. CASE UNCHANGED vars \/ GoDown \/ Recover
      <3>1. UNCHANGED <<billed, stage, journal, place, batch, marking>>
        BY <2>1 DEF vars, GoDown, Recover
      <3>2. TypeOK'
        <4>1. CASE UNCHANGED vars
          BY <4>1 DEF AccountInv, TypeOK, vars, Rows
        <4> QED
          BY <2>1, <4>1, ProviderTypes DEF AccountInv
      <3>3. \A t \in Triages : billed'[t] \geq billed[t]
        BY <3>1 DEF AccountInv, TypeOK
      <3> QED
        BY <3>1, <3>2, <3>3, AccountFrame
    <2> QED
      BY <2>1, WorkerAccount, RetrackerAccount DEF Next
  <1> QED
    BY <1>1, <1>2, PTL DEF Spec

\* No usage is dropped silently: what process_job has metered was recorded by
\* the provider or waits in the journal, through outages, lost answers, failed
\* statements and restarts, with any number of workers and retrackers.
THEOREM UsageIsAccounted == Spec => []MeteredIsAccounted
  <1>1. AccountInv => MeteredIsAccounted
    BY DEF AccountInv
  <1> QED
    BY <1>1, AccountInvariance, PTL

-----------------------------------------------------------------------------
(* Every unit in error has its fault, when one retracker reads the         *)
(* journal.  The argument is a budget: up to one unit is owed and the rest *)
(* is the faults'.  A row that is neither tracked nor being marked still   *)
(* owes its unit, so its triage was billed no more often than it slipped.  *)

OneRetracker == \A q, r \in Retrackers : q = r

\* The unit of t's row was tracked for it.
Paid(t) == journal[t] = "tracked" \/ \E r \in Retrackers : marking[r] /\ NextRow(r) = t

\* A batch holds what is still to be tracked.
BatchIsPending == \A r \in Retrackers : batch[r] \subseteq Pending

Untouched == {"pending", "allowed", "unavailable", "denied", "skipped"}

Budget(t) ==
    /\ stage[t] \in Untouched => billed[t] = 0
    /\ stage[t] = "unmetered" => slips[t] > 0
    /\ billed[t] \leq 1 + slips[t]
    /\ billed[t] \leq slips[t] \/ Paid(t) \/ (stage[t] = "metered" /\ t \notin Rows)

BudgetInv == TypeOK /\ RowsAreOwn /\ BatchIsPending /\ \A t \in Triages : Budget(t)

\* The counts are numbers.
LEMMA Counts ==
    ASSUME TypeOK, NEW t \in Triages
    PROVE  billed[t] \in Nat /\ slips[t] \in Nat /\ stage[t] \in Stage
  BY MeteringAssumption DEF TypeOK

\* A fault adds one to the faults of its triage.
LEMMA SlipCounts ==
    ASSUME TypeOK, NEW t \in Triages, Slip(t)
    PROVE  /\ slips'[t] = slips[t] + 1
           /\ \A u \in Triages : u # t => slips'[u] = slips[u]
  <1>1. slips \in [Triages -> 0 .. MaxSlips] /\ slips[t] \in Nat
    BY MeteringAssumption DEF TypeOK
  <1> QED
    BY <1>1 DEF Slip

\* A triage without a row has paid none.
LEMMA NoRowNoPay ==
    ASSUME TypeOK, NEW t \in Triages, t \notin Rows
    PROVE  ~ Paid(t)
  <1>1. \A r \in Retrackers : marking[r] => NextRow(r) \in Rows
    BY NextRowOfBatch DEF TypeOK
  <1> QED
    BY <1>1 DEF Paid, Rows

\* The budget of a triage that a step leaves alone.
LEMMA BudgetKept ==
    ASSUME NEW u, Budget(u), billed'[u] = billed[u], slips'[u] = slips[u], stage'[u] = stage[u],
           u \in Rows' <=> u \in Rows, Paid(u) => Paid(u)'
    PROVE  Budget(u)'
  BY DEF Budget

\* A step of a triage without a row that leaves the journal alone.
LEMMA BudgetFrame ==
    ASSUME BudgetInv, TypeOK', UNCHANGED <<journal, place, batch, marking>>, NEW t \in Triages,
           stage[t] \notin {"metered", "unmetered"},
           \A u \in Triages : u # t => stage'[u] = stage[u] /\ billed'[u] = billed[u] /\ slips'[u] = slips[u],
           /\ stage'[t] \in Untouched => billed'[t] = 0
           /\ stage'[t] = "unmetered" => slips'[t] > 0
           /\ billed'[t] \leq 1 + slips'[t]
           /\ billed'[t] \leq slips'[t] \/ stage'[t] = "metered"
    PROVE  BudgetInv'
  <1>1. Rows' = Rows /\ Rows \subseteq Triages /\ t \notin Rows
    BY DEF Rows, BudgetInv, RowsAreOwn
  <1>2. RowsAreOwn' /\ BatchIsPending'
    BY <1>1 DEF BudgetInv, RowsAreOwn, BatchIsPending, Pending
  <1>3. \A r \in Retrackers : NextRow(r)' = NextRow(r)
    BY NextRowKept DEF Before
  <1>4. \A u \in Triages : Budget(u)'
    <2> TAKE u \in Triages
    <2>1. CASE u = t
      BY <1>1, <2>1 DEF Budget
    <2>2. CASE u # t
      <3>1. Paid(u) => Paid(u)'
        BY <1>3 DEF Paid
      <3>2. Budget(u)
        BY DEF BudgetInv
      <3> QED
        BY <1>1, <2>2, <3>1, <3>2, BudgetKept
    <2> QED
      BY <2>1, <2>2
  <1> QED
    BY <1>2, <1>4 DEF BudgetInv

\* The insert of a row: the triage owes the unit.
LEMMA InsertBudget ==
    ASSUME BudgetInv, TypeOK', NEW t \in Triages, Insert(t), stage[t] = "journal",
           stage'[t] \in {"metered", "unmetered"},
           stage'[t] = "unmetered" => slips'[t] > 0,
           slips'[t] \geq slips[t],
           \A u \in Triages : u # t => stage'[u] = stage[u] /\ slips'[u] = slips[u],
           UNCHANGED <<billed, batch, marking>>
    PROVE  BudgetInv'
  <1>1. /\ journal'[t] = "untracked"
        /\ \A u \in Triages : u # t => journal'[u] = journal[u]
        /\ Rows' = Rows \cup {t} /\ Rows \subseteq Triages
        /\ \A u, v \in Triages \ {t} : Before(u, v)' <=> Before(u, v)
    BY InsertedRow DEF BudgetInv, Rows
  <1>2. TypeOK /\ t \notin Rows
    BY DEF BudgetInv, RowsAreOwn
  <1>3. RowsAreOwn' /\ BatchIsPending'
    BY <1>1 DEF BudgetInv, RowsAreOwn, BatchIsPending, Pending
  <1>4. \A r \in Retrackers : NextRow(r)' = NextRow(r)
    <2> TAKE r \in Retrackers
    <2>1. batch[r] \subseteq Triages \ {t} /\ batch'[r] = batch[r]
      BY <1>1, <1>2 DEF TypeOK
    <2>2. \A u, v \in batch[r] : Before(u, v)' <=> Before(u, v)
      BY <1>1, <2>1
    <2> QED
      BY <2>1, <2>2, NextRowKept
  <1>5. \A u \in Triages : Budget(u)'
    <2> TAKE u \in Triages
    <2>1. Budget(u)
      BY DEF BudgetInv
    <2>2. CASE u = t
      <3>1. billed[t] \in Nat /\ slips[t] \in Nat /\ slips'[t] \in Nat /\ ~ Paid(t)
        BY <1>2, Counts, NoRowNoPay, MeteringAssumption DEF TypeOK
      <3>2. billed[t] \leq slips[t]
        BY <2>1, <2>2, <3>1 DEF Budget
      <3> QED
        BY <2>2, <3>1, <3>2 DEF Budget, Untouched
    <2>3. CASE u # t
      <3>1. Paid(u) => Paid(u)'
        BY <1>1, <1>4, <2>3 DEF Paid
      <3> QED
        BY <1>1, <2>1, <2>3, <3>1, BudgetKept
    <2> QED
      BY <2>2, <2>3
  <1> QED
    BY <1>3, <1>5 DEF BudgetInv

\* A step of a triage keeps the budget.
LEMMA WorkerBudget ==
    ASSUME BudgetInv, NEW t \in Triages, WorkerStep(t)
    PROVE  BudgetInv'
  <1>1. TypeOK /\ TypeOK'
    BY WorkerTypes DEF BudgetInv
  <1>2. /\ stage[t] \in Untouched => billed[t] = 0
        /\ stage[t] = "journal" => billed[t] \leq slips[t]
        /\ billed[t] \in Nat /\ slips[t] \in Nat
    <2>1. stage[t] = "journal" => ~ Paid(t)
      BY <1>1, NoRowNoPay DEF BudgetInv, RowsAreOwn
    <2> QED
      BY <1>1, <2>1, Counts DEF BudgetInv, Budget
  <1>3. CASE CheckTriage(t) \/ Skip(t)
    <2>1. /\ stage[t] \in Untouched /\ stage'[t] \in Untouched
          /\ stage[t] \notin {"metered", "unmetered"}
          /\ \A u \in Triages : u # t => stage'[u] = stage[u]
          /\ UNCHANGED <<billed, slips, journal, place, batch, marking>>
      BY <1>1, <1>3 DEF TypeOK, CheckTriage, Skip, Move, Verdict, Untouched
    <2>2. stage'[t] # "unmetered"
      BY <2>1 DEF Untouched
    <2> QED
      BY <1>1, <1>2, <2>1, <2>2, BudgetFrame
  <1>4. CASE TrackTriage(t)
    <2>1. /\ stage[t] \in Untouched /\ stage[t] \notin {"metered", "unmetered"}
          /\ stage'[t] \in {"metered", "journal"}
          /\ \A u \in Triages : u # t => stage'[u] = stage[u]
          /\ UNCHANGED <<journal, place, batch, marking>>
      BY <1>1, <1>4 DEF TypeOK, TrackTriage, Move, Untouched
    <2>2. /\ \A u \in Triages : u # t => billed'[u] = billed[u] /\ slips'[u] = slips[u]
          /\ billed'[t] \leq slips'[t] \/ stage'[t] = "metered"
          /\ billed'[t] \leq 1 + slips'[t]
      <3>1. CASE Bill(t) /\ Move(t, "metered") /\ UNCHANGED slips
        BY <1>1, <1>2, <2>1, <3>1, BillTypes DEF TypeOK, Move
      <3>2. CASE Bill(t) /\ Slip(t)
        BY <1>1, <1>2, <2>1, <3>2, BillTypes, SlipCounts
      <3>3. CASE UNCHANGED <<billed, slips>>
        BY <1>2, <2>1, <3>3
      <3> QED
        BY <1>4, <3>1, <3>2, <3>3 DEF TrackTriage
    <2>3. stage'[t] \notin Untouched /\ stage'[t] # "unmetered"
      BY <2>1 DEF Untouched
    <2> QED
      BY <1>1, <2>1, <2>2, <2>3, BudgetFrame
  <1>5. CASE LoseUsage(t)
    <2>1. /\ stage[t] \notin {"metered", "unmetered"} /\ stage'[t] = "unmetered"
          /\ stage[t] \in Untouched \/ stage[t] = "journal"
          /\ \A u \in Triages : u # t => stage'[u] = stage[u]
          /\ UNCHANGED <<billed, batch, marking>> /\ Slip(t)
      BY <1>1, <1>5 DEF TypeOK, LoseUsage, Move, Untouched
    <2>2. /\ \A u \in Triages : u # t => slips'[u] = slips[u]
          /\ billed'[t] \leq slips'[t] /\ slips'[t] > 0 /\ slips'[t] \geq slips[t]
          /\ billed'[t] \leq 1 + slips'[t]
      BY <1>1, <1>2, <2>1, SlipCounts
    <2>3. stage'[t] \notin Untouched
      BY <2>1 DEF Untouched
    <2>4. CASE UNCHANGED <<journal, place>>
      BY <1>1, <2>1, <2>2, <2>3, <2>4, BudgetFrame
    <2>5. CASE stage[t] = "journal" /\ Insert(t)
      BY <1>1, <2>1, <2>2, <2>5, InsertBudget
    <2> QED
      BY <1>5, <2>4, <2>5 DEF LoseUsage
  <1>6. CASE JournalUsage(t)
    <2>1. /\ stage[t] = "journal" /\ stage'[t] = "metered" /\ Insert(t)
          /\ \A u \in Triages : u # t => stage'[u] = stage[u]
          /\ UNCHANGED <<billed, batch, marking, slips>>
      BY <1>1, <1>6 DEF TypeOK, JournalUsage, Move
    <2> QED
      BY <1>1, <1>2, <2>1, InsertBudget
  <1> QED
    BY <1>3, <1>4, <1>5, <1>6 DEF WorkerStep

\* A step of the retracker at a row.
LEMMA RowFrame ==
    ASSUME OneRetracker, BudgetInv, TypeOK', NEW r \in Retrackers, NEW t \in Triages,
           t = NextRow(r), UNCHANGED stage, Rows' = Rows,
           \A u \in Triages : u # t =>
               billed'[u] = billed[u] /\ slips'[u] = slips[u] /\ journal'[u] = journal[u],
           BatchIsPending', Budget(t)'
    PROVE  BudgetInv'
  <1>1. RowsAreOwn'
    BY DEF BudgetInv, RowsAreOwn
  <1>2. \A u \in Triages : Budget(u)'
    <2> SUFFICES ASSUME NEW u \in Triages, u # t PROVE Budget(u)'
      OBVIOUS
    <2>1. Budget(u)
      BY DEF BudgetInv
    <2>2. Paid(u) => Paid(u)'
      BY DEF Paid, OneRetracker
    <2> QED
      BY <2>1, <2>2, BudgetKept
  <1> QED
    BY <1>1, <1>2 DEF BudgetInv

\* A step of the retracker keeps the budget.
LEMMA RetrackerBudget ==
    ASSUME OneRetracker, BudgetInv, NEW r \in Retrackers, RetrackerStep(r)
    PROVE  BudgetInv'
  <1>1. TypeOK /\ TypeOK' /\ UNCHANGED <<stage, place>>
    BY RetrackerTypes DEF BudgetInv, RetrackerStep, Drain, Retrack, Mark, CrashRetracker
  <1>2. /\ \A t \in Triages : Paid(t) <=> journal[t] = "tracked" \/ (marking[r] /\ NextRow(r) = t)
        /\ \A t \in Triages : Paid(t)' <=> journal'[t] = "tracked" \/ (marking'[r] /\ NextRow(r)' = t)
    BY DEF OneRetracker, Paid
  <1>3. batch[r] # {} => NextRow(r) \in batch[r] /\ NextRow(r) \in Rows /\ NextRow(r) \in Triages
    BY <1>1, NextRowOfBatch
  <1>4. ASSUME NEW t \in Triages, batch[r] # {}, t = NextRow(r)
        PROVE  /\ stage[t] \in {"metered", "unmetered"} /\ t \in Rows
               /\ stage[t] = "unmetered" => slips[t] > 0
               /\ billed[t] \in Nat /\ slips[t] \in Nat /\ billed[t] \leq 1 + slips[t]
               /\ ~ marking[r] => billed[t] \leq slips[t]
    <2>1. Budget(t) /\ t \in Rows /\ stage[t] \in {"metered", "unmetered"}
      BY <1>3, <1>4 DEF BudgetInv, RowsAreOwn
    <2>2. ~ marking[r] => ~ Paid(t)
      BY <1>2, <1>3, <1>4 DEF BudgetInv, BatchIsPending, Pending
    <2> QED
      BY <1>1, <2>1, <2>2, Counts DEF Budget
  <1>5. marking[r] => batch[r] # {}
    BY <1>1 DEF TypeOK
  \* Steps that bill nothing, slip nowhere and mark nothing.
  <1>6. ASSUME UNCHANGED <<journal, billed, slips>>, ~ marking[r], ~ marking'[r],
               batch'[r] \subseteq Pending
        PROVE  BudgetInv'
    <2>1. Rows' = Rows /\ Pending' = Pending /\ \A t \in Triages : Paid(t)' <=> Paid(t)
      BY <1>2, <1>6 DEF Rows, Pending
    <2>2. BatchIsPending' /\ RowsAreOwn'
      BY <1>1, <1>6, <2>1 DEF OneRetracker, BatchIsPending, BudgetInv, RowsAreOwn
    <2>3. \A t \in Triages : Budget(t)'
      BY <1>1, <1>6, <2>1, BudgetKept DEF BudgetInv
    <2> QED
      BY <1>1, <2>2, <2>3 DEF BudgetInv
  \* Steps at the next row that leave the journal as it is.
  <1>7. ASSUME NEW t \in Triages, t = NextRow(r), UNCHANGED journal, batch[r] # {},
               batch'[r] \subseteq batch[r],
               \A u \in Triages : u # t => billed'[u] = billed[u] /\ slips'[u] = slips[u],
               billed'[t] \leq 1 + slips'[t], slips'[t] \geq slips[t],
               \/ marking'[r] /\ NextRow(r)' = t
               \/ billed'[t] \leq slips'[t]
        PROVE  BudgetInv'
    <2>1. Rows' = Rows /\ Pending' = Pending
      BY <1>7 DEF Rows, Pending
    <2>2. BatchIsPending'
      BY <1>7, <2>1 DEF OneRetracker, BudgetInv, BatchIsPending
    <2>3. slips'[t] \in Nat
      BY <1>1, MeteringAssumption DEF TypeOK
    <2>4. Budget(t)'
      <3>1. stage'[t] \notin Untouched /\ (stage'[t] = "unmetered" => slips'[t] > 0)
        BY <1>1, <1>4, <1>7, <2>3 DEF Untouched
      <3>2. billed'[t] \leq slips'[t] \/ Paid(t)'
        BY <1>2, <1>7
      <3> QED
        BY <1>7, <3>1, <3>2 DEF Budget
    <2> QED
      BY <1>1, <1>7, <2>1, <2>2, <2>4, RowFrame
  <1>8. CASE Drain(r)
    <2>1. ~ marking[r] /\ ~ marking'[r] /\ batch'[r] \subseteq Pending
      BY <1>1, <1>8 DEF Drain, Drained, TypeOK
    <2> QED
      BY <1>6, <1>8, <2>1 DEF Drain
  <1>9. CASE Retrack(r)
    <2>1. batch[r] # {} /\ ~ marking[r] /\ UNCHANGED journal
      BY <1>9 DEF Retrack
    <2> PICK t \in Triages : t = NextRow(r)
      BY <1>3, <2>1
    <2>2. billed[t] \in Nat /\ slips[t] \in Nat /\ billed[t] \leq slips[t]
      BY <1>4, <2>1
    <2>3. CASE Bill(t) /\ marking' = [marking EXCEPT ![r] = TRUE] /\ UNCHANGED <<batch, slips>>
      <3>1. marking'[r] /\ NextRow(r)' = t /\ batch'[r] \subseteq batch[r]
        BY <1>1, <2>3, NextRowKept DEF TypeOK, Before
      <3>2. /\ billed'[t] \leq 1 + slips'[t] /\ slips'[t] \geq slips[t]
            /\ \A u \in Triages : u # t => billed'[u] = billed[u] /\ slips'[u] = slips[u]
        BY <1>1, <2>2, <2>3, BillTypes
      <3> QED
        BY <1>7, <2>1, <3>1, <3>2
    <2>4. CASE Bill(t) /\ batch' = [batch EXCEPT ![r] = {}] /\ Slip(t)
      <3>1. batch'[r] \subseteq batch[r]
        BY <1>1, <2>4 DEF TypeOK
      <3>2. /\ billed'[t] \leq slips'[t]
            /\ billed'[t] \leq 1 + slips'[t] /\ slips'[t] \geq slips[t]
            /\ \A u \in Triages : u # t => billed'[u] = billed[u] /\ slips'[u] = slips[u]
        BY <1>1, <2>2, <2>4, BillTypes, SlipCounts
      <3> QED
        BY <1>7, <2>1, <3>1, <3>2
    <2>5. CASE batch' = [batch EXCEPT ![r] = {}] /\ UNCHANGED <<billed, marking, slips>>
      <3>1. ~ marking'[r] /\ batch'[r] \subseteq Pending
        BY <1>1, <2>1, <2>5 DEF TypeOK
      <3> QED
        BY <1>6, <2>1, <2>5, <3>1
    <2> QED
      BY <1>9, <2>3, <2>4, <2>5 DEF Retrack
  <1>10. CASE Mark(r)
    <2>1. /\ marking[r] /\ batch[r] # {} /\ UNCHANGED billed
          /\ batch'[r] = batch[r] \ {NextRow(r)} /\ ~ marking'[r]
      BY <1>1, <1>5, <1>10 DEF Mark, TypeOK
    <2> PICK t \in Triages : t = NextRow(r)
      BY <1>3, <2>1
    <2>2. /\ billed[t] \in Nat /\ slips[t] \in Nat /\ billed[t] \leq 1 + slips[t]
          /\ stage[t] \in {"metered", "unmetered"} /\ (stage[t] = "unmetered" => slips[t] > 0)
          /\ t \in Rows
      BY <1>4, <2>1
    <2>3. CASE UNCHANGED journal /\ Slip(t)
      <3>1. /\ billed'[t] \leq slips'[t]
            /\ billed'[t] \leq 1 + slips'[t] /\ slips'[t] \geq slips[t]
            /\ \A u \in Triages : u # t => billed'[u] = billed[u] /\ slips'[u] = slips[u]
        BY <1>1, <2>1, <2>2, <2>3, SlipCounts
      <3> QED
        BY <1>7, <2>1, <2>3, <3>1
    <2>4. CASE Marks(t) /\ UNCHANGED slips
      <3>1. /\ Rows' = Rows /\ journal'[t] = "tracked"
            /\ \A u \in Triages : u # t => journal'[u] = journal[u]
        BY <1>1, <2>2, <2>4, MarkedRow
      <3>2. BatchIsPending'
        <4>1. batch[r] \subseteq Pending
          BY DEF BudgetInv, BatchIsPending
        <4>2. batch'[r] \subseteq Pending'
          BY <2>1, <3>1, <4>1 DEF Pending
        <4> QED
          BY <4>2 DEF OneRetracker, BatchIsPending
      <3>3. Budget(t)'
        BY <1>1, <2>1, <2>2, <2>4, <3>1 DEF Budget, Paid, Untouched
      <3> QED
        BY <1>1, <2>1, <2>4, <3>1, <3>2, <3>3, RowFrame
    <2> QED
      BY <1>10, <2>3, <2>4 DEF Mark, Marks
  <1>11. CASE CrashRetracker(r)
    <2>1. /\ batch[r] # {} /\ batch'[r] = {} /\ ~ marking'[r]
          /\ UNCHANGED <<billed, journal>>
      BY <1>1, <1>11 DEF CrashRetracker, TypeOK
    <2> PICK t \in Triages : t = NextRow(r)
      BY <1>3, <2>1
    <2>2. CASE marking[r]
      <3>1. Slip(t)
        BY <1>11, <2>2 DEF CrashRetracker
      <3>2. /\ billed'[t] \leq slips'[t]
            /\ billed'[t] \leq 1 + slips'[t] /\ slips'[t] \geq slips[t]
            /\ \A u \in Triages : u # t => billed'[u] = billed[u] /\ slips'[u] = slips[u]
        BY <1>1, <1>4, <2>1, <3>1, SlipCounts
      <3> QED
        BY <1>7, <2>1, <3>2
    <2>3. CASE ~ marking[r]
      BY <1>6, <1>11, <2>1, <2>3 DEF CrashRetracker
    <2> QED
      BY <2>2, <2>3
  <1> QED
    BY <1>8, <1>9, <1>10, <1>11 DEF RetrackerStep

LEMMA BudgetInvariance == OneRetracker => (Spec => []BudgetInv)
  <1> SUFFICES ASSUME OneRetracker PROVE Spec => []BudgetInv
    OBVIOUS
  <1>1. Init => BudgetInv
    <2> SUFFICES ASSUME Init PROVE BudgetInv
      OBVIOUS
    <2>1. TypeOK
      BY MeteringAssumption DEF Init, TypeOK, Stage, UsageRow, Rows
    <2>2. Rows = {} /\ \A t \in Triages : Budget(t)
      BY DEF Init, Rows, Budget, Untouched
    <2> QED
      BY <2>1, <2>2 DEF Init, BudgetInv, RowsAreOwn, BatchIsPending
  <1>2. BudgetInv /\ [Next]_vars => BudgetInv'
    <2> SUFFICES ASSUME BudgetInv, [Next]_vars PROVE BudgetInv'
      OBVIOUS
    <2>1. CASE GoDown \/ Recover \/ UNCHANGED vars
      <3>1. UNCHANGED <<billed, stage, journal, place, batch, marking, slips>>
        BY <2>1 DEF GoDown, Recover, vars
      <3>2. TypeOK'
        <4>1. CASE UNCHANGED vars
          BY <4>1 DEF BudgetInv, TypeOK, vars, Rows
        <4> QED
          BY <2>1, <4>1, ProviderTypes DEF BudgetInv
      <3>3. Rows' = Rows /\ Pending' = Pending /\ \A t \in Triages : Paid(t) => Paid(t)'
        <4>1. \A r \in Retrackers : NextRow(r)' = NextRow(r)
          BY <3>1, NextRowKept DEF Before
        <4> QED
          BY <3>1, <4>1 DEF Rows, Pending, Paid
      <3>4. \A t \in Triages : Budget(t)'
        BY <3>1, <3>3, BudgetKept DEF BudgetInv
      <3>5. RowsAreOwn' /\ BatchIsPending'
        BY <3>1, <3>3 DEF BudgetInv, RowsAreOwn, BatchIsPending
      <3> QED
        BY <3>2, <3>4, <3>5 DEF BudgetInv
    <2> QED
      BY <2>1, WorkerBudget, RetrackerBudget DEF Next
  <1> QED
    BY <1>1, <1>2, PTL DEF Spec

\* Every unit billed in error, and every executed triage that is not metered,
\* has its lost answer, failed statement or crash, for any workers, batches and
\* outages, as long as one retracker reads the journal.  With two it fails:
\* drain_untracked_usage reads rows without claiming them.
THEOREM ErrorsHaveTheirFaults == OneRetracker => (Spec => []ErrorsAreExplained)
  <1>1. BudgetInv => ErrorsAreExplained
    BY DEF BudgetInv, Budget, Untouched, ErrorsAreExplained
  <1> QED
    BY <1>1, BudgetInvariance, PTL

-----------------------------------------------------------------------------
(* The quota is overrun by a bounded number of units.  A triage that is    *)
(* billed without a row in the journal was allowed by a check that found   *)
(* the quota not used up, so these triages and the allowed ones together   *)
(* are bounded; what else was billed has a row or a fault.                 *)

\* What covers a set bounds it.
LEMMA CoverBound ==
    ASSUME NEW S, NEW T, IsFiniteSet(S), NEW f, \A y \in T : \E x \in S : f[x] = y
    PROVE  IsFiniteSet(T) /\ Cardinality(T) \leq Cardinality(S)
  <1> DEFINE S0 == { x \in S : f[x] \in T }
             g  == [x \in S0 |-> f[x]]
  <1>1. IsFiniteSet(S0) /\ Cardinality(S0) \leq Cardinality(S)
    BY FS_Subset
  <1>2. g \in Surjection(S0, T)
    BY DEF Surjection
  <1>3. IsFiniteSet(T) /\ Cardinality(T) \leq Cardinality(S0)
    BY <1>1, <1>2, FS_Surjection
  <1>4. Cardinality(S0) \in Nat /\ Cardinality(S) \in Nat /\ Cardinality(T) \in Nat
    BY <1>1, <1>3, FS_CardinalityType
  <1> QED
    BY <1>1, <1>3, <1>4

FiniteTriages == IsFiniteSet(Triages)

LEMMA MineIsFinite == ASSUME FiniteTriages, NEW c PROVE IsFiniteSet(Mine(c))
  BY FS_Subset DEF FiniteTriages, Mine

\* The units of a customer, one by one.
LEMMA UnitMembers ==
    ASSUME NEW n, NEW c, NEW u
    PROVE  u \in UnitsOf(n, c) <=> \E t \in Mine(c) : \E i \in 1 .. n[t] : u = <<t, i>>
  BY DEF UnitsOf

LEMMA UnitsAreFinite ==
    ASSUME FiniteTriages, NEW n \in [Triages -> Nat], NEW c
    PROVE  IsFiniteSet(UnitsOf(n, c))
  <1> DEFINE Of(t) == {t} \X (1 .. n[t])
             f == [t \in Mine(c) |-> Of(t)]
             parts == { Of(t) : t \in Mine(c) }
  <1>1. IsFiniteSet(parts)
    <2>1. \A p \in parts : \E t \in Mine(c) : f[t] = p
      OBVIOUS
    <2> HIDE DEF f, parts
    <2> QED
      BY <2>1, MineIsFinite, CoverBound
  <1>2. \A t \in Mine(c) : IsFiniteSet(Of(t))
    <2> TAKE t \in Mine(c)
    <2>1. n[t] \in Nat
      BY DEF Mine
    <2>2. IsFiniteSet({t})
      BY FS_Singleton
    <2>3. IsFiniteSet(1 .. n[t])
      BY <2>1, FS_Interval
    <2> QED
      BY <2>2, <2>3, FS_Product
  <1>3. IsFiniteSet(UNION parts)
    BY <1>1, <1>2, FS_UNION
  <1> QED
    BY <1>3 DEF UnitsOf

\* Counts that exceed others by at most one, at the triages of E, exceed them by
\* no more than the size of E.
LEMMA UnitsAbove ==
    ASSUME FiniteTriages, NEW n \in [Triages -> Nat], NEW m \in [Triages -> Nat],
           NEW c, NEW E \in SUBSET Mine(c),
           \A t \in Mine(c) : n[t] \leq m[t] \/ (t \in E /\ n[t] \leq m[t] + 1)
    PROVE  Cardinality(UnitsOf(n, c)) \leq Cardinality(E) + Cardinality(UnitsOf(m, c))
  <1> DEFINE U == UnitsOf(n, c)
             V == UnitsOf(m, c)
             f == [t \in E |-> <<t, m[t] + 1>>]
  <1>1. IsFiniteSet(U) /\ IsFiniteSet(V) /\ IsFiniteSet(E)
    BY UnitsAreFinite, MineIsFinite, FS_Subset
  <1>2. \A u \in U \ V : \E t \in E : f[t] = u
    <2> TAKE u \in U \ V
    <2>1. PICK t \in Mine(c) : \E i \in 1 .. n[t] : u = <<t, i>>
      BY UnitMembers
    <2>2. PICK i \in 1 .. n[t] : u = <<t, i>>
      BY <2>1
    <2>3. t \in Triages /\ n[t] \in Nat /\ m[t] \in Nat
      BY DEF Mine
    <2>4. i \notin 1 .. m[t]
      BY <2>2, UnitMembers
    <2>5. t \in E /\ i = m[t] + 1
      BY <2>3, <2>4
    <2> QED
      BY <2>2, <2>5
  <1>3. IsFiniteSet(U \ V) /\ Cardinality(U \ V) \leq Cardinality(E)
    <2> HIDE DEF f, U, V
    <2> QED
      BY <1>1, <1>2, CoverBound
  <1> HIDE DEF U, V
  <1>4. /\ IsFiniteSet((U \ V) \cup V)
        /\ Cardinality((U \ V) \cup V) = Cardinality(U \ V) + Cardinality(V) - Cardinality((U \ V) \cap V)
    BY <1>1, <1>3, FS_Union
  <1>5. (U \ V) \cap V = {} /\ U \subseteq (U \ V) \cup V
    OBVIOUS
  <1>6. Cardinality((U \ V) \cap V) = 0
    BY <1>5, FS_EmptySet
  <1>7. Cardinality(U) \leq Cardinality((U \ V) \cup V)
    BY <1>4, <1>5, FS_Subset
  <1>8. /\ Cardinality(U) \in Nat /\ Cardinality(U \ V) \in Nat /\ Cardinality(V) \in Nat
        /\ Cardinality(E) \in Nat
    BY <1>1, <1>3, FS_CardinalityType
  <1>9. Cardinality(U) \leq Cardinality(E) + Cardinality(V)
    BY <1>3, <1>4, <1>6, <1>7, <1>8
  <1> QED
    BY <1>9 DEF U, V

\* Triages with a unit each are no more than the units.
LEMMA UnitsBelow ==
    ASSUME FiniteTriages, NEW n \in [Triages -> Nat], NEW c, NEW E \in SUBSET Mine(c),
           \A t \in E : n[t] > 0
    PROVE  Cardinality(E) \leq Cardinality(UnitsOf(n, c))
  <1> DEFINE f == [u \in UnitsOf(n, c) |-> u[1]]
  <1>1. \A t \in E : \E u \in UnitsOf(n, c) : f[u] = t
    <2> TAKE t \in E
    <2>1. t \in Mine(c) /\ n[t] \in Nat /\ n[t] > 0
      BY DEF Mine
    <2>2. <<t, 1>> \in UnitsOf(n, c)
      BY <2>1, UnitMembers
    <2> QED
      BY <2>2
  <1> HIDE DEF f
  <1> QED
    BY <1>1, UnitsAreFinite, CoverBound

\* The triages that the quota was checked for: billed by the worker, or about to
\* be.
Billed(c) == { t \in Mine(c) : stage[t] = "metered" /\ t \notin Rows }
Direct(c) == { t \in Mine(c) : stage[t] = "allowed" \/ (stage[t] = "metered" /\ t \notin Rows) }

DirectIsBounded == \A c \in Customers : Cardinality(Direct(c)) \leq Quota + (WorkerCount - 1)

LEMMA DirectIsFinite ==
    ASSUME FiniteTriages, NEW c
    PROVE  /\ IsFiniteSet(Direct(c)) /\ Cardinality(Direct(c)) \in Nat
           /\ IsFiniteSet(Billed(c)) /\ Cardinality(Billed(c)) \in Nat
  <1>1. Direct(c) \subseteq Mine(c) /\ Billed(c) \subseteq Mine(c)
    BY DEF Direct, Billed
  <1>2. IsFiniteSet(Direct(c)) /\ IsFiniteSet(Billed(c))
    BY <1>1, MineIsFinite, FS_Subset
  <1> QED
    BY <1>2, FS_CardinalityType

\* A step after which no further triage of a customer is allowed or billed
\* without a row.
LEMMA DirectShrinks ==
    ASSUME FiniteTriages, DirectIsBounded, NEW c \in Customers, Direct(c)' \subseteq Direct(c)
    PROVE  Cardinality(Direct(c)') \leq Quota + (WorkerCount - 1)
  <1>1. /\ IsFiniteSet(Direct(c)') /\ Cardinality(Direct(c)') \in Nat
        /\ Cardinality(Direct(c)') \leq Cardinality(Direct(c))
    BY DirectIsFinite, FS_Subset, FS_CardinalityType
  <1>2. Cardinality(Direct(c)) \leq Quota + (WorkerCount - 1) /\ Cardinality(Direct(c)) \in Nat
    BY DirectIsFinite DEF DirectIsBounded
  <1> QED
    BY <1>1, <1>2, MeteringAssumption

\* A check that allows a triage leaves room for it: what was billed without a row
\* is within the quota, and the rest is in progress.
LEMMA AllowedWithin ==
    ASSUME FiniteTriages, AccountInv, NEW t \in Triages, NEW c \in Customers,
           Used(c) < Quota, Cardinality(InProgress) < WorkerCount,
           NEW D, D \subseteq Billed(c) \cup (InProgress \cup {t})
    PROVE  Cardinality(D) \leq Quota + (WorkerCount - 1)
  <1> DEFINE P == InProgress \cup {t}
  <1>1. billed \in [Triages -> Nat]
    BY DEF AccountInv, TypeOK
  <1>2. \A u \in Billed(c) : billed[u] > 0
    BY DEF AccountInv, MeteredIsAccounted, Pending, Rows, Billed, Mine
  <1>3. Cardinality(Billed(c)) \leq Used(c)
    BY <1>1, <1>2, UnitsBelow DEF Used, Billed
  <1>4. Used(c) \in Nat
    BY <1>1, UnitsAreFinite, FS_CardinalityType DEF Used
  <1>5. IsFiniteSet(InProgress) /\ Cardinality(InProgress) \in Nat
    BY FS_Subset, FS_CardinalityType DEF FiniteTriages, InProgress
  <1>6. IsFiniteSet(P) /\ Cardinality(P) \in Nat /\ Cardinality(P) \leq Cardinality(InProgress) + 1
    <2>1. IsFiniteSet(P) /\ Cardinality(P) = IF t \in InProgress THEN Cardinality(InProgress)
                                                               ELSE Cardinality(InProgress) + 1
      BY <1>5, FS_AddElement, Zenon
    <2> HIDE DEF P
    <2> QED
      BY <1>5, <2>1
  <1> HIDE DEF P
  <1>7. /\ IsFiniteSet(Billed(c) \cup P)
        /\ Cardinality(Billed(c) \cup P) = Cardinality(Billed(c)) + Cardinality(P) - Cardinality(Billed(c) \cap P)
        /\ Cardinality(Billed(c) \cup P) \in Nat
    BY <1>6, DirectIsFinite, FS_Union, FS_CardinalityType
  <1>8. Cardinality(Billed(c) \cap P) \in Nat
    BY <1>6, DirectIsFinite, FS_Intersection, FS_CardinalityType
  <1>9. Cardinality(D) \leq Cardinality(Billed(c) \cup P) /\ Cardinality(D) \in Nat
    BY <1>7, FS_Subset, FS_CardinalityType DEF P
  <1>10. Cardinality(Billed(c)) \in Nat
    BY DirectIsFinite
  <1> QED
    BY <1>3, <1>4, <1>5, <1>6, <1>7, <1>8, <1>9, <1>10, MeteringAssumption

\* Every step keeps the bound.
LEMMA DirectStep ==
    ASSUME FiniteTriages, AccountInv, AccountInv', DirectIsBounded, [Next]_vars
    PROVE  DirectIsBounded'
  <1> SUFFICES ASSUME NEW c \in Customers
               PROVE  Cardinality(Direct(c)') \leq Quota + (WorkerCount - 1)
    BY DEF DirectIsBounded
  <1>0. TypeOK /\ TypeOK'
    BY DEF AccountInv
  \* A step that takes no row away, and lets no other triage in.
  <1>1. ASSUME Rows \subseteq Rows',
               \A t \in Triages : stage'[t] = "allowed" => stage[t] = "allowed",
               \A t \in Triages : stage'[t] = "metered" => stage[t] \in {"allowed", "metered"} \/ t \in Rows'
        PROVE  Cardinality(Direct(c)') \leq Quota + (WorkerCount - 1)
    <2>1. Direct(c)' \subseteq Direct(c)
      BY <1>1 DEF Direct, Mine
    <2> QED
      BY <2>1, DirectShrinks
  <1>2. CASE GoDown \/ Recover \/ UNCHANGED vars
    <2>1. UNCHANGED <<stage, journal>>
      BY <1>2 DEF GoDown, Recover, vars
    <2> QED
      BY <1>1, <2>1 DEF Rows
  <1>3. ASSUME NEW t \in Triages, WorkerStep(t)
        PROVE  Cardinality(Direct(c)') \leq Quota + (WorkerCount - 1)
    <2>1. CASE CheckTriage(t) /\ stage'[t] = "allowed" /\ CustomerOf[t] = c
      <3>1. Used(c) < Quota /\ Cardinality(InProgress) < WorkerCount
        BY <1>0, <2>1 DEF CheckTriage, Move, Verdict, TypeOK
      <3>2. /\ UNCHANGED journal
            /\ \A u \in Triages : u # t => stage'[u] = stage[u]
        BY <1>0, <2>1 DEF CheckTriage, Move, TypeOK
      <3>3. Direct(c)' \subseteq Billed(c) \cup (InProgress \cup {t})
        BY <3>2 DEF Direct, Billed, InProgress, Mine, Rows
      <3> QED
        BY <3>1, <3>3, AllowedWithin
    <2>2. CASE CheckTriage(t) /\ stage'[t] = "allowed" /\ CustomerOf[t] # c
      <3>1. UNCHANGED journal /\ \A u \in Triages : u # t => stage'[u] = stage[u]
        BY <1>0, <2>2 DEF CheckTriage, Move, TypeOK
      <3>2. Direct(c)' \subseteq Direct(c)
        BY <2>2, <3>1 DEF Direct, Mine, Rows
      <3> QED
        BY <3>2, DirectShrinks
    <2>3. CASE \/ (CheckTriage(t) /\ stage'[t] # "allowed") \/ Skip(t) \/ TrackTriage(t)
               \/ (LoseUsage(t) /\ UNCHANGED <<journal, place>>)
      <3>1. /\ UNCHANGED journal
            /\ \A u \in Triages : u # t => stage'[u] = stage[u]
            /\ stage'[t] # "allowed"
            /\ stage'[t] = "metered" => stage[t] = "allowed"
        BY <1>0, <2>3 DEF CheckTriage, Skip, LoseUsage, TrackTriage, Move, Verdict, TypeOK
      <3> QED
        BY <1>1, <3>1 DEF Rows
    <2>4. CASE JournalUsage(t) \/ (LoseUsage(t) /\ Insert(t))
      <3>1. Rows' = Rows \cup {t}
        BY <1>0, <2>4, InsertedRow DEF JournalUsage
      <3>2. stage'[t] # "allowed" /\ \A u \in Triages : u # t => stage'[u] = stage[u]
        BY <1>0, <2>4 DEF TypeOK, JournalUsage, LoseUsage, Move
      <3> QED
        BY <1>1, <3>1, <3>2
    <2> QED
      BY <1>3, <2>1, <2>2, <2>3, <2>4 DEF WorkerStep, LoseUsage
  <1>4. ASSUME NEW r \in Retrackers, RetrackerStep(r)
        PROVE  Cardinality(Direct(c)') \leq Quota + (WorkerCount - 1)
    <2>1. UNCHANGED stage
      BY <1>4 DEF RetrackerStep, Drain, Retrack, Mark, CrashRetracker
    <2>2. Rows' = Rows
      <3>1. CASE UNCHANGED journal
        BY <3>1 DEF Rows
      <3>2. CASE marking[r] /\ Marks(NextRow(r))
        BY <1>0, <3>2, NextRowOfBatch, MarkedRow DEF TypeOK
      <3> QED
        BY <1>4, <3>1, <3>2 DEF RetrackerStep, Drain, Retrack, Mark, CrashRetracker, Marks
    <2> QED
      BY <1>1, <2>1, <2>2
  <1> QED
    BY <1>2, <1>3, <1>4 DEF Next

\* The bound on these triages bounds the overrun: a unit of a customer is that of
\* a triage the quota was checked for, that of a row, or in error.
LEMMA OverrunFollows ==
    ASSUME FiniteTriages, BudgetInv, DirectIsBounded
    PROVE  OverrunIsBounded
  <1> SUFFICES ASSUME NEW c \in Customers
               PROVE  Used(c) \leq Quota + (WorkerCount - 1)
                        + Cardinality(Rows \cap Mine(c)) + Cardinality(UnitsOf(slips, c))
    BY DEF OverrunIsBounded
  <1> DEFINE T == Rows \cap Mine(c)
             E == Direct(c) \cup T
  <1>1. TypeOK /\ billed \in [Triages -> Nat] /\ slips \in [Triages -> Nat]
    BY MeteringAssumption DEF BudgetInv, TypeOK
  <1>2. IsFiniteSet(T)
    BY MineIsFinite, FS_Subset
  <1>3. \A t \in Mine(c) : billed[t] \leq slips[t] \/ (t \in E /\ billed[t] \leq slips[t] + 1)
    <2> TAKE t \in Mine(c)
    <2>1. t \in Triages /\ billed[t] \in Nat /\ slips[t] \in Nat /\ Budget(t)
      BY <1>1, Counts DEF Mine, BudgetInv
    <2>2. Paid(t) => t \in Rows
      BY <1>1, <2>1, NoRowNoPay
    <2> QED
      BY <2>1, <2>2 DEF Budget, Direct
  <1>4. E \subseteq Mine(c)
    BY DEF Direct
  <1> HIDE DEF T
  <1>5. Used(c) \leq Cardinality(E) + Cardinality(UnitsOf(slips, c))
    <2> HIDE DEF E
    <2> QED
      BY <1>1, <1>3, <1>4, UnitsAbove DEF Used
  <1>6. Cardinality(E) = Cardinality(Direct(c)) + Cardinality(T) - Cardinality(Direct(c) \cap T)
    BY <1>2, DirectIsFinite, FS_Union
  <1>7. Cardinality(Direct(c)) \leq Quota + (WorkerCount - 1)
    BY DEF DirectIsBounded
  <1>8. /\ Cardinality(Direct(c)) \in Nat /\ Cardinality(T) \in Nat
        /\ Cardinality(Direct(c) \cap T) \in Nat /\ Cardinality(UnitsOf(slips, c)) \in Nat
        /\ Used(c) \in Nat
    BY <1>1, <1>2, DirectIsFinite, UnitsAreFinite, FS_Intersection, FS_CardinalityType DEF Used
  <1>9. Used(c) \leq Quota + (WorkerCount - 1) + Cardinality(T) + Cardinality(UnitsOf(slips, c))
    <2> HIDE DEF E
    <2> QED
      BY <1>5, <1>6, <1>7, <1>8, MeteringAssumption
  <1> QED
    BY <1>9 DEF T

\* The check and the track are two calls, and the quota is overrun, by no more
\* than the other triages in progress, the journaled ones and the units in error,
\* for any number of triages, workers, customers, outages and faults.
THEOREM OverrunIsExplained ==
    OneRetracker /\ FiniteTriages => (Spec => []OverrunIsBounded)
  <1> SUFFICES ASSUME OneRetracker, FiniteTriages PROVE Spec => []OverrunIsBounded
    OBVIOUS
  <1>1. Init => DirectIsBounded
    <2> SUFFICES ASSUME Init, NEW c \in Customers
                 PROVE  Cardinality(Direct(c)) \leq Quota + (WorkerCount - 1)
      BY DEF DirectIsBounded
    <2>1. Direct(c) = {}
      BY DEF Init, Direct, Mine
    <2> QED
      BY <2>1, FS_EmptySet, MeteringAssumption
  <1>2. AccountInv /\ AccountInv' /\ DirectIsBounded /\ [Next]_vars => DirectIsBounded'
    BY DirectStep
  <1>3. AccountInv /\ BudgetInv /\ DirectIsBounded => OverrunIsBounded
    BY OverrunFollows
  <1>4. Spec => []BudgetInv
    BY BudgetInvariance
  <1> QED
    BY <1>1, <1>2, <1>3, <1>4, AccountInvariance, PTL DEF Spec

=============================================================================
