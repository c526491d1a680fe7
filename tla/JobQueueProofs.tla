--------------------------- MODULE JobQueueProofs ---------------------------
(***************************************************************************)
(* Theorems about JobQueue, for any deliveries, workers and bounds.        *)
(***************************************************************************)
EXTENDS JobQueue, SequenceTheorems, TLAPS

-----------------------------------------------------------------------------
(* The statements of JobTable: what they return and what they leave alone. *)

\* Replacing one row of a table gives a table with the same ids.
LEMMA ReplaceRow ==
    ASSUME NEW T \in Seq(Row), NEW i \in Ids(T), NEW r \in Row
    PROVE  LET U == [T EXCEPT ![i] = r] IN
           /\ U \in Seq(Row)
           /\ Len(U) = Len(T)
           /\ U[i] = r
           /\ \A j \in Ids(T) : j # i => U[j] = T[j]
  BY ExceptSeq DEF Ids

\* The claim changes the status and the attempts of one row.
LEMMA ClaimJobRow ==
    ASSUME NEW T \in Seq(Row), NEW i \in Ids(T)
    PROVE  LET U == ClaimJob(T, i) IN
           /\ U \in Seq(Row)
           /\ Len(U) = Len(T)
           /\ U[i] = [T[i] EXCEPT !.status = "running", !.attempts = @ + 1]
           /\ \A j \in Ids(T) : j # i => U[j] = T[j]
  <1> DEFINE r == [T[i] EXCEPT !.status = "running", !.attempts = @ + 1]
  <1>1. T[i] \in Row /\ DOMAIN T = Ids(T)
    BY ElementOfSeq, LenProperties DEF Ids
  <1>2. r \in Row
    <2>1. T[i].attempts + 1 \in Nat
      BY <1>1 DEF Row
    <2> QED
      BY <1>1, <2>1 DEF Row, Status
  <1>3. ClaimJob(T, i) = [T EXCEPT ![i] = r]
    BY <1>1 DEF ClaimJob
  <1> HIDE DEF r
  <1>4. LET U == ClaimJob(T, i) IN
          /\ U \in Seq(Row)
          /\ Len(U) = Len(T)
          /\ U[i] = r
          /\ \A j \in Ids(T) : j # i => U[j] = T[j]
    BY <1>2, <1>3, ReplaceRow
  <1> QED
    BY <1>4 DEF r

\* Completion changes the status of one row.
LEMMA CompleteJobRow ==
    ASSUME NEW T \in Seq(Row), NEW i \in Ids(T)
    PROVE  LET U == CompleteJob(T, i) IN
           /\ U \in Seq(Row)
           /\ Len(U) = Len(T)
           /\ U[i] = [T[i] EXCEPT !.status = "done"]
           /\ \A j \in Ids(T) : j # i => U[j] = T[j]
  <1> DEFINE r == [T[i] EXCEPT !.status = "done"]
  <1>1. T[i] \in Row /\ DOMAIN T = Ids(T)
    BY ElementOfSeq, LenProperties DEF Ids
  <1>2. r \in Row
    BY <1>1 DEF Row, Status
  <1>3. CompleteJob(T, i) = [T EXCEPT ![i] = r]
    BY <1>1 DEF CompleteJob
  <1> QED
    BY <1>2, <1>3, ReplaceRow

\* A failure changes the status and the due time of one row.
LEMMA FailJobRow ==
    ASSUME NEW T \in Seq(Row), NEW i \in Ids(T), NEW t \in Nat
    PROVE  LET U == FailJob(T, i, t) IN
           /\ U \in Seq(Row)
           /\ Len(U) = Len(T)
           /\ U[i].status = Disposition(T, i)
           /\ U[i].runAfter = t + BackoffUnit * T[i].attempts
           /\ U[i].attempts = T[i].attempts
           /\ U[i].delivery = T[i].delivery
           /\ U[i].createdAt = T[i].createdAt
           /\ U[i].id = T[i].id
           /\ \A j \in Ids(T) : j # i => U[j] = T[j]
  <1> DEFINE s == Disposition(T, i)
             u == t + BackoffUnit * T[i].attempts
             r == [T[i] EXCEPT !.status = s, !.runAfter = u]
  <1>1. T[i] \in Row /\ DOMAIN T = Ids(T)
    BY ElementOfSeq, LenProperties DEF Ids
  <1>2. s \in Status
    BY DEF Disposition, Status
  <1>3. u \in Nat
    <2>1. T[i].attempts \in Nat /\ BackoffUnit \in Nat
      BY <1>1, BackoffAssumption DEF Row
    <2>2. BackoffUnit * T[i].attempts \in Nat
      BY <2>1
    <2> QED
      BY <2>2
  <1>4. r \in Row
    <2> HIDE DEF s, u
    <2> QED BY <1>1, <1>2, <1>3 DEF Row
  <1>5. FailJob(T, i, t) = [T EXCEPT ![i] = r]
    BY <1>1 DEF FailJob
  <1> HIDE DEF r
  <1>6. LET U == FailJob(T, i, t) IN
          /\ U \in Seq(Row)
          /\ Len(U) = Len(T)
          /\ U[i] = r
          /\ \A j \in Ids(T) : j # i => U[j] = T[j]
    BY <1>4, <1>5, ReplaceRow
  <1>7. /\ r.status = s
        /\ r.runAfter = u
        /\ r.attempts = T[i].attempts
        /\ r.delivery = T[i].delivery
        /\ r.createdAt = T[i].createdAt
        /\ r.id = T[i].id
    <2> HIDE DEF s, u
    <2> QED BY <1>1 DEF Row, r
  <1> QED
    BY <1>6, <1>7

\* enqueue_job adds one fresh queued row, or nothing.
LEMMA EnqueueJobRow ==
    ASSUME NEW T \in Seq(Row), NEW d \in Deliveries, NEW t \in Nat, NEW id \in Nat,
           ~ Known(T, d)
    PROVE  LET U == EnqueueJob(T, d, t, id) IN
           /\ U \in Seq(Row)
           /\ Len(U) = Len(T) + 1
           /\ U[Len(T) + 1] = NewRow(d, t, id)
           /\ \A j \in Ids(T) : U[j] = T[j]
  <1> DEFINE r == NewRow(d, t, id)
  <1>1. r \in Row
    BY DEF NewRow, Row, Status
  <1>2. EnqueueJob(T, d, t, id) = Append(T, r)
    BY DEF EnqueueJob
  <1> HIDE DEF r
  <1>3. /\ Append(T, r) \in Seq(Row)
        /\ Len(Append(T, r)) = Len(T) + 1
        /\ \A j \in 1 .. Len(T) : Append(T, r)[j] = T[j]
        /\ Append(T, r)[Len(T) + 1] = r
    BY <1>1, AppendProperties
  <1> QED
    BY <1>2, <1>3 DEF r, Ids

\* An id that is free is a number no row has.
LEMMA FreeId ==
    ASSUME NEW T \in Seq(Row), NEW id \in FreeIds(T)
    PROVE  id \in Nat /\ \A j \in Ids(T) : T[j].id # id
  BY AheadAssumption DEF FreeIds

-----------------------------------------------------------------------------

\* Types are preserved by every step.
LEMMA TypeStep == TypeOK /\ [Next]_queueVars => TypeOK'
  <1> SUFFICES ASSUME TypeOK, [Next]_queueVars PROVE TypeOK'
    OBVIOUS
  <1> USE DEF TypeOK
  <1>1. CASE Tick
    BY <1>1 DEF Tick
  <1>2. ASSUME NEW d \in Deliveries, Enqueue(d) PROVE TypeOK'
    <2>1. CASE Known(jobs, d)
      BY <1>2, <2>1 DEF Enqueue, EnqueueJob
    <2>2. CASE ~ Known(jobs, d)
      <3>0. PICK id \in FreeIds(jobs) : jobs' = EnqueueJob(jobs, d, now, id)
        BY <1>2 DEF Enqueue
      <3>1. jobs' \in Seq(Row) /\ Len(jobs') = Len(jobs) + 1
        BY <2>2, <3>0, FreeId, EnqueueJobRow
      <3>2. Ids(jobs) \subseteq Ids(jobs')
        BY <3>1, LenProperties DEF Ids
      <3> QED
        BY <1>2, <3>1, <3>2 DEF Enqueue
    <2> QED
      BY <2>1, <2>2
  <1>3. ASSUME NEW w \in Workers, SelectForUpdate(w) PROVE TypeOK'
    BY <1>3 DEF SelectForUpdate
  <1>4. ASSUME NEW w \in Workers, CommitClaim(w) \/ LoseClaim(w) PROVE TypeOK'
    <2>1. locked[w] \in Ids(jobs) /\ jobs' = ClaimJob(jobs, locked[w])
      BY <1>4 DEF CommitClaim, LoseClaim, NoJob
    <2>2. jobs' \in Seq(Row) /\ Ids(jobs') = Ids(jobs)
      BY <2>1, ClaimJobRow DEF Ids
    <2> QED
      BY <1>4, <2>1, <2>2 DEF CommitClaim, LoseClaim
  <1>5. ASSUME NEW w \in Workers, RollbackClaim(w) PROVE TypeOK'
    BY <1>5 DEF RollbackClaim
  <1>6. ASSUME NEW w \in Workers, Complete(w) PROVE TypeOK'
    <2>1. held[w] \in Ids(jobs)
      BY <1>6 DEF Complete, NoJob
    <2>2. jobs' \in Seq(Row) /\ Ids(jobs') = Ids(jobs)
      BY <1>6, <2>1, CompleteJobRow DEF Ids, Complete
    <2> QED
      BY <1>6, <2>2 DEF Complete
  <1>7. ASSUME NEW w \in Workers, Fail(w) PROVE TypeOK'
    <2>1. held[w] \in Ids(jobs)
      BY <1>7 DEF Fail, NoJob
    <2>2. jobs' \in Seq(Row) /\ Ids(jobs') = Ids(jobs)
      BY <1>7, <2>1, FailJobRow DEF Ids, Fail
    <2> QED
      BY <1>7, <2>2 DEF Fail
  <1>8. ASSUME NEW w \in Workers, Abandon(w) PROVE TypeOK'
    BY <1>8 DEF Abandon, NoJob
  <1>9. CASE UNCHANGED queueVars
    BY <1>9 DEF queueVars
  <1> QED
    BY <1>1, <1>2, <1>3, <1>4, <1>5, <1>6, <1>7, <1>8, <1>9 DEF Next

\* The variables keep their types in every behaviour.
THEOREM TypeCorrect == Spec => []TypeOK
  <1>1. Init => TypeOK
    BY EmptySeq DEF Init, TypeOK, Ids, NoJob
  <1> QED
    BY <1>1, TypeStep, PTL DEF Spec

-----------------------------------------------------------------------------
(* What each statement does to the rows in a typed state, field by field. *)

\* A claim that commits, with or without its reply.
LEMMA ClaimStep ==
    ASSUME TypeOK, LockedIsRunnable,
           NEW w \in Workers, CommitClaim(w) \/ LoseClaim(w)
    PROVE  /\ locked[w] \in Ids(jobs)
           /\ Ids(jobs') = Ids(jobs)
           /\ Runnable(jobs, locked[w], now)
           /\ jobs'[locked[w]].status = "running"
           /\ jobs'[locked[w]].attempts = jobs[locked[w]].attempts + 1
           /\ jobs'[locked[w]].delivery = jobs[locked[w]].delivery
           /\ jobs'[locked[w]].runAfter = jobs[locked[w]].runAfter
           /\ jobs'[locked[w]].createdAt = jobs[locked[w]].createdAt
           /\ jobs'[locked[w]].id = jobs[locked[w]].id
           /\ \A j \in Ids(jobs) : j # locked[w] => jobs'[j] = jobs[j]
  <1> DEFINE i == locked[w]
  <1>1. locked[w] # NoJob /\ jobs' = ClaimJob(jobs, i)
    BY DEF CommitClaim, LoseClaim
  <1>2. i \in Ids(jobs) /\ jobs \in Seq(Row)
    BY <1>1 DEF TypeOK
  <1>3. jobs[i] \in Row
    BY <1>2, ElementOfSeq DEF Ids
  <1>4. Runnable(jobs, i, now)
    BY <1>1 DEF LockedIsRunnable
  <1> HIDE DEF i
  <1>5. /\ Len(jobs') = Len(jobs)
        /\ jobs'[i] = [jobs[i] EXCEPT !.status = "running", !.attempts = @ + 1]
        /\ \A j \in Ids(jobs) : j # i => jobs'[j] = jobs[j]
    BY <1>1, <1>2, ClaimJobRow
  <1>6. /\ jobs'[i].status = "running"
        /\ jobs'[i].attempts = jobs[i].attempts + 1
        /\ jobs'[i].delivery = jobs[i].delivery
        /\ jobs'[i].runAfter = jobs[i].runAfter
        /\ jobs'[i].createdAt = jobs[i].createdAt
        /\ jobs'[i].id = jobs[i].id
    BY <1>3, <1>5 DEF Row
  <1> QED
    BY <1>2, <1>4, <1>5, <1>6 DEF i, Ids

\* A completion.
LEMMA CompleteStep ==
    ASSUME TypeOK, NEW w \in Workers, Complete(w)
    PROVE  /\ held[w] \in Ids(jobs)
           /\ Ids(jobs') = Ids(jobs)
           /\ jobs'[held[w]].status = "done"
           /\ jobs'[held[w]].attempts = jobs[held[w]].attempts
           /\ jobs'[held[w]].delivery = jobs[held[w]].delivery
           /\ jobs'[held[w]].runAfter = jobs[held[w]].runAfter
           /\ jobs'[held[w]].createdAt = jobs[held[w]].createdAt
           /\ jobs'[held[w]].id = jobs[held[w]].id
           /\ \A j \in Ids(jobs) : j # held[w] => jobs'[j] = jobs[j]
  <1> DEFINE i == held[w]
  <1>1. held[w] # NoJob /\ jobs' = CompleteJob(jobs, i)
    BY DEF Complete
  <1>2. i \in Ids(jobs) /\ jobs \in Seq(Row)
    BY <1>1 DEF TypeOK
  <1>3. jobs[i] \in Row
    BY <1>2, ElementOfSeq DEF Ids
  <1> HIDE DEF i
  <1>4. /\ Len(jobs') = Len(jobs)
        /\ jobs'[i] = [jobs[i] EXCEPT !.status = "done"]
        /\ \A j \in Ids(jobs) : j # i => jobs'[j] = jobs[j]
    BY <1>1, <1>2, CompleteJobRow
  <1>5. /\ jobs'[i].status = "done"
        /\ jobs'[i].attempts = jobs[i].attempts
        /\ jobs'[i].delivery = jobs[i].delivery
        /\ jobs'[i].runAfter = jobs[i].runAfter
        /\ jobs'[i].createdAt = jobs[i].createdAt
        /\ jobs'[i].id = jobs[i].id
    BY <1>3, <1>4 DEF Row
  <1> QED
    BY <1>2, <1>4, <1>5 DEF i, Ids

\* A failure.
LEMMA FailStep ==
    ASSUME TypeOK, NEW w \in Workers, Fail(w)
    PROVE  /\ held[w] \in Ids(jobs)
           /\ Ids(jobs') = Ids(jobs)
           /\ jobs'[held[w]].status = Disposition(jobs, held[w])
           /\ jobs'[held[w]].attempts = jobs[held[w]].attempts
           /\ jobs'[held[w]].delivery = jobs[held[w]].delivery
           /\ jobs'[held[w]].runAfter = now + BackoffUnit * jobs[held[w]].attempts
           /\ jobs'[held[w]].createdAt = jobs[held[w]].createdAt
           /\ jobs'[held[w]].id = jobs[held[w]].id
           /\ \A j \in Ids(jobs) : j # held[w] => jobs'[j] = jobs[j]
  <1>1. held[w] # NoJob /\ jobs' = FailJob(jobs, held[w], now)
    BY DEF Fail
  <1>2. held[w] \in Ids(jobs) /\ jobs \in Seq(Row) /\ now \in Nat
    BY <1>1 DEF TypeOK
  <1> QED
    BY <1>1, <1>2, FailJobRow DEF Ids

\* A delivery that is new; a redelivery changes nothing.
LEMMA EnqueueStep ==
    ASSUME TypeOK, NEW d \in Deliveries, Enqueue(d)
    PROVE  \/ jobs' = jobs
           \/ /\ ~ Known(jobs, d)
              /\ Ids(jobs') = Ids(jobs) \cup {Len(jobs) + 1}
              /\ Len(jobs) + 1 \notin Ids(jobs)
              /\ jobs'[Len(jobs) + 1].id \in Nat
              /\ jobs'[Len(jobs) + 1].delivery = d
              /\ jobs'[Len(jobs) + 1].status = "queued"
              /\ jobs'[Len(jobs) + 1].attempts = 0
              /\ jobs'[Len(jobs) + 1].runAfter = now
              /\ jobs'[Len(jobs) + 1].createdAt = now
              /\ \A j \in Ids(jobs) : jobs'[j] = jobs[j]
  <1>1. CASE Known(jobs, d)
    BY <1>1 DEF Enqueue, EnqueueJob
  <1>2. CASE ~ Known(jobs, d)
    <2>1. jobs \in Seq(Row) /\ now \in Nat /\ Len(jobs) \in Nat
      BY DEF TypeOK
    <2>0. PICK id \in FreeIds(jobs) : jobs' = EnqueueJob(jobs, d, now, id)
      BY DEF Enqueue
    <2>2. /\ Len(jobs') = Len(jobs) + 1
          /\ jobs'[Len(jobs) + 1] = NewRow(d, now, id)
          /\ \A j \in Ids(jobs) : jobs'[j] = jobs[j]
          /\ id \in Nat
      BY <1>2, <2>0, <2>1, FreeId, EnqueueJobRow
    <2>3. /\ Ids(jobs') = Ids(jobs) \cup {Len(jobs) + 1}
          /\ Len(jobs) + 1 \notin Ids(jobs)
      BY <2>1, <2>2 DEF Ids
    <2> DEFINE n == Len(jobs) + 1
    <2>4. jobs'[n] = NewRow(d, now, id)
      BY <2>2
    <2> HIDE DEF n
    <2>5. /\ jobs'[n].id \in Nat
          /\ jobs'[n].delivery = d
          /\ jobs'[n].status = "queued"
          /\ jobs'[n].attempts = 0
          /\ jobs'[n].runAfter = now
          /\ jobs'[n].createdAt = now
      BY <2>2, <2>4 DEF NewRow
    <2> QED
      BY <1>2, <2>2, <2>3, <2>5 DEF n
  <1> QED
    BY <1>1, <1>2

-----------------------------------------------------------------------------
(* The claims of the workers.  ExclusiveClaim is not inductive alone: that  *)
(* a claim cannot pick a job another worker holds follows from the row      *)
(* being queued, that is, from LockedIsRunnable and RunningIsAccounted.     *)

Claims == ExclusiveClaim /\ LockedIsRunnable /\ RunningIsAccounted

\* A job held by a worker is running, and not abandoned.
LEMMA HeldIsRunning ==
    ASSUME TypeOK, Claims, NEW w \in Workers, held[w] # NoJob
    PROVE  /\ held[w] \in Ids(jobs)
           /\ jobs[held[w]].status = "running"
           /\ held[w] \notin lost
           /\ \A v \in Workers \ {w} : held[v] # held[w]
           /\ \A v \in Workers : locked[v] # held[w]
  <1>1. held[w] \in Ids(jobs)
    BY DEF TypeOK
  <1>2. jobs[held[w]].status = "running"
    BY <1>1 DEF Claims, RunningIsAccounted
  <1>3. \A v \in Workers : locked[v] # held[w]
    BY <1>2 DEF Claims, LockedIsRunnable, Runnable
  <1> QED
    BY <1>1, <1>2, <1>3 DEF Claims, ExclusiveClaim

\* Rows that are locked or due stay so when the clock advances and when other
\* rows change.
LEMMA ClaimsStep == TypeOK /\ Claims /\ [Next]_queueVars => Claims'
  <1> SUFFICES ASSUME TypeOK, Claims, [Next]_queueVars PROVE Claims'
    OBVIOUS
  <1> USE DEF Claims
  <1>0. now \in Nat /\ \A i \in Ids(jobs) : jobs[i].runAfter \in Nat
    <2>1. \A i \in Ids(jobs) : jobs[i] \in Row
      BY ElementOfSeq DEF TypeOK, Ids
    <2> QED
      BY <2>1 DEF TypeOK, Row
  <1>00. /\ \A w \in Workers : locked[w] \in {NoJob} \cup Ids(jobs)
         /\ \A w \in Workers : held[w] \in {NoJob} \cup Ids(jobs)
         /\ DOMAIN held = Workers /\ DOMAIN locked = Workers
         /\ lost \subseteq Ids(jobs)
         /\ NoJob \notin Ids(jobs)
    BY DEF TypeOK, Ids, NoJob
  <1>1. CASE Tick
    <2>1. LockedIsRunnable'
      BY <1>0, <1>00, <1>1 DEF Tick, LockedIsRunnable, Runnable
    <2> QED
      BY <1>1, <2>1 DEF Tick, ExclusiveClaim, RunningIsAccounted
  <1>2. ASSUME NEW d \in Deliveries, Enqueue(d) PROVE Claims'
    <2>1. UNCHANGED <<now, locked, held, lost>>
      BY <1>2 DEF Enqueue
    <2>2. CASE jobs' = jobs
      BY <2>1, <2>2 DEF ExclusiveClaim, LockedIsRunnable, Runnable, RunningIsAccounted
    <2>3. CASE jobs' # jobs
      <3> DEFINE n == Len(jobs) + 1
      <3>1. /\ Ids(jobs') = Ids(jobs) \cup {n}
            /\ n \notin Ids(jobs)
            /\ jobs'[n].status = "queued"
            /\ \A j \in Ids(jobs) : jobs'[j] = jobs[j]
        BY <1>2, <2>3, EnqueueStep
      <3> HIDE DEF n
      <3>2. n \notin lost /\ \A w \in Workers : held[w] # n
        BY <1>00, <3>1 DEF NoJob, Ids
      <3>3. RunningIsAccounted'
        BY <2>1, <3>1, <3>2 DEF RunningIsAccounted
      <3>4. LockedIsRunnable'
        BY <1>00, <2>1, <3>1 DEF LockedIsRunnable, Runnable
      <3> QED
        BY <2>1, <3>3, <3>4 DEF ExclusiveClaim
    <2> QED
      BY <2>2, <2>3
  <1>3. ASSUME NEW w \in Workers, SelectForUpdate(w) PROVE Claims'
    <2>1. PICK i \in Ids(jobs) : Claimable(w, i) /\ locked' = [locked EXCEPT ![w] = i]
      BY <1>3 DEF SelectForUpdate
    <2>2. UNCHANGED <<jobs, now, held, lost>>
      BY <1>3 DEF SelectForUpdate
    <2>3. Idle(w) /\ Runnable(jobs, i, now) /\ \A v \in Workers \ {w} : locked[v] # i
      BY <1>3, <2>1 DEF SelectForUpdate, Claimable
    <2>4. ExclusiveClaim'
      BY <1>00, <2>1, <2>2, <2>3 DEF ExclusiveClaim, Idle
    <2>5. LockedIsRunnable'
      BY <1>00, <2>1, <2>2, <2>3 DEF LockedIsRunnable, Runnable
    <2> QED
      BY <2>2, <2>4, <2>5 DEF RunningIsAccounted
  <1>4. ASSUME NEW w \in Workers, CommitClaim(w) \/ LoseClaim(w) PROVE Claims'
    <2> DEFINE i == locked[w]
    <2>1. /\ i \in Ids(jobs)
          /\ Ids(jobs') = Ids(jobs)
          /\ jobs[i].status = "queued"
          /\ jobs'[i].status = "running"
          /\ \A j \in Ids(jobs) : j # i => jobs'[j] = jobs[j]
      BY <1>4, ClaimStep DEF Runnable
    <2>2. i \notin lost /\ \A v \in Workers : held[v] # i
      BY <2>1 DEF RunningIsAccounted
    <2>3. \A v \in Workers \ {w} : locked[v] # i
      BY <1>00, <2>1 DEF ExclusiveClaim
    <2>4. locked' = [locked EXCEPT ![w] = NoJob] /\ now' = now
      BY <1>4 DEF CommitClaim, LoseClaim
    <2>5. \/ held' = [held EXCEPT ![w] = i] /\ lost' = lost
          \/ held' = held /\ lost' = lost \cup {i}
      BY <1>4 DEF CommitClaim, LoseClaim
    <2>6. held[w] = NoJob
      BY <1>4 DEF CommitClaim, LoseClaim, ExclusiveClaim
    <2> HIDE DEF i
    <2>7. LockedIsRunnable'
      BY <1>00, <2>1, <2>3, <2>4 DEF LockedIsRunnable, Runnable, i
    <2>8. ExclusiveClaim'
      BY <1>00, <2>1, <2>2, <2>4, <2>5 DEF ExclusiveClaim
    <2>9. RunningIsAccounted'
      BY <1>00, <2>1, <2>2, <2>5, <2>6 DEF RunningIsAccounted
    <2> QED
      BY <2>7, <2>8, <2>9
  <1>5. ASSUME NEW w \in Workers, RollbackClaim(w) PROVE Claims'
    BY <1>00, <1>5
    DEF RollbackClaim, ExclusiveClaim, LockedIsRunnable, Runnable, RunningIsAccounted
  <1>6. ASSUME NEW w \in Workers, Complete(w) \/ Fail(w) PROVE Claims'
    <2> DEFINE i == held[w]
    <2>1. /\ Ids(jobs') = Ids(jobs)
          /\ jobs'[i].status # "running"
          /\ \A j \in Ids(jobs) : j # i => jobs'[j] = jobs[j]
      BY <1>6, CompleteStep, FailStep DEF Disposition
    <2>2. /\ i \in Ids(jobs) /\ i \notin lost
          /\ \A v \in Workers \ {w} : held[v] # i
          /\ \A v \in Workers : locked[v] # i
      BY <1>6, HeldIsRunning DEF Complete, Fail
    <2>3. held' = [held EXCEPT ![w] = NoJob] /\ UNCHANGED <<now, locked, lost>>
      BY <1>6 DEF Complete, Fail
    <2> HIDE DEF i
    <2>4. LockedIsRunnable'
      BY <1>00, <2>1, <2>2, <2>3 DEF LockedIsRunnable, Runnable
    <2>5. RunningIsAccounted'
      BY <1>00, <2>1, <2>2, <2>3 DEF RunningIsAccounted, i
    <2> QED
      BY <1>00, <2>3, <2>4, <2>5 DEF ExclusiveClaim
  <1>7. ASSUME NEW w \in Workers, Abandon(w) PROVE Claims'
    <2>1. /\ held[w] # NoJob
          /\ held' = [held EXCEPT ![w] = NoJob]
          /\ lost' = lost \cup {held[w]}
          /\ UNCHANGED <<jobs, now, locked>>
      BY <1>7 DEF Abandon
    <2>2. ExclusiveClaim'
      BY <1>00, <2>1 DEF ExclusiveClaim
    <2>3. RunningIsAccounted'
      BY <1>00, <2>1 DEF RunningIsAccounted
    <2> QED
      BY <2>1, <2>2, <2>3 DEF LockedIsRunnable, Runnable
  <1>8. CASE UNCHANGED queueVars
    BY <1>8 DEF queueVars, ExclusiveClaim, LockedIsRunnable, Runnable, RunningIsAccounted
  <1> QED
    BY <1>1, <1>2, <1>3, <1>4, <1>5, <1>6, <1>7, <1>8 DEF Next

-----------------------------------------------------------------------------

\* Only enqueue_job adds a row, and only for a delivery that has none.
LEMMA UniqueStep == TypeOK /\ LockedIsRunnable /\ UniqueDelivery /\ [Next]_queueVars => UniqueDelivery'
  <1> SUFFICES ASSUME TypeOK, LockedIsRunnable, UniqueDelivery, [Next]_queueVars
               PROVE  UniqueDelivery'
    OBVIOUS
  <1> USE DEF UniqueDelivery
  <1>1. CASE jobs' = jobs
    BY <1>1
  <1>2. ASSUME NEW d \in Deliveries, Enqueue(d), jobs' # jobs PROVE UniqueDelivery'
    <2> DEFINE n == Len(jobs) + 1
    <2>1. /\ ~ Known(jobs, d)
          /\ Ids(jobs') = Ids(jobs) \cup {n}
          /\ n \notin Ids(jobs)
          /\ jobs'[n].delivery = d
          /\ \A j \in Ids(jobs) : jobs'[j] = jobs[j]
      BY <1>2, EnqueueStep
    <2> HIDE DEF n
    <2> QED
      BY <2>1 DEF Known
  <1>3. ASSUME NEW w \in Workers, CommitClaim(w) \/ LoseClaim(w) PROVE UniqueDelivery'
    <2>1. /\ Ids(jobs') = Ids(jobs)
          /\ \A j \in Ids(jobs) : jobs'[j].delivery = jobs[j].delivery
      BY <1>3, ClaimStep
    <2> QED BY <2>1
  <1>4. ASSUME NEW w \in Workers, Complete(w) \/ Fail(w) PROVE UniqueDelivery'
    <2>1. /\ Ids(jobs') = Ids(jobs)
          /\ \A j \in Ids(jobs) : jobs'[j].delivery = jobs[j].delivery
      BY <1>4, CompleteStep, FailStep
    <2> QED BY <2>1
  <1> QED
    BY <1>1, <1>2, <1>3, <1>4
    DEF Next, Tick, SelectForUpdate, RollbackClaim, Abandon, queueVars

\* A claim spends one attempt of a queued row, a failure ends the job when none
\* is left.
LEMMA BudgetStep == TypeOK /\ Claims /\ AttemptBudget /\ [Next]_queueVars => AttemptBudget'
  <1> SUFFICES ASSUME TypeOK, Claims, AttemptBudget, [Next]_queueVars
               PROVE  AttemptBudget'
    OBVIOUS
  <1> USE DEF AttemptBudget
  <1>0. \A i \in Ids(jobs) : jobs[i].attempts \in Nat
    <2>1. \A i \in Ids(jobs) : jobs[i] \in Row
      BY ElementOfSeq DEF TypeOK, Ids
    <2> QED
      BY <2>1 DEF Row
  <1>1. CASE jobs' = jobs
    BY <1>1 DEF WithinBudget
  <1>2. ASSUME NEW d \in Deliveries, Enqueue(d), jobs' # jobs PROVE AttemptBudget'
    <2> DEFINE n == Len(jobs) + 1
    <2>1. /\ Ids(jobs') = Ids(jobs) \cup {n}
          /\ jobs'[n].status = "queued"
          /\ jobs'[n].attempts = 0
          /\ \A j \in Ids(jobs) : jobs'[j] = jobs[j]
      BY <1>2, EnqueueStep
    <2> HIDE DEF n
    <2>2. WithinBudget(jobs'[n])
      BY <2>1, AttemptsAssumption DEF WithinBudget
    <2> QED
      BY <2>1, <2>2
  <1>3. ASSUME NEW w \in Workers, CommitClaim(w) \/ LoseClaim(w) PROVE AttemptBudget'
    <2> DEFINE i == locked[w]
    <2>1. /\ i \in Ids(jobs)
          /\ Ids(jobs') = Ids(jobs)
          /\ jobs[i].status = "queued"
          /\ jobs'[i].status = "running"
          /\ jobs'[i].attempts = jobs[i].attempts + 1
          /\ \A j \in Ids(jobs) : j # i => jobs'[j] = jobs[j]
      BY <1>3, ClaimStep DEF Claims, Runnable
    <2> HIDE DEF i
    <2>2. WithinBudget(jobs'[i])
      BY <1>0, <2>1, AttemptsAssumption DEF WithinBudget
    <2> QED
      BY <2>1, <2>2
  <1>4. ASSUME NEW w \in Workers, Complete(w) \/ Fail(w) PROVE AttemptBudget'
    <2> DEFINE i == held[w]
    <2>1. /\ i \in Ids(jobs)
          /\ Ids(jobs') = Ids(jobs)
          /\ jobs'[i].status \in {"done", Disposition(jobs, i)}
          /\ jobs'[i].attempts = jobs[i].attempts
          /\ \A j \in Ids(jobs) : j # i => jobs'[j] = jobs[j]
      BY <1>4, CompleteStep, FailStep
    <2>2. jobs[i].status = "running"
      BY <1>4, HeldIsRunning DEF Complete, Fail
    <2> HIDE DEF i
    <2>3. jobs[i].attempts > 0 /\ jobs[i].attempts <= MaxJobAttempts
      BY <2>1, <2>2 DEF WithinBudget
    <2>4. WithinBudget(jobs'[i])
      BY <1>0, <2>1, <2>3, AttemptsAssumption DEF WithinBudget, Disposition
    <2> QED
      BY <2>1, <2>4
  <1> QED
    BY <1>1, <1>2, <1>3, <1>4
    DEF Next, Tick, SelectForUpdate, RollbackClaim, Abandon, queueVars

\* The delays add up: k claims and k failures give k (k + 1) / 2 units.
LEMMA BackoffSum ==
    ASSUME NEW k \in Nat, NEW u \in Nat, NEW t \in Nat, NEW c \in Nat,
           2 * t >= 2 * c + u * (k * (k - 1))
    PROVE  2 * (t + u * k) >= 2 * c + u * (k * (k + 1))
  <1>1. k * (k + 1) = k * (k - 1) + 2 * k
    OBVIOUS
  <1>2. u * (k * (k + 1)) = u * (k * (k - 1)) + 2 * (u * k)
    BY <1>1
  <1> DEFINE a == u * (k * (k - 1))
             b == u * (k * (k + 1))
             e == u * k
  <1>3. a \in Int /\ b \in Int /\ e \in Int
    OBVIOUS
  <1> HIDE DEF a, b, e
  <1> QED
    BY <1>2, <1>3 DEF a, b, e

\* A row that does not change stays spaced as the clock advances.
LEMMA SpacedLater ==
    ASSUME NEW r \in Row, NEW t \in Nat, NEW u \in Nat, t <= u, Spaced(r, t)
    PROVE  Spaced(r, u)
  <1> DEFINE k == r.attempts
             b == BackoffUnit * (k * (k - 1))
  <1>1. k \in Nat /\ BackoffUnit \in Nat /\ r.createdAt \in Nat
    BY BackoffAssumption DEF Row
  <1>2. b \in Int
    BY <1>1
  <1>3. CASE r.status = "queued"
    BY <1>3 DEF Spaced
  <1>4. CASE r.status # "queued"
    <2>1. 2 * t >= 2 * r.createdAt + b
      BY <1>4 DEF Spaced
    <2> HIDE DEF b
    <2>2. 2 * u >= 2 * r.createdAt + b
      BY <1>1, <1>2, <2>1
    <2> QED
      BY <1>4, <2>2 DEF Spaced, b
  <1> QED
    BY <1>3, <1>4

\* The claim waits for run_after; the failure sets the next one.
LEMMA SpacingStep ==
    TypeOK /\ Claims /\ BackoffSpacing /\ [Next]_queueVars => BackoffSpacing'
  <1> SUFFICES ASSUME TypeOK, Claims, BackoffSpacing, [Next]_queueVars
               PROVE  BackoffSpacing'
    OBVIOUS
  <1> USE DEF BackoffSpacing
  <1>0. now \in Nat /\ now' \in Nat /\ now <= now' /\ BackoffUnit \in Nat
    BY BackoffAssumption
    DEF TypeOK, Next, Tick, Enqueue, SelectForUpdate, CommitClaim, RollbackClaim,
        LoseClaim, Complete, Fail, Abandon, queueVars
  <1>00. \A i \in Ids(jobs) :
            /\ jobs[i] \in Row
            /\ jobs[i].attempts \in Nat
            /\ jobs[i].runAfter \in Nat
            /\ jobs[i].createdAt \in Nat
    <2>1. \A i \in Ids(jobs) : jobs[i] \in Row
      BY ElementOfSeq DEF TypeOK, Ids
    <2> QED
      BY <2>1 DEF Row
  <1>000. \A i \in Ids(jobs) : Spaced(jobs[i], now')
    BY <1>0, <1>00, SpacedLater
  <1>1. CASE jobs' = jobs
    BY <1>1, <1>000
  <1>2. ASSUME NEW d \in Deliveries, Enqueue(d), jobs' # jobs PROVE BackoffSpacing'
    <2> DEFINE n == Len(jobs) + 1
    <2>1. /\ Ids(jobs') = Ids(jobs) \cup {n}
          /\ jobs'[n].status = "queued"
          /\ jobs'[n].attempts = 0
          /\ jobs'[n].runAfter = now
          /\ jobs'[n].createdAt = now
          /\ \A j \in Ids(jobs) : jobs'[j] = jobs[j]
      BY <1>2, EnqueueStep
    <2> HIDE DEF n
    <2>2. Spaced(jobs'[n], now')
      BY <1>0, <2>1 DEF Spaced
    <2> QED
      BY <1>000, <2>1, <2>2
  <1>3. ASSUME NEW w \in Workers, CommitClaim(w) \/ LoseClaim(w) PROVE BackoffSpacing'
    <2> DEFINE i == locked[w]
               k == jobs[i].attempts
               b == BackoffUnit * (k * (k + 1))
    <2>1. /\ i \in Ids(jobs)
          /\ Ids(jobs') = Ids(jobs)
          /\ jobs[i].status = "queued"
          /\ jobs[i].runAfter <= now
          /\ jobs'[i].status = "running"
          /\ jobs'[i].attempts = k + 1
          /\ jobs'[i].createdAt = jobs[i].createdAt
        /\ jobs'[i].id = jobs[i].id
          /\ \A j \in Ids(jobs) : j # i => jobs'[j] = jobs[j]
      BY <1>3, ClaimStep DEF Claims, Runnable
    <2> HIDE DEF i
    <2>2. k \in Nat /\ jobs[i].runAfter \in Nat /\ jobs[i].createdAt \in Nat
      BY <1>00, <2>1
    <2>3. b \in Int
      BY <1>0, <2>2
    <2>4. 2 * jobs[i].runAfter >= 2 * jobs[i].createdAt + b
      BY <2>1 DEF Spaced
    <2>5. b = BackoffUnit * ((k + 1) * ((k + 1) - 1))
      <3> HIDE DEF k
      <3>1. k * (k + 1) = (k + 1) * ((k + 1) - 1)
        BY <2>2
      <3> QED BY <3>1
    <2>6. 2 * now' >= 2 * jobs[i].createdAt + b
      <3> HIDE DEF b
      <3> QED BY <1>0, <2>1, <2>2, <2>3, <2>4
    <2>7. Spaced(jobs'[i], now')
      <3> HIDE DEF b, k
      <3> QED BY <2>1, <2>5, <2>6 DEF Spaced
    <2> QED
      BY <1>000, <2>1, <2>7
  <1>4. ASSUME NEW w \in Workers, Complete(w) \/ Fail(w) PROVE BackoffSpacing'
    <2> DEFINE i == held[w]
               k == jobs[i].attempts
    <2>1. /\ i \in Ids(jobs)
          /\ Ids(jobs') = Ids(jobs)
          /\ \/ jobs'[i].status = "done"
             \/ /\ jobs'[i].status = Disposition(jobs, i)
                /\ jobs'[i].runAfter = now + BackoffUnit * k
          /\ jobs'[i].attempts = k
          /\ jobs'[i].createdAt = jobs[i].createdAt
        /\ jobs'[i].id = jobs[i].id
          /\ \A j \in Ids(jobs) : j # i => jobs'[j] = jobs[j]
      BY <1>4, CompleteStep, FailStep
    <2>2. jobs[i].status = "running"
      BY <1>4, HeldIsRunning DEF Complete, Fail
    <2>3. now' = now
      BY <1>4 DEF Complete, Fail
    <2> HIDE DEF i
    <2>4. k \in Nat /\ jobs[i].createdAt \in Nat
      BY <1>00, <2>1
    <2>5. 2 * now >= 2 * jobs[i].createdAt + BackoffUnit * (k * (k - 1))
      BY <2>1, <2>2 DEF Spaced
    <2>6. 2 * (now + BackoffUnit * k) >= 2 * jobs[i].createdAt + BackoffUnit * (k * (k + 1))
      <3> HIDE DEF k
      <3> QED BY <1>0, <2>4, <2>5, BackoffSum
    <2> HIDE DEF k
    <2>7. CASE jobs'[i].status # "queued"
      <3>1. Spaced(jobs'[i], now')
        BY <2>1, <2>3, <2>5, <2>7 DEF Spaced
      <3> QED
        BY <1>000, <2>1, <3>1
    <2>8. CASE jobs'[i].status = "queued"
      <3>1. jobs'[i].runAfter = now + BackoffUnit * k
        BY <2>1, <2>8
      <3>2. Spaced(jobs'[i], now')
        BY <2>1, <2>6, <2>8, <3>1 DEF Spaced
      <3> QED
        BY <1>000, <2>1, <3>2
    <2> QED
      BY <2>7, <2>8
  <1> QED
    BY <1>1, <1>2, <1>3, <1>4
    DEF Next, Tick, SelectForUpdate, RollbackClaim, Abandon, queueVars

\* A claim takes a queued row and the other statements a running one.
LEMMA FinalStep ==
    TypeOK /\ Claims /\ [Next]_queueVars =>
        [\A i \in Ids(jobs) : jobs[i].status \in Terminal => jobs'[i] = jobs[i]]_queueVars
  <1> SUFFICES ASSUME TypeOK, Claims, Next,
                      NEW i \in Ids(jobs), jobs[i].status \in Terminal
               PROVE  jobs'[i] = jobs[i]
    BY DEF Next
  <1> USE DEF Terminal
  <1>1. CASE jobs' = jobs
    BY <1>1
  <1>2. ASSUME NEW d \in Deliveries, Enqueue(d), jobs' # jobs PROVE jobs'[i] = jobs[i]
    BY <1>2, EnqueueStep
  <1>3. ASSUME NEW w \in Workers, CommitClaim(w) \/ LoseClaim(w) PROVE jobs'[i] = jobs[i]
    <2>1. jobs[locked[w]].status = "queued"
      BY <1>3, ClaimStep DEF Claims, Runnable
    <2> QED
      BY <1>3, <2>1, ClaimStep DEF Claims
  <1>4. ASSUME NEW w \in Workers, Complete(w) \/ Fail(w) PROVE jobs'[i] = jobs[i]
    <2>1. jobs[held[w]].status = "running"
      BY <1>4, HeldIsRunning DEF Complete, Fail
    <2> QED
      BY <1>4, <2>1, CompleteStep, FailStep
  <1> QED
    BY <1>1, <1>2, <1>3, <1>4
    DEF Next, Tick, SelectForUpdate, RollbackClaim, Abandon, queueVars

-----------------------------------------------------------------------------

\* The inductive invariant: the types, the claims, and what the attempts and
\* the delays of a row say of its past.
IInv == TypeOK /\ Claims /\ UniqueDelivery /\ AttemptBudget /\ BackoffSpacing

\* IInv holds initially and is preserved by every step of the queue.
THEOREM Invariance == Spec => []IInv
  <1>1. Init => IInv
    <2> SUFFICES ASSUME Init PROVE IInv
      OBVIOUS
    <2>1. Ids(jobs) = {}
      BY DEF Init, Ids
    <2>2. TypeOK
      BY EmptySeq, <2>1 DEF Init, TypeOK, NoJob
    <2>3. Claims
      BY <2>1 DEF Init, Claims, ExclusiveClaim, LockedIsRunnable, RunningIsAccounted
    <2> QED
      BY <2>1, <2>2, <2>3 DEF IInv, UniqueDelivery, AttemptBudget, BackoffSpacing
  <1>2. IInv /\ [Next]_queueVars => IInv'
    BY TypeStep, ClaimsStep, UniqueStep, BudgetStep, SpacingStep DEF IInv, Claims
  <1> QED
    BY <1>1, <1>2, PTL DEF Spec

\* A webhook delivery has at most one row, however often it is redelivered.
THEOREM DeliveriesAreUnique == Spec => []UniqueDelivery
  BY Invariance, PTL DEF IInv

\* Overlapping claims of any number of workers never give one job to two.
THEOREM ClaimsAreExclusive == Spec => [](ExclusiveClaim /\ LockedIsRunnable /\ RunningIsAccounted)
  <1>1. IInv => ExclusiveClaim /\ LockedIsRunnable /\ RunningIsAccounted
    BY DEF IInv, Claims
  <1> QED
    BY <1>1, Invariance, PTL

\* A job in progress is never forgotten by the table: a row says running exactly
\* while a worker has it in memory or some worker has abandoned it.
THEOREM RunningJobsAreAccounted == Spec => []RunningIsAccounted
  BY ClaimsAreExclusive, PTL

\* A job is attempted at most MaxJobAttempts times and dies only then.
THEOREM AttemptsAreBounded == Spec => []AttemptBudget
  BY Invariance, PTL DEF IInv

\* The k-th attempt comes at least BackoffUnit * k (k - 1) / 2 after delivery.
THEOREM AttemptsAreSpaced == Spec => []BackoffSpacing
  BY Invariance, PTL DEF IInv

\* No step changes a job that is done or dead.
THEOREM SettledForEver == Spec => TerminalIsFinal
  <1>1. IInv => TypeOK /\ Claims
    BY DEF IInv
  <1> QED
    BY <1>1, FinalStep, Invariance, PTL DEF Spec, TerminalIsFinal

-----------------------------------------------------------------------------
(* JobQueue implements JobLifecycle.  The life of a delivery is read off    *)
(* its row, the only one it has.                                            *)

LifeIn(T) == [d \in Deliveries |->
                 IF Known(T, d)
                   THEN T[CHOOSE i \in Ids(T) : T[i].delivery = d].status ELSE "unseen"]

TriesIn(T) == [d \in Deliveries |->
                 IF Known(T, d)
                   THEN T[CHOOSE i \in Ids(T) : T[i].delivery = d].attempts ELSE 0]

UniqueIn(T) == \A i, j \in Ids(T) : T[i].delivery = T[j].delivery => i = j

\* Two functions that differ in one place.
LEMMA OneUpdate ==
    ASSUME NEW S, NEW f, NEW g, NEW d \in S,
           f = [x \in S |-> f[x]], g = [x \in S |-> g[x]],
           \A e \in S : e # d => g[e] = f[e]
    PROVE  g = [f EXCEPT ![d] = g[d]]
  OBVIOUS

\* Lives and tries are functions on the deliveries.
LEMMA LivesAreFunctions ==
    ASSUME NEW T
    PROVE  /\ LifeIn(T) = [d \in Deliveries |-> LifeIn(T)[d]]
           /\ TriesIn(T) = [d \in Deliveries |-> TriesIn(T)[d]]
  BY DEF LifeIn, TriesIn

\* The life of a delivery that has a row is what the row says.
LEMMA LifeOfRow ==
    ASSUME NEW T \in Seq(Row), UniqueIn(T), NEW i \in Ids(T)
    PROVE  /\ T[i].delivery \in Deliveries
           /\ LifeIn(T)[T[i].delivery] = T[i].status
           /\ TriesIn(T)[T[i].delivery] = T[i].attempts
  <1>1. T[i].delivery \in Deliveries
    <2>1. T[i] \in Row
      BY ElementOfSeq DEF Ids
    <2> QED
      BY <2>1 DEF Row
  <1>2. Known(T, T[i].delivery)
    BY DEF Known
  <1>3. (CHOOSE j \in Ids(T) : T[j].delivery = T[i].delivery) = i
    BY DEF UniqueIn
  <1> QED
    BY <1>1, <1>2, <1>3 DEF LifeIn, TriesIn

\* A statement that changes one row changes the life of one delivery.
LEMMA OneLifeChanges ==
    ASSUME NEW T \in Seq(Row), UniqueIn(T), NEW U \in Seq(Row), NEW i \in Ids(T),
           Ids(U) = Ids(T),
           U[i].delivery = T[i].delivery,
           \A j \in Ids(T) : j # i => U[j] = T[j]
    PROVE  LET d == T[i].delivery IN
           /\ d \in Deliveries
           /\ LifeIn(T)[d] = T[i].status
           /\ TriesIn(T)[d] = T[i].attempts
           /\ LifeIn(U) = [LifeIn(T) EXCEPT ![d] = U[i].status]
           /\ TriesIn(U) = [TriesIn(T) EXCEPT ![d] = U[i].attempts]
  <1> DEFINE d == T[i].delivery
  <1>1. UniqueIn(U)
    BY DEF UniqueIn
  <1>2. /\ d \in Deliveries
        /\ LifeIn(T)[d] = T[i].status /\ TriesIn(T)[d] = T[i].attempts
        /\ LifeIn(U)[d] = U[i].status /\ TriesIn(U)[d] = U[i].attempts
    BY <1>1, LifeOfRow
  <1>3. ASSUME NEW e \in Deliveries, e # d
        PROVE  LifeIn(U)[e] = LifeIn(T)[e] /\ TriesIn(U)[e] = TriesIn(T)[e]
    <2>1. CASE ~ Known(T, e)
      <3>1. ~ Known(U, e)
        BY <1>3, <2>1 DEF Known
      <3> QED
        BY <2>1, <3>1 DEF LifeIn, TriesIn
    <2>2. CASE Known(T, e)
      <3>1. PICK j \in Ids(T) : T[j].delivery = e
        BY <2>2 DEF Known
      <3>2. j # i /\ U[j] = T[j]
        BY <1>3, <3>1
      <3>3. /\ LifeIn(T)[e] = T[j].status /\ TriesIn(T)[e] = T[j].attempts
            /\ LifeIn(U)[e] = U[j].status /\ TriesIn(U)[e] = U[j].attempts
        BY <1>1, <3>1, <3>2, LifeOfRow
      <3> QED
        BY <3>2, <3>3
    <2> QED
      BY <2>1, <2>2
  <1>4. LifeIn(U) = [LifeIn(T) EXCEPT ![d] = U[i].status]
    BY <1>2, <1>3, LivesAreFunctions, OneUpdate
  <1>5. TriesIn(U) = [TriesIn(T) EXCEPT ![d] = U[i].attempts]
    BY <1>2, <1>3, LivesAreFunctions, OneUpdate
  <1> QED
    BY <1>2, <1>4, <1>5

\* A new row is the beginning of a life.
LEMMA LifeBegins ==
    ASSUME NEW T \in Seq(Row), UniqueIn(T), NEW U \in Seq(Row), NEW n, NEW d \in Deliveries,
           ~ Known(T, d),
           Ids(U) = Ids(T) \cup {n}, n \notin Ids(T),
           U[n].delivery = d,
           \A j \in Ids(T) : U[j] = T[j]
    PROVE  /\ LifeIn(T)[d] = "unseen"
           /\ TriesIn(T)[d] = 0
           /\ LifeIn(U) = [LifeIn(T) EXCEPT ![d] = U[n].status]
           /\ TriesIn(U) = [TriesIn(T) EXCEPT ![d] = U[n].attempts]
  <1>1. UniqueIn(U)
    BY DEF UniqueIn, Known
  <1>2. /\ LifeIn(T)[d] = "unseen" /\ TriesIn(T)[d] = 0
    BY DEF LifeIn, TriesIn
  <1>3. LifeIn(U)[d] = U[n].status /\ TriesIn(U)[d] = U[n].attempts
    BY <1>1, LifeOfRow
  <1>4. ASSUME NEW e \in Deliveries, e # d
        PROVE  LifeIn(U)[e] = LifeIn(T)[e] /\ TriesIn(U)[e] = TriesIn(T)[e]
    <2>1. CASE ~ Known(T, e)
      <3>1. ~ Known(U, e)
        BY <1>4, <2>1 DEF Known
      <3> QED
        BY <2>1, <3>1 DEF LifeIn, TriesIn
    <2>2. CASE Known(T, e)
      <3>1. PICK j \in Ids(T) : T[j].delivery = e
        BY <2>2 DEF Known
      <3>2. j \in Ids(U) /\ U[j] = T[j]
        BY <3>1
      <3>3. /\ LifeIn(T)[e] = T[j].status /\ TriesIn(T)[e] = T[j].attempts
            /\ LifeIn(U)[e] = U[j].status /\ TriesIn(U)[e] = U[j].attempts
        BY <1>1, <3>1, <3>2, LifeOfRow
      <3> QED
        BY <3>2, <3>3
    <2> QED
      BY <2>1, <2>2
  <1>5. LifeIn(U) = [LifeIn(T) EXCEPT ![d] = U[n].status]
    BY <1>3, <1>4, LivesAreFunctions, OneUpdate
  <1>6. TriesIn(U) = [TriesIn(T) EXCEPT ![d] = U[n].attempts]
    BY <1>3, <1>4, LivesAreFunctions, OneUpdate
  <1> QED
    BY <1>2, <1>5, <1>6

\* Each statement on the table is a step in the life of one delivery; the rest
\* (clock, locks, a worker that is gone) is none.
LEMMA LifecycleStep ==
    IInv /\ IInv' /\ [Next]_queueVars => [Lifecycle!Next]_(Lifecycle!lifeVars)
  <1> SUFFICES ASSUME IInv, IInv', [Next]_queueVars
               PROVE  Lifecycle!Next \/ UNCHANGED <<LifeOf, TriesOf>>
    BY DEF Lifecycle!lifeVars
  <1>0. /\ TypeOK /\ Claims /\ AttemptBudget
        /\ jobs \in Seq(Row) /\ jobs' \in Seq(Row)
        /\ UniqueIn(jobs)
        /\ LifeOf = LifeIn(jobs) /\ TriesOf = TriesIn(jobs)
        /\ LifeOf' = LifeIn(jobs') /\ TriesOf' = TriesIn(jobs')
    BY DEF IInv, TypeOK, UniqueDelivery, UniqueIn, LifeOf, TriesOf, RowOf, LifeIn, TriesIn
  <1>1. CASE jobs' = jobs
    BY <1>0, <1>1
  <1>2. ASSUME NEW d \in Deliveries, Enqueue(d), jobs' # jobs PROVE Lifecycle!Next
    <2> DEFINE n == Len(jobs) + 1
    <2>1. /\ ~ Known(jobs, d)
          /\ Ids(jobs') = Ids(jobs) \cup {n} /\ n \notin Ids(jobs)
          /\ jobs'[n].delivery = d
          /\ jobs'[n].status = "queued" /\ jobs'[n].attempts = 0
          /\ \A j \in Ids(jobs) : jobs'[j] = jobs[j]
      BY <1>0, <1>2, EnqueueStep
    <2> HIDE DEF n
    <2>2. /\ LifeOf[d] = "unseen" /\ TriesOf[d] = 0
          /\ LifeOf' = [LifeOf EXCEPT ![d] = "queued"]
          /\ TriesOf' = [TriesOf EXCEPT ![d] = 0]
      BY <1>0, <2>1, LifeBegins
    <2>3. TriesOf' = TriesOf
      BY <2>2 DEF TriesOf
    <2> QED
      BY <2>2, <2>3 DEF Lifecycle!Next, Lifecycle!Accept, Lifecycle!Becomes
  <1>3. ASSUME NEW w \in Workers, CommitClaim(w) \/ LoseClaim(w) PROVE Lifecycle!Next
    <2> DEFINE i == locked[w]
               d == jobs[i].delivery
    <2>1. /\ i \in Ids(jobs) /\ Ids(jobs') = Ids(jobs)
          /\ jobs[i].status = "queued" /\ jobs'[i].status = "running"
          /\ jobs'[i].attempts = jobs[i].attempts + 1
          /\ jobs'[i].delivery = jobs[i].delivery
          /\ \A j \in Ids(jobs) : j # i => jobs'[j] = jobs[j]
      BY <1>0, <1>3, ClaimStep DEF Claims, Runnable
    <2>2. jobs[i].attempts < MaxJobAttempts
      BY <1>0, <2>1 DEF AttemptBudget, WithinBudget
    <2> HIDE DEF i
    <2>3. /\ d \in Deliveries
          /\ LifeOf[d] = "queued" /\ TriesOf[d] = jobs[i].attempts
          /\ LifeOf' = [LifeOf EXCEPT ![d] = "running"]
          /\ TriesOf' = [TriesOf EXCEPT ![d] = jobs[i].attempts + 1]
      BY <1>0, <2>1, OneLifeChanges
    <2> HIDE DEF d
    <2> QED
      BY <2>2, <2>3 DEF Lifecycle!Next, Lifecycle!Start, Lifecycle!Becomes
  <1>4. ASSUME NEW w \in Workers, Complete(w) \/ Fail(w) PROVE Lifecycle!Next
    <2> DEFINE i == held[w]
               d == jobs[i].delivery
    <2>1. /\ i \in Ids(jobs) /\ Ids(jobs') = Ids(jobs)
          /\ jobs'[i].status \in {"done", Disposition(jobs, i)}
          /\ jobs'[i].attempts = jobs[i].attempts
          /\ jobs'[i].delivery = jobs[i].delivery
          /\ \A j \in Ids(jobs) : j # i => jobs'[j] = jobs[j]
      BY <1>0, <1>4, CompleteStep, FailStep
    <2>2. jobs[i].status = "running"
      BY <1>0, <1>4, HeldIsRunning DEF Complete, Fail
    <2>3. jobs[i].attempts \in Nat /\ jobs[i].attempts <= MaxJobAttempts
      <3>1. jobs[i] \in Row
        BY <1>0, <2>1, ElementOfSeq DEF Ids
      <3> QED
        BY <1>0, <2>1, <3>1 DEF AttemptBudget, WithinBudget, Row
    <2> HIDE DEF i
    <2>4. /\ d \in Deliveries
          /\ LifeOf[d] = "running" /\ TriesOf[d] = jobs[i].attempts
          /\ LifeOf' = [LifeOf EXCEPT ![d] = jobs'[i].status]
          /\ TriesOf' = [TriesOf EXCEPT ![d] = jobs[i].attempts]
      BY <1>0, <2>1, <2>2, OneLifeChanges
    <2>5. TriesOf' = TriesOf
      BY <2>4 DEF TriesOf
    <2>6. \/ jobs'[i].status = "done"
          \/ jobs'[i].status = "queued" /\ TriesOf[d] < MaxJobAttempts
          \/ jobs'[i].status = "dead" /\ TriesOf[d] = MaxJobAttempts
      BY <2>1, <2>3, <2>4, AttemptsAssumption DEF Disposition
    <2> HIDE DEF d
    <2> QED
      BY <2>4, <2>5, <2>6
      DEF Lifecycle!Next, Lifecycle!Finish, Lifecycle!Retry, Lifecycle!GiveUp, Lifecycle!Becomes
  <1> QED
    BY <1>1, <1>2, <1>3, <1>4
    DEF Next, Tick, SelectForUpdate, RollbackClaim, Abandon, queueVars

\* The queue keeps what JobLifecycle promises of each delivery, for any number
\* of deliveries, workers, attempts and clock ticks.
THEOREM QueueImplementsLifecycle == Spec => ImplementsLifecycle
  <1>1. Init => Lifecycle!Init
    <2> SUFFICES ASSUME Init PROVE Lifecycle!Init
      OBVIOUS
    <2>1. \A d \in Deliveries : ~ Known(jobs, d)
      BY DEF Init, Known, Ids
    <2> QED
      BY <2>1 DEF Lifecycle!Init, LifeOf, TriesOf
  <1> QED
    BY <1>1, LifecycleStep, Invariance, PTL DEF Spec, ImplementsLifecycle, Lifecycle!Spec

=============================================================================
