------------------------- MODULE InMemoryStoreProofs -------------------------
(***************************************************************************)
(* The store in memory is a job queue of module JobQueue, without backoff. *)
(***************************************************************************)
EXTENDS InMemoryStore, SequenceTheorems, TLAPS

Table(R) == [ i \in 1 .. Len(R) |-> AsRow(i, R[i]) ]

\* The table that stands for the stored jobs has their length and order.
LEMMA TableRows ==
    ASSUME NEW R \in Seq(StoredJob)
    PROVE  /\ Table(R) \in Seq(Queue!Row)
           /\ Len(Table(R)) = Len(R)
           /\ \A i \in 1 .. Len(R) : R[i] \in StoredJob /\ Table(R)[i] = AsRow(i, R[i])
  <1>1. Len(R) \in Nat /\ \A i \in 1 .. Len(R) : R[i] \in StoredJob
    BY ElementOfSeq, LenProperties
  <1>2. \A i \in 1 .. Len(R) : AsRow(i, R[i]) \in Queue!Row
    BY <1>1 DEF AsRow, Queue!Row, Queue!Status, StoredJob
  <1> QED
    BY <1>1, <1>2 DEF Table

Replace(R, i, r) == [R EXCEPT ![i] = r]

\* A change of one stored job is the change of one row.
LEMMA TableUpdate ==
    ASSUME NEW R \in Seq(StoredJob), NEW i \in 1 .. Len(R), NEW r \in StoredJob
    PROVE  /\ Replace(R, i, r) \in Seq(StoredJob)
           /\ Len(Replace(R, i, r)) = Len(R)
           /\ Table(Replace(R, i, r)) = Replace(Table(R), i, AsRow(i, r))
  <1> DEFINE U == Replace(R, i, r)
  <1>1. /\ U \in Seq(StoredJob)
        /\ Len(U) = Len(R)
        /\ U[i] = r
        /\ \A j \in 1 .. Len(R) : j # i => U[j] = R[j]
    BY ExceptSeq DEF Replace
  <1> HIDE DEF U
  <1>2. /\ Table(U) = [ j \in 1 .. Len(R) |-> AsRow(j, U[j]) ]
        /\ Table(R) = [ j \in 1 .. Len(R) |-> AsRow(j, R[j]) ]
    BY <1>1 DEF Table
  <1>3. \A j \in 1 .. Len(R) : AsRow(j, U[j]) = IF j = i THEN AsRow(i, r) ELSE AsRow(j, R[j])
    BY <1>1
  <1>4. Table(U) = Replace(Table(R), i, AsRow(i, r))
    BY <1>2, <1>3 DEF Replace
  <1> QED
    BY <1>1, <1>4 DEF U

\* A new stored job is a new row.
LEMMA TableAppend ==
    ASSUME NEW R \in Seq(StoredJob), NEW r \in StoredJob
    PROVE  /\ Append(R, r) \in Seq(StoredJob)
           /\ Len(Append(R, r)) = Len(R) + 1
           /\ Table(Append(R, r)) = Append(Table(R), AsRow(Len(R) + 1, r))
  <1>1. /\ Append(R, r) \in Seq(StoredJob)
        /\ Len(Append(R, r)) = Len(R) + 1
        /\ \A j \in 1 .. Len(R) : Append(R, r)[j] = R[j]
        /\ Append(R, r)[Len(R) + 1] = r
    BY AppendProperties
  <1>2. /\ Table(R) \in Seq(Queue!Row) /\ Len(Table(R)) = Len(R)
        /\ \A i \in 1 .. Len(R) : Table(R)[i] = AsRow(i, R[i])
        /\ AsRow(Len(R) + 1, r) \in Queue!Row
    <2>1. Len(R) + 1 \in Nat
      BY LenProperties
    <2>2. AsRow(Len(R) + 1, r) \in Queue!Row
      BY <2>1 DEF AsRow, Queue!Row, Queue!Status, StoredJob
    <2> QED
      BY <2>2, TableRows
  <1>3. /\ Append(Table(R), AsRow(Len(R) + 1, r)) \in Seq(Queue!Row)
        /\ Len(Append(Table(R), AsRow(Len(R) + 1, r))) = Len(R) + 1
        /\ \A j \in 1 .. Len(R) : Append(Table(R), AsRow(Len(R) + 1, r))[j] = Table(R)[j]
        /\ Append(Table(R), AsRow(Len(R) + 1, r))[Len(R) + 1] = AsRow(Len(R) + 1, r)
    BY <1>2, AppendProperties
  <1>4. /\ Table(Append(R, r)) \in Seq(Queue!Row)
        /\ Len(Table(Append(R, r))) = Len(R) + 1
        /\ \A j \in 1 .. Len(R) + 1 : Table(Append(R, r))[j] = AsRow(j, Append(R, r)[j])
    BY <1>1, TableRows
  <1>5. \A j \in 1 .. Len(R) + 1 : Table(Append(R, r))[j] = Append(Table(R), AsRow(Len(R) + 1, r))[j]
    <2> SUFFICES ASSUME NEW j \in 1 .. Len(R) + 1
                 PROVE  Table(Append(R, r))[j] = Append(Table(R), AsRow(Len(R) + 1, r))[j]
      OBVIOUS
    <2>1. CASE j \in 1 .. Len(R)
      BY <1>1, <1>2, <1>3, <1>4, <2>1
    <2>2. CASE j = Len(R) + 1
      BY <1>1, <1>3, <1>4, <2>2
    <2>3. j \in 1 .. Len(R) \/ j = Len(R) + 1
      <3>1. Len(R) \in Nat
        BY LenProperties
      <3> QED
        BY <3>1
    <2> QED
      BY <2>1, <2>2, <2>3
  <1> QED
    BY <1>1, <1>3, <1>4, <1>5, SeqEqual

-----------------------------------------------------------------------------

\* Types are preserved; a worker that waits for the mutex to claim has nothing
\* in hand.
LEMMA MemoryTypeStep == TypeOK /\ [Next]_memoryVars => TypeOK'
  <1> SUFFICES ASSUME TypeOK, [Next]_memoryVars PROVE TypeOK'
    OBVIOUS
  <1> USE DEF TypeOK
  <1>0. /\ Len(rows) \in Nat /\ None \notin Ids
        /\ \A i \in Ids : rows[i] \in StoredJob
        /\ DOMAIN rows = Ids
    BY ElementOfSeq, LenProperties DEF Ids, None
  <1>1. ASSUME NEW d \in Deliveries, EnqueueJob(d) PROVE TypeOK'
    <2>1. CASE Stored(d)
      BY <1>1, <2>1 DEF EnqueueJob, Ids
    <2>2. CASE ~ Stored(d)
      <3>1. [delivery |-> d, attempts |-> 0, status |-> "queued"] \in StoredJob
        BY DEF StoredJob
      <3>2. rows' \in Seq(StoredJob) /\ Len(rows') = Len(rows) + 1
        BY <1>1, <2>2, <3>1, TableAppend DEF EnqueueJob
      <3>3. Ids \subseteq Ids'
        BY <1>0, <3>2 DEF Ids
      <3> QED
        BY <1>1, <3>2, <3>3 DEF EnqueueJob
    <2> QED
      BY <2>1, <2>2
  <1>2. ASSUME NEW w \in Workers, LockForClaim(w) PROVE TypeOK'
    BY <1>2 DEF LockForClaim, Free, Ids
  <1>3. ASSUME NEW w \in Workers, ClaimNextJob(w) PROVE TypeOK'
    <2>1. CASE Found = {} /\ UNCHANGED <<rows, inHand>>
      BY <1>3, <2>1 DEF ClaimNextJob, Ids
    <2>2. ASSUME NEW i \in Found,
                 rows' = [rows EXCEPT ![i].status = "running", ![i].attempts = @ + 1],
                 inHand' = [inHand EXCEPT ![w] = i]
          PROVE  TypeOK'
      <3> DEFINE r == [rows[i] EXCEPT !.status = "running", !.attempts = @ + 1]
      <3>1. i \in Ids
        BY <2>2 DEF Found, Queued
      <3>2. r \in StoredJob
        <4>1. rows[i].attempts + 1 \in Nat
          BY <1>0, <3>1 DEF StoredJob
        <4> QED
          BY <1>0, <3>1, <4>1 DEF StoredJob
      <3>3. rows' = Replace(rows, i, r)
        BY <1>0, <2>2, <3>1 DEF Replace
      <3> HIDE DEF r
      <3>4. rows' \in Seq(StoredJob) /\ Ids' = Ids
        BY <3>1, <3>2, <3>3, TableUpdate DEF Ids
      <3> QED
        BY <1>3, <2>2, <3>1, <3>4 DEF ClaimNextJob
    <2> QED
      BY <1>3, <2>1, <2>2 DEF ClaimNextJob
  <1>4. ASSUME NEW w \in Workers, CompleteJob(w) \/ FailJob(w) PROVE TypeOK'
    <2>1. inHand[w] \in Ids
      BY <1>4 DEF CompleteJob, FailJob
    <2>2. PICK s \in {"queued", "dead", "done"} :
             rows' = [rows EXCEPT ![inHand[w]].status = s]
      BY <1>4 DEF CompleteJob, FailJob
    <2> DEFINE r == [rows[inHand[w]] EXCEPT !.status = s]
    <2>3. r \in StoredJob
      BY <1>0, <2>1 DEF StoredJob
    <2>4. rows' = Replace(rows, inHand[w], r)
      BY <1>0, <2>1, <2>2 DEF Replace
    <2> HIDE DEF r
    <2>5. rows' \in Seq(StoredJob) /\ Ids' = Ids
      BY <2>1, <2>3, <2>4, TableUpdate DEF Ids
    <2> QED
      BY <1>4, <2>5 DEF CompleteJob, FailJob, Free
  <1>5. ASSUME NEW w \in Workers, Abandon(w) PROVE TypeOK'
    BY <1>5 DEF Abandon, Ids
  <1>6. CASE UNCHANGED jobVars
    BY <1>6 DEF jobVars, Ids
  <1> QED
    BY <1>1, <1>2, <1>3, <1>4, <1>5, <1>6
    DEF Next, memoryVars, RecordAudit, JournalUntrackedUsage, DrainUntrackedUsage,
        MarkUsageTracked, StopBatch

\* The vectors, the mutex and the hands of the workers keep their types.
THEOREM MemoryTypeCorrect == Spec => []TypeOK
  <1>1. Init => TypeOK
    BY EmptySeq DEF Init, TypeOK, Ids, None
  <1> QED
    BY <1>1, MemoryTypeStep, PTL DEF Spec

-----------------------------------------------------------------------------

\* With the mutex free no claim is under way.
LEMMA NoLocks == Free => AsLocks = [w \in Workers |-> None]
  BY DEF Free, AsLocks

\* What the mapping says in a typed state.
LEMMA Mapping ==
    ASSUME TypeOK
    PROVE  /\ AsTable = Table(rows)
           /\ Queue!Ids(AsTable) = Ids
           /\ DOMAIN rows = Ids /\ DOMAIN AsTable = Ids
           /\ \A i \in Ids : /\ rows[i] \in StoredJob
                             /\ rows[i].attempts \in Nat
                             /\ AsTable[i] = AsRow(i, rows[i])
                             /\ AsTable[i].delivery = rows[i].delivery
                             /\ AsTable[i].status = rows[i].status
                             /\ AsTable[i].attempts = rows[i].attempts
                             /\ AsTable[i].runAfter = 0
                             /\ AsTable[i].id = i
  <1>1. AsTable = Table(rows)
    BY DEF AsTable, Table, Ids
  <1>2. Queue!Ids(AsTable) = Ids /\ DOMAIN rows = Ids /\ DOMAIN AsTable = Ids
    BY <1>1, TableRows, LenProperties DEF TypeOK, Queue!Ids, Ids, AsTable
  <1>3. \A i \in Ids : rows[i] \in StoredJob /\ AsTable[i] = AsRow(i, rows[i])
    BY <1>1, TableRows DEF TypeOK, Ids
  <1>4. \A i \in Ids : rows[i].attempts \in Nat
    BY <1>3 DEF StoredJob
  <1>5. ASSUME NEW i, NEW r
        PROVE  /\ AsRow(i, r).delivery = r.delivery /\ AsRow(i, r).status = r.status
               /\ AsRow(i, r).attempts = r.attempts /\ AsRow(i, r).runAfter = 0
               /\ AsRow(i, r).id = i
    BY DEF AsRow
  <1> QED
    BY <1>1, <1>2, <1>3, <1>4, <1>5

Start(r, n)   == [r EXCEPT !.status = "running", !.attempts = n]
Settle(r, s)  == [r EXCEPT !.status = s]
DueAtOnce(r)  == [r EXCEPT !.runAfter = 0]

\* A stored job changes as its row does when it is claimed,
LEMMA StartedRow ==
    ASSUME NEW i, NEW r \in StoredJob, NEW n \in Nat
    PROVE  Start(r, n) \in StoredJob /\ AsRow(i, Start(r, n)) = Start(AsRow(i, r), n)
  <1> DEFINE q == Start(r, n)
             u == [AsRow(i, r) EXCEPT !.status = "running"]
             v == [u EXCEPT !.attempts = n]
  <1>1. /\ q \in StoredJob
        /\ q.delivery = r.delivery /\ q.status = "running" /\ q.attempts = n
    BY DEF StoredJob, Start
  <1>2. Start(AsRow(i, r), n) = v
    BY DEF Start
  <1>3. u = [ id |-> i, delivery |-> r.delivery, status |-> "running", attempts |-> r.attempts,
              runAfter |-> 0, createdAt |-> 0 ]
    BY DEF AsRow
  <1> HIDE DEF q, u
  <1>4. v = AsRow(i, q)
    BY <1>1, <1>3 DEF AsRow
  <1> QED
    BY <1>1, <1>2, <1>4 DEF q

\* and when it is completed or has failed.
LEMMA SettledRow ==
    ASSUME NEW i, NEW r \in StoredJob, NEW s \in {"queued", "dead", "done"}
    PROVE  /\ Settle(r, s) \in StoredJob
           /\ AsRow(i, Settle(r, s)) = Settle(AsRow(i, r), s)
           /\ AsRow(i, Settle(r, s)) = DueAtOnce(Settle(AsRow(i, r), s))
  <1> DEFINE q == Settle(r, s)
             u == Settle(AsRow(i, r), s)
  <1>1. /\ q \in StoredJob
        /\ q.delivery = r.delivery /\ q.status = s /\ q.attempts = r.attempts
    BY DEF StoredJob, Settle
  <1>2. u = [ id |-> i, delivery |-> r.delivery, status |-> s, attempts |-> r.attempts,
              runAfter |-> 0, createdAt |-> 0 ]
    BY DEF AsRow, Settle
  <1> HIDE DEF q, u
  <1>3. AsRow(i, q) = u /\ DueAtOnce(u) = u
    BY <1>1, <1>2 DEF AsRow, DueAtOnce
  <1> QED
    BY <1>1, <1>3 DEF q, u

\* Every operation is one statement of the queue, or none: the lock of a claim
\* is the row lock, the operations on audits and usage are none.
LEMMA MirrorStep ==
    TypeOK /\ TypeOK' /\ [Next]_memoryVars => [Queue!Next]_(Queue!queueVars)
  <1> SUFFICES ASSUME TypeOK, TypeOK', [Next]_memoryVars
               PROVE  Queue!Next \/ UNCHANGED <<AsTable, AsLocks, inHand, dropped>>
    BY DEF Queue!queueVars
  <1>0. /\ AsTable = Table(rows) /\ AsTable' = Table(rows')
        /\ rows \in Seq(StoredJob)
        /\ Queue!Ids(AsTable) = Ids
        /\ DOMAIN rows = Ids /\ DOMAIN AsTable = Ids
        /\ \A i \in Ids : /\ rows[i] \in StoredJob
                          /\ rows[i].attempts \in Nat
                          /\ AsTable[i] = AsRow(i, rows[i])
                          /\ AsTable[i].delivery = rows[i].delivery
                          /\ AsTable[i].status = rows[i].status
                          /\ AsTable[i].attempts = rows[i].attempts
                          /\ AsTable[i].runAfter = 0
                          /\ AsTable[i].id = i
    BY Mapping DEF TypeOK, AsTable, Table, Ids
  <1>1. ASSUME NEW d \in Deliveries, EnqueueJob(d) PROVE Queue!Enqueue(d)
    <2>1. AsLocks' = AsLocks
      BY <1>1, NoLocks DEF EnqueueJob, Free, AsLocks
    <2>2. Queue!Known(AsTable, d) <=> Stored(d)
      BY <1>0 DEF Queue!Known, Stored, AsRow
    <2>3. CASE Stored(d)
      <3>1. Len(rows) + 1 \in Queue!FreeIds(AsTable)
        BY <1>0, LenProperties, TableRows DEF Queue!FreeIds, Ids
      <3> QED
        BY <1>0, <1>1, <2>1, <2>2, <2>3, <3>1 DEF EnqueueJob, Queue!Enqueue, Queue!EnqueueJob
    <2>4. CASE ~ Stored(d)
      <3> DEFINE r == [delivery |-> d, attempts |-> 0, status |-> "queued"]
      <3>1. r \in StoredJob
        BY DEF StoredJob
      <3> DEFINE n == Len(rows) + 1
      <3>2. AsRow(n, r) = Queue!NewRow(d, 0, n)
        BY DEF AsRow, Queue!NewRow
      <3>3. rows' = Append(rows, r)
        BY <1>1, <2>4 DEF EnqueueJob
      <3> HIDE DEF r
      <3>4. AsTable' = Append(AsTable, Queue!NewRow(d, 0, n))
        BY <1>0, <3>1, <3>2, <3>3, TableAppend
      <3>5. n \in Queue!FreeIds(AsTable)
        BY <1>0, LenProperties, TableRows DEF Queue!FreeIds, Ids
      <3> HIDE DEF n
      <3> QED
        BY <1>1, <2>1, <2>2, <2>4, <3>4, <3>5 DEF EnqueueJob, Queue!Enqueue, Queue!EnqueueJob
    <2> QED
      BY <2>3, <2>4
  <1>2. ASSUME NEW w \in Workers, LockForClaim(w)
        PROVE  Queue!SelectForUpdate(w) \/ UNCHANGED <<AsTable, AsLocks, inHand, dropped>>
    <2>1. /\ AsLocks = [v \in Workers |-> None] /\ inHand[w] = None
          /\ guard' = {w} /\ UNCHANGED <<rows, inHand, dropped>>
      BY <1>2, NoLocks DEF LockForClaim
    <2>2. Found' = Found /\ AsTable' = AsTable
      BY <2>1, <1>0 DEF Found, Queued, Ids
    <2>3. CASE Found = {}
      BY <2>1, <2>2, <2>3 DEF AsLocks
    <2>4. CASE Found # {}
      <3> DEFINE i == CHOOSE j \in Found : TRUE
      <3>1. i \in Found
        BY <2>4
      <3>2. AsLocks' = [AsLocks EXCEPT ![w] = i]
        BY <2>1, <2>2, <2>4 DEF AsLocks
      <3> HIDE DEF i
      <3>3. \A j \in Ids : Queue!Claimable(w, j) <=> j \in Queued
        BY <1>0, <2>1 DEF Queue!Claimable, Queue!Runnable, AsRow, Queued, Ids, None
      <3>4. Queue!Idle(w)
        BY <2>1 DEF Queue!Idle, Queue!NoJob, None
      <3>5. i \in Ids /\ Queue!Claimable(w, i)
        BY <3>1, <3>3 DEF Found, Queued
      <3>6. \A j \in Ids : Queue!Claimable(w, j) => AsTable[i].id <= AsTable[j].id
        BY <1>0, <3>1, <3>3, <3>5 DEF Found
      <3> QED
        BY <1>0, <2>1, <2>2, <3>2, <3>4, <3>5, <3>6 DEF Queue!SelectForUpdate
    <2> QED
      BY <2>3, <2>4
  <1>3. ASSUME NEW w \in Workers, ClaimNextJob(w)
        PROVE  Queue!CommitClaim(w) \/ UNCHANGED <<AsTable, AsLocks, inHand, dropped>>
    <2>1. guard = {w} /\ guard' = {} /\ dropped' = dropped
      BY <1>3 DEF ClaimNextJob
    <2>2. AsLocks' = [v \in Workers |-> None]
      BY <2>1 DEF AsLocks
    <2>3. CASE Found = {} /\ UNCHANGED <<rows, inHand>>
      <3>1. AsLocks = [v \in Workers |-> None]
        BY <2>3 DEF AsLocks
      <3> QED
        BY <1>0, <2>1, <2>2, <2>3, <3>1
    <2>4. ASSUME NEW i \in Found,
                 rows' = [rows EXCEPT ![i].status = "running", ![i].attempts = @ + 1],
                 inHand' = [inHand EXCEPT ![w] = i]
          PROVE  Queue!CommitClaim(w)
      <3> DEFINE n == rows[i].attempts + 1
                 r == Start(rows[i], n)
      <3>1. i \in Ids /\ Found = {i} /\ i # None
        BY <2>4 DEF Found, Queued, Ids, None
      <3>2. AsLocks = [v \in Workers |-> IF v = w THEN i ELSE None]
        BY <2>1, <3>1 DEF AsLocks
      <3>3. AsLocks[w] = i /\ AsLocks' = [AsLocks EXCEPT ![w] = None]
        BY <2>2, <3>2
      <3>4. rows' = Replace(rows, i, r)
        BY <1>0, <2>4, <3>1 DEF Replace, Start
      <3>5. n \in Nat /\ n = AsTable[i].attempts + 1
        BY <1>0, <3>1
      <3>6. r \in StoredJob /\ AsRow(i, r) = Start(AsTable[i], n)
        <4>1. rows[i] \in StoredJob /\ AsTable[i] = AsRow(i, rows[i])
          BY <1>0, <3>1
        <4> HIDE DEF n
        <4> QED BY <3>5, <4>1, StartedRow
      <3> HIDE DEF r
      <3>7. AsTable' = Replace(AsTable, i, AsRow(i, r))
        BY <1>0, <3>1, <3>4, <3>6, TableUpdate DEF Ids
      <3>8. AsTable' = Queue!ClaimJob(AsTable, i)
        BY <1>0, <3>1, <3>5, <3>6, <3>7 DEF Queue!ClaimJob, Replace, Start
      <3> QED
        BY <2>1, <2>4, <3>1, <3>3, <3>8 DEF Queue!CommitClaim, Queue!NoJob, None
    <2> QED
      BY <1>3, <2>3, <2>4 DEF ClaimNextJob
  <1>4. ASSUME NEW w \in Workers, CompleteJob(w) PROVE Queue!Complete(w)
    <2> DEFINE i == inHand[w]
               r == Settle(rows[i], "done")
    <2>1. /\ i \in Ids /\ i # None
          /\ inHand' = [inHand EXCEPT ![w] = None] /\ dropped' = dropped
          /\ AsLocks' = AsLocks
      BY <1>4, NoLocks DEF CompleteJob, TypeOK, Free, AsLocks
    <2>2. r \in StoredJob /\ AsRow(i, r) = Settle(AsTable[i], "done")
      <3>1. rows[i] \in StoredJob /\ AsTable[i] = AsRow(i, rows[i])
        BY <1>0, <2>1
      <3> QED
        BY <3>1, SettledRow
    <2>3. rows' = Replace(rows, i, r)
      BY <1>0, <1>4, <2>1 DEF CompleteJob, Replace, Settle
    <2> HIDE DEF r
    <2>4. AsTable' = Replace(AsTable, i, AsRow(i, r))
      BY <1>0, <2>1, <2>2, <2>3, TableUpdate DEF Ids
    <2>5. AsTable' = Queue!CompleteJob(AsTable, i)
      BY <1>0, <2>1, <2>2, <2>4 DEF Queue!CompleteJob, Replace, Settle
    <2> QED
      BY <2>1, <2>5 DEF Queue!Complete, Queue!NoJob, None
  <1>5. ASSUME NEW w \in Workers, FailJob(w) PROVE Queue!Fail(w)
    <2> DEFINE i == inHand[w]
               n == rows[i].attempts
               s == IF n >= MaxJobAttempts THEN "dead" ELSE "queued"
               r == Settle(rows[i], s)
    <2>1. /\ i \in Ids /\ i # None
          /\ inHand' = [inHand EXCEPT ![w] = None] /\ dropped' = dropped
          /\ AsLocks' = AsLocks
      BY <1>5, NoLocks DEF FailJob, TypeOK, Free, AsLocks
    <2>2. rows' = [rows EXCEPT ![i].status = s]
      BY <1>5 DEF FailJob
    <2>3. s = Queue!Disposition(AsTable, i)
      BY <1>0, <2>1 DEF Queue!Disposition
    <2>4. s \in {"queued", "dead"}
      OBVIOUS
    <2> HIDE DEF s
    <2>5. r \in StoredJob /\ AsRow(i, r) = DueAtOnce(Settle(AsTable[i], s))
      <3>1. rows[i] \in StoredJob /\ AsTable[i] = AsRow(i, rows[i])
        BY <1>0, <2>1
      <3> QED
        BY <2>4, <3>1, SettledRow
    <2>6. rows' = Replace(rows, i, r)
      BY <1>0, <2>1, <2>2 DEF Replace, Settle
    <2> HIDE DEF r
    <2>7. AsTable' = Replace(AsTable, i, AsRow(i, r))
      BY <1>0, <2>1, <2>5, <2>6, TableUpdate DEF Ids
    <2>8. AsTable' = Queue!FailJob(AsTable, i, 0)
      <3>1. 0 + 0 * AsTable[i].attempts = 0
        BY <1>0, <2>1
      <3> QED
        BY <1>0, <2>1, <2>3, <2>5, <2>7, <3>1 DEF Queue!FailJob, Replace, Settle, DueAtOnce
    <2> QED
      BY <2>1, <2>8 DEF Queue!Fail, Queue!NoJob, None
  <1>6. ASSUME NEW w \in Workers, Abandon(w) PROVE Queue!Abandon(w)
    <2>1. AsLocks' = AsLocks
      BY <1>6 DEF Abandon, AsLocks, Found, Queued, Ids
    <2> QED
      BY <1>0, <1>6, <2>1
      DEF Abandon, Queue!Abandon, Queue!NoJob, None, Queue!Cardinality, Cardinality
  <1>7. CASE UNCHANGED jobVars
    BY <1>0, <1>7 DEF jobVars, AsLocks, Found, Queued, Ids
  <1> QED
    BY <1>1, <1>2, <1>3, <1>4, <1>5, <1>6, <1>7
    DEF Next, memoryVars, RecordAudit, JournalUntrackedUsage, DrainUntrackedUsage,
        MarkUsageTracked, StopBatch, Queue!Next

\* memory.rs:1-2: the store in memory mirrors the Postgres queue (one row per
\* delivery, exclusive claims in the order of insertion, capped attempts), for
\* any workers and deliveries; the backoff it mirrors is the one of zero.
THEOREM MemoryMirrorsPostgres == Spec => MirrorsPostgres
  <1>1. Init => Queue!Init
    BY EmptySeq, NoLocks
    DEF Init, Queue!Init, AsTable, Ids, Free, Queue!NoJob, None
  <1> QED
    BY <1>1, MirrorStep, MemoryTypeCorrect, PTL DEF Spec, MirrorsPostgres, Queue!Spec

=============================================================================
