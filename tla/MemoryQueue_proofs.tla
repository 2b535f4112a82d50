------------------------- MODULE MemoryQueue_proofs --------------------------
(***************************************************************************)
(* Proofs about MemoryQueue, for any number of jobs, servers and workers   *)
(* and any timeouts: type correctness, and that no job is ever run by two  *)
(* workers at once when stale_processing_after outlasts an attempt.        *)
(***************************************************************************)
EXTENDS MemoryQueue, TLAPS

(***************************************************************************)
(* Rows.                                                                   *)
(***************************************************************************)

\* The row of an absent id is a row.
LEMMA NoRowType == NoRow \in JobRow(Workers)
  BY DEF NoRow, JobRow, NoExpiry

\* A new job's row is a row (Job::new, schedule_job).
LEMMA NewJobType ==
  ASSUME NEW kind \in Kinds, NEW t \in Nat
  PROVE  NewJob(kind, t) \in JobRow(Workers)
  BY DEF NewJob, JobRow

\* Setting the state keeps the rest of the row, so it stays a row.
LEMMA SetStateType ==
  ASSUME NEW row \in JobRow(Workers), NEW kind \in Kinds, NEW t \in Nat
  PROVE  /\ SetState(row, kind, t) \in JobRow(Workers)
         /\ SetState(row, kind, t).kind = kind
         /\ SetState(row, kind, t).attempt = row.attempt
  BY DEF SetState, JobRow

\* Time passing keeps a row a row, of the same kind, worker and attempt.
LEMMA AgedType ==
  ASSUME NEW row \in JobRow(Workers)
  PROVE  /\ Aged(row, StaleAfter) \in JobRow(Workers)
         /\ Aged(row, StaleAfter).kind = row.kind
         /\ Aged(row, StaleAfter).worker = row.worker
         /\ Aged(row, StaleAfter).attempt = row.attempt
         /\ row.kind = "Processing" =>
               Aged(row, StaleAfter).timer = Inc(row.timer, StaleAfter)
  <1>1. row.timer \in Nat /\ row.expires \in Nat \cup {NoExpiry}
    BY DEF JobRow
  <1>2. Dec(row.timer) \in Nat /\ Inc(row.timer, StaleAfter) \in Nat
    BY <1>1, QueueAssumption DEF Dec, Inc
  <1>3. Dec(row.expires) \in Nat \cup {NoExpiry}
    BY <1>1 DEF Dec, NoExpiry
  <1>4. QED
    BY <1>2, <1>3 DEF Aged, JobRow

\* Counting the attempt keeps a row a row (process_job).
LEMMA CountAttemptType ==
  ASSUME NEW row \in JobRow(Workers)
  PROVE  CountAttempt(row) \in JobRow(Workers)
  BY ProcessorAssumption DEF CountAttempt, JobRow

\* Failing a job permanently writes a Failed row.
LEMMA FailType ==
  ASSUME NEW row \in JobRow(Workers)
  PROVE  /\ FailJobPermanently(row) \in JobRow(Workers)
         /\ FailJobPermanently(row).kind = "Failed"
  <1>1. SetState(row, "Failed", 0) \in JobRow(Workers)
    BY SetStateType DEF Kinds
  <1>2. QED
    BY <1>1, ProcessorAssumption DEF FailJobPermanently, JobRow, SetState

\* A retry ends in AwaitingRetry or, with the attempts used up, in Failed.
LEMMA RetryType ==
  ASSUME NEW row \in JobRow(Workers), NEW j \in Jobs, NEW d \in RetryDelays
  PROVE  /\ HandleJobRetry(j, row, d) \in JobRow(Workers)
         /\ HandleJobRetry(j, row, d).kind \in {"AwaitingRetry", "Failed"}
  <1>1. d \in Nat
    BY ProcessorAssumption
  <1>2. /\ SetState(row, "AwaitingRetry", d) \in JobRow(Workers)
        /\ SetState(row, "AwaitingRetry", d).kind = "AwaitingRetry"
    BY <1>1, SetStateType DEF Kinds
  <1>3. CASE ShouldRetryAttempt(j, row, NoException)
    BY <1>2, <1>3 DEF HandleJobRetry
  <1>4. CASE ~ShouldRetryAttempt(j, row, NoException)
    BY <1>4, FailType DEF HandleJobRetry
  <1>5. QED
    BY <1>3, <1>4

\* Whatever the outcome of an attempt, process_job writes a row of one of the
\* three kinds an attempt can end in.
LEMMA ProcessJobType ==
  ASSUME NEW row \in JobRow(Workers), NEW j \in Jobs,
         NEW o \in Outcomes, NEW d \in RetryDelays
  PROVE  /\ ProcessJob(j, row, o, d) \in JobRow(Workers)
         /\ ProcessJob(j, row, o, d).kind \in {"Succeeded", "Failed", "AwaitingRetry"}
  <1>1. SetState(row, "Succeeded", 0) \in JobRow(Workers)
    BY SetStateType DEF Kinds
  <1>2. /\ CompleteJobSuccessfully(row) \in JobRow(Workers)
        /\ CompleteJobSuccessfully(row).kind = "Succeeded"
    BY <1>1, ProcessorAssumption DEF CompleteJobSuccessfully, JobRow, SetState
  <1>3. ASSUME NEW e
        PROVE  /\ HandleError(j, row, e, d) \in JobRow(Workers)
               /\ HandleError(j, row, e, d).kind \in {"AwaitingRetry", "Failed"}
    BY FailType, RetryType DEF HandleError
  <1>4. QED
    BY <1>2, <1>3, FailType, RetryType DEF ProcessJob


(***************************************************************************)
(* Type correctness.                                                       *)
(***************************************************************************)

\* An idle or finished slot is well typed.
LEMMA SlotType ==
  ASSUME NEW pc \in {"off", "idle"}
  PROVE  Slot(pc) \in [pc: {"off", "idle", "run"}, id: Jobs \cup {NoId},
                       row: JobRow(Workers), elapsed: Nat]
  BY NoRowType DEF Slot

\* cleanup_expired_locks leaves a lock table.
LEMMA LiveLocksType ==
  ASSUME TypeOK
  PROVE  LiveLocks \in [Jobs -> [owner: Owners \cup {NoWorker}, ttl: Nat]]
  BY DEF TypeOK, LiveLocks, NoLock

\* The initial state is well typed.
LEMMA InitType == Init => TypeOK
  BY NoRowType, SlotType DEF Init, TypeOK, NoLock

\* Every step of clients, dashboard, servers and clock keeps the state well
\* typed.
LEMMA NextType == TypeOK /\ [Next]_vars => TypeOK'
  <1> SUFFICES ASSUME TypeOK, [Next]_vars PROVE TypeOK'
    OBVIOUS
  <1>1. ASSUME NEW j \in Jobs, EnqueueCheck(j) PROVE TypeOK'
    <2>1. NewJob("Enqueued", 0) \in JobRow(Workers)
      BY NewJobType DEF Kinds
    <2>2. \A t \in StartDelays : NewJob("Scheduled", t) \in JobRow(Workers)
      BY NewJobType, QueueAssumption DEF Kinds
    <2>3. checked' \in [Jobs -> JobRow(Workers)]
      BY <1>1, <2>1, <2>2 DEF EnqueueCheck, TypeOK
    <2>4. QED
      BY <1>1, <2>3 DEF EnqueueCheck, TypeOK
  <1>2. ASSUME NEW j \in Jobs, EnqueueInsert(j) PROVE TypeOK'
    BY <1>2, NoRowType DEF EnqueueInsert, TypeOK
  <1>3. ASSUME NEW j \in Jobs, DeleteJob(j) PROVE TypeOK'
    BY <1>3, NoRowType DEF DeleteJob, TypeOK
  <1>4. ASSUME NEW c \in LockClients, NEW j \in Jobs, TryAcquireJobLock(c, j)
        PROVE TypeOK'
    <2>1. [owner |-> c, ttl |-> ClientLockTtl] \in [owner: Owners \cup {NoWorker}, ttl: Nat]
      BY QueueAssumption DEF Owners
    <2>2. locks' \in [Jobs -> [owner: Owners \cup {NoWorker}, ttl: Nat]]
      BY <1>4, <2>1, LiveLocksType DEF TryAcquireJobLock
    <2>3. QED
      BY <1>4, <2>2 DEF TryAcquireJobLock, TypeOK
  <1>5. ASSUME NEW c \in LockClients, NEW j \in Jobs, ReleaseJobLock(c, j)
        PROVE TypeOK'
    BY <1>5 DEF ReleaseJobLock, TypeOK, NoLock
  <1>6. ASSUME NEW d \in Dashboards, NEW j \in Jobs, RetryJobRead(d, j)
        PROVE TypeOK'
    <2>1. SetState(jobs[j], "Enqueued", 0) \in JobRow(Workers)
      BY SetStateType DEF TypeOK, Kinds
    <2>2. QED
      BY <1>6, <2>1 DEF RetryJobRead, TypeOK
  <1>7. ASSUME NEW d \in Dashboards, RetryJobWrite(d) PROVE TypeOK'
    <2>1. dash[d].id \in Jobs /\ dash[d].row \in JobRow(Workers)
      BY <1>7 DEF RetryJobWrite, TypeOK
    <2>2. jobs' \in [Jobs -> JobRow(Workers)]
      BY <1>7, <2>1 DEF RetryJobWrite, UpdateIfState, TypeOK
    <2>3. manual' \in [Jobs -> Nat]
      BY <1>7, <2>1 DEF RetryJobWrite, TypeOK
    <2>4. QED
      BY <1>7, <2>2, <2>3, NoRowType DEF RetryJobWrite, TypeOK
  <1>8. ASSUME NEW s \in Servers, Start(s) PROVE TypeOK'
    <2>1. \A j \in Jobs : SetState(jobs[j], "Enqueued", 0) \in JobRow(Workers)
      BY SetStateType DEF TypeOK, Kinds
    <2>2. jobs' \in [Jobs -> JobRow(Workers)]
      BY <1>8, <2>1 DEF Start, TypeOK
    <2>3. locks' \in [Jobs -> [owner: Owners \cup {NoWorker}, ttl: Nat]]
      BY <1>8 DEF Start, TypeOK, NoLock
    <2>4. QED
      BY <1>8, <2>2, <2>3, SlotType DEF Start, TypeOK
  <1>9. ASSUME NEW s \in Servers, Stop(s) PROVE TypeOK'
    BY <1>9 DEF Stop, TypeOK
  <1>10. ASSUME NEW s \in Servers, Stopped(s) PROVE TypeOK'
    BY <1>10, SlotType DEF Stopped, TypeOK
  <1>11. ASSUME NEW w \in Workers, NEW j \in Jobs, Fetch(w, j) PROVE TypeOK'
    <2> DEFINE row == [jobs[j] EXCEPT !.kind = "Processing", !.timer = 0, !.worker = w]
    <2>1. row \in JobRow(Workers)
      <3>1. jobs[j] \in JobRow(Workers)
        BY DEF TypeOK
      <3>2. QED
        BY <3>1 DEF JobRow, Kinds
    <2>2. CountAttempt(row) \in JobRow(Workers)
      BY <2>1, CountAttemptType
    <2>3. [owner |-> w, ttl |-> LockTtl] \in [owner: Owners \cup {NoWorker}, ttl: Nat]
      BY QueueAssumption DEF Owners
    <2>4. locks' \in [Jobs -> [owner: Owners \cup {NoWorker}, ttl: Nat]]
      BY <1>11, <2>3, LiveLocksType DEF Fetch
    <2> HIDE DEF row
    <2>5. jobs' \in [Jobs -> JobRow(Workers)]
      BY <1>11, <2>1 DEF Fetch, TypeOK, row
    <2>6. wk' = [wk EXCEPT ![w] = [pc |-> "run", id |-> j,
                                   row |-> CountAttempt(row), elapsed |-> 0]]
      BY <1>11 DEF Fetch, row
    <2>7. QED
      BY <1>11, <2>2, <2>4, <2>5, <2>6 DEF Fetch, TypeOK
  <1>12. ASSUME NEW w \in Workers, FetchNone(w) PROVE TypeOK'
    BY <1>12, LiveLocksType DEF FetchNone, TypeOK
  <1>13. ASSUME NEW w \in Workers, NEW o \in Outcomes, NEW d \in RetryDelays,
                Finish(w, o, d)
         PROVE TypeOK'
    <2>1. CASE wk[w].id \in Jobs
      <3>1. ProcessJob(wk[w].id, wk[w].row, o, d) \in JobRow(Workers)
        BY <2>1, ProcessJobType DEF TypeOK
      <3>2. jobs' \in [Jobs -> JobRow(Workers)]
        BY <1>13, <2>1, <3>1 DEF Finish, Update, TypeOK
      <3>3. QED
        BY <1>13, <3>2, SlotType DEF Finish, TypeOK
    <2>2. CASE wk[w].id \notin Jobs
      <3>1. jobs' \in [Jobs -> JobRow(Workers)]
        BY <1>13, <2>2 DEF Finish, Update, TypeOK
      <3>2. QED
        BY <1>13, <3>1, SlotType DEF Finish, TypeOK
    <2>3. QED
      BY <2>1, <2>2
  <1>14. ASSUME NEW w \in Workers, Panic(w) PROVE TypeOK'
    BY <1>14, SlotType DEF Panic, TypeOK
  <1>15. ASSUME NEW w \in Workers, WorkerExit(w) PROVE TypeOK'
    BY <1>15, SlotType DEF WorkerExit, TypeOK
  <1>16. ASSUME NEW kind \in {"Scheduled", "AwaitingRetry"}, ClaimDue(kind)
         PROVE TypeOK'
    <2>1. \A j \in Jobs : SetState(jobs[j], "Enqueued", 0) \in JobRow(Workers)
      BY SetStateType DEF TypeOK, Kinds
    <2>2. jobs' \in [Jobs -> JobRow(Workers)]
      BY <1>16, <2>1 DEF ClaimDue, TypeOK
    <2>3. QED
      BY <1>16, <2>2 DEF ClaimDue, TypeOK
  <1>17. ASSUME DeleteExpiredJobs PROVE TypeOK'
    BY <1>17, NoRowType DEF DeleteExpiredJobs, TypeOK
  <1>18. ASSUME Tick PROVE TypeOK'
    <2>1. \A row \in JobRow(Workers) : Aged(row, StaleAfter) \in JobRow(Workers)
      BY AgedType
    <2>2. /\ jobs' \in [Jobs -> JobRow(Workers)]
          /\ checked' \in [Jobs -> JobRow(Workers)]
      BY <1>18, <2>1 DEF Tick, TypeOK
    <2>3. locks' \in [Jobs -> [owner: Owners \cup {NoWorker}, ttl: Nat]]
      <3>1. ASSUME NEW j \in Jobs
            PROVE  [locks[j] EXCEPT !.ttl = Dec(@)] \in [owner: Owners \cup {NoWorker}, ttl: Nat]
        <4>1. locks[j] \in [owner: Owners \cup {NoWorker}, ttl: Nat]
          BY DEF TypeOK
        <4>2. QED
          BY <4>1 DEF Dec
      <3>2. QED
        BY <1>18, <3>1 DEF Tick
    <2>4. wk' \in [Workers -> [pc: {"off", "idle", "run"}, id: Jobs \cup {NoId},
                               row: JobRow(Workers), elapsed: Nat]]
      <3>1. ASSUME NEW w \in Workers
            PROVE  [wk[w] EXCEPT !.elapsed = @ + 1, !.row = Aged(@, StaleAfter)]
                      \in [pc: {"off", "idle", "run"}, id: Jobs \cup {NoId},
                           row: JobRow(Workers), elapsed: Nat]
        <4>1. wk[w] \in [pc: {"off", "idle", "run"}, id: Jobs \cup {NoId},
                         row: JobRow(Workers), elapsed: Nat]
          BY DEF TypeOK
        <4>2. Aged(wk[w].row, StaleAfter) \in JobRow(Workers) /\ wk[w].elapsed + 1 \in Nat
          BY <2>1, <4>1
        <4>3. QED
          BY <4>1, <4>2
      <3>2. QED
        BY <1>18, <3>1 DEF Tick, TypeOK
    <2>5. dash' \in [Dashboards -> [id: Jobs \cup {NoId}, row: JobRow(Workers)]]
      BY <1>18, <2>1 DEF Tick, TypeOK
    <2>6. QED
      BY <1>18, <2>2, <2>3, <2>4, <2>5 DEF Tick, TypeOK
  <1>19. CASE UNCHANGED vars
    BY <1>19 DEF vars, TypeOK
  <1>20. QED
    BY <1>1, <1>2, <1>3, <1>4, <1>5, <1>6, <1>7, <1>8, <1>9, <1>10, <1>11, <1>12,
       <1>13, <1>14, <1>15, <1>16, <1>17, <1>18, <1>19 DEF Next, FinishSome

\* Job rows, locks, worker slots and dashboard requests keep their shape under
\* every operation of the storage and the server.
THEOREM TypeCorrect == Spec => []TypeOK
  BY InitType, NextType, PTL DEF Spec

(***************************************************************************)
(* No double execution.  ClaimInv is inductive because a running job's row *)
(* is out of reach: it is not available, not due, not Failed and, being no *)
(* older than its attempt, not stale; and an id is inserted only once.     *)
(***************************************************************************)

\* The kinds of the rows the steps write.
LEMMA RowKinds ==
  /\ ~Present(NoRow)
  /\ \A row \in JobRow(Workers) :
        /\ SetState(row, "Enqueued", 0).kind = "Enqueued"
        /\ Present(Aged(row, StaleAfter)) <=> Present(row)
  <1>1. ~Present(NoRow)
    BY DEF Present, NoRow
  <1>2. ASSUME NEW row \in JobRow(Workers)
        PROVE  /\ SetState(row, "Enqueued", 0).kind = "Enqueued"
               /\ Present(Aged(row, StaleAfter)) <=> Present(row)
    BY SetStateType, AgedType DEF Kinds, Present
  <1>3. QED
    BY <1>1, <1>2

\* A running worker's job is a job.
LEMMA RunnerJob ==
  ASSUME ClaimInv, NEW w \in Workers, Running(w)
  PROVE  wk[w].id \in Jobs
  BY DEF ClaimInv, TypeOK, RunnerInTime

\* A step that touches neither rows, pending inserts nor workers.
LEMMA ClaimUntouched ==
  ASSUME ClaimInv, TypeOK', UNCHANGED <<jobs, wk, created, checked>>
  PROVE  ClaimInv'
  BY DEF ClaimInv, RunnerInTime, InsertedOnce, RunnerOwnsRow, NoDoubleExecution,
         Running

\* A step after which some workers no longer run anything and which changes
\* only rows that no worker is running, without adding or reviving any.
LEMMA ClaimShrinks ==
  ASSUME ClaimInv, TypeOK', UNCHANGED <<created, checked>>,
         \A w \in Workers : Running(w)' => Running(w) /\ wk'[w] = wk[w],
         \A j \in Jobs : Present(jobs'[j]) => Present(jobs[j]),
         \A w \in Workers : Running(w)' =>
             jobs'[wk[w].id] = jobs[wk[w].id] \/ ~Present(jobs'[wk[w].id])
  PROVE  ClaimInv'
  <1>1. RunnerInTime'
    BY DEF ClaimInv, RunnerInTime
  <1>2. InsertedOnce'
    BY DEF ClaimInv, InsertedOnce
  <1>3. RunnerOwnsRow'
    <2> SUFFICES ASSUME NEW w \in Workers, Running(w)', Present(jobs'[wk'[w].id])
                 PROVE  /\ jobs'[wk'[w].id].kind = "Processing"
                        /\ jobs'[wk'[w].id].worker = w
                        /\ jobs'[wk'[w].id].timer = wk'[w].elapsed
      BY DEF RunnerOwnsRow
    <2>1. Running(w) /\ wk'[w] = wk[w] /\ jobs'[wk[w].id] = jobs[wk[w].id]
      OBVIOUS
    <2>2. QED
      BY <2>1 DEF ClaimInv, RunnerOwnsRow
  <1>4. NoDoubleExecution'
    BY DEF ClaimInv, NoDoubleExecution
  <1>5. QED
    BY <1>1, <1>2, <1>3, <1>4 DEF ClaimInv

\* Nothing runs and nothing is stored at first.
LEMMA ClaimInit == Init => ClaimInv
  <1> SUFFICES ASSUME Init PROVE ClaimInv
    OBVIOUS
  <1>1. TypeOK
    BY InitType
  <1>2. \A w \in Workers : ~Running(w)
    BY DEF Init, Running, Slot
  <1>3. \A j \in Jobs : ~Present(checked[j]) /\ ~Present(jobs[j])
    BY RowKinds DEF Init
  <1>4. QED
    BY <1>1, <1>2, <1>3 DEF ClaimInv, RunnerInTime, InsertedOnce, RunnerOwnsRow,
       NoDoubleExecution

\* No step of clients, dashboard, servers or clock breaks the claims.
LEMMA ClaimNext ==
  ASSUME StaleOutlastsAttempt, ClaimInv, [Next]_vars
  PROVE  ClaimInv'
  <1> USE DEF Running
  <1>0. TypeOK /\ TypeOK'
    BY NextType DEF ClaimInv
  <1>1. ASSUME NEW j \in Jobs, EnqueueCheck(j) PROVE ClaimInv'
    <2>1. /\ jobs' = jobs /\ wk' = wk /\ j \notin created
          /\ created' = created \cup {j}
          /\ \A k \in Jobs \ {j} : checked'[k] = checked[k]
      BY <1>0, <1>1 DEF EnqueueCheck, TypeOK
    <2>2. \A w \in Workers : Running(w) => wk[w].id # j /\ wk[w].id \in Jobs
      BY <2>1, RunnerJob DEF ClaimInv, RunnerInTime
    <2>3. RunnerInTime'
      BY <2>1, <2>2 DEF ClaimInv, RunnerInTime
    <2>4. InsertedOnce'
      BY <2>1 DEF ClaimInv, InsertedOnce
    <2>5. RunnerOwnsRow' /\ NoDoubleExecution'
      BY <2>1 DEF ClaimInv, RunnerOwnsRow, NoDoubleExecution
    <2>6. QED
      BY <1>0, <2>3, <2>4, <2>5 DEF ClaimInv
  <1>2. ASSUME NEW j \in Jobs, EnqueueInsert(j) PROVE ClaimInv'
    <2>1. /\ wk' = wk /\ created' = created /\ Present(checked[j])
          /\ \A k \in Jobs \ {j} : checked'[k] = checked[k] /\ jobs'[k] = jobs[k]
          /\ ~Present(checked'[j])
      BY <1>0, <1>2, RowKinds DEF EnqueueInsert, TypeOK
    <2>2. \A w \in Workers : Running(w) => wk[w].id # j /\ wk[w].id \in Jobs
      BY <2>1, RunnerJob DEF ClaimInv, RunnerInTime
    <2>3. RunnerInTime'
      BY <2>1, <2>2 DEF ClaimInv, RunnerInTime
    <2>4. InsertedOnce'
      BY <2>1 DEF ClaimInv, InsertedOnce
    <2>5. RunnerOwnsRow' /\ NoDoubleExecution'
      BY <2>1, <2>2 DEF ClaimInv, RunnerOwnsRow, NoDoubleExecution
    <2>6. QED
      BY <1>0, <2>3, <2>4, <2>5 DEF ClaimInv
  <1>3. ASSUME NEW j \in Jobs, DeleteJob(j) PROVE ClaimInv'
    <2>1. \A k \in Jobs : jobs'[k] = jobs[k] \/ ~Present(jobs'[k])
      BY <1>0, <1>3, RowKinds DEF DeleteJob, TypeOK
    <2>2. QED
      BY <1>0, <1>3, <2>1, ClaimShrinks, RunnerJob DEF DeleteJob
  <1>4. ASSUME NEW c \in LockClients, NEW j \in Jobs, TryAcquireJobLock(c, j)
        PROVE ClaimInv'
    BY <1>0, <1>4, ClaimUntouched DEF TryAcquireJobLock
  <1>5. ASSUME NEW c \in LockClients, NEW j \in Jobs, ReleaseJobLock(c, j)
        PROVE ClaimInv'
    BY <1>0, <1>5, ClaimUntouched DEF ReleaseJobLock
  <1>6. ASSUME NEW d \in Dashboards, NEW j \in Jobs, RetryJobRead(d, j)
        PROVE ClaimInv'
    BY <1>0, <1>6, ClaimUntouched DEF RetryJobRead
  <1>7. ASSUME NEW d \in Dashboards, RetryJobWrite(d) PROVE ClaimInv'
    <2> DEFINE j == dash[d].id
    <2>1. j \in Jobs
      BY <1>0, <1>7 DEF RetryJobWrite, TypeOK
    <2>2. \A k \in Jobs : jobs'[k] # jobs[k] => k = j /\ jobs[k].kind = "Failed"
      BY <1>0, <1>7, <2>1 DEF RetryJobWrite, UpdateIfState, TypeOK
    <2>3. \A k \in Jobs : Present(jobs'[k]) => Present(jobs[k])
      BY <2>2 DEF Present
    <2>4. \A w \in Workers : Running(w) => jobs'[wk[w].id] = jobs[wk[w].id]
      BY <2>2, RunnerJob DEF ClaimInv, RunnerOwnsRow, Present
    <2>5. QED
      BY <1>0, <1>7, <2>3, <2>4, ClaimShrinks DEF RetryJobWrite
  <1>8. ASSUME NEW s \in Servers, Start(s) PROVE ClaimInv'
    <2>1. \A k \in Jobs : jobs'[k] # jobs[k] => Stale(jobs[k])
      BY <1>8 DEF Start
    <2>2. \A k \in Jobs : Present(jobs'[k]) => Present(jobs[k])
      BY <2>1 DEF Present, Stale
    <2>3. ASSUME NEW w \in Workers, Running(w)
          PROVE  jobs'[wk[w].id] = jobs[wk[w].id]
      <3>1. wk[w].id \in Jobs /\ wk[w].elapsed <= JobTimeout + MaxLag /\ wk[w].elapsed \in Nat
        BY <1>0, <2>3, RunnerJob DEF ClaimInv, RunnerInTime, TypeOK
      <3>2. Present(jobs[wk[w].id]) => jobs[wk[w].id].timer = wk[w].elapsed
        BY <2>3 DEF ClaimInv, RunnerOwnsRow
      <3>3. ~Stale(jobs[wk[w].id])
        BY <3>1, <3>2, StaleOutlastsAttempt, QueueAssumption
           DEF Stale, Present, StaleOutlastsAttempt
      <3>4. QED
        BY <2>1, <3>1, <3>3
    <2>4. \A w \in Workers : Running(w)' => Running(w) /\ wk'[w] = wk[w]
      BY <1>8 DEF Start, Slot
    <2>5. QED
      BY <1>0, <1>8, <2>2, <2>3, <2>4, ClaimShrinks DEF Start
  <1>9. ASSUME NEW s \in Servers, Stop(s) PROVE ClaimInv'
    BY <1>0, <1>9, ClaimUntouched DEF Stop
  <1>10. ASSUME NEW s \in Servers, Stopped(s) PROVE ClaimInv'
    <2>1. \A w \in Workers : Running(w)' => Running(w) /\ wk'[w] = wk[w]
      BY <1>10 DEF Stopped, Slot
    <2>2. QED
      BY <1>0, <1>10, <2>1, ClaimShrinks DEF Stopped
  <1>11. ASSUME NEW w \in Workers, NEW j \in Jobs, Fetch(w, j) PROVE ClaimInv'
    <2>1. Available(jobs[j])
      BY <1>11 DEF Fetch, FirstFetchable, Fetchable
    <2>2. Present(jobs[j]) /\ jobs[j].kind # "Processing"
      BY <2>1 DEF Available, Present
    <2>3. /\ created' = created /\ checked' = checked
          /\ \A k \in Jobs \ {j} : jobs'[k] = jobs[k]
          /\ jobs'[j].kind = "Processing" /\ jobs'[j].worker = w /\ jobs'[j].timer = 0
      <3>1. jobs[j] \in JobRow(Workers)
        BY <1>0 DEF TypeOK
      <3>2. jobs' = [jobs EXCEPT ![j] = [jobs[j] EXCEPT !.kind = "Processing",
                                                       !.timer = 0, !.worker = w]]
        BY <1>11 DEF Fetch
      <3>3. QED
        BY <1>0, <1>11, <3>1, <3>2 DEF Fetch, TypeOK, JobRow
    <2>4. /\ wk'[w].pc = "run" /\ wk'[w].id = j /\ wk'[w].elapsed = 0
          /\ \A v \in Workers \ {w} : wk'[v] = wk[v]
      BY <1>0, <1>11 DEF Fetch, TypeOK
    <2>5. \A v \in Workers : Running(v) => wk[v].id # j /\ wk[v].id \in Jobs
      BY <2>2, RunnerJob DEF ClaimInv, RunnerOwnsRow
    <2>6. j \in created /\ ~Present(checked[j])
      BY <2>2 DEF ClaimInv, InsertedOnce
    <2>7. RunnerInTime'
      BY <2>3, <2>4, <2>6, QueueAssumption DEF ClaimInv, RunnerInTime
    <2>8. InsertedOnce'
      BY <2>2, <2>3 DEF ClaimInv, InsertedOnce
    <2>9. RunnerOwnsRow' /\ NoDoubleExecution'
      BY <2>3, <2>4, <2>5 DEF ClaimInv, RunnerOwnsRow, NoDoubleExecution
    <2>10. QED
      BY <1>0, <2>7, <2>8, <2>9 DEF ClaimInv
  <1>12. ASSUME NEW w \in Workers, FetchNone(w) PROVE ClaimInv'
    BY <1>0, <1>12, ClaimUntouched DEF FetchNone
  <1>13. ASSUME NEW w \in Workers, NEW o \in Outcomes, NEW d \in RetryDelays,
                Finish(w, o, d)
         PROVE ClaimInv'
    <2>1. wk[w].id \in Jobs
      BY <1>13, RunnerJob DEF Finish
    <2>2. \A k \in Jobs : jobs'[k] # jobs[k] => k = wk[w].id /\ Present(jobs[k])
      BY <1>0, <1>13, <2>1 DEF Finish, Update, TypeOK
    <2>3. \A v \in Workers : Running(v)' => Running(v) /\ wk'[v] = wk[v] /\ v # w
      BY <1>0, <1>13 DEF Finish, Slot, TypeOK
    <2>4. \A v \in Workers : Running(v) /\ v # w => jobs'[wk[v].id] = jobs[wk[v].id]
      BY <1>13, <2>2, RunnerJob DEF Finish, ClaimInv, NoDoubleExecution
    <2>5. \A k \in Jobs : Present(jobs'[k]) => Present(jobs[k])
      BY <2>2
    <2>6. QED
      BY <1>0, <1>13, <2>3, <2>4, <2>5, ClaimShrinks DEF Finish
  <1>14. ASSUME NEW w \in Workers, Panic(w) PROVE ClaimInv'
    <2>1. \A v \in Workers : Running(v)' => Running(v) /\ wk'[v] = wk[v]
      BY <1>0, <1>14 DEF Panic, Slot, TypeOK
    <2>2. QED
      BY <1>0, <1>14, <2>1, ClaimShrinks DEF Panic
  <1>15. ASSUME NEW w \in Workers, WorkerExit(w) PROVE ClaimInv'
    <2>1. \A v \in Workers : Running(v)' => Running(v) /\ wk'[v] = wk[v]
      BY <1>0, <1>15 DEF WorkerExit, Slot, TypeOK
    <2>2. QED
      BY <1>0, <1>15, <2>1, ClaimShrinks DEF WorkerExit
  <1>16. ASSUME NEW kind \in {"Scheduled", "AwaitingRetry"}, ClaimDue(kind)
         PROVE ClaimInv'
    <2>1. \A k \in Jobs : jobs'[k] # jobs[k] => jobs[k].kind = kind
      BY <1>16 DEF ClaimDue, DueBatches
    <2>2. \A k \in Jobs : Present(jobs'[k]) => Present(jobs[k])
      BY <2>1 DEF Present
    <2>3. \A w \in Workers : Running(w) => jobs'[wk[w].id] = jobs[wk[w].id]
      BY <2>1, RunnerJob DEF ClaimInv, RunnerOwnsRow, Present
    <2>4. QED
      BY <1>0, <1>16, <2>2, <2>3, ClaimShrinks DEF ClaimDue
  <1>17. ASSUME DeleteExpiredJobs PROVE ClaimInv'
    <2>1. \A k \in Jobs : jobs'[k] = jobs[k] \/ ~Present(jobs'[k])
      BY <1>17, RowKinds DEF DeleteExpiredJobs
    <2>2. QED
      BY <1>0, <1>17, <2>1, ClaimShrinks, RunnerJob DEF DeleteExpiredJobs
  <1>18. ASSUME Tick PROVE ClaimInv'
    <2>1. \A k \in Jobs : /\ Present(jobs'[k]) <=> Present(jobs[k])
                          /\ Present(checked'[k]) <=> Present(checked[k])
      <3>1. \A k \in Jobs : /\ jobs'[k] = Aged(jobs[k], StaleAfter)
                            /\ checked'[k] = Aged(checked[k], StaleAfter)
                            /\ jobs[k] \in JobRow(Workers)
                            /\ checked[k] \in JobRow(Workers)
        BY <1>0, <1>18 DEF Tick, TypeOK
      <3>2. QED
        BY <3>1, RowKinds
    <2>2. created' = created
      BY <1>18 DEF Tick
    <2>3. ASSUME NEW w \in Workers
          PROVE  /\ Running(w)' <=> Running(w)
                 /\ wk'[w].id = wk[w].id
                 /\ Running(w) => /\ wk'[w].elapsed = wk[w].elapsed + 1
                                  /\ wk[w].elapsed < JobTimeout + MaxLag
      <3>1. wk[w] \in [pc: {"off", "idle", "run"}, id: Jobs \cup {NoId},
                       row: JobRow(Workers), elapsed: Nat]
        BY <1>0 DEF TypeOK
      <3>2. QED
        BY <1>18, <3>1 DEF Tick
    <2>4. RunnerInTime'
      <3> SUFFICES ASSUME NEW w \in Workers, Running(w)'
                   PROVE  /\ wk'[w].id \in created'
                          /\ ~Present(checked'[wk'[w].id])
                          /\ wk'[w].elapsed <= JobTimeout + MaxLag
        BY DEF RunnerInTime
      <3>1. Running(w) /\ wk[w].elapsed \in Nat /\ wk[w].id \in Jobs
        BY <1>0, <2>3, RunnerJob DEF TypeOK
      <3>2. QED
        BY <2>1, <2>2, <2>3, <3>1, QueueAssumption DEF ClaimInv, RunnerInTime
    <2>5. InsertedOnce'
      BY <2>1, <2>2 DEF ClaimInv, InsertedOnce
    <2>6. RunnerOwnsRow'
      <3> SUFFICES ASSUME NEW w \in Workers, Running(w)', Present(jobs'[wk'[w].id])
                   PROVE  /\ jobs'[wk'[w].id].kind = "Processing"
                          /\ jobs'[wk'[w].id].worker = w
                          /\ jobs'[wk'[w].id].timer = wk'[w].elapsed
        BY DEF RunnerOwnsRow
      <3> DEFINE j == wk[w].id
      <3>1. Running(w) /\ j \in Jobs /\ wk[w].elapsed \in Nat
        BY <1>0, <2>3, RunnerJob DEF TypeOK
      <3>2. Present(jobs[j])
        BY <2>1, <2>3, <3>1
      <3>3. jobs[j].kind = "Processing" /\ jobs[j].worker = w /\ jobs[j].timer = wk[w].elapsed
        BY <3>1, <3>2 DEF ClaimInv, RunnerOwnsRow
      <3>4. jobs'[j] = Aged(jobs[j], StaleAfter) /\ jobs[j] \in JobRow(Workers)
        BY <1>0, <1>18, <3>1 DEF Tick, TypeOK
      <3>5. Inc(jobs[j].timer, StaleAfter) = wk[w].elapsed + 1
        BY <2>3, <3>1, <3>3, StaleOutlastsAttempt, QueueAssumption
           DEF Inc, StaleOutlastsAttempt
      <3>6. QED
        BY <2>3, <3>1, <3>3, <3>4, <3>5, AgedType
    <2>7. NoDoubleExecution'
      BY <2>3 DEF ClaimInv, NoDoubleExecution
    <2>8. QED
      BY <1>0, <2>4, <2>5, <2>6, <2>7 DEF ClaimInv
  <1>19. CASE UNCHANGED vars
    BY <1>0, <1>19, ClaimUntouched DEF vars
  <1>20. QED
    BY <1>1, <1>2, <1>3, <1>4, <1>5, <1>6, <1>7, <1>8, <1>9, <1>10, <1>11, <1>12,
       <1>13, <1>14, <1>15, <1>16, <1>17, <1>18, <1>19 DEF Next, FinishSome

\* When stale_processing_after outlasts an attempt, job_timeout and scheduling
\* delay included, no job is ever run by two workers at once, whatever is
\* stopped, started, deleted or retried meanwhile.
THEOREM NeverTwice ==
  ASSUME StaleOutlastsAttempt
  PROVE  Spec => []NoDoubleExecution
  <1>1. ClaimInv /\ [Next]_vars => ClaimInv'
    BY ClaimNext
  <1>2. ClaimInv => NoDoubleExecution
    BY DEF ClaimInv
  <1>3. QED
    BY <1>1, <1>2, ClaimInit, PTL DEF Spec

\* Under the same condition the stored row of a running job is its worker's
\* claim until the worker itself replaces it.
THEOREM RunnerOwnsClaim ==
  ASSUME StaleOutlastsAttempt
  PROVE  Spec => []RunnerOwnsRow
  <1>1. ClaimInv /\ [Next]_vars => ClaimInv'
    BY ClaimNext
  <1>2. ClaimInv => RunnerOwnsRow
    BY DEF ClaimInv
  <1>3. QED
    BY <1>1, <1>2, ClaimInit, PTL DEF Spec

(***************************************************************************)
(* What one step may do to a stored row.  Both action properties follow    *)
(* from what each action writes; the lifecycle needs ClaimInv besides, for *)
(* the row a worker overwrites when its attempt ends.                      *)
(***************************************************************************)

\* No step of a client, worker, sweep or dashboard request brings back a row
\* that was deleted.
LEMMA GoneStep ==
  ASSUME TypeOK, [Next]_vars, NEW k \in Jobs, Gone(k)
  PROVE  ~Present(jobs'[k])
  <1>0. jobs[k].kind = "None" /\ ~Present(checked[k]) /\ k \in created
    BY DEF Gone, Present
  <1>1. ASSUME jobs'[k] = jobs[k] PROVE ~Present(jobs'[k])
    BY <1>0, <1>1 DEF Present
  <1>2. ASSUME NEW j \in Jobs, EnqueueInsert(j) PROVE ~Present(jobs'[k])
    BY <1>0, <1>1, <1>2 DEF EnqueueInsert, TypeOK
  <1>3. ASSUME NEW j \in Jobs, DeleteJob(j) PROVE ~Present(jobs'[k])
    BY <1>0, <1>1, <1>3, RowKinds DEF DeleteJob, TypeOK
  <1>4. ASSUME NEW d \in Dashboards, RetryJobWrite(d) PROVE ~Present(jobs'[k])
    <2>1. jobs'[k] = jobs[k]
      BY <1>0, <1>4 DEF RetryJobWrite, UpdateIfState, TypeOK
    <2>2. QED
      BY <1>1, <2>1
  <1>5. ASSUME NEW s \in Servers, Start(s) PROVE ~Present(jobs'[k])
    BY <1>0, <1>1, <1>5 DEF Start, Stale
  <1>6. ASSUME NEW w \in Workers, NEW j \in Jobs, Fetch(w, j) PROVE ~Present(jobs'[k])
    <2>1. j # k
      BY <1>0, <1>6 DEF Fetch, FirstFetchable, Fetchable, Available
    <2>2. QED
      BY <1>1, <1>6, <2>1 DEF Fetch, TypeOK
  <1>7. ASSUME NEW w \in Workers, NEW o \in Outcomes, NEW d \in RetryDelays, Finish(w, o, d)
        PROVE  ~Present(jobs'[k])
    <2>1. jobs'[k] = jobs[k]
      BY <1>0, <1>7 DEF Finish, Update, Present, TypeOK
    <2>2. QED
      BY <1>1, <2>1
  <1>8. ASSUME NEW kind \in {"Scheduled", "AwaitingRetry"}, ClaimDue(kind)
        PROVE  ~Present(jobs'[k])
    BY <1>0, <1>1, <1>8 DEF ClaimDue, DueBatches
  <1>9. ASSUME DeleteExpiredJobs PROVE ~Present(jobs'[k])
    BY <1>1, <1>9, RowKinds DEF DeleteExpiredJobs
  <1>10. ASSUME Tick PROVE ~Present(jobs'[k])
    <2>1. jobs'[k] = Aged(jobs[k], StaleAfter) /\ jobs[k] \in JobRow(Workers)
      BY <1>10 DEF Tick, TypeOK
    <2>2. QED
      BY <1>0, <2>1, RowKinds DEF Present
  <1>11. ASSUME UNCHANGED jobs PROVE ~Present(jobs'[k])
    BY <1>1, <1>11
  <1>12. QED
    BY <1>2, <1>3, <1>4, <1>5, <1>6, <1>7, <1>8, <1>9, <1>10, <1>11
       DEF Next, FinishSome, vars, EnqueueCheck, TryAcquireJobLock, ReleaseJobLock,
           RetryJobRead, Stop, Stopped, FetchNone, Panic, WorkerExit

\* A job that was deleted or swept never comes back, for any configuration:
\* neither a late worker nor a slow dashboard request inserts a row.
THEOREM GoneStaysGone == Spec => GoneForGood
  <1>1. TypeOK /\ [Next]_vars => \A j \in Jobs : Gone(j) => ~Present(jobs'[j])
    BY GoneStep
  <1>2. QED
    BY <1>1, TypeCorrect, PTL DEF Spec, GoneForGood

\* What the two kinds of rows kept outside the table say: the copy of a
\* dashboard retry is Enqueued, the row of an unfinished enqueue is new.
PendingRows ==
    /\ \A d \in Dashboards : dash[d].id # NoId => dash[d].row.kind = "Enqueued"
    /\ \A j \in Jobs : checked[j].kind \in {"None", "Enqueued", "Scheduled"}

\* No request and no enqueue is under way at first.
LEMMA PendingInit == Init => PendingRows
  BY DEF Init, PendingRows, NoRow

\* Only retry_job and enqueue write those rows, and time leaves their kind.
LEMMA PendingNext ==
  ASSUME TypeOK, PendingRows, [Next]_vars
  PROVE  PendingRows'
  <1>1. ASSUME NEW j \in Jobs, EnqueueCheck(j) PROVE PendingRows'
    BY <1>1 DEF EnqueueCheck, PendingRows, NewJob, TypeOK
  <1>2. ASSUME NEW j \in Jobs, EnqueueInsert(j) PROVE PendingRows'
    BY <1>2 DEF EnqueueInsert, PendingRows, NoRow, TypeOK
  <1>3. ASSUME NEW d \in Dashboards, NEW j \in Jobs, RetryJobRead(d, j) PROVE PendingRows'
    <2>1. SetState(jobs[j], "Enqueued", 0).kind = "Enqueued"
      BY RowKinds DEF TypeOK
    <2>2. QED
      BY <1>3, <2>1 DEF RetryJobRead, PendingRows, TypeOK
  <1>4. ASSUME NEW d \in Dashboards, RetryJobWrite(d) PROVE PendingRows'
    BY <1>4 DEF RetryJobWrite, PendingRows, TypeOK
  <1>5. ASSUME Tick PROVE PendingRows'
    <2>1. ASSUME NEW d \in Dashboards
          PROVE  dash'[d].id = dash[d].id /\ dash'[d].row.kind = dash[d].row.kind
      <3>1. dash[d] \in [id: Jobs \cup {NoId}, row: JobRow(Workers)]
        BY DEF TypeOK
      <3>2. dash'[d] = [dash[d] EXCEPT !.row = Aged(dash[d].row, StaleAfter)]
        BY <1>5 DEF Tick
      <3>3. QED
        BY <3>1, <3>2, AgedType
    <2>2. ASSUME NEW j \in Jobs PROVE checked'[j].kind = checked[j].kind
      BY <1>5, AgedType DEF Tick, TypeOK
    <2>3. QED
      BY <2>1, <2>2 DEF PendingRows
  <1>6. ASSUME UNCHANGED <<dash, checked>> PROVE PendingRows'
    BY <1>6 DEF PendingRows
  <1>7. QED
    BY <1>1, <1>2, <1>3, <1>4, <1>5, <1>6
       DEF Next, FinishSome, Finish, vars, DeleteJob, TryAcquireJobLock, ReleaseJobLock,
           Start, Stop, Stopped, Fetch, FetchNone, Panic, WorkerExit, ClaimDue,
           DeleteExpiredJobs

\* Every step of every action moves every row along an arrow of the lifecycle.
LEMMA LifecycleNext ==
  ASSUME ClaimInv, PendingRows, [Next]_vars, NEW k \in Jobs
  PROVE  LifecycleStep(k)
  <1> USE DEF LifecycleStep
  <1>0. TypeOK /\ jobs[k] \in JobRow(Workers)
    BY DEF ClaimInv, TypeOK
  <1>1. ASSUME jobs'[k] = jobs[k] PROVE LifecycleStep(k)
    BY <1>1
  <1>2. ASSUME jobs'[k].kind = "None" PROVE LifecycleStep(k)
    BY <1>2
  <1>3. ASSUME NEW j \in Jobs, EnqueueInsert(j) PROVE LifecycleStep(k)
    <2>1. CASE j = k
      <3>1. jobs[k].kind = "None"
        BY <1>3, <2>1 DEF EnqueueInsert, ClaimInv, InsertedOnce, Present
      <3>2. jobs'[k].kind \in {"Enqueued", "Scheduled"}
        BY <1>0, <1>3, <2>1 DEF EnqueueInsert, PendingRows, Present, TypeOK
      <3>3. QED
        BY <3>1, <3>2
    <2>2. CASE j # k
      BY <1>0, <1>1, <1>3, <2>2 DEF EnqueueInsert, TypeOK
    <2>3. QED
      BY <2>1, <2>2
  <1>4. ASSUME NEW j \in Jobs, DeleteJob(j) PROVE LifecycleStep(k)
    BY <1>0, <1>1, <1>2, <1>4 DEF DeleteJob, NoRow, TypeOK
  <1>5. ASSUME NEW d \in Dashboards, RetryJobWrite(d) PROVE LifecycleStep(k)
    <2>1. jobs'[k] = jobs[k] \/ (jobs[k].kind = "Failed" /\ jobs'[k].kind = "Enqueued")
      BY <1>0, <1>5 DEF RetryJobWrite, UpdateIfState, PendingRows, TypeOK
    <2>2. QED
      BY <1>1, <2>1 DEF CanTransitionTo
  <1>6. ASSUME NEW s \in Servers, Start(s) PROVE LifecycleStep(k)
    <2>1. \/ jobs'[k] = jobs[k]
          \/ Stale(jobs[k]) /\ jobs'[k] = SetState(jobs[k], "Enqueued", 0)
      BY <1>6 DEF Start
    <2>2. QED
      BY <1>0, <1>1, <2>1, RowKinds
  <1>7. ASSUME NEW w \in Workers, NEW j \in Jobs, Fetch(w, j) PROVE LifecycleStep(k)
    <2>1. jobs' = [jobs EXCEPT ![j] = [jobs[j] EXCEPT !.kind = "Processing", !.timer = 0,
                                                      !.worker = w]]
      BY <1>7 DEF Fetch
    <2>2. CASE j = k
      <3>1. Available(jobs[k])
        BY <1>7, <2>2 DEF Fetch, FirstFetchable, Fetchable
      <3>2. jobs'[k].kind = "Processing"
        BY <1>0, <2>1, <2>2 DEF TypeOK, JobRow
      <3>3. QED
        BY <3>1, <3>2
    <2>3. CASE j # k
      BY <1>0, <1>1, <2>1, <2>3 DEF TypeOK
    <2>4. QED
      BY <2>2, <2>3
  <1>8. ASSUME NEW w \in Workers, NEW o \in Outcomes, NEW d \in RetryDelays, Finish(w, o, d)
        PROVE  LifecycleStep(k)
    <2>1. wk[w].id \in Jobs /\ wk[w].row \in JobRow(Workers)
      BY <1>0, <1>8, RunnerJob DEF Finish, TypeOK
    <2>2. ProcessJob(wk[w].id, wk[w].row, o, d).kind \in {"Succeeded", "Failed", "AwaitingRetry"}
      BY <2>1, ProcessJobType
    <2>3. CASE jobs'[k] # jobs[k]
      <3>1. /\ wk[w].id = k /\ Present(jobs[k])
            /\ jobs'[k] = ProcessJob(wk[w].id, wk[w].row, o, d)
        BY <1>0, <1>8, <2>1, <2>3 DEF Finish, Update, TypeOK
      <3>2. jobs[k].kind = "Processing"
        BY <1>8, <3>1 DEF Finish, ClaimInv, RunnerOwnsRow
      <3>3. QED
        BY <2>2, <3>1, <3>2 DEF CanTransitionTo
    <2>4. QED
      BY <1>1, <2>3
  <1>9. ASSUME NEW kind \in {"Scheduled", "AwaitingRetry"}, ClaimDue(kind)
        PROVE  LifecycleStep(k)
    <2>1. \/ jobs'[k] = jobs[k]
          \/ jobs[k].kind = kind /\ jobs'[k] = SetState(jobs[k], "Enqueued", 0)
      BY <1>9 DEF ClaimDue, DueBatches
    <2>2. QED
      BY <1>0, <1>1, <2>1, RowKinds DEF CanTransitionTo
  <1>10. ASSUME DeleteExpiredJobs PROVE LifecycleStep(k)
    BY <1>1, <1>2, <1>10 DEF DeleteExpiredJobs, NoRow
  <1>11. ASSUME Tick PROVE LifecycleStep(k)
    BY <1>0, <1>11, AgedType DEF Tick
  <1>12. ASSUME UNCHANGED jobs PROVE LifecycleStep(k)
    BY <1>1, <1>12
  <1> HIDE DEF LifecycleStep
  <1>13. QED
    BY <1>3, <1>4, <1>5, <1>6, <1>7, <1>8, <1>9, <1>10, <1>11, <1>12
       DEF Next, FinishSome, vars, EnqueueCheck, TryAcquireJobLock, ReleaseJobLock,
           RetryJobRead, Stop, Stopped, FetchNone, Panic, WorkerExit

\* When stale_processing_after outlasts an attempt, every change of a stored
\* row follows can_transition_to, claims a job that is due or recovers a stale
\* claim: the unconditional update of a worker never moves a row back.
THEOREM LifecycleHolds ==
  ASSUME StaleOutlastsAttempt
  PROVE  Spec => LifecycleFollowed
  <1>1. ClaimInv /\ [Next]_vars => ClaimInv'
    BY ClaimNext
  <1>2. ClaimInv /\ PendingRows /\ [Next]_vars => PendingRows'
    BY PendingNext DEF ClaimInv
  <1>3. ClaimInv /\ PendingRows /\ [Next]_vars => \A j \in Jobs : LifecycleStep(j)
    BY LifecycleNext
  <1>4. QED
    BY <1>1, <1>2, <1>3, ClaimInit, PendingInit, PTL DEF Spec, LifecycleFollowed

(***************************************************************************)
(* The lock taken with the claim.                                          *)
(***************************************************************************)

\* The condition: the 30 minutes outlast an attempt, and callers of the
\* explicit lock API use ids of their own.
LockOutlastsAttempt == LockTtl > JobTimeout + MaxLag /\ Workers \cap LockClients = {}

\* What is left of the runner's lock and the age of its attempt make up the
\* whole ttl, so it does not run out before the attempt is over.
LockCovers ==
    \A w \in Workers :
        Running(w) /\ Present(jobs[wk[w].id]) =>
            /\ locks[wk[w].id].owner = w
            /\ locks[wk[w].id].ttl + wk[w].elapsed >= LockTtl

\* A lock that covers its attempt survives the sweep of expired locks.
LEMMA CoveredIsLive ==
  ASSUME LockOutlastsAttempt, ClaimInv, LockCovers,
         NEW w \in Workers, Running(w), Present(jobs[wk[w].id])
  PROVE  /\ wk[w].id \in Jobs
         /\ LiveLocks[wk[w].id] = locks[wk[w].id]
         /\ locks[wk[w].id].owner = w /\ w # NoWorker /\ w \notin LockClients
  <1>1. wk[w].id \in Jobs
    BY RunnerJob
  <1>2. /\ wk[w].elapsed <= JobTimeout + MaxLag /\ wk[w].elapsed \in Nat
        /\ locks[wk[w].id].ttl \in Nat
    BY <1>1 DEF ClaimInv, RunnerInTime, TypeOK
  <1>3. locks[wk[w].id].ttl > 0
    BY <1>2, QueueAssumption DEF LockCovers, LockOutlastsAttempt
  <1>4. QED
    BY <1>1, <1>3, QueueAssumption DEF LiveLocks, LockCovers, LockOutlastsAttempt

\* A step that leaves every runner its job and its lock, or ends the attempt.
LEMMA LockKept ==
  ASSUME LockOutlastsAttempt, ClaimInv, LockCovers,
         \A w \in Workers : Running(w)' => Running(w) /\ wk'[w] = wk[w],
         \A w \in Workers : Running(w) /\ Present(jobs'[wk[w].id]) =>
             Present(jobs[wk[w].id]) /\ locks'[wk[w].id] = locks[wk[w].id]
  PROVE  LockCovers'
  BY DEF LockCovers

\* No step takes the lock from a running worker.
LEMMA LockNext ==
  ASSUME StaleOutlastsAttempt, LockOutlastsAttempt, ClaimInv, LockCovers, [Next]_vars
  PROVE  LockCovers'
  <1> USE DEF Running
  <1>0. TypeOK /\ TypeOK' /\ ClaimInv'
    BY NextType, ClaimNext DEF ClaimInv
  <1>g. ASSUME NEW w \in Workers, Running(w), Present(jobs'[wk[w].id])
        PROVE  Present(jobs[wk[w].id])
    BY <1>0, <1>g, GoneStep, RunnerJob DEF ClaimInv, RunnerInTime, Gone
  <1>1. ASSUME wk' = wk, locks' = locks PROVE LockCovers'
    BY <1>1, <1>g, LockKept
  <1>2. ASSUME wk' = wk, locks' = LiveLocks PROVE LockCovers'
    BY <1>2, <1>g, LockKept, CoveredIsLive
  <1>3. ASSUME NEW c \in LockClients, NEW j \in Jobs, TryAcquireJobLock(c, j)
        PROVE  LockCovers'
    <2>1. ASSUME NEW w \in Workers, Running(w), Present(jobs[wk[w].id])
          PROVE  locks'[wk[w].id] = locks[wk[w].id]
      BY <1>0, <1>3, <2>1, CoveredIsLive, LiveLocksType DEF TryAcquireJobLock
    <2>2. QED
      BY <1>3, <1>g, <2>1, LockKept DEF TryAcquireJobLock
  <1>4. ASSUME NEW c \in LockClients, NEW j \in Jobs, ReleaseJobLock(c, j)
        PROVE  LockCovers'
    <2>1. ASSUME NEW w \in Workers, Running(w), Present(jobs[wk[w].id])
          PROVE  locks'[wk[w].id] = locks[wk[w].id]
      BY <1>0, <1>4, <2>1, CoveredIsLive DEF ReleaseJobLock, TypeOK
    <2>2. QED
      BY <1>4, <1>g, <2>1, LockKept DEF ReleaseJobLock
  <1>5. ASSUME NEW s \in Servers, Start(s) PROVE LockCovers'
    <2>1. \A w \in Workers : Running(w)' => Running(w) /\ wk'[w] = wk[w]
      BY <1>5 DEF Start, Slot
    <2>2. ASSUME NEW w \in Workers, Running(w), Present(jobs[wk[w].id])
          PROVE  locks'[wk[w].id] = locks[wk[w].id]
      <3>1. wk[w].id \in Jobs /\ wk[w].elapsed <= JobTimeout + MaxLag /\ wk[w].elapsed \in Nat
        BY <1>0, <2>2, RunnerJob DEF ClaimInv, RunnerInTime, TypeOK
      <3>2. ~Stale(jobs[wk[w].id])
        BY <2>2, <3>1, QueueAssumption, StaleOutlastsAttempt
           DEF Stale, ClaimInv, RunnerOwnsRow, StaleOutlastsAttempt
      <3>3. QED
        BY <1>5, <3>1, <3>2 DEF Start
    <2>3. QED
      BY <1>g, <2>1, <2>2, LockKept
  <1>6. ASSUME NEW s \in Servers, Stopped(s) PROVE LockCovers'
    BY <1>6, <1>g, LockKept DEF Stopped, Slot
  <1>7. ASSUME NEW w \in Workers, NEW j \in Jobs, Fetch(w, j) PROVE LockCovers'
    <2>1. /\ wk'[w].id = j /\ wk'[w].elapsed = 0
          /\ \A v \in Workers \ {w} : wk'[v] = wk[v]
      BY <1>0, <1>7 DEF Fetch, TypeOK
    <2>2. /\ locks'[j] = [owner |-> w, ttl |-> LockTtl]
          /\ \A k \in Jobs \ {j} : locks'[k] = LiveLocks[k]
      BY <1>7, LiveLocksType, <1>0 DEF Fetch
    <2>3. ASSUME NEW v \in Workers \ {w}, Running(v), Present(jobs[wk[v].id])
          PROVE  locks'[wk[v].id] = locks[wk[v].id]
      <3>1. Available(jobs[j]) /\ jobs[wk[v].id].kind = "Processing"
        BY <1>7, <2>3 DEF Fetch, FirstFetchable, Fetchable, ClaimInv, RunnerOwnsRow
      <3>2. wk[v].id # j
        BY <3>1 DEF Available
      <3>3. QED
        BY <2>2, <2>3, <3>2, CoveredIsLive
    <2>4. ASSUME NEW v \in Workers, Running(v)', Present(jobs'[wk'[v].id])
          PROVE  locks'[wk'[v].id].owner = v /\ locks'[wk'[v].id].ttl + wk'[v].elapsed >= LockTtl
      <3>1. CASE v = w
        BY <2>1, <2>2, <3>1, QueueAssumption
      <3>2. CASE v # w
        BY <1>g, <2>1, <2>3, <2>4, <3>2 DEF LockCovers
      <3>3. QED
        BY <3>1, <3>2
    <2>5. QED
      BY <2>4 DEF LockCovers
  <1>8. ASSUME NEW w \in Workers, NEW o \in Outcomes, NEW d \in RetryDelays, Finish(w, o, d)
        PROVE  LockCovers'
    <2>1. \A v \in Workers : Running(v)' => Running(v) /\ wk'[v] = wk[v]
      BY <1>0, <1>8 DEF Finish, Slot, TypeOK
    <2>2. QED
      BY <1>8, <1>g, <2>1, LockKept DEF Finish
  <1>9. ASSUME NEW w \in Workers, Panic(w) \/ WorkerExit(w) PROVE LockCovers'
    <2>1. \A v \in Workers : Running(v)' => Running(v) /\ wk'[v] = wk[v]
      BY <1>0, <1>9 DEF Panic, WorkerExit, Slot, TypeOK
    <2>2. QED
      BY <1>9, <1>g, <2>1, LockKept DEF Panic, WorkerExit
  <1>10. ASSUME Tick PROVE LockCovers'
    <2> SUFFICES ASSUME NEW w \in Workers, Running(w)', Present(jobs'[wk'[w].id])
                 PROVE  /\ locks'[wk'[w].id].owner = w
                        /\ locks'[wk'[w].id].ttl + wk'[w].elapsed >= LockTtl
      BY DEF LockCovers
    <2>1. wk[w] \in [pc: {"off", "idle", "run"}, id: Jobs \cup {NoId},
                     row: JobRow(Workers), elapsed: Nat]
      BY <1>0 DEF TypeOK
    <2>2. Running(w) /\ wk'[w].id = wk[w].id /\ wk'[w].elapsed = wk[w].elapsed + 1
      BY <1>10, <2>1 DEF Tick
    <2>3. Present(jobs[wk[w].id]) /\ wk[w].id \in Jobs
      BY <1>g, <2>2, RunnerJob
    <2>4. locks[wk[w].id] \in [owner: Owners \cup {NoWorker}, ttl: Nat]
      BY <1>0, <2>3 DEF TypeOK
    <2>5. Dec(locks[wk[w].id].ttl) \in Nat /\ Dec(locks[wk[w].id].ttl) >= locks[wk[w].id].ttl - 1
      BY <2>4 DEF Dec
    <2>6. locks'[wk[w].id] = [locks[wk[w].id] EXCEPT !.ttl = Dec(@)]
      BY <1>10, <2>3 DEF Tick
    <2>7. /\ locks'[wk[w].id].owner = locks[wk[w].id].owner
          /\ locks'[wk[w].id].ttl = Dec(locks[wk[w].id].ttl)
      BY <2>4, <2>6
    <2>8. locks[wk[w].id].owner = w /\ locks[wk[w].id].ttl + wk[w].elapsed >= LockTtl
      BY <1>g, <2>2, <2>3 DEF LockCovers
    <2>9. QED
      BY <2>1, <2>2, <2>4, <2>5, <2>7, <2>8, QueueAssumption
  <1>11. QED
    BY <1>1, <1>2, <1>3, <1>4, <1>5, <1>6, <1>7, <1>8, <1>9, <1>10
       DEF Next, FinishSome, vars, EnqueueCheck, EnqueueInsert, DeleteJob, RetryJobRead,
           RetryJobWrite, Stop, FetchNone, ClaimDue, DeleteExpiredJobs

\* When stale_processing_after and the 30 minute lock outlast an attempt, the
\* lock of a stored job that is being run is its runner's until the end.
THEOREM RunnerKeepsLock ==
  ASSUME StaleOutlastsAttempt, LockOutlastsAttempt
  PROVE  Spec => []RunnerHoldsLock
  <1>1. ClaimInv /\ [Next]_vars => ClaimInv'
    BY ClaimNext
  <1>2. ClaimInv /\ LockCovers /\ [Next]_vars => LockCovers'
    BY LockNext
  <1>3. Init => LockCovers
    BY DEF Init, LockCovers, Running, Slot
  <1>4. LockCovers => RunnerHoldsLock
    BY DEF LockCovers, RunnerHoldsLock
  <1>5. QED
    BY <1>1, <1>2, <1>3, <1>4, ClaimInit, PTL DEF Spec

(***************************************************************************)
(* The refinement.  A step changes the promised status of a job only with  *)
(* the kind of its row or its insert, and its runners only with what a     *)
(* worker does.                                                            *)
(***************************************************************************)

\* The job's insert has been done.
Inserted(j) == j \in created /\ ~Present(checked[j])

\* What the status of a job and its runners say.
LEMMA Mapped ==
  ASSUME NEW j \in Jobs
  PROVE  /\ jobs[j].kind \in {"Enqueued", "Scheduled", "AwaitingRetry"} => JobStatus(j) = "waiting"
         /\ jobs[j].kind = "Processing" => JobStatus(j) = "claimed"
         /\ jobs[j].kind = "Failed" => JobStatus(j) = "failed"
         /\ jobs[j].kind = "None" => JobStatus(j) = IF Inserted(j) THEN "gone" ELSE "new"
         /\ jobs'[j].kind \in {"Enqueued", "Scheduled", "AwaitingRetry"} => JobStatus(j)' = "waiting"
         /\ jobs'[j].kind = "Processing" => JobStatus(j)' = "claimed"
         /\ jobs'[j].kind = "Succeeded" => JobStatus(j)' = "succeeded"
         /\ jobs'[j].kind = "Failed" => JobStatus(j)' = "failed"
         /\ jobs'[j].kind = "None" => JobStatus(j)' = IF Inserted(j)' THEN "gone" ELSE "new"
  BY DEF JobStatus, StatusOf, Inserted

\* Rows that keep their kind keep their status.
LEMMA StatusKept ==
  ASSUME NEW j \in Jobs, jobs'[j].kind = jobs[j].kind, Inserted(j)' <=> Inserted(j)
  PROVE  JobStatus(j)' = JobStatus(j)
  BY DEF JobStatus, StatusOf, Inserted

\* Workers that go on with what they do stay the runners of their jobs.
LEMMA RunnersKept ==
  ASSUME \A w \in Workers :
             (Running(w)' <=> Running(w)) /\ (Running(w) => wk'[w].id = wk[w].id),
         NEW j \in Jobs
  PROVE  RunnersOf(j)' = RunnersOf(j)
  BY DEF RunnersOf

\* A stored job is inserted and not new.
LEMMA StoredIsInserted ==
  ASSUME ClaimInv, NEW j \in Jobs, Present(jobs[j])
  PROVE  Inserted(j) /\ JobStatus(j) # "new"
  <1>1. Inserted(j)
    BY DEF ClaimInv, InsertedOnce, Inserted
  <1>2. jobs[j].kind \in Kinds
    BY DEF ClaimInv, TypeOK, JobRow, Present
  <1>3. QED
    BY <1>1, <1>2 DEF Kinds, JobStatus, StatusOf, Inserted

\* The row of a running job is never stale.
LEMMA RunnerNotStale ==
  ASSUME StaleOutlastsAttempt, ClaimInv, NEW w \in Workers, Running(w)
  PROVE  ~Stale(jobs[wk[w].id])
  <1>1. wk[w].elapsed \in Nat /\ wk[w].elapsed <= JobTimeout + MaxLag
    BY DEF ClaimInv, TypeOK, RunnerInTime
  <1>2. Present(jobs[wk[w].id]) => jobs[wk[w].id].timer = wk[w].elapsed
    BY DEF ClaimInv, RunnerOwnsRow
  <1>3. QED
    BY <1>1, <1>2, QueueAssumption DEF Stale, Present, StaleOutlastsAttempt

\* The jobs of J get a status, the others keep theirs.
LEMMA MovesTo ==
  ASSUME NEW J \in SUBSET Jobs, NEW s,
         \A j \in J : JobStatus(j)' = s,
         \A j \in Jobs \ J : jobs'[j].kind = jobs[j].kind,
         \A j \in Jobs \ J : Inserted(j)' <=> Inserted(j)
  PROVE  Promise!Becomes(J, s)
  <1>1. \A j \in Jobs : JobStatus(j)' = IF j \in J THEN s ELSE JobStatus(j)
    BY StatusKept
  <1>2. QED
    BY <1>1 DEF Promise!Becomes

\* A step of the servers, clients and dashboards is a step of the abstract
\* queue or leaves it alone.
LEMMA StepRefines ==
  ASSUME StaleOutlastsAttempt, ClaimInv, PendingRows, [Next]_vars
  PROVE  [Promise!Next]_<<[j \in Jobs |-> JobStatus(j)], [j \in Jobs |-> RunnersOf(j)]>>
  <1> DEFINE st == [j \in Jobs |-> JobStatus(j)]
             rn == [j \in Jobs |-> RunnersOf(j)]
  <1>0. TypeOK
    BY DEF ClaimInv
  <1>i. ASSUME UNCHANGED <<created, checked>> PROVE \A j \in Jobs : Inserted(j)' <=> Inserted(j)
    BY <1>i DEF Inserted
  <1>s. ASSUME \A j \in Jobs : jobs'[j].kind = jobs[j].kind /\ (Inserted(j)' <=> Inserted(j))
        PROVE  st' = st
    BY <1>s, StatusKept
  <1>r. ASSUME \A w \in Workers : (Running(w)' <=> Running(w)) /\ (Running(w) => wk'[w].id = wk[w].id)
        PROVE  rn' = rn
    BY <1>r, RunnersKept
  <1>w. wk' = wk => rn' = rn
    BY <1>r DEF Running
  <1>u. ASSUME UNCHANGED <<jobs, created, checked, wk>> PROVE UNCHANGED <<st, rn>>
    BY <1>u, <1>i, <1>s, <1>w
  <1>1. ASSUME NEW j \in Jobs, EnqueueInsert(j) PROVE Promise!Next
    <2>1. /\ jobs[j].kind = "None" /\ ~Inserted(j)
          /\ checked[j].kind \in {"Enqueued", "Scheduled"}
      BY <1>1 DEF EnqueueInsert, ClaimInv, InsertedOnce, PendingRows, Inserted, Present
    <2>2. jobs'[j].kind \in {"Enqueued", "Scheduled"} /\ \A k \in Jobs \ {j} : jobs'[k] = jobs[k]
      BY <1>0, <1>1, <2>1 DEF EnqueueInsert, TypeOK
    <2>3. JobStatus(j) = "new" /\ JobStatus(j)' = "waiting"
      BY <2>1, <2>2, Mapped
    <2>4. \A k \in Jobs \ {j} : Inserted(k)' <=> Inserted(k)
      BY <1>0, <1>1 DEF EnqueueInsert, Inserted, TypeOK
    <2>5. Promise!Becomes({j}, "waiting")
      BY <2>2, <2>3, <2>4, MovesTo
    <2>6. Promise!Enqueue(j)
      BY <1>1, <1>w, <2>3, <2>5 DEF Promise!Enqueue, EnqueueInsert
    <2>7. QED
      BY <2>6 DEF Promise!Next
  <1>c. ASSUME NEW j \in Jobs, EnqueueCheck(j) PROVE UNCHANGED <<st, rn>>
    <2>1. Present(checked'[j]) /\ \A k \in Jobs \ {j} : checked'[k] = checked[k]
      BY <1>0, <1>c DEF EnqueueCheck, NewJob, Present, TypeOK
    <2>2. \A k \in Jobs : Inserted(k)' <=> Inserted(k)
      BY <1>c, <2>1 DEF EnqueueCheck, Inserted
    <2>3. QED
      BY <1>c, <1>s, <1>w, <2>2 DEF EnqueueCheck
  <1>2. ASSUME NEW j \in Jobs, DeleteJob(j) PROVE Promise!Next
    <2>1. jobs'[j].kind = "None" /\ \A k \in Jobs \ {j} : jobs'[k] = jobs[k]
      BY <1>0, <1>2 DEF DeleteJob, NoRow, TypeOK
    <2>2. wk' = wk /\ \A k \in Jobs : Inserted(k)' <=> Inserted(k)
      BY <1>2, <1>i DEF DeleteJob
    <2>3. JobStatus(j)' = "gone" /\ JobStatus(j) # "new"
      BY <1>2, <2>1, <2>2, Mapped, StoredIsInserted DEF DeleteJob
    <2>4. Promise!Becomes({j}, "gone")
      BY <2>1, <2>2, <2>3, MovesTo
    <2>5. Promise!Remove({j})
      BY <1>w, <2>2, <2>3, <2>4 DEF Promise!Remove
    <2>6. QED
      BY <2>5 DEF Promise!Next
  <1>3. ASSUME NEW d \in Dashboards, RetryJobWrite(d)
        PROVE  Promise!Next \/ UNCHANGED <<st, rn>>
    <2>1. PICK j \in Jobs :
             /\ j = dash[d].id /\ dash[d].row.kind = "Enqueued"
             /\ UNCHANGED <<created, checked, wk>>
      BY <1>0, <1>3 DEF RetryJobWrite, TypeOK, PendingRows
    <2>2. CASE jobs[j].kind = "Failed"
      <3>1. jobs'[j].kind = "Enqueued" /\ \A k \in Jobs \ {j} : jobs'[k] = jobs[k]
        BY <1>0, <1>3, <2>1, <2>2 DEF RetryJobWrite, UpdateIfState, TypeOK
      <3>2. JobStatus(j)' = "waiting" /\ JobStatus(j) = "failed"
        BY <2>1, <2>2, <3>1, Mapped
      <3>3. Promise!Becomes({j}, "waiting")
        BY <1>i, <2>1, <3>1, <3>2, MovesTo
      <3>4. Promise!Retry(j)
        BY <1>w, <2>1, <3>2, <3>3 DEF Promise!Retry
      <3>5. QED
        BY <2>1, <3>4 DEF Promise!Next
    <2>3. CASE jobs[j].kind # "Failed"
      <3>1. jobs' = jobs
        BY <1>3, <2>1, <2>3 DEF RetryJobWrite, UpdateIfState
      <3>2. QED
        BY <1>u, <2>1, <3>1
    <2>4. QED
      BY <2>2, <2>3
  <1>4. ASSUME NEW s \in Servers, Start(s) PROVE Promise!Next
    <2> DEFINE J == {j \in Jobs : Stale(jobs[j])}
    <2>1. \A k \in Jobs : Inserted(k)' <=> Inserted(k)
      BY <1>4, <1>i DEF Start
    <2>2. \A j \in Jobs \ J : jobs'[j] = jobs[j]
      BY <1>4 DEF Start
    <2>3. ASSUME NEW j \in J
          PROVE  JobStatus(j)' = "waiting" /\ JobStatus(j) = "claimed" /\ RunnersOf(j) = {}
      <3>1. jobs'[j].kind = "Enqueued"
        BY <1>0, <1>4, <2>3, RowKinds DEF Start, TypeOK
      <3>2. RunnersOf(j) = {}
        BY <2>3, RunnerNotStale DEF RunnersOf
      <3>3. QED
        BY <3>1, <3>2, Mapped DEF Stale
    <2>4. ASSUME NEW w \in Workers
          PROVE  (Running(w)' <=> Running(w)) /\ (Running(w) => wk'[w].id = wk[w].id)
      <3>1. wk'[w] = IF Home[w] = s THEN Slot("idle") ELSE wk[w]
        BY <1>4 DEF Start
      <3>2. Home[w] = s => wk[w].pc = "off"
        BY <1>4 DEF Start
      <3>3. QED
        BY <3>1, <3>2 DEF Running, Slot
    <2>5. Promise!Becomes(J, "waiting")
      BY <2>1, <2>2, <2>3, MovesTo
    <2>6. Promise!Recover(J)
      BY <1>r, <2>3, <2>4, <2>5 DEF Promise!Recover
    <2>7. QED
      BY <2>6 DEF Promise!Next
  <1>5. ASSUME NEW W \in SUBSET Workers, UNCHANGED <<jobs, created, checked>>,
               \A w \in Workers : IF w \in W THEN ~Running(w)' ELSE wk'[w] = wk[w]
        PROVE  Promise!Next
    <2>1. \A j \in Jobs : RunnersOf(j)' = RunnersOf(j) \ W
      BY <1>5 DEF RunnersOf, Running
    <2>2. Promise!Abandon(W)
      BY <1>5, <1>i, <1>s, <2>1 DEF Promise!Abandon
    <2>3. QED
      BY <2>2 DEF Promise!Next
  <1>6. ASSUME NEW s \in Servers, Stopped(s) PROVE Promise!Next
    <2> DEFINE W == {w \in Workers : Home[w] = s}
    <2>1. \A w \in Workers : IF w \in W THEN ~Running(w)' ELSE wk'[w] = wk[w]
      BY <1>6 DEF Stopped, Running, Slot
    <2>2. QED
      BY <1>5, <1>6, <2>1 DEF Stopped
  <1>7. ASSUME NEW w \in Workers, Panic(w) PROVE Promise!Next
    <2>1. \A v \in Workers : IF v \in {w} THEN ~Running(v)' ELSE wk'[v] = wk[v]
      BY <1>0, <1>7 DEF Panic, Running, Slot, TypeOK
    <2>2. QED
      BY <1>5, <1>7, <2>1 DEF Panic
  <1>8. ASSUME NEW w \in Workers, NEW j \in Jobs, Fetch(w, j) PROVE Promise!Next
    <2>1. /\ jobs[j].kind \in {"Enqueued", "Scheduled", "AwaitingRetry"} /\ ~Running(w)
          /\ \A k \in Jobs : Inserted(k)' <=> Inserted(k)
      BY <1>8, <1>i DEF Fetch, FirstFetchable, Fetchable, Available, Running
    <2>2. jobs'[j].kind = "Processing" /\ \A k \in Jobs \ {j} : jobs'[k] = jobs[k]
      <3>1. jobs' = [jobs EXCEPT ![j] = [jobs[j] EXCEPT !.kind = "Processing",
                                                       !.timer = 0, !.worker = w]]
        BY <1>8 DEF Fetch
      <3>2. QED
        BY <1>0, <3>1 DEF TypeOK, JobRow
    <2>3. /\ Running(w)' /\ wk'[w].id = j
          /\ \A v \in Workers \ {w} : wk'[v] = wk[v]
      BY <1>0, <1>8 DEF Fetch, TypeOK, Running
    <2>4. RunnersOf(j) = {}
      BY <2>1 DEF RunnersOf, ClaimInv, RunnerOwnsRow, Present
    <2>5. \A k \in Jobs : w \notin RunnersOf(k)
      BY <2>1 DEF RunnersOf
    <2>6. \A k \in Jobs : RunnersOf(k)' = IF k = j THEN {w} ELSE RunnersOf(k)
      BY <2>1, <2>3, <2>4 DEF RunnersOf, Running
    <2>7. JobStatus(j) = "waiting" /\ JobStatus(j)' = "claimed"
      BY <2>1, <2>2, Mapped
    <2>8. Promise!Becomes({j}, "claimed")
      BY <2>1, <2>2, <2>7, MovesTo
    <2>9. rn' = [rn EXCEPT ![j] = {w}]
      BY <2>6
    <2>10. Promise!Claim(w, j)
      BY <2>4, <2>5, <2>7, <2>8, <2>9 DEF Promise!Claim
    <2>11. QED
      BY <2>10 DEF Promise!Next
  <1>9. ASSUME NEW w \in Workers, NEW o \in Outcomes, NEW d \in RetryDelays, Finish(w, o, d)
        PROVE  Promise!Next
    <2>1. PICK j \in Jobs : j = wk[w].id /\ Running(w) /\ UNCHANGED <<created, checked>>
      BY <1>9, RunnerJob DEF Finish
    <2>2. ~Running(w)' /\ \A v \in Workers \ {w} : wk'[v] = wk[v]
      BY <1>0, <1>9 DEF Finish, Slot, Running, TypeOK
    <2>3. CASE Present(jobs[j])
      <3>1. wk[w].row \in JobRow(Workers)
        BY <1>0 DEF TypeOK
      <3>2. ProcessJob(j, wk[w].row, o, d).kind \in {"Succeeded", "Failed", "AwaitingRetry"}
        BY <2>1, <3>1, ProcessJobType
      <3>3. /\ jobs'[j].kind \in {"Succeeded", "Failed", "AwaitingRetry"}
            /\ \A k \in Jobs \ {j} : jobs'[k] = jobs[k]
        BY <1>0, <1>9, <2>1, <2>3, <3>2 DEF Finish, Update, TypeOK
      <3>4. JobStatus(j) = "claimed" /\ w \in RunnersOf(j)
        BY <2>1, <2>3, Mapped DEF RunnersOf, ClaimInv, RunnerOwnsRow
      <3>5. JobStatus(j)' \in {"waiting", "succeeded", "failed"}
        BY <2>1, <3>3, Mapped
      <3>6. Promise!Becomes({j}, JobStatus(j)')
        BY <1>i, <2>1, <3>3, MovesTo
      <3>7. \A k \in Jobs : RunnersOf(k)' = IF k = j THEN RunnersOf(k) \ {w} ELSE RunnersOf(k)
        BY <2>1, <2>2 DEF RunnersOf, Running
      <3>8. rn' = [rn EXCEPT ![j] = @ \ {w}]
        BY <2>1, <3>7
      <3>9. Promise!Settle(w, j)
        BY <2>1, <3>4, <3>5, <3>6, <3>8 DEF Promise!Settle
      <3>10. QED
        BY <2>1, <3>9 DEF Promise!Next
    <2>4. CASE ~Present(jobs[j])
      <3>1. jobs' = jobs
        BY <1>9, <2>1, <2>4 DEF Finish, Update
      <3>2. \A v \in Workers : IF v \in {w} THEN ~Running(v)' ELSE wk'[v] = wk[v]
        BY <2>2
      <3>3. QED
        BY <1>5, <2>1, <3>1, <3>2
    <2>5. QED
      BY <2>3, <2>4
  <1>10. ASSUME NEW kind \in {"Scheduled", "AwaitingRetry"}, ClaimDue(kind)
         PROVE  UNCHANGED <<st, rn>>
    <2>1. PICK B \in DueBatches(kind) :
             jobs' = [j \in Jobs |-> IF j \in B THEN SetState(jobs[j], "Enqueued", 0)
                                     ELSE jobs[j]]
      BY <1>10 DEF ClaimDue
    <2>2. \A j \in B : j \in Jobs /\ jobs[j].kind = kind
      BY DEF DueBatches
    <2>3. wk' = wk /\ \A k \in Jobs : Inserted(k)' <=> Inserted(k)
      BY <1>10, <1>i DEF ClaimDue
    <2>4. ASSUME NEW j \in Jobs PROVE JobStatus(j)' = JobStatus(j)
      <3>1. CASE j \in B
        BY <1>0, <2>1, <2>2, <3>1, RowKinds, Mapped DEF TypeOK
      <3>2. CASE j \notin B
        BY <2>1, <2>3, <3>2, StatusKept
      <3>3. QED
        BY <3>1, <3>2
    <2>5. QED
      BY <1>w, <2>3, <2>4
  <1>11. ASSUME DeleteExpiredJobs PROVE Promise!Next
    <2> DEFINE J == {j \in Jobs : jobs[j].expires = 0 /\ Present(jobs[j])}
    <2>1. wk' = wk /\ \A k \in Jobs : Inserted(k)' <=> Inserted(k)
      BY <1>11, <1>i DEF DeleteExpiredJobs
    <2>2. \A j \in Jobs \ J : jobs'[j].kind = jobs[j].kind
      BY <1>11 DEF DeleteExpiredJobs, Present, NoRow
    <2>3. ASSUME NEW j \in J PROVE JobStatus(j)' = "gone" /\ JobStatus(j) # "new"
      <3>1. jobs'[j].kind = "None"
        BY <1>11 DEF DeleteExpiredJobs, NoRow
      <3>2. QED
        BY <2>1, <3>1, Mapped, StoredIsInserted
    <2>4. Promise!Becomes(J, "gone")
      BY <2>1, <2>2, <2>3, MovesTo
    <2>5. Promise!Remove(J)
      BY <1>w, <2>1, <2>3, <2>4 DEF Promise!Remove
    <2>6. QED
      BY <2>5 DEF Promise!Next
  <1>12. ASSUME Tick PROVE UNCHANGED <<st, rn>>
    <2>1. ASSUME NEW j \in Jobs
          PROVE  jobs'[j].kind = jobs[j].kind /\ (Inserted(j)' <=> Inserted(j))
      <3>1. jobs'[j].kind = jobs[j].kind /\ checked'[j].kind = checked[j].kind
        BY <1>0, <1>12, AgedType DEF Tick, TypeOK
      <3>2. QED
        BY <1>12, <3>1 DEF Tick, Inserted, Present
    <2>2. ASSUME NEW w \in Workers PROVE (Running(w)' <=> Running(w)) /\ (Running(w) => wk'[w].id = wk[w].id)
      <3>1. wk[w] \in [pc: {"off", "idle", "run"}, id: Jobs \cup {NoId},
                       row: JobRow(Workers), elapsed: Nat]
        BY <1>0 DEF TypeOK
      <3>2. wk'[w] = IF Running(w)
                     THEN [wk[w] EXCEPT !.elapsed = @ + 1, !.row = Aged(@, StaleAfter)]
                     ELSE wk[w]
        BY <1>12 DEF Tick
      <3>3. QED
        BY <3>1, <3>2 DEF Running
    <2>3. QED
      BY <1>12, <1>s, <1>r, <2>1, <2>2 DEF Tick
  <1>e. ASSUME NEW w \in Workers, WorkerExit(w) PROVE Promise!Next
    <2>1. \A v \in Workers : IF v \in {w} THEN ~Running(v)' ELSE wk'[v] = wk[v]
      BY <1>0, <1>e DEF WorkerExit, Running, Slot, TypeOK
    <2>2. QED
      BY <1>5, <1>e, <2>1 DEF WorkerExit
  <1>13. QED
    BY <1>1, <1>2, <1>3, <1>4, <1>6, <1>7, <1>8, <1>9, <1>10, <1>11, <1>12, <1>c, <1>e, <1>u
       DEF Next, FinishSome, vars, TryAcquireJobLock, ReleaseJobLock, RetryJobRead, Stop, FetchNone

\* The queue over MemoryStorage implements the abstract job queue, through
\* stops, panics and restarts, when stale_processing_after exceeds what an
\* attempt can take: what a worker, a sweep and a dashboard do to a row in
\* several critical sections is one step of the promise.
THEOREM MemoryKeepsPromise ==
  ASSUME StaleOutlastsAttempt
  PROVE  Spec => ImplementsJobQueue
  <1> DEFINE Inv == ClaimInv /\ PendingRows
  <1>1. Init => Inv
    BY ClaimInit, PendingInit
  <1>2. Inv /\ [Next]_vars => Inv'
    <2>1. ClaimInv => TypeOK
      BY DEF ClaimInv
    <2>2. QED
      BY <2>1, ClaimNext, PendingNext
  <1>3. Init => Promise!Init
    <2>1. ASSUME Init, NEW j \in Jobs PROVE JobStatus(j) = "new" /\ RunnersOf(j) = {}
      BY <2>1 DEF Init, JobStatus, StatusOf, RunnersOf, Running, Slot, NoRow
    <2>2. QED
      BY <2>1 DEF Promise!Init
  <1>4. Inv /\ [Next]_vars =>
          [Promise!Next]_<<[j \in Jobs |-> JobStatus(j)], [j \in Jobs |-> RunnersOf(j)]>>
    BY StepRefines
  <1>5. QED
    BY <1>1, <1>2, <1>3, <1>4, PTL DEF Spec, ImplementsJobQueue, Promise!Spec

==============================================================================
