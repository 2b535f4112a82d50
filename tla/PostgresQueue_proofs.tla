------------------------- MODULE PostgresQueue_proofs -------------------------
(***************************************************************************)
(* Proofs about PostgresQueue, for any number of jobs, hosts and workers,  *)
(* any timeouts and any bounded difference of the hosts' clocks: type      *)
(* correctness, no job run twice at once and no result written over a      *)
(* newer claim when stale_processing_after outlasts an attempt and the     *)
(* skew, and a Failed row that leaves only by a counted dashboard retry.   *)
(***************************************************************************)
EXTENDS PostgresQueue, TLAPS

(***************************************************************************)
(* Rows.                                                                   *)
(***************************************************************************)

\* Where the model stops counting the age of a claim.
Limit == StaleAfter + MaxSkew

\* The row of an absent id is a row.
LEMMA NoRowType == NoRow \in JobRow(Workers)
  BY DEF NoRow, JobRow, NoExpiry

\* A new job's row is a row (Job::new, schedule_job).
LEMMA NewJobType ==
  ASSUME NEW kind \in Kinds, NEW t \in Nat
  PROVE  NewJob(kind, t) \in JobRow(Workers)
  BY DEF NewJob, JobRow

\* Setting the state keeps the rest of the row, so it stays a row.
LEMMA SetStateType ==
  ASSUME NEW row \in JobRow(Workers), NEW kind \in Kinds, NEW t \in Nat
  PROVE  /\ SetState(row, kind, t) \in JobRow(Workers)
         /\ SetState(row, kind, t).kind = kind
         /\ SetState(row, kind, t).attempt = row.attempt
  BY DEF SetState, JobRow

\* Time passing keeps a row a row, of the same kind, worker and attempt.
LEMMA AgedType ==
  ASSUME NEW row \in JobRow(Workers)
  PROVE  /\ Aged(row, Limit) \in JobRow(Workers)
         /\ Aged(row, Limit).kind = row.kind
         /\ Aged(row, Limit).worker = row.worker
         /\ Aged(row, Limit).attempt = row.attempt
         /\ row.kind = "Processing" =>
               Aged(row, Limit).timer = Inc(row.timer, Limit)
  <1>1. row.timer \in Nat /\ row.expires \in Nat \cup {NoExpiry}
    BY DEF JobRow
  <1>2. Dec(row.timer) \in Nat /\ Inc(row.timer, Limit) \in Nat
    BY <1>1, PostgresAssumption DEF Dec, Inc, Limit
  <1>3. Dec(row.expires) \in Nat \cup {NoExpiry}
    BY <1>1 DEF Dec, NoExpiry
  <1>4. QED
    BY <1>2, <1>3 DEF Aged, JobRow

\* Counting the attempt keeps a row a row (process_job).
LEMMA CountAttemptType ==
  ASSUME NEW row \in JobRow(Workers)
  PROVE  CountAttempt(row) \in JobRow(Workers)
  BY ProcessorAssumption DEF CountAttempt, JobRow

\* Failing a job permanently writes a Failed row.
LEMMA FailType ==
  ASSUME NEW row \in JobRow(Workers)
  PROVE  /\ FailJobPermanently(row) \in JobRow(Workers)
         /\ FailJobPermanently(row).kind = "Failed"
  <1>1. SetState(row, "Failed", 0) \in JobRow(Workers)
    BY SetStateType DEF Kinds
  <1>2. QED
    BY <1>1, ProcessorAssumption DEF FailJobPermanently, JobRow, SetState

\* A retry ends in AwaitingRetry or, with the attempts used up, in Failed.
LEMMA RetryType ==
  ASSUME NEW row \in JobRow(Workers), NEW j \in Jobs, NEW d \in RetryDelays
  PROVE  /\ HandleJobRetry(j, row, d) \in JobRow(Workers)
         /\ HandleJobRetry(j, row, d).kind \in {"AwaitingRetry", "Failed"}
  <1>1. d \in Nat
    BY ProcessorAssumption
  <1>2. /\ SetState(row, "AwaitingRetry", d) \in JobRow(Workers)
        /\ SetState(row, "AwaitingRetry", d).kind = "AwaitingRetry"
    BY <1>1, SetStateType DEF Kinds
  <1>3. CASE ShouldRetryAttempt(j, row, NoException)
    BY <1>2, <1>3 DEF HandleJobRetry
  <1>4. CASE ~ShouldRetryAttempt(j, row, NoException)
    BY <1>4, FailType DEF HandleJobRetry
  <1>5. QED
    BY <1>3, <1>4

\* Whatever the outcome of an attempt, process_job writes a row of one of the
\* three kinds an attempt can end in.
LEMMA ProcessJobType ==
  ASSUME NEW row \in JobRow(Workers), NEW j \in Jobs,
         NEW o \in Outcomes, NEW d \in RetryDelays
  PROVE  /\ ProcessJob(j, row, o, d) \in JobRow(Workers)
         /\ ProcessJob(j, row, o, d).kind \in {"Succeeded", "Failed", "AwaitingRetry"}
  <1>1. SetState(row, "Succeeded", 0) \in JobRow(Workers)
    BY SetStateType DEF Kinds
  <1>2. /\ CompleteJobSuccessfully(row) \in JobRow(Workers)
        /\ CompleteJobSuccessfully(row).kind = "Succeeded"
    BY <1>1, ProcessorAssumption DEF CompleteJobSuccessfully, JobRow, SetState
  <1>3. ASSUME NEW e
        PROVE  /\ HandleError(j, row, e, d) \in JobRow(Workers)
               /\ HandleError(j, row, e, d).kind \in {"AwaitingRetry", "Failed"}
    BY FailType, RetryType DEF HandleError
  <1>4. QED
    BY <1>2, <1>3, FailType, RetryType DEF ProcessJob

(***************************************************************************)
(* Type correctness.                                                       *)
(***************************************************************************)

SlotSet == [pc: {"off", "idle", "run"}, id: Jobs \cup {NoId},
            row: JobRow(Workers), elapsed: Nat]
LockSet == [owner: Workers \cup LockClients \cup {NoWorker}, ttl: Nat]

\* An idle or finished slot is well typed.
LEMMA SlotType == Slot("off") \in SlotSet /\ Slot("idle") \in SlotSet
  BY NoRowType DEF Slot, SlotSet

\* The initial state is well typed.
LEMMA InitType == Init => TypeOK
  BY NoRowType, SlotType DEF Init, TypeOK, Unlocked, NoRequest, SlotSet

\* The row a claim writes is the worker's Processing row of age 0.
LEMMA ClaimedRow ==
  ASSUME NEW row \in JobRow(Workers), NEW w \in Workers
  PROVE  LET new == [row EXCEPT !.kind = "Processing", !.timer = 0, !.worker = w]
         IN  /\ new \in JobRow(Workers)
             /\ new.kind = "Processing" /\ new.timer = 0 /\ new.worker = w
  BY DEF JobRow, Kinds

\* Every statement, crash and tick keeps the state well typed.
LEMMA NextType == TypeOK /\ [Next]_vars => TypeOK'
  <1> SUFFICES ASSUME TypeOK, [Next]_vars PROVE TypeOK'
    OBVIOUS
  <1>a. \A j \in Jobs : SetState(jobs[j], "Enqueued", 0) \in JobRow(Workers)
    BY SetStateType DEF TypeOK, Kinds
  <1>1. ASSUME NEW j \in Jobs, Enqueue(j) PROVE TypeOK'
    <2>1. NewJob("Enqueued", 0) \in JobRow(Workers)
      BY NewJobType DEF Kinds
    <2>2. \A t \in StartDelays : NewJob("Scheduled", t) \in JobRow(Workers)
      BY NewJobType, PostgresAssumption DEF Kinds
    <2>3. jobs' \in [Jobs -> JobRow(Workers)]
      BY <1>1, <2>1, <2>2 DEF Enqueue, TypeOK
    <2>4. QED
      BY <1>1, <2>3 DEF Enqueue, TypeOK
  <1>2. ASSUME NEW j \in Jobs, DeleteJob(j) PROVE TypeOK'
    BY <1>2, NoRowType DEF DeleteJob, TypeOK, Unlocked
  <1>3. ASSUME NEW c \in LockClients, NEW j \in Jobs, TryAcquireJobLock(c, j) PROVE TypeOK'
    BY <1>3, PostgresAssumption DEF TryAcquireJobLock, TypeOK
  <1>4. ASSUME NEW c \in LockClients, NEW j \in Jobs, ReleaseJobLock(c, j) PROVE TypeOK'
    BY <1>4 DEF ReleaseJobLock, TypeOK, Unlocked
  <1>5. ASSUME NEW d \in Dashboards, NEW j \in Jobs, RetryJobRead(d, j) PROVE TypeOK'
    BY <1>5, <1>a DEF RetryJobRead, TypeOK
  <1>6. ASSUME NEW d \in Dashboards, RetryJobWrite(d) PROVE TypeOK'
    <2>1. dash[d].id \in Jobs /\ dash[d].row \in JobRow(Workers)
      BY <1>6 DEF RetryJobWrite, TypeOK
    <2>2. jobs' \in [Jobs -> JobRow(Workers)]
      BY <1>6, <2>1 DEF RetryJobWrite, UpdateIfState, TypeOK
    <2>3. manual' \in [Jobs -> Nat]
      BY <1>6, <2>1 DEF RetryJobWrite, TypeOK
    <2>4. QED
      BY <1>6, <2>2, <2>3, NoRowType DEF RetryJobWrite, TypeOK, NoRequest
  <1>7. ASSUME NEW s \in Servers, Start(s) PROVE TypeOK'
    <2>1. jobs' \in [Jobs -> JobRow(Workers)]
      BY <1>7, <1>a DEF Start, TypeOK
    <2>2. lock' \in [Jobs -> LockSet]
      BY <1>7 DEF Start, TypeOK, Unlocked, LockSet
    <2>3. wk' \in [Workers -> SlotSet]
      BY <1>7, SlotType DEF Start, TypeOK, SlotSet
    <2>4. QED
      BY <1>7, <2>1, <2>2, <2>3 DEF Start, TypeOK, LockSet, SlotSet
  <1>8. ASSUME NEW s \in Servers, Crash(s) PROVE TypeOK'
    <2>1. wk' \in [Workers -> SlotSet]
      BY <1>8, SlotType DEF Crash, TypeOK, SlotSet
    <2>2. QED
      BY <1>8, <2>1 DEF Crash, TypeOK, SlotSet
  <1>9. ASSUME NEW w \in Workers, NEW j \in Jobs, Fetch(w, j) PROVE TypeOK'
    <2> DEFINE row == [jobs[j] EXCEPT !.kind = "Processing", !.timer = 0, !.worker = w]
    <2>1. row \in JobRow(Workers)
      BY ClaimedRow DEF TypeOK
    <2>2. CountAttempt(row) \in JobRow(Workers)
      BY <2>1, CountAttemptType
    <2> HIDE DEF row
    <2>3. jobs' \in [Jobs -> JobRow(Workers)]
      BY <1>9, <2>1 DEF Fetch, TypeOK, row
    <2>4. wk' = [wk EXCEPT ![w] = [pc |-> "run", id |-> j,
                                   row |-> CountAttempt(row), elapsed |-> 0]]
      BY <1>9 DEF Fetch, row
    <2>5. QED
      BY <1>9, <2>2, <2>3, <2>4 DEF Fetch, TypeOK
  <1>10. ASSUME NEW w \in Workers, NEW o \in Outcomes, NEW d \in RetryDelays,
                Finish(w, o, d)
         PROVE TypeOK'
    <2>1. jobs' \in [Jobs -> JobRow(Workers)]
      <3>1. CASE wk[w].id \in Jobs
        <4>1. ProcessJob(wk[w].id, wk[w].row, o, d) \in JobRow(Workers)
          BY <3>1, ProcessJobType DEF TypeOK
        <4>2. QED
          BY <1>10, <3>1, <4>1 DEF Finish, Update, TypeOK
      <3>2. CASE wk[w].id \notin Jobs
        BY <1>10, <3>2 DEF Finish, Update, TypeOK
      <3>3. QED
        BY <3>1, <3>2
    <2>2. QED
      BY <1>10, <2>1, SlotType DEF Finish, TypeOK, SlotSet
  <1>11. ASSUME NEW w \in Workers, UpdateFails(w) PROVE TypeOK'
    BY <1>11, SlotType DEF UpdateFails, TypeOK, SlotSet
  <1>12. ASSUME NEW kind \in {"Scheduled", "AwaitingRetry"}, ClaimDue(kind) PROVE TypeOK'
    <2>1. jobs' \in [Jobs -> JobRow(Workers)]
      BY <1>12, <1>a DEF ClaimDue, TypeOK
    <2>2. QED
      BY <1>12, <2>1 DEF ClaimDue, TypeOK
  <1>13. ASSUME DeleteExpiredJobs PROVE TypeOK'
    BY <1>13, NoRowType DEF DeleteExpiredJobs, TypeOK, Unlocked
  <1>14. ASSUME Tick PROVE TypeOK'
    <2>1. \A row \in JobRow(Workers) : Aged(row, Limit) \in JobRow(Workers)
      BY AgedType
    <2>2. jobs' \in [Jobs -> JobRow(Workers)]
      BY <1>14, <2>1 DEF Tick, TypeOK, Limit
    <2>3. lock' \in [Jobs -> LockSet]
      <3>1. ASSUME NEW j \in Jobs
            PROVE  [lock[j] EXCEPT !.ttl = Dec(@)] \in LockSet
        <4>1. lock[j] \in LockSet
          BY DEF TypeOK, LockSet
        <4>2. QED
          BY <4>1 DEF Dec, LockSet
      <3>2. QED
        BY <1>14, <3>1 DEF Tick
    <2>4. wk' \in [Workers -> SlotSet]
      <3>1. ASSUME NEW w \in Workers
            PROVE  /\ wk[w] \in SlotSet
                   /\ [wk[w] EXCEPT !.elapsed = @ + 1, !.row = Aged(@, Limit)] \in SlotSet
        <4>1. wk[w] \in SlotSet
          BY DEF TypeOK, SlotSet
        <4>2. Aged(wk[w].row, Limit) \in JobRow(Workers) /\ wk[w].elapsed + 1 \in Nat
          BY <2>1, <4>1 DEF SlotSet
        <4>3. QED
          BY <4>1, <4>2 DEF SlotSet
      <3>2. QED
        BY <1>14, <3>1 DEF Tick, Limit
    <2>5. dash' \in [Dashboards -> [id: Jobs \cup {NoId}, row: JobRow(Workers)]]
      BY <1>14, <2>1 DEF Tick, TypeOK, Limit
    <2>6. QED
      BY <1>14, <2>2, <2>3, <2>4, <2>5 DEF Tick, TypeOK, LockSet, SlotSet
  <1>15. CASE UNCHANGED vars
    BY <1>15 DEF vars, TypeOK
  <1>16. QED
    BY <1>1, <1>2, <1>3, <1>4, <1>5, <1>6, <1>7, <1>8, <1>9, <1>10, <1>11, <1>12,
       <1>13, <1>14, <1>15 DEF Next, FinishSome

\* The table, the workers and the dashboard requests keep their shape under
\* every statement, crash and tick.
THEOREM TypeCorrect == Spec => []TypeOK
  BY InitType, NextType, PTL DEF Spec

(***************************************************************************)
(* Claims.  ClaimInv is inductive because the row of a running job is out  *)
(* of reach: it is not fetchable, not due, not Failed and, being no older  *)
(* than its attempt, not stale on any host's clock; and an id is inserted  *)
(* only once.                                                              *)
(***************************************************************************)

\* A running attempt is within its time and as old as its claim; its job was
\* enqueued once.
RunnerInTime ==
    \A w \in Workers : Running(w) =>
        /\ wk[w].id \in created
        /\ wk[w].elapsed <= JobTimeout + MaxLag
        /\ Present(jobs[wk[w].id]) => jobs[wk[w].id].timer = wk[w].elapsed

\* Only ids handed to enqueue have a row.
StoredWasCreated == \A j \in Jobs : Present(jobs[j]) => j \in created

\* What a dashboard request is about to write is an Enqueued row.
RetryWritesEnqueued ==
    \A d \in Dashboards : dash[d].id # NoId => dash[d].row.kind = "Enqueued"

ClaimInv ==
    /\ TypeOK /\ RunnerInTime /\ StoredWasCreated /\ RetryWritesEnqueued
    /\ RunnerOwnsRow /\ NoDoubleExecution

\* The kinds of the rows the statements write.
LEMMA RowKinds ==
  /\ ~Present(NoRow)
  /\ \A row \in JobRow(Workers) :
        /\ SetState(row, "Enqueued", 0).kind = "Enqueued"
        /\ Present(Aged(row, Limit)) <=> Present(row)
  <1>1. ~Present(NoRow)
    BY DEF Present, NoRow
  <1>2. ASSUME NEW row \in JobRow(Workers)
        PROVE  /\ SetState(row, "Enqueued", 0).kind = "Enqueued"
               /\ Present(Aged(row, Limit)) <=> Present(row)
    BY SetStateType, AgedType DEF Kinds, Present
  <1>3. QED
    BY <1>1, <1>2

\* A running worker's job is a job.
LEMMA RunnerJob ==
  ASSUME ClaimInv, NEW w \in Workers, Running(w)
  PROVE  wk[w].id \in Jobs
  BY DEF ClaimInv, TypeOK, RunnerInTime

\* No host's clock makes the row of a running job stale.
LEMMA RunnerNotStale ==
  ASSUME StaleOutlastsAttempt, ClaimInv, NEW w \in Workers, Running(w), NEW s \in Servers
  PROVE  ~Stale(jobs[wk[w].id], s)
  <1> SUFFICES ASSUME Present(jobs[wk[w].id]) PROVE ~Stale(jobs[wk[w].id], s)
    BY DEF Stale, Present
  <1>1. /\ jobs[wk[w].id].worker = w
        /\ jobs[wk[w].id].timer = wk[w].elapsed
        /\ wk[w].elapsed <= JobTimeout + MaxLag
    BY DEF ClaimInv, RunnerOwnsRow, RunnerInTime
  <1>2. wk[w].elapsed \in Nat /\ Home[w] \in Servers
    BY PostgresAssumption DEF ClaimInv, TypeOK
  <1>3. Ahead[s] \in Int /\ Ahead[Home[w]] \in Int /\ Ahead[s] - Ahead[Home[w]] <= MaxSkew
    BY <1>2, PostgresAssumption
  <1>4. QED
    BY <1>1, <1>2, <1>3, PostgresAssumption DEF Stale, StaleOutlastsAttempt

\* A step after which some workers no longer run anything and which changes
\* only rows that no worker is running, without adding or reviving any.
LEMMA ClaimShrinks ==
  ASSUME ClaimInv, TypeOK', created' = created, RetryWritesEnqueued',
         \A w \in Workers : Running(w)' => Running(w) /\ wk'[w] = wk[w],
         \A j \in Jobs : Present(jobs'[j]) => Present(jobs[j]),
         \A w \in Workers : Running(w)' =>
             jobs'[wk[w].id] = jobs[wk[w].id] \/ ~Present(jobs'[wk[w].id])
  PROVE  ClaimInv'
  <1>1. RunnerInTime' /\ StoredWasCreated' /\ NoDoubleExecution'
    BY DEF ClaimInv, RunnerInTime, StoredWasCreated, NoDoubleExecution
  <1>2. RunnerOwnsRow'
    <2> SUFFICES ASSUME NEW w \in Workers, Running(w)', Present(jobs'[wk'[w].id])
                 PROVE  /\ jobs'[wk'[w].id].kind = "Processing"
                        /\ jobs'[wk'[w].id].worker = w
      BY DEF RunnerOwnsRow
    <2>1. Running(w) /\ wk'[w] = wk[w] /\ jobs'[wk[w].id] = jobs[wk[w].id]
      OBVIOUS
    <2>2. QED
      BY <2>1 DEF ClaimInv, RunnerOwnsRow
  <1>3. QED
    BY <1>1, <1>2 DEF ClaimInv

\* Nothing runs and nothing is stored at first.
LEMMA ClaimInit == Init => ClaimInv
  <1> SUFFICES ASSUME Init PROVE ClaimInv
    OBVIOUS
  <1>1. \A w \in Workers : ~Running(w)
    BY DEF Init, Running, Slot
  <1>2. \A j \in Jobs : ~Present(jobs[j])
    BY RowKinds DEF Init
  <1>3. \A d \in Dashboards : dash[d].id = NoId
    BY DEF Init, NoRequest
  <1>4. QED
    BY <1>1, <1>2, <1>3, InitType DEF ClaimInv, RunnerInTime, StoredWasCreated,
       RetryWritesEnqueued, RunnerOwnsRow, NoDoubleExecution

\* No statement, crash, failed write or tick breaks the claims.
LEMMA ClaimNext ==
  ASSUME StaleOutlastsAttempt, ClaimInv, [Next]_vars
  PROVE  ClaimInv'
  <1> USE DEF Running
  <1>0. TypeOK /\ TypeOK'
    BY NextType DEF ClaimInv
  <1>d. ASSUME dash' = dash PROVE RetryWritesEnqueued'
    BY <1>d DEF ClaimInv, RetryWritesEnqueued
  <1>1. ASSUME NEW j \in Jobs, Enqueue(j) PROVE ClaimInv'
    <2>1. /\ wk' = wk /\ dash' = dash /\ j \notin created /\ created' = created \cup {j}
          /\ \A k \in Jobs \ {j} : jobs'[k] = jobs[k]
      BY <1>0, <1>1 DEF Enqueue, TypeOK
    <2>2. \A w \in Workers : Running(w) => wk[w].id # j /\ wk[w].id \in Jobs
      BY <2>1, RunnerJob DEF ClaimInv, RunnerInTime
    <2>3. RunnerInTime' /\ StoredWasCreated'
      BY <2>1, <2>2 DEF ClaimInv, RunnerInTime, StoredWasCreated
    <2>4. RunnerOwnsRow' /\ NoDoubleExecution'
      BY <2>1, <2>2 DEF ClaimInv, RunnerOwnsRow, NoDoubleExecution
    <2>5. QED
      BY <1>0, <1>d, <2>1, <2>3, <2>4 DEF ClaimInv
  <1>2. ASSUME NEW j \in Jobs, DeleteJob(j) PROVE ClaimInv'
    <2>1. \A k \in Jobs : jobs'[k] = jobs[k] \/ ~Present(jobs'[k])
      BY <1>0, <1>2, RowKinds DEF DeleteJob, TypeOK
    <2>2. QED
      BY <1>0, <1>2, <1>d, <2>1, ClaimShrinks, RunnerJob DEF DeleteJob
  <1>3. ASSUME UNCHANGED <<jobs, created, wk>>, RetryWritesEnqueued' PROVE ClaimInv'
    BY <1>0, <1>3, ClaimShrinks
  <1>4. ASSUME NEW d \in Dashboards, NEW j \in Jobs, RetryJobRead(d, j) PROVE ClaimInv'
    <2>1. SetState(jobs[j], "Enqueued", 0).kind = "Enqueued"
      BY <1>0, RowKinds DEF TypeOK
    <2>2. RetryWritesEnqueued'
      BY <1>0, <1>4, <2>1 DEF RetryJobRead, TypeOK, ClaimInv, RetryWritesEnqueued
    <2>3. QED
      BY <1>3, <1>4, <2>2 DEF RetryJobRead
  <1>5. ASSUME NEW d \in Dashboards, RetryJobWrite(d) PROVE ClaimInv'
    <2> DEFINE j == dash[d].id
    <2>1. j \in Jobs
      BY <1>0, <1>5 DEF RetryJobWrite, TypeOK
    <2>2. \A k \in Jobs : jobs'[k] # jobs[k] => k = j /\ jobs[k].kind = "Failed"
      BY <1>0, <1>5, <2>1 DEF RetryJobWrite, UpdateIfState, TypeOK
    <2>3. \A k \in Jobs : Present(jobs'[k]) => Present(jobs[k])
      BY <2>2 DEF Present
    <2>4. \A w \in Workers : Running(w) => jobs'[wk[w].id] = jobs[wk[w].id]
      BY <2>2, RunnerJob DEF ClaimInv, RunnerOwnsRow, Present
    <2>5. RetryWritesEnqueued'
      BY <1>0, <1>5 DEF RetryJobWrite, NoRequest, TypeOK, ClaimInv, RetryWritesEnqueued
    <2>6. QED
      BY <1>0, <1>5, <2>3, <2>4, <2>5, ClaimShrinks DEF RetryJobWrite
  <1>6. ASSUME NEW s \in Servers, Start(s) PROVE ClaimInv'
    <2>1. \A k \in Jobs : jobs'[k] # jobs[k] => Stale(jobs[k], s)
      BY <1>6 DEF Start
    <2>2. \A k \in Jobs : Present(jobs'[k]) => Present(jobs[k])
      BY <2>1 DEF Present, Stale
    <2>3. \A w \in Workers : Running(w) => jobs'[wk[w].id] = jobs[wk[w].id]
      BY <2>1, RunnerJob, RunnerNotStale
    <2>4. \A w \in Workers : Running(w)' => Running(w) /\ wk'[w] = wk[w]
      BY <1>6 DEF Start, Slot
    <2>5. QED
      BY <1>0, <1>6, <1>d, <2>2, <2>3, <2>4, ClaimShrinks DEF Start
  <1>7. ASSUME NEW s \in Servers, Crash(s) PROVE ClaimInv'
    <2>1. \A w \in Workers : Running(w)' => Running(w) /\ wk'[w] = wk[w]
      BY <1>7 DEF Crash, Slot
    <2>2. QED
      BY <1>0, <1>7, <1>d, <2>1, ClaimShrinks DEF Crash
  <1>8. ASSUME NEW w \in Workers, NEW j \in Jobs, Fetch(w, j) PROVE ClaimInv'
    <2>1. Present(jobs[j]) /\ jobs[j].kind # "Processing"
      BY <1>8 DEF Fetch, FirstFetchable, Fetchable, Present
    <2>2. /\ created' = created /\ dash' = dash
          /\ \A k \in Jobs \ {j} : jobs'[k] = jobs[k]
          /\ jobs'[j].kind = "Processing" /\ jobs'[j].worker = w /\ jobs'[j].timer = 0
      <3>1. jobs[j] \in JobRow(Workers)
        BY <1>0 DEF TypeOK
      <3>2. jobs' = [jobs EXCEPT ![j] = [jobs[j] EXCEPT !.kind = "Processing",
                                                       !.timer = 0, !.worker = w]]
        BY <1>8 DEF Fetch
      <3>3. QED
        BY <1>0, <1>8, <3>1, <3>2 DEF Fetch, TypeOK, JobRow
    <2>3. /\ wk'[w].pc = "run" /\ wk'[w].id = j /\ wk'[w].elapsed = 0
          /\ \A v \in Workers \ {w} : wk'[v] = wk[v]
      BY <1>0, <1>8 DEF Fetch, TypeOK
    <2>4. \A v \in Workers : Running(v) => wk[v].id # j /\ wk[v].id \in Jobs
      BY <2>1, RunnerJob DEF ClaimInv, RunnerOwnsRow
    <2>5. StoredWasCreated' /\ j \in created
      BY <2>1, <2>2 DEF ClaimInv, StoredWasCreated
    <2>6. RunnerInTime'
      BY <2>2, <2>3, <2>4, <2>5, PostgresAssumption DEF ClaimInv, RunnerInTime
    <2>7. RunnerOwnsRow' /\ NoDoubleExecution'
      BY <2>2, <2>3, <2>4 DEF ClaimInv, RunnerOwnsRow, NoDoubleExecution
    <2>8. QED
      BY <1>0, <1>d, <2>2, <2>5, <2>6, <2>7 DEF ClaimInv
  <1>9. ASSUME NEW w \in Workers, NEW o \in Outcomes, NEW d \in RetryDelays, Finish(w, o, d)
        PROVE ClaimInv'
    <2>1. wk[w].id \in Jobs
      BY <1>9, RunnerJob DEF Finish
    <2>2. \A k \in Jobs : jobs'[k] # jobs[k] => k = wk[w].id /\ Present(jobs[k])
      BY <1>0, <1>9, <2>1 DEF Finish, Update, TypeOK
    <2>3. \A v \in Workers : Running(v)' => Running(v) /\ wk'[v] = wk[v] /\ v # w
      BY <1>0, <1>9 DEF Finish, Slot, TypeOK
    <2>4. \A v \in Workers : Running(v) /\ v # w => jobs'[wk[v].id] = jobs[wk[v].id]
      BY <1>9, <2>2, RunnerJob DEF Finish, ClaimInv, NoDoubleExecution
    <2>5. \A k \in Jobs : Present(jobs'[k]) => Present(jobs[k])
      BY <2>2
    <2>6. QED
      BY <1>0, <1>9, <1>d, <2>3, <2>4, <2>5, ClaimShrinks DEF Finish
  <1>10. ASSUME NEW w \in Workers, UpdateFails(w) PROVE ClaimInv'
    <2>1. \A v \in Workers : Running(v)' => Running(v) /\ wk'[v] = wk[v]
      BY <1>0, <1>10 DEF UpdateFails, Slot, TypeOK
    <2>2. QED
      BY <1>0, <1>10, <1>d, <2>1, ClaimShrinks DEF UpdateFails
  <1>11. ASSUME NEW kind \in {"Scheduled", "AwaitingRetry"}, ClaimDue(kind) PROVE ClaimInv'
    <2>1. \A k \in Jobs : jobs'[k] # jobs[k] => jobs[k].kind = kind
      BY <1>11 DEF ClaimDue, DueBatches
    <2>2. \A k \in Jobs : Present(jobs'[k]) => Present(jobs[k])
      BY <2>1 DEF Present
    <2>3. \A w \in Workers : Running(w) => jobs'[wk[w].id] = jobs[wk[w].id]
      BY <2>1, RunnerJob DEF ClaimInv, RunnerOwnsRow, Present
    <2>4. QED
      BY <1>0, <1>11, <1>d, <2>2, <2>3, ClaimShrinks DEF ClaimDue
  <1>12. ASSUME DeleteExpiredJobs PROVE ClaimInv'
    <2>1. \A k \in Jobs : jobs'[k] = jobs[k] \/ ~Present(jobs'[k])
      BY <1>12, RowKinds DEF DeleteExpiredJobs
    <2>2. QED
      BY <1>0, <1>12, <1>d, <2>1, ClaimShrinks, RunnerJob DEF DeleteExpiredJobs
  <1>13. ASSUME Tick PROVE ClaimInv'
    <2>1. ASSUME NEW k \in Jobs
          PROVE  /\ jobs'[k].kind = jobs[k].kind /\ jobs'[k].worker = jobs[k].worker
                 /\ Present(jobs'[k]) <=> Present(jobs[k])
                 /\ jobs[k].kind = "Processing" => jobs'[k].timer = Inc(jobs[k].timer, Limit)
      <3>1. jobs'[k] = Aged(jobs[k], Limit) /\ jobs[k] \in JobRow(Workers)
        BY <1>0, <1>13 DEF Tick, TypeOK, Limit
      <3>2. QED
        BY <3>1, AgedType, RowKinds
    <2>2. ASSUME NEW w \in Workers, Running(w)'
          PROVE  /\ Running(w) /\ wk'[w].id = wk[w].id /\ wk[w].id \in Jobs
                 /\ wk'[w].elapsed = wk[w].elapsed + 1 /\ wk[w].elapsed \in Nat
                 /\ wk[w].elapsed < JobTimeout + MaxLag
      <3>1. wk[w] \in SlotSet
        BY <1>0 DEF TypeOK, SlotSet
      <3>2. Running(w)
        BY <1>13, <2>2 DEF Tick
      <3>3. wk'[w] = [wk[w] EXCEPT !.elapsed = @ + 1, !.row = Aged(@, Limit)]
        BY <1>13, <3>2 DEF Tick, Limit
      <3>4. QED
        BY <1>13, <3>1, <3>2, <3>3, RunnerJob DEF Tick, SlotSet
    <2>3. StoredWasCreated'
      BY <1>13, <2>1 DEF Tick, ClaimInv, StoredWasCreated
    <2>4. RunnerOwnsRow' /\ NoDoubleExecution'
      BY <2>1, <2>2 DEF ClaimInv, RunnerOwnsRow, NoDoubleExecution
    <2>5. RunnerInTime'
      <3> SUFFICES ASSUME NEW w \in Workers, Running(w)'
                   PROVE  /\ wk'[w].id \in created'
                          /\ wk'[w].elapsed <= JobTimeout + MaxLag
                          /\ Present(jobs'[wk'[w].id]) => jobs'[wk'[w].id].timer = wk'[w].elapsed
        BY DEF RunnerInTime
      <3>1. wk[w].id \in created /\ created' = created
        BY <1>13, <2>2 DEF Tick, ClaimInv, RunnerInTime
      <3>2. wk'[w].elapsed <= JobTimeout + MaxLag
        BY <2>2, PostgresAssumption
      <3>3. ASSUME Present(jobs'[wk'[w].id]) PROVE jobs'[wk'[w].id].timer = wk'[w].elapsed
        <4>1. /\ jobs[wk[w].id].kind = "Processing"
              /\ jobs[wk[w].id].timer = wk[w].elapsed
          BY <2>1, <2>2, <3>3 DEF ClaimInv, RunnerOwnsRow, RunnerInTime
        <4>2. Inc(wk[w].elapsed, Limit) = wk[w].elapsed + 1
          BY <2>2, StaleOutlastsAttempt, PostgresAssumption DEF Inc, Limit, StaleOutlastsAttempt
        <4>3. QED
          BY <2>1, <2>2, <4>1, <4>2
      <3>4. QED
        BY <2>2, <3>1, <3>2, <3>3
    <2>6. RetryWritesEnqueued'
      <3> SUFFICES ASSUME NEW d \in Dashboards, dash'[d].id # NoId
                   PROVE  dash'[d].row.kind = "Enqueued"
        BY DEF RetryWritesEnqueued
      <3>1. dash[d] \in [id: Jobs \cup {NoId}, row: JobRow(Workers)]
        BY <1>0 DEF TypeOK
      <3>2. dash'[d] = [dash[d] EXCEPT !.row = Aged(@, Limit)]
        BY <1>13 DEF Tick, Limit
      <3>3. dash'[d].id = dash[d].id /\ dash'[d].row = Aged(dash[d].row, Limit)
        BY <3>1, <3>2
      <3>4. dash[d].row.kind = "Enqueued" /\ dash[d].row \in JobRow(Workers)
        BY <3>1, <3>3 DEF ClaimInv, RetryWritesEnqueued
      <3>5. QED
        BY <3>3, <3>4, AgedType
    <2>7. QED
      BY <1>0, <2>3, <2>4, <2>5, <2>6 DEF ClaimInv
  <1>14. QED
    BY <1>1, <1>2, <1>3, <1>4, <1>5, <1>6, <1>7, <1>8, <1>9, <1>10, <1>11, <1>12, <1>13, <1>d
       DEF Next, FinishSome, vars, TryAcquireJobLock, ReleaseJobLock

\* With stale_processing_after above what an attempt can take and the clocks
\* can differ, no two workers of any hosts run a job at the same time, through
\* crashes, failed writes and restarts.
THEOREM NoJobRunsTwice ==
  ASSUME StaleOutlastsAttempt
  PROVE  Spec => []NoDoubleExecution
  <1>1. ClaimInv /\ [Next]_vars => ClaimInv'
    BY ClaimNext
  <1>2. ClaimInv => NoDoubleExecution
    BY DEF ClaimInv
  <1>3. QED
    BY <1>1, <1>2, ClaimInit, PTL DEF Spec

\* Under the same condition the row of a running job is its runner's claim, so
\* the unconditional UPDATE that ends the attempt overwrites nothing newer.
THEOREM ResultReplacesOwnClaim ==
  ASSUME StaleOutlastsAttempt
  PROVE  Spec => []RunnerOwnsRow
  <1>1. ClaimInv /\ [Next]_vars => ClaimInv'
    BY ClaimNext
  <1>2. ClaimInv => RunnerOwnsRow
    BY DEF ClaimInv
  <1>3. QED
    BY <1>1, <1>2, ClaimInit, PTL DEF Spec

(***************************************************************************)
(* Failed rows.                                                            *)
(***************************************************************************)

\* A step that takes a row out of Failed deletes it or is the one retry that
\* is counted.
LEMMA FailedStep ==
  ASSUME ClaimInv, [Next]_vars, NEW j \in Jobs,
         jobs[j].kind = "Failed", jobs'[j].kind \notin {"Failed", "None"}
  PROVE  jobs'[j].kind = "Enqueued" /\ manual'[j] = manual[j] + 1
  <1>0. TypeOK /\ Present(jobs[j]) /\ j \in created
    BY DEF ClaimInv, Present, StoredWasCreated
  <1>1. ASSUME NEW d \in Dashboards, RetryJobWrite(d)
        PROVE  jobs'[j].kind = "Enqueued" /\ manual'[j] = manual[j] + 1
    <2>1. dash[d].id \in Jobs /\ dash[d].row.kind = "Enqueued"
      BY <1>0, <1>1 DEF RetryJobWrite, TypeOK, ClaimInv, RetryWritesEnqueued
    <2>2. j = dash[d].id
      BY <1>0, <1>1, <2>1 DEF RetryJobWrite, UpdateIfState, TypeOK
    <2>3. jobs'[j] = dash[d].row /\ manual'[j] = manual[j] + 1
      BY <1>0, <1>1, <2>1, <2>2 DEF RetryJobWrite, UpdateIfState, TypeOK
    <2>4. QED
      BY <2>1, <2>3
  <1>2. ASSUME NEW k \in Jobs, Enqueue(k) PROVE FALSE
    BY <1>0, <1>2 DEF Enqueue, TypeOK
  <1>3. ASSUME NEW k \in Jobs, DeleteJob(k) PROVE FALSE
    BY <1>0, <1>3, RowKinds DEF DeleteJob, TypeOK, Present
  <1>4. ASSUME NEW s \in Servers, Start(s) PROVE FALSE
    BY <1>4 DEF Start, Stale
  <1>5. ASSUME NEW w \in Workers, NEW k \in Jobs, Fetch(w, k) PROVE FALSE
    <2>1. k # j
      BY <1>5 DEF Fetch, FirstFetchable, Fetchable
    <2>2. jobs'[j] = jobs[j]
      BY <1>0, <1>5, <2>1 DEF Fetch, TypeOK
    <2>3. QED
      BY <2>2
  <1>6. ASSUME NEW w \in Workers, NEW o \in Outcomes, NEW d \in RetryDelays, Finish(w, o, d)
        PROVE  FALSE
    <2>1. wk[w].id \in Jobs /\ wk[w].id # j
      BY <1>0, <1>6, RunnerJob DEF Finish, ClaimInv, RunnerOwnsRow
    <2>2. jobs'[j] = jobs[j]
      BY <1>0, <1>6, <2>1 DEF Finish, Update, TypeOK
    <2>3. QED
      BY <2>2
  <1>7. ASSUME NEW kind \in {"Scheduled", "AwaitingRetry"}, ClaimDue(kind) PROVE FALSE
    BY <1>7 DEF ClaimDue, DueBatches
  <1>8. ASSUME DeleteExpiredJobs PROVE FALSE
    BY <1>8, RowKinds DEF DeleteExpiredJobs, Present
  <1>9. ASSUME Tick PROVE FALSE
    <2>1. jobs'[j] = Aged(jobs[j], Limit) /\ jobs[j] \in JobRow(Workers)
      BY <1>0, <1>9 DEF Tick, TypeOK, Limit
    <2>2. QED
      BY <2>1, AgedType
  <1>10. ASSUME jobs' = jobs PROVE FALSE
    BY <1>10
  <1>11. QED
    BY <1>1, <1>2, <1>3, <1>4, <1>5, <1>6, <1>7, <1>8, <1>9, <1>10
       DEF Next, FinishSome, vars, TryAcquireJobLock, ReleaseJobLock, RetryJobRead, Crash,
           UpdateFails

\* A Failed job comes back only by a dashboard retry, and of the requests that
\* race for it exactly one counts.
THEOREM FailedNeedsRetry ==
  ASSUME StaleOutlastsAttempt
  PROVE  Spec => FailedLeavesByRetry
  <1>1. ClaimInv /\ [Next]_vars => ClaimInv'
    BY ClaimNext
  <1>2. ClaimInv /\ [Next]_vars =>
          \A j \in Jobs :
             jobs[j].kind = "Failed" /\ jobs'[j].kind \notin {"Failed", "None"} =>
                 jobs'[j].kind = "Enqueued" /\ manual'[j] = manual[j] + 1
    BY FailedStep
  <1>3. QED
    BY <1>1, <1>2, ClaimInit, PTL DEF Spec, FailedLeavesByRetry

(***************************************************************************)
(* The refinement.  A step changes the promised status of a job only with  *)
(* the kind of its row, and its runners only with what a worker does.      *)
(***************************************************************************)

\* The workers of a server that is down are off.
DownOff == \A w \in Workers : wk[w].pc # "off" => Home[w] \in up

LEMMA DownOffInit == Init => DownOff
  BY DEF Init, DownOff, Slot

LEMMA DownOffNext ==
  ASSUME TypeOK, DownOff, [Next]_vars
  PROVE  DownOff'
  <1>1. CASE UNCHANGED <<up, wk>>
    BY <1>1 DEF DownOff
  <1>2. ASSUME NEW s \in Servers, Start(s) PROVE DownOff'
    <2>1. up' = up \cup {s}
      BY <1>2 DEF Start
    <2>2. ASSUME NEW w \in Workers, wk'[w].pc # "off" PROVE Home[w] \in up'
      BY <1>2, <2>1, <2>2 DEF Start, DownOff
    <2>3. QED
      BY <2>2 DEF DownOff
  <1>3. ASSUME NEW s \in Servers, Crash(s) PROVE DownOff'
    <2>1. up' = up \ {s}
      BY <1>3 DEF Crash
    <2>2. ASSUME NEW w \in Workers, wk'[w].pc # "off" PROVE Home[w] \in up'
      <3>1. wk'[w] = IF Home[w] = s THEN Slot("off") ELSE wk[w]
        BY <1>3 DEF Crash
      <3>2. Home[w] # s /\ wk'[w] = wk[w]
        BY <2>2, <3>1 DEF Slot
      <3>3. QED
        BY <2>1, <2>2, <3>2 DEF DownOff
    <2>3. QED
      BY <2>2 DEF DownOff
  <1>4. ASSUME NEW w \in Workers, NEW j \in Jobs, Fetch(w, j) PROVE DownOff'
    BY <1>4 DEF Fetch, DownOff, TypeOK
  <1>5. ASSUME NEW w \in Workers, NEW o \in Outcomes, NEW d \in RetryDelays, Finish(w, o, d)
        PROVE  DownOff'
    BY <1>5 DEF Finish, DownOff, Running, Slot, TypeOK
  <1>6. ASSUME NEW w \in Workers, UpdateFails(w) PROVE DownOff'
    BY <1>6 DEF UpdateFails, DownOff, Running, Slot, TypeOK
  <1>7. ASSUME Tick PROVE DownOff'
    BY <1>7 DEF Tick, DownOff, Running, TypeOK
  <1>8. QED
    BY <1>1, <1>2, <1>3, <1>4, <1>5, <1>6, <1>7
       DEF Next, FinishSome, vars, TryAcquireJobLock, ReleaseJobLock, RetryJobRead,
           RetryJobWrite, Enqueue, DeleteJob, ClaimDue, DeleteExpiredJobs

\* What the status of a job and its runners say.
LEMMA Mapped ==
  ASSUME NEW j \in Jobs
  PROVE  /\ jobs[j].kind \in {"Enqueued", "Scheduled", "AwaitingRetry"} => JobStatus(j) = "waiting"
         /\ jobs[j].kind = "Processing" => JobStatus(j) = "claimed"
         /\ jobs[j].kind = "Failed" => JobStatus(j) = "failed"
         /\ jobs[j].kind = "None" => JobStatus(j) = IF j \in created THEN "gone" ELSE "new"
         /\ jobs'[j].kind \in {"Enqueued", "Scheduled", "AwaitingRetry"} => JobStatus(j)' = "waiting"
         /\ jobs'[j].kind = "Processing" => JobStatus(j)' = "claimed"
         /\ jobs'[j].kind = "Succeeded" => JobStatus(j)' = "succeeded"
         /\ jobs'[j].kind = "Failed" => JobStatus(j)' = "failed"
         /\ jobs'[j].kind = "None" => JobStatus(j)' = IF j \in created' THEN "gone" ELSE "new"
  BY DEF JobStatus, StatusOf

\* Rows that keep their kind keep their status.
LEMMA StatusKept ==
  ASSUME NEW j \in Jobs, jobs'[j].kind = jobs[j].kind, created' = created
  PROVE  JobStatus(j)' = JobStatus(j)
  BY DEF JobStatus, StatusOf

\* Workers that go on with what they do stay the runners of their jobs.
LEMMA RunnersKept ==
  ASSUME \A w \in Workers :
             (Running(w)' <=> Running(w)) /\ (Running(w) => wk'[w].id = wk[w].id),
         NEW j \in Jobs
  PROVE  RunnersOf(j)' = RunnersOf(j)
  BY DEF RunnersOf

\* An id that was used is never new again.
LEMMA UsedIsNotNew ==
  ASSUME TypeOK, NEW j \in created
  PROVE  JobStatus(j) # "new"
  <1>1. j \in Jobs /\ jobs[j].kind \in Kinds \cup {"None"}
    BY DEF TypeOK, JobRow
  <1>2. QED
    BY <1>1 DEF Kinds, JobStatus, StatusOf

\* The jobs of J get a status, the others keep theirs.
LEMMA MovesTo ==
  ASSUME NEW J \in SUBSET Jobs, NEW s,
         \A j \in J : JobStatus(j)' = s,
         \A j \in Jobs \ J : jobs'[j].kind = jobs[j].kind,
         created' = created
  PROVE  Promise!Becomes(J, s)
  <1>1. \A j \in Jobs : JobStatus(j)' = IF j \in J THEN s ELSE JobStatus(j)
    BY StatusKept
  <1>2. QED
    BY <1>1 DEF Promise!Becomes

\* A step of the servers, clients and dashboards is a step of the abstract
\* queue or leaves it alone.
LEMMA StepRefines ==
  ASSUME StaleOutlastsAttempt, ClaimInv, DownOff, [Next]_vars
  PROVE  [Promise!Next]_<<[j \in Jobs |-> JobStatus(j)], [j \in Jobs |-> RunnersOf(j)]>>
  <1> DEFINE st == [j \in Jobs |-> JobStatus(j)]
             rn == [j \in Jobs |-> RunnersOf(j)]
  <1>0. TypeOK
    BY DEF ClaimInv
  <1>s. ASSUME created' = created, \A j \in Jobs : jobs'[j].kind = jobs[j].kind PROVE st' = st
    BY <1>s, StatusKept
  <1>r. ASSUME \A w \in Workers : (Running(w)' <=> Running(w)) /\ (Running(w) => wk'[w].id = wk[w].id)
        PROVE  rn' = rn
    BY <1>r, RunnersKept
  <1>w. wk' = wk => rn' = rn
    BY <1>r DEF Running
  <1>u. ASSUME UNCHANGED <<jobs, created, wk>> PROVE UNCHANGED <<st, rn>>
    BY <1>u, <1>s, <1>w
  <1>1. ASSUME NEW j \in Jobs, Enqueue(j) PROVE Promise!Next
    <2>1. JobStatus(j) = "new" /\ jobs[j].kind = "None"
      BY <1>1, Mapped DEF Enqueue, ClaimInv, StoredWasCreated, Present
    <2>2. PICK row \in {NewJob("Enqueued", 0)} \cup {NewJob("Scheduled", t) : t \in StartDelays} :
             jobs' = [jobs EXCEPT ![j] = row]
      BY <1>1 DEF Enqueue
    <2>3. row.kind \in {"Enqueued", "Scheduled"}
      BY <2>2 DEF NewJob
    <2>4. JobStatus(j)' = "waiting"
      BY <1>0, <2>2, <2>3, Mapped DEF TypeOK
    <2>5. \A k \in Jobs \ {j} : JobStatus(k)' = JobStatus(k)
      <3>1. ASSUME NEW k \in Jobs \ {j} PROVE JobStatus(k)' = JobStatus(k)
        <4>1. jobs'[k] = jobs[k] /\ (k \in created' <=> k \in created)
          BY <1>0, <1>1, <2>2 DEF Enqueue, TypeOK
        <4>2. QED
          BY <4>1 DEF JobStatus, StatusOf
      <3>2. QED
        BY <3>1
    <2>6. st' = [k \in Jobs |-> IF k \in {j} THEN "waiting" ELSE st[k]]
      BY <2>4, <2>5
    <2>7. Promise!Enqueue(j)
      BY <1>1, <1>w, <2>1, <2>6 DEF Promise!Enqueue, Promise!Becomes, Enqueue
    <2>8. QED
      BY <2>7 DEF Promise!Next
  <1>2. ASSUME NEW j \in Jobs, DeleteJob(j) PROVE Promise!Next
    <2>1. jobs'[j].kind = "None" /\ \A k \in Jobs \ {j} : jobs'[k] = jobs[k]
      BY <1>0, <1>2 DEF DeleteJob, NoRow, TypeOK
    <2>2. j \in created /\ created' = created /\ wk' = wk
      BY <1>2 DEF DeleteJob, ClaimInv, StoredWasCreated
    <2>3. JobStatus(j)' = "gone" /\ JobStatus(j) # "new"
      BY <1>0, <2>1, <2>2, Mapped, UsedIsNotNew
    <2>4. Promise!Becomes({j}, "gone")
      BY <2>1, <2>2, <2>3, MovesTo
    <2>5. Promise!Remove({j})
      BY <1>w, <2>2, <2>3, <2>4 DEF Promise!Remove
    <2>6. QED
      BY <2>5 DEF Promise!Next
  <1>3. ASSUME NEW d \in Dashboards, RetryJobWrite(d)
        PROVE  Promise!Next \/ UNCHANGED <<st, rn>>
    <2>1. PICK j \in Jobs :
             j = dash[d].id /\ dash[d].row.kind = "Enqueued" /\ created' = created /\ wk' = wk
      BY <1>0, <1>3 DEF RetryJobWrite, TypeOK, ClaimInv, RetryWritesEnqueued
    <2>2. CASE jobs[j].kind = "Failed"
      <3>1. jobs'[j].kind = "Enqueued" /\ \A k \in Jobs \ {j} : jobs'[k] = jobs[k]
        BY <1>0, <1>3, <2>1, <2>2 DEF RetryJobWrite, UpdateIfState, TypeOK
      <3>2. JobStatus(j)' = "waiting" /\ JobStatus(j) = "failed"
        BY <2>1, <2>2, <3>1, Mapped
      <3>3. Promise!Becomes({j}, "waiting")
        BY <2>1, <3>1, <3>2, MovesTo
      <3>4. Promise!Retry(j)
        BY <1>w, <2>1, <3>2, <3>3 DEF Promise!Retry
      <3>5. QED
        BY <2>1, <3>4 DEF Promise!Next
    <2>3. CASE jobs[j].kind # "Failed"
      <3>1. jobs' = jobs
        BY <1>3, <2>1, <2>3 DEF RetryJobWrite, UpdateIfState
      <3>2. QED
        BY <1>u, <2>1, <3>1
    <2>4. QED
      BY <2>2, <2>3
  <1>4. ASSUME NEW s \in Servers, Start(s) PROVE Promise!Next
    <2> DEFINE J == {j \in Jobs : Stale(jobs[j], s)}
    <2>1. created' = created
      BY <1>4 DEF Start
    <2>2. \A j \in Jobs \ J : jobs'[j] = jobs[j]
      BY <1>4 DEF Start
    <2>3. ASSUME NEW j \in J
          PROVE  JobStatus(j)' = "waiting" /\ JobStatus(j) = "claimed" /\ RunnersOf(j) = {}
      <3>1. jobs'[j].kind = "Enqueued"
        BY <1>0, <1>4, <2>3, RowKinds DEF Start, TypeOK
      <3>2. RunnersOf(j) = {}
        BY <2>3, RunnerNotStale DEF RunnersOf
      <3>3. QED
        BY <3>1, <3>2, Mapped DEF Stale
    <2>4. ASSUME NEW w \in Workers
          PROVE  (Running(w)' <=> Running(w)) /\ (Running(w) => wk'[w].id = wk[w].id)
      <3>1. wk'[w] = IF Home[w] = s THEN Slot("idle") ELSE wk[w]
        BY <1>4 DEF Start
      <3>2. Home[w] = s => wk[w].pc = "off"
        BY <1>4 DEF Start, DownOff
      <3>3. QED
        BY <3>1, <3>2 DEF Running, Slot
    <2>5. Promise!Becomes(J, "waiting")
      BY <2>1, <2>2, <2>3, MovesTo
    <2>6. Promise!Recover(J)
      BY <1>r, <2>3, <2>4, <2>5 DEF Promise!Recover
    <2>7. QED
      BY <2>6 DEF Promise!Next
  <1>5. ASSUME NEW W \in SUBSET Workers, UNCHANGED <<jobs, created>>,
               \A w \in Workers : IF w \in W THEN ~Running(w)' ELSE wk'[w] = wk[w]
        PROVE  Promise!Next
    <2>1. \A j \in Jobs : RunnersOf(j)' = RunnersOf(j) \ W
      BY <1>5 DEF RunnersOf, Running
    <2>2. Promise!Abandon(W)
      BY <1>5, <1>s, <2>1 DEF Promise!Abandon
    <2>3. QED
      BY <2>2 DEF Promise!Next
  <1>6. ASSUME NEW s \in Servers, Crash(s) PROVE Promise!Next
    <2> DEFINE W == {w \in Workers : Home[w] = s}
    <2>1. \A w \in Workers : IF w \in W THEN ~Running(w)' ELSE wk'[w] = wk[w]
      BY <1>6 DEF Crash, Running, Slot
    <2>2. QED
      BY <1>5, <1>6, <2>1 DEF Crash
  <1>7. ASSUME NEW w \in Workers, UpdateFails(w) PROVE Promise!Next
    <2>1. \A v \in Workers : IF v \in {w} THEN ~Running(v)' ELSE wk'[v] = wk[v]
      BY <1>0, <1>7 DEF UpdateFails, Running, Slot, TypeOK
    <2>2. QED
      BY <1>5, <1>7, <2>1 DEF UpdateFails
  <1>8. ASSUME NEW w \in Workers, NEW j \in Jobs, Fetch(w, j) PROVE Promise!Next
    <2>1. jobs[j].kind \in {"Enqueued", "AwaitingRetry"} /\ ~Running(w) /\ created' = created
      BY <1>8 DEF Fetch, FirstFetchable, Fetchable, Running
    <2>2. jobs'[j].kind = "Processing" /\ \A k \in Jobs \ {j} : jobs'[k] = jobs[k]
      <3>1. jobs' = [jobs EXCEPT ![j] = [jobs[j] EXCEPT !.kind = "Processing",
                                                       !.timer = 0, !.worker = w]]
        BY <1>8 DEF Fetch
      <3>2. QED
        BY <1>0, <3>1 DEF TypeOK, JobRow
    <2>3. /\ Running(w)' /\ wk'[w].id = j
          /\ \A v \in Workers \ {w} : wk'[v] = wk[v]
      BY <1>0, <1>8 DEF Fetch, TypeOK, Running
    <2>4. RunnersOf(j) = {}
      BY <2>1 DEF RunnersOf, ClaimInv, RunnerOwnsRow, Present
    <2>5. \A k \in Jobs : w \notin RunnersOf(k)
      BY <2>1 DEF RunnersOf
    <2>6. \A k \in Jobs : RunnersOf(k)' = IF k = j THEN {w} ELSE RunnersOf(k)
      BY <2>1, <2>3, <2>4 DEF RunnersOf, Running
    <2>7. JobStatus(j) = "waiting" /\ JobStatus(j)' = "claimed"
      BY <2>1, <2>2, Mapped
    <2>8. Promise!Becomes({j}, "claimed")
      BY <2>1, <2>2, <2>7, MovesTo
    <2>9. rn' = [rn EXCEPT ![j] = {w}]
      BY <2>6
    <2>10. Promise!Claim(w, j)
      BY <2>4, <2>5, <2>7, <2>8, <2>9 DEF Promise!Claim
    <2>11. QED
      BY <2>10 DEF Promise!Next
  <1>9. ASSUME NEW w \in Workers, NEW o \in Outcomes, NEW d \in RetryDelays, Finish(w, o, d)
        PROVE  Promise!Next
    <2>1. PICK j \in Jobs : j = wk[w].id /\ Running(w) /\ created' = created
      BY <1>9, RunnerJob DEF Finish
    <2>2. ~Running(w)' /\ \A v \in Workers \ {w} : wk'[v] = wk[v]
      BY <1>0, <1>9 DEF Finish, Slot, Running, TypeOK
    <2>3. CASE Present(jobs[j])
      <3>1. wk[w].row \in JobRow(Workers)
        BY <1>0 DEF TypeOK
      <3>2. ProcessJob(j, wk[w].row, o, d).kind \in {"Succeeded", "Failed", "AwaitingRetry"}
        BY <2>1, <3>1, ProcessJobType
      <3>3. /\ jobs'[j].kind \in {"Succeeded", "Failed", "AwaitingRetry"}
            /\ \A k \in Jobs \ {j} : jobs'[k] = jobs[k]
        BY <1>0, <1>9, <2>1, <2>3, <3>2 DEF Finish, Update, TypeOK
      <3>4. JobStatus(j) = "claimed" /\ w \in RunnersOf(j)
        BY <2>1, <2>3, Mapped DEF RunnersOf, ClaimInv, RunnerOwnsRow
      <3>5. JobStatus(j)' \in {"waiting", "succeeded", "failed"}
        BY <2>1, <3>3, Mapped
      <3>6. Promise!Becomes({j}, JobStatus(j)')
        BY <2>1, <3>3, MovesTo
      <3>7. \A k \in Jobs : RunnersOf(k)' = IF k = j THEN RunnersOf(k) \ {w} ELSE RunnersOf(k)
        BY <2>1, <2>2 DEF RunnersOf, Running
      <3>8. rn' = [rn EXCEPT ![j] = @ \ {w}]
        BY <2>1, <3>7
      <3>9. Promise!Settle(w, j)
        BY <2>1, <3>4, <3>5, <3>6, <3>8 DEF Promise!Settle
      <3>10. QED
        BY <2>1, <3>9 DEF Promise!Next
    <2>4. CASE ~Present(jobs[j])
      <3>1. jobs' = jobs
        BY <1>9, <2>1, <2>4 DEF Finish, Update
      <3>2. \A v \in Workers : IF v \in {w} THEN ~Running(v)' ELSE wk'[v] = wk[v]
        BY <2>2
      <3>3. QED
        BY <1>5, <2>1, <3>1, <3>2
    <2>5. QED
      BY <2>3, <2>4
  <1>10. ASSUME NEW kind \in {"Scheduled", "AwaitingRetry"}, ClaimDue(kind)
         PROVE  UNCHANGED <<st, rn>>
    <2>1. PICK B \in DueBatches(kind) :
             jobs' = [j \in Jobs |-> IF j \in B THEN SetState(jobs[j], "Enqueued", 0)
                                     ELSE jobs[j]]
      BY <1>10 DEF ClaimDue
    <2>2. \A j \in B : j \in Jobs /\ jobs[j].kind = kind
      BY DEF DueBatches
    <2>3. created' = created /\ wk' = wk
      BY <1>10 DEF ClaimDue
    <2>4. ASSUME NEW j \in Jobs PROVE JobStatus(j)' = JobStatus(j)
      <3>1. CASE j \in B
        BY <1>0, <2>1, <2>2, <3>1, RowKinds, Mapped DEF TypeOK
      <3>2. CASE j \notin B
        BY <2>1, <2>3, <3>2, StatusKept
      <3>3. QED
        BY <3>1, <3>2
    <2>5. QED
      BY <1>w, <2>3, <2>4
  <1>11. ASSUME DeleteExpiredJobs PROVE Promise!Next
    <2> DEFINE J == {j \in Jobs : jobs[j].expires = 0 /\ Present(jobs[j])}
    <2>1. created' = created /\ wk' = wk
      BY <1>11 DEF DeleteExpiredJobs
    <2>2. \A j \in Jobs \ J : jobs'[j].kind = jobs[j].kind
      BY <1>11 DEF DeleteExpiredJobs, Present, NoRow
    <2>3. ASSUME NEW j \in J PROVE JobStatus(j)' = "gone" /\ JobStatus(j) # "new"
      <3>1. jobs'[j].kind = "None" /\ j \in created
        BY <1>11 DEF DeleteExpiredJobs, NoRow, ClaimInv, StoredWasCreated
      <3>2. QED
        BY <1>0, <2>1, <3>1, Mapped, UsedIsNotNew
    <2>4. Promise!Becomes(J, "gone")
      BY <2>1, <2>2, <2>3, MovesTo
    <2>5. Promise!Remove(J)
      BY <1>w, <2>1, <2>3, <2>4 DEF Promise!Remove
    <2>6. QED
      BY <2>5 DEF Promise!Next
  <1>12. ASSUME Tick PROVE UNCHANGED <<st, rn>>
    <2>1. \A j \in Jobs : jobs'[j].kind = jobs[j].kind
      BY <1>0, <1>12, AgedType DEF Tick, TypeOK, Limit
    <2>2. ASSUME NEW w \in Workers PROVE (Running(w)' <=> Running(w)) /\ (Running(w) => wk'[w].id = wk[w].id)
      <3>1. wk[w] \in SlotSet
        BY <1>0 DEF TypeOK, SlotSet
      <3>2. wk'[w] = IF Running(w)
                     THEN [wk[w] EXCEPT !.elapsed = @ + 1, !.row = Aged(@, Limit)]
                     ELSE wk[w]
        BY <1>12 DEF Tick, Limit
      <3>3. QED
        BY <3>1, <3>2 DEF Running, SlotSet
    <2>3. QED
      BY <1>12, <1>s, <1>r, <2>1, <2>2 DEF Tick
  <1>13. QED
    BY <1>1, <1>2, <1>3, <1>4, <1>6, <1>7, <1>8, <1>9, <1>10, <1>11, <1>12, <1>u
       DEF Next, FinishSome, vars, TryAcquireJobLock, ReleaseJobLock, RetryJobRead

\* The table shared by servers on different hosts implements the abstract job
\* queue, through crashes, failed writes and restarts, when
\* stale_processing_after exceeds what an attempt can take and the clocks can
\* differ.
THEOREM PostgresKeepsPromise ==
  ASSUME StaleOutlastsAttempt
  PROVE  Spec => ImplementsJobQueue
  <1> DEFINE Inv == ClaimInv /\ DownOff
  <1>1. Init => Inv
    BY ClaimInit, DownOffInit
  <1>2. Inv /\ [Next]_vars => Inv'
    <2>1. ClaimInv => TypeOK
      BY DEF ClaimInv
    <2>2. QED
      BY <2>1, ClaimNext, DownOffNext
  <1>3. Init => Promise!Init
    <2>1. ASSUME Init, NEW j \in Jobs PROVE JobStatus(j) = "new" /\ RunnersOf(j) = {}
      BY <2>1 DEF Init, JobStatus, StatusOf, RunnersOf, Running, Slot, NoRow
    <2>2. QED
      BY <2>1 DEF Promise!Init
  <1>4. Inv /\ [Next]_vars =>
          [Promise!Next]_<<[j \in Jobs |-> JobStatus(j)], [j \in Jobs |-> RunnersOf(j)]>>
    BY StepRefines
  <1>5. QED
    BY <1>1, <1>2, <1>3, <1>4, PTL DEF Spec, ImplementsJobQueue, Promise!Spec

==============================================================================
