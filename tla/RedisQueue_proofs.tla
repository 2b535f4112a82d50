-------------------------- MODULE RedisQueue_proofs ---------------------------
(***************************************************************************)
(* Proofs about RedisQueue, for any number of jobs, servers, workers and   *)
(* dashboard requests and any timeouts: type correctness, no job run twice *)
(* at once and no result written over a newer claim although the recovery  *)
(* sweep writes without a compare, an index that finds every stored job,   *)
(* counters that are exact, and blobs that never come back.                *)
(***************************************************************************)
EXTENDS RedisQueue, FiniteSetTheorems, TLAPS

(***************************************************************************)
(* Conditions.                                                             *)
(***************************************************************************)

\* stale_processing_after outlasts an attempt with its scheduling delay.
StaleOutlastsAttempt == StaleAfter >= JobTimeout + MaxLag

(***************************************************************************)
(* Rows.                                                                   *)
(***************************************************************************)

\* The row of an absent id is a row.
LEMMA NoRowType == NoRow \in JobRow(Workers)
  BY DEF NoRow, JobRow, NoExpiry

\* A new job's row is a row (Job::new, schedule_job).
LEMMA NewJobType ==
  ASSUME NEW kind \in Kinds, NEW t \in Nat
  PROVE  NewJob(kind, t) \in JobRow(Workers)
  BY DEF NewJob, JobRow

\* Setting the state keeps the rest of the row, so it stays a row.
LEMMA SetStateType ==
  ASSUME NEW row \in JobRow(Workers), NEW kind \in Kinds, NEW t \in Nat
  PROVE  /\ SetState(row, kind, t) \in JobRow(Workers)
         /\ SetState(row, kind, t).kind = kind
         /\ SetState(row, kind, t).attempt = row.attempt
  BY DEF SetState, JobRow

\* Time passing keeps a row a row, of the same kind, worker and attempt.
LEMMA AgedType ==
  ASSUME NEW row \in JobRow(Workers)
  PROVE  /\ Aged(row, Limit) \in JobRow(Workers)
         /\ Aged(row, Limit).kind = row.kind
         /\ Aged(row, Limit).worker = row.worker
         /\ Aged(row, Limit).attempt = row.attempt
         /\ row.kind = "Processing" =>
               Aged(row, Limit).timer = Inc(row.timer, Limit)
  <1>1. row.timer \in Nat /\ row.expires \in Nat \cup {NoExpiry}
    BY DEF JobRow
  <1>2. Dec(row.timer) \in Nat /\ Inc(row.timer, Limit) \in Nat
    BY <1>1, RedisAssumption DEF Dec, Inc, Limit
  <1>3. Dec(row.expires) \in Nat \cup {NoExpiry}
    BY <1>1 DEF Dec, NoExpiry
  <1>4. QED
    BY <1>2, <1>3 DEF Aged, JobRow

\* Counting the attempt keeps a row a row (process_job).
LEMMA CountAttemptType ==
  ASSUME NEW row \in JobRow(Workers)
  PROVE  CountAttempt(row) \in JobRow(Workers)
  BY ProcessorAssumption DEF CountAttempt, JobRow

\* Failing a job permanently writes a Failed row.
LEMMA FailType ==
  ASSUME NEW row \in JobRow(Workers)
  PROVE  /\ FailJobPermanently(row) \in JobRow(Workers)
         /\ FailJobPermanently(row).kind = "Failed"
  <1>1. SetState(row, "Failed", 0) \in JobRow(Workers)
    BY SetStateType DEF Kinds
  <1>2. QED
    BY <1>1, ProcessorAssumption DEF FailJobPermanently, JobRow, SetState

\* A retry ends in AwaitingRetry or, with the attempts used up, in Failed.
LEMMA RetryType ==
  ASSUME NEW row \in JobRow(Workers), NEW j \in Jobs, NEW d \in RetryDelays
  PROVE  /\ HandleJobRetry(j, row, d) \in JobRow(Workers)
         /\ HandleJobRetry(j, row, d).kind \in {"AwaitingRetry", "Failed"}
  <1>1. d \in Nat
    BY ProcessorAssumption
  <1>2. /\ SetState(row, "AwaitingRetry", d) \in JobRow(Workers)
        /\ SetState(row, "AwaitingRetry", d).kind = "AwaitingRetry"
    BY <1>1, SetStateType DEF Kinds
  <1>3. CASE ShouldRetryAttempt(j, row, NoException)
    BY <1>2, <1>3 DEF HandleJobRetry
  <1>4. CASE ~ShouldRetryAttempt(j, row, NoException)
    BY <1>4, FailType DEF HandleJobRetry
  <1>5. QED
    BY <1>3, <1>4

\* Whatever the outcome of an attempt, process_job writes a row of one of the
\* three kinds an attempt can end in.
LEMMA ProcessJobType ==
  ASSUME NEW row \in JobRow(Workers), NEW j \in Jobs,
         NEW o \in Outcomes, NEW d \in RetryDelays
  PROVE  /\ ProcessJob(j, row, o, d) \in JobRow(Workers)
         /\ ProcessJob(j, row, o, d).kind \in {"Succeeded", "Failed", "AwaitingRetry"}
  <1>1. SetState(row, "Succeeded", 0) \in JobRow(Workers)
    BY SetStateType DEF Kinds
  <1>2. /\ CompleteJobSuccessfully(row) \in JobRow(Workers)
        /\ CompleteJobSuccessfully(row).kind = "Succeeded"
    BY <1>1, ProcessorAssumption DEF CompleteJobSuccessfully, JobRow, SetState
  <1>3. ASSUME NEW e
        PROVE  /\ HandleError(j, row, e, d) \in JobRow(Workers)
               /\ HandleError(j, row, e, d).kind \in {"AwaitingRetry", "Failed"}
    BY FailType, RetryType DEF HandleError
  <1>4. QED
    BY <1>2, <1>3, FailType, RetryType DEF ProcessJob

\* The row a claim writes is the worker's Processing row of age 0.
LEMMA ClaimedRow ==
  ASSUME NEW row \in JobRow(Workers), NEW w \in Workers
  PROVE  LET new == [row EXCEPT !.kind = "Processing", !.timer = 0, !.worker = w]
         IN  /\ new \in JobRow(Workers)
             /\ new.kind = "Processing" /\ new.timer = 0 /\ new.worker = w
  BY DEF JobRow, Kinds

(***************************************************************************)
(* The inductive invariants.                                               *)
(***************************************************************************)

EnqSet == [step: 0..5, row: JobRow(Workers), score: Scores]
RemSet == [pc: {"idle", "list", "del", "index"}, todo: SUBSET Jobs, id: Jobs \cup {NoId},
           kind: Kinds \cup {"None"}, step: 0..5]
SweepSet == [todo: SUBSET Jobs, id: Jobs \cup {NoId}, row: JobRow(Workers), age: Nat]
SlotSet == [pc: {"off", "idle", "run"}, id: Jobs \cup {NoId}, row: JobRow(Workers), elapsed: Nat]
RequestSet == [id: Jobs \cup {NoId}, row: JobRow(Workers)]

StoreOK ==
    /\ jobs \in [Jobs -> JobRow(Workers)] /\ sets \in [Jobs -> SUBSET Kinds] /\ all \subseteq Jobs
    /\ avail \in [Jobs -> Scores] /\ queue \in [Jobs -> Scores] /\ counts \in [Kinds -> Int]

\* An enqueue works for a new row, whose id was handed out before; only ids
\* handed out are stored, or half way in.
EnqueueOK ==
    /\ created \subseteq Jobs /\ enq \in [Jobs -> EnqSet]
    /\ \A j \in Jobs : Present(jobs[j]) => j \in created
    /\ \A j \in Jobs : enq[j].step # 0 =>
          j \in created /\ enq[j].row.kind \in {"Enqueued", "Scheduled"}

\* A removal past its listing has a job of a kind, and one that has none is idle
\* or lists; once a dashboard is at the index its blob is gone.
RemovalOK(a, r) ==
    /\ r.pc \in {"del", "index"} => r.id \in created /\ r.kind \in Kinds
    /\ r.pc \in {"idle", "list"} => r.id = NoId
    /\ r.pc = "index" => r.step # 0
    /\ r.pc = "index" /\ a \in Dashboards => ~Present(jobs[r.id])

RemovalsOK ==
    /\ rem \in [Removers -> RemSet] /\ torn \subseteq Jobs /\ drift \subseteq Jobs
    /\ \A a \in Removers : RemovalOK(a, rem[a])

\* What a dashboard or a recovery sweep is about to write is an Enqueued row, and
\* a sweep is that of a starting server.
DashOK ==
    /\ dash \in [Dashboards -> RequestSet] /\ manual \in [Jobs -> Nat]
    /\ \A d \in Dashboards : dash[d].id # NoId => dash[d].row.kind = "Enqueued"

SweepsOK ==
    /\ srv \in [Servers -> {"down", "starting", "up"}] /\ sweep \in [Servers -> SweepSet]
    /\ \A s \in Servers :
          /\ sweep[s].id # NoId =>
                sweep[s].id \in created /\ sweep[s].row.kind = "Enqueued"
          /\ srv[s] # "starting" => sweep[s] = NoSweep

SlotsOK ==
    /\ wk \in [Workers -> SlotSet]
    /\ \A w \in Workers : Running(w) => wk[w].id \in created

WritersOK == DashOK /\ SweepsOK /\ SlotsOK /\ disruptions \in Nat

Shape == StoreOK /\ EnqueueOK /\ RemovalsOK /\ WritersOK

\* A running attempt is within its time and as old as its claim.
RunnerInTime ==
    \A w \in Workers : Running(w) =>
        /\ wk[w].elapsed <= JobTimeout + MaxLag
        /\ Present(jobs[wk[w].id]) => jobs[wk[w].id].timer = wk[w].elapsed

\* The job of which a recovery sweep holds a copy is still the claim it read, or
\* gone, and nobody runs it: the write that does not compare is safe.
SweepSafe ==
    \A s \in Servers : sweep[s].id # NoId =>
        /\ jobs[sweep[s].id].kind \in {"Processing", "None"}
        /\ jobs[sweep[s].id].kind = "Processing" => jobs[sweep[s].id].timer > StaleAfter
        /\ \A w \in Workers : Running(w) => wk[w].id # sweep[s].id

OneStarting ==
    \A s, t \in Servers : srv[s] = "starting" /\ srv[t] = "starting" => s = t

ClaimInv ==
    Shape /\ RunnerInTime /\ RunnerOwnsRow /\ NoDoubleExecution /\ SweepSafe /\ OneStarting

\* A job that no claim has reached yet: its id is new, its enqueue has not added
\* it to a state set, or it is scheduled for later.
Unreached(j) ==
    \/ j \notin created
    \/ enq[j].step = 1
    \/ enq[j].step # 0 /\ ~Available(enq[j].row)

FreshOK(j) ==
    /\ j \notin created \/ enq[j].step = 1 =>
          sets[j] = {} /\ avail[j] = NoScore /\ queue[j] = NoScore
    /\ Unreached(j) => /\ \A w \in Workers : Running(w) => wk[w].id # j
                       /\ \A s \in Servers : sweep[s].id # j
                       /\ j \in created /\ Present(jobs[j]) => jobs[j] = enq[j].row
    /\ enq[j].step \in {4, 5} => enq[j].score = ScoreOf(enq[j].row)

\* No cleanup worker is removing the job, and nobody stopped half way with it.
Whole(j) == j \notin torn /\ \A s \in Servers : rem[s].id # j

\* The index of a stored job, as far as its enqueue has come.
IndexOK(j) ==
    Present(jobs[j]) /\ Whole(j) =>
        /\ enq[j].step # 1 => sets[j] = {jobs[j].kind}
        /\ enq[j].step \notin {1, 2} => j \in all
        /\ jobs[j].kind = "Enqueued" =>
              /\ enq[j].step \in {0, 5} => avail[j] # NoScore
              /\ enq[j].step = 0 => queue[j] # NoScore

FoundInv == Shape /\ \A j \in Jobs : FreshOK(j) /\ IndexOK(j)

\* The ids stored in a state, and those whose enqueue, deletion or clean-up has
\* the blob and the counter of the state out of step.
Stored(k) == {j \in Jobs : jobs[j].kind = k}
Uncounted(k) == {j \in Jobs : enq[j].step \in 1..3 /\ enq[j].row.kind = k}
Lingering(k) == {d \in Dashboards : rem[d].pc = "index" /\ rem[d].kind = k}
Discounted(k) == {s \in Servers : rem[s].pc = "del" /\ rem[s].kind = k}

\* The account of a counter, kept while no sequence was cut short or crossed.
Balanced ==
    torn = {} /\ drift = {} =>
        \A k \in Kinds : counts[k] = Cardinality(Stored(k)) - Cardinality(Uncounted(k))
                                     + Cardinality(Lingering(k)) - Cardinality(Discounted(k))

CountInv == Shape /\ Balanced

(***************************************************************************)
(* Steps, by what they do to the store.                                    *)
(***************************************************************************)

\* A stored blob and its index entries are rewritten.
Rewrites(j, row) ==
    Present(jobs[j]) /\ row.kind \in Kinds /\ Write(j, row) /\ all' \in {all, all \cup {j}}

\* The dashboard, the recovery sweep, the claim and the result all rewrite a blob
\* that is there, or nothing.
LEMMA DashboardRewrites ==
  ASSUME StoreOK, WritersOK, NEW d \in Dashboards, RetryJobWrite(d)
  PROVE  \/ UNCHANGED <<jobs, index>>
         \/ dash[d].id \in Jobs /\ jobs[dash[d].id].kind = "Failed"
            /\ dash[d].row \in JobRow(Workers) /\ Rewrites(dash[d].id, dash[d].row)
  <1>1. dash[d].id \in Jobs /\ dash[d].row \in JobRow(Workers) /\ dash[d].row.kind = "Enqueued"
    BY DEF WritersOK, DashOK, RetryJobWrite, RequestSet
  <1>2. QED
    BY <1>1 DEF RetryJobWrite, UpdateIfState, Rewrites, Kinds, Present

LEMMA SweepRewrites ==
  ASSUME StoreOK, WritersOK, NEW s \in Servers, RequeueWrite(s)
  PROVE  \/ UNCHANGED <<jobs, index>>
         \/ sweep[s].id \in Jobs /\ sweep[s].row \in JobRow(Workers)
            /\ Rewrites(sweep[s].id, sweep[s].row)
  <1>1. sweep[s].id \in Jobs /\ sweep[s].row \in JobRow(Workers) /\ sweep[s].row.kind = "Enqueued"
    BY DEF WritersOK, SweepsOK, RequeueWrite, SweepSet
  <1>2. QED
    BY <1>1 DEF RequeueWrite, Update, Rewrites, Kinds

LEMMA ClaimRewrites ==
  ASSUME StoreOK, NEW w \in Workers, NEW j \in Jobs, Fetch(w, j)
  PROVE  LET row == [jobs[j] EXCEPT !.kind = "Processing", !.timer = 0, !.worker = w]
         IN  /\ row \in JobRow(Workers)
             /\ row.kind = "Processing" /\ row.timer = 0 /\ row.worker = w
             /\ Rewrites(j, row)
  <1> DEFINE row == [jobs[j] EXCEPT !.kind = "Processing", !.timer = 0, !.worker = w]
  <1>1. row \in JobRow(Workers) /\ row.kind = "Processing" /\ row.timer = 0 /\ row.worker = w
    BY ClaimedRow DEF StoreOK
  <1>2. Write(j, row) /\ Claimable(jobs[j]) /\ all' = all
    BY DEF Fetch
  <1> HIDE DEF row
  <1>3. Rewrites(j, row)
    BY <1>1, <1>2 DEF Rewrites, Kinds, Claimable, Present
  <1>4. QED
    BY <1>1, <1>3 DEF row

LEMMA ResultRewrites ==
  ASSUME StoreOK, EnqueueOK, WritersOK, NEW w \in Workers, NEW o \in Outcomes, NEW d \in RetryDelays,
         Finish(w, o, d)
  PROVE  LET row == ProcessJob(wk[w].id, wk[w].row, o, d)
         IN  /\ wk[w].id \in Jobs /\ row \in JobRow(Workers)
             /\ row.kind \in {"Succeeded", "Failed", "AwaitingRetry"}
             /\ UNCHANGED <<jobs, index>> \/ Rewrites(wk[w].id, row)
  <1>1. wk[w].id \in Jobs /\ wk[w].row \in JobRow(Workers)
    BY DEF EnqueueOK, WritersOK, SlotsOK, Finish, SlotSet
  <1>2. PICK row : row = ProcessJob(wk[w].id, wk[w].row, o, d)
    OBVIOUS
  <1>3. row \in JobRow(Workers) /\ row.kind \in {"Succeeded", "Failed", "AwaitingRetry"}
    BY <1>1, <1>2, ProcessJobType
  <1>4. Update(wk[w].id, row)
    BY <1>2 DEF Finish
  <1>5. UNCHANGED <<jobs, index>> \/ Rewrites(wk[w].id, row)
    BY <1>3, <1>4 DEF Update, Rewrites, Kinds
  <1>6. QED
    BY <1>1, <1>2, <1>3, <1>5

\* The steps that touch the store.
LEMMA StoreActions ==
  ASSUME [Next]_vars
  PROVE  \/ UNCHANGED <<jobs, index>>
         \/ \E j \in Jobs : Enqueue(j) \/ UpdateJobIndices(j)
         \/ \E a \in Removers : RemoveJobIndices(a) \/ DeleteBlob(a)
         \/ \E d \in Dashboards : RetryJobWrite(d)
         \/ \E s \in Servers : RequeueWrite(s)
         \/ \E w \in Workers, j \in Jobs : Fetch(w, j) \/ FetchStale(w, j)
         \/ \E w \in Workers, o \in Outcomes, d \in RetryDelays : Finish(w, o, d)
         \/ \E kind \in {"Scheduled", "AwaitingRetry"} : ClaimDue(kind)
         \/ Tick
  <1>1. CASE \E j \in Jobs : EnqueueFails(j)
    BY <1>1 DEF EnqueueFails
  <1>2. CASE \E d \in Dashboards, j \in Jobs : RetryJobRead(d, j) \/ DeleteRead(d, j)
    BY <1>2 DEF RetryJobRead, DeleteRead
  <1>3. CASE \E a \in Removers : RemovalFails(a)
    BY <1>3 DEF RemovalFails
  <1>4. CASE \E s \in Servers : Start(s) \/ Started(s) \/ Crash(s) \/ CleanupList(s)
    BY <1>4 DEF Start, Started, Crash, CleanupList
  <1>5. CASE \E s \in Servers, j \in Jobs : RequeueRead(s, j) \/ CleanupRead(s, j)
    BY <1>5 DEF RequeueRead, CleanupRead
  <1>6. CASE \E w \in Workers : UpdateFails(w)
    BY <1>6 DEF UpdateFails
  <1>7. CASE UNCHANGED vars
    BY <1>7 DEF vars, index
  <1>8. QED
    BY <1>1, <1>2, <1>3, <1>4, <1>5, <1>6, <1>7 DEF Next, FinishSome

\* Every step leaves the store alone, is one command of a sequence, a rewrite, a
\* claim of due jobs, or a tick.
LEMMA StoreFrame ==
  ASSUME StoreOK, EnqueueOK, WritersOK, [Next]_vars
  PROVE  \/ UNCHANGED <<jobs, index>>
         \/ \E j \in Jobs : Enqueue(j) \/ UpdateJobIndices(j)
         \/ \E a \in Removers : RemoveJobIndices(a) \/ DeleteBlob(a)
         \/ \E j \in Jobs, row \in JobRow(Workers) : Rewrites(j, row)
         \/ \E w \in Workers, j \in Jobs : FetchStale(w, j)
         \/ \E kind \in {"Scheduled", "AwaitingRetry"} : ClaimDue(kind)
         \/ Tick
  <1>1. ASSUME NEW d \in Dashboards, RetryJobWrite(d)
        PROVE  UNCHANGED <<jobs, index>> \/ \E j \in Jobs, row \in JobRow(Workers) : Rewrites(j, row)
    BY <1>1, DashboardRewrites
  <1>2. ASSUME NEW s \in Servers, RequeueWrite(s)
        PROVE  UNCHANGED <<jobs, index>> \/ \E j \in Jobs, row \in JobRow(Workers) : Rewrites(j, row)
    BY <1>2, SweepRewrites
  <1>3. ASSUME NEW w \in Workers, NEW j \in Jobs, Fetch(w, j)
        PROVE  \E i \in Jobs, row \in JobRow(Workers) : Rewrites(i, row)
    BY <1>3, ClaimRewrites
  <1>4. ASSUME NEW w \in Workers, NEW o \in Outcomes, NEW d \in RetryDelays, Finish(w, o, d)
        PROVE  UNCHANGED <<jobs, index>> \/ \E j \in Jobs, row \in JobRow(Workers) : Rewrites(j, row)
    BY <1>4, ResultRewrites
  <1>5. QED
    BY <1>1, <1>2, <1>3, <1>4, StoreActions

\* Moving n jobs between two states moves n between their counters.
LEMMA MovedCounts ==
  ASSUME counts \in [Kinds -> Int], NEW from \in Kinds, NEW to \in Kinds,
         NEW B, Cardinality(B) \in Nat
  PROVE  /\ Moved(B, from, to) \in [Kinds -> Int]
         /\ from = to => Moved(B, from, to) = counts
         /\ from # to => /\ Moved(B, from, to)[from] = counts[from] - Cardinality(B)
                         /\ Moved(B, from, to)[to] = counts[to] + Cardinality(B)
         /\ \A k \in Kinds \ {from, to} : Moved(B, from, to)[k] = counts[k]
  <1>1. PICK n \in Nat : n = Cardinality(B)
    OBVIOUS
  <1>2. CASE from = to
    BY <1>2 DEF Moved
  <1>3. CASE from # to
    <2>1. Moved(B, from, to) = [counts EXCEPT ![from] = @ - n, ![to] = @ + n]
      BY <1>1, <1>3 DEF Moved
    <2>2. QED
      BY <1>1, <1>3, <2>1
  <1>4. QED
    BY <1>2, <1>3

\* What a rewrite does to the job and its entries, and to no other job.
LEMMA RewriteEffect ==
  ASSUME StoreOK, NEW j \in Jobs, NEW row \in JobRow(Workers), Rewrites(j, row)
  PROVE  /\ StoreOK'
         /\ jobs'[j] = row /\ sets'[j] = (IF jobs[j].kind = row.kind THEN sets[j]
                                          ELSE (sets[j] \ {jobs[j].kind}) \cup {row.kind})
         /\ avail'[j] = ScoreOf(row) /\ queue'[j] = ScoreOf(row)
         /\ all' \in {all, all \cup {j}}
         /\ counts' = Moved({j}, jobs[j].kind, row.kind)
         /\ jobs[j].kind \in Kinds /\ row.kind \in Kinds
         /\ \A k \in Jobs \ {j} : /\ jobs'[k] = jobs[k] /\ sets'[k] = sets[k]
                                  /\ avail'[k] = avail[k] /\ queue'[k] = queue[k]
  <1>1. jobs[j].kind \in Kinds /\ row.kind \in Kinds
    BY DEF Rewrites, StoreOK, JobRow, Present
  <1>2. /\ jobs' = [jobs EXCEPT ![j] = row]
        /\ sets' = (IF jobs[j].kind = row.kind THEN sets
                    ELSE [sets EXCEPT ![j] = (@ \ {jobs[j].kind}) \cup {row.kind}])
        /\ counts' = Moved({j}, jobs[j].kind, row.kind)
        /\ avail' = [avail EXCEPT ![j] = ScoreOf(row)] /\ queue' = [queue EXCEPT ![j] = ScoreOf(row)]
        /\ all' \in {all, all \cup {j}}
    BY DEF Rewrites, Write
  <1>3. ScoreOf(row) \in Scores
    BY DEF ScoreOf, Scores
  <1>4. counts' \in [Kinds -> Int]
    <2>1. Cardinality({j}) = 1
      BY FS_Singleton
    <2>2. PICK from \in Kinds, to \in Kinds : from = jobs[j].kind /\ to = row.kind
      BY <1>1
    <2>3. counts \in [Kinds -> Int] /\ Cardinality({j}) \in Nat
      BY <2>1 DEF StoreOK
    <2>4. Moved({j}, from, to) \in [Kinds -> Int]
      BY <2>3, MovedCounts
    <2>5. QED
      BY <1>2, <2>2, <2>4
  <1>5. sets' \in [Jobs -> SUBSET Kinds]
    BY <1>1, <1>2 DEF StoreOK
  <1>6. StoreOK'
    BY <1>2, <1>3, <1>4, <1>5 DEF StoreOK
  <1>7. /\ jobs'[j] = row
        /\ sets'[j] = (IF jobs[j].kind = row.kind THEN sets[j]
                       ELSE (sets[j] \ {jobs[j].kind}) \cup {row.kind})
        /\ avail'[j] = ScoreOf(row) /\ queue'[j] = ScoreOf(row)
    BY <1>2 DEF StoreOK
  <1>8. \A k \in Jobs \ {j} : /\ jobs'[k] = jobs[k] /\ sets'[k] = sets[k]
                              /\ avail'[k] = avail[k] /\ queue'[k] = queue[k]
    BY <1>2 DEF StoreOK
  <1>9. QED
    BY <1>1, <1>2, <1>6, <1>7, <1>8

\* A batch that is due is a finite set of stored jobs of the kind.
LEMMA BatchDue ==
  ASSUME NEW kind \in {"Scheduled", "AwaitingRetry"}, NEW B \in DueBatches(kind)
  PROVE  /\ B \subseteq Jobs /\ IsFiniteSet(B) /\ Cardinality(B) \in Nat
         /\ \A j \in B : kind \in sets[j] /\ jobs[j].kind = kind /\ jobs[j].timer = 0
  <1>1. /\ B \subseteq Jobs
        /\ \A j \in B : kind \in sets[j] /\ jobs[j].kind = kind /\ jobs[j].timer = 0
    BY DEF DueBatches
  <1>2. IsFiniteSet(B) /\ Cardinality(B) \in Nat
    BY <1>1, RedisAssumption, FS_Subset, FS_CardinalityType
  <1>3. QED
    BY <1>1, <1>2

\* Blobs, sets, ZSETs and counters keep their types.
LEMMA StoreStep ==
  ASSUME StoreOK, EnqueueOK, RemovalsOK, WritersOK, [Next]_vars
  PROVE  StoreOK'
  <1>1. CASE UNCHANGED <<jobs, index>>
    BY <1>1 DEF StoreOK, index
  <1>2. ASSUME NEW j \in Jobs, Enqueue(j) PROVE StoreOK'
    <2>1. NewJob("Enqueued", 0) \in JobRow(Workers)
      BY NewJobType DEF Kinds
    <2>2. \A t \in StartDelays : NewJob("Scheduled", t) \in JobRow(Workers)
      BY NewJobType, RedisAssumption DEF Kinds
    <2>3. jobs' \in [Jobs -> JobRow(Workers)]
      BY <1>2, <2>1, <2>2 DEF Enqueue, StoreOK
    <2>4. QED
      BY <1>2, <2>3 DEF Enqueue, StoreOK, index
  <1>3. ASSUME NEW j \in Jobs, UpdateJobIndices(j) PROVE StoreOK'
    <2>1. enq[j].row.kind \in Kinds /\ enq[j].score \in Scores
      BY <1>3 DEF UpdateJobIndices, EnqueueOK, EnqSet, Kinds
    <2>2. sets' \in [Jobs -> SUBSET Kinds] /\ all' \subseteq Jobs /\ jobs' = jobs
      BY <1>3, <2>1 DEF UpdateJobIndices, StoreOK
    <2>3. counts' \in [Kinds -> Int]
      BY <1>3, <2>1 DEF UpdateJobIndices, StoreOK
    <2>4. avail' \in [Jobs -> Scores] /\ queue' \in [Jobs -> Scores]
      BY <1>3, <2>1 DEF UpdateJobIndices, StoreOK
    <2>5. QED
      BY <2>2, <2>3, <2>4 DEF StoreOK
  <1>4. ASSUME NEW a \in Removers, RemoveJobIndices(a) PROVE StoreOK'
    <2>1. rem[a].id \in Jobs /\ rem[a].kind \in Kinds
      BY <1>4 DEF RemoveJobIndices, RemovalsOK, RemovalOK, EnqueueOK
    <2>2. sets' \in [Jobs -> SUBSET Kinds] /\ all' \subseteq Jobs /\ jobs' = jobs
      BY <1>4, <2>1 DEF RemoveJobIndices, StoreOK
    <2>3. counts' \in [Kinds -> Int]
      BY <1>4, <2>1 DEF RemoveJobIndices, StoreOK
    <2>4. avail' \in [Jobs -> Scores] /\ queue' \in [Jobs -> Scores]
      BY <1>4, <2>1 DEF RemoveJobIndices, StoreOK, Scores
    <2>5. QED
      BY <2>2, <2>3, <2>4 DEF StoreOK
  <1>5. ASSUME NEW a \in Removers, DeleteBlob(a) PROVE StoreOK'
    BY <1>5, NoRowType DEF DeleteBlob, StoreOK, index
  <1>6. ASSUME NEW j \in Jobs, NEW row \in JobRow(Workers), Rewrites(j, row) PROVE StoreOK'
    BY <1>6, RewriteEffect
  <1>7. ASSUME NEW w \in Workers, NEW j \in Jobs, FetchStale(w, j) PROVE StoreOK'
    BY <1>7 DEF FetchStale, StoreOK, Scores
  <1>8. ASSUME NEW kind \in {"Scheduled", "AwaitingRetry"}, ClaimDue(kind) PROVE StoreOK'
    <2>1. PICK B \in DueBatches(kind) :
            /\ jobs' = [j \in Jobs |-> IF j \in B THEN SetState(jobs[j], "Enqueued", 0) ELSE jobs[j]]
            /\ sets' = [j \in Jobs |-> CASE j \in B -> (sets[j] \ {kind}) \cup {"Enqueued"}
                                         [] ~Present(jobs[j]) -> sets[j] \ {kind}
                                         [] OTHER -> sets[j]]
            /\ counts' = Moved(B, kind, "Enqueued")
            /\ avail' = [j \in Jobs |-> IF j \in B THEN "bare" ELSE avail[j]]
            /\ queue' = [j \in Jobs |-> IF j \in B THEN "bare" ELSE queue[j]]
            /\ all' = all
      BY <1>8 DEF ClaimDue
    <2>2. \A j \in Jobs : SetState(jobs[j], "Enqueued", 0) \in JobRow(Workers)
      BY SetStateType DEF StoreOK, Kinds
    <2>3. jobs' \in [Jobs -> JobRow(Workers)]
      BY <2>1, <2>2 DEF StoreOK
    <2>4. sets' \in [Jobs -> SUBSET Kinds]
      <3>1. ASSUME NEW j \in Jobs PROVE sets'[j] \subseteq Kinds
        BY <2>1 DEF StoreOK, Kinds
      <3>2. QED
        BY <2>1, <3>1
    <2>5. counts' \in [Kinds -> Int]
      BY <2>1, BatchDue, MovedCounts DEF StoreOK, Kinds
    <2>6. avail' \in [Jobs -> Scores] /\ queue' \in [Jobs -> Scores]
      BY <2>1 DEF StoreOK, Scores
    <2>7. QED
      BY <2>1, <2>3, <2>4, <2>5, <2>6 DEF StoreOK
  <1>9. ASSUME Tick PROVE StoreOK'
    <2>1. \A row \in JobRow(Workers) : Aged(row, Limit) \in JobRow(Workers)
      BY AgedType
    <2>2. jobs' \in [Jobs -> JobRow(Workers)]
      BY <1>9, <2>1 DEF Tick, StoreOK
    <2>3. QED
      BY <1>9, <2>2 DEF Tick, StoreOK, index
  <1>10. QED
    BY <1>1, <1>2, <1>3, <1>4, <1>5, <1>6, <1>7, <1>8, <1>9, StoreFrame

(***************************************************************************)
(* Blobs that are gone.                                                    *)
(***************************************************************************)

\* The kinds of the rows the steps write.
LEMMA RowKinds ==
  /\ ~Present(NoRow)
  /\ \A row \in JobRow(Workers) :
        /\ SetState(row, "Enqueued", 0).kind = "Enqueued"
        /\ Present(Aged(row, Limit)) <=> Present(row)
  <1>1. ~Present(NoRow)
    BY DEF Present, NoRow
  <1>2. ASSUME NEW row \in JobRow(Workers)
        PROVE  /\ SetState(row, "Enqueued", 0).kind = "Enqueued"
               /\ Present(Aged(row, Limit)) <=> Present(row)
    BY SetStateType, AgedType DEF Kinds, Present
  <1>3. QED
    BY <1>1, <1>2

\* Only an enqueue makes a blob where there was none, for an id nobody had.
LEMMA GoneStep ==
  ASSUME StoreOK, EnqueueOK, RemovalsOK, WritersOK, [Next]_vars
  PROVE  \/ \A j \in Jobs : Present(jobs'[j]) => Present(jobs[j])
         \/ \E i \in Jobs : /\ Enqueue(i)
                            /\ \A j \in Jobs \ {i} : jobs'[j] = jobs[j]
  <1> DEFINE Same == \A j \in Jobs : Present(jobs'[j]) => Present(jobs[j])
  <1>1. CASE UNCHANGED <<jobs, index>>
    BY <1>1
  <1>2. ASSUME NEW i \in Jobs, Enqueue(i) PROVE \A j \in Jobs \ {i} : jobs'[j] = jobs[j]
    BY <1>2 DEF Enqueue, StoreOK
  <1>3. ASSUME NEW j \in Jobs, UpdateJobIndices(j) PROVE Same
    BY <1>3 DEF UpdateJobIndices
  <1>4. ASSUME NEW a \in Removers, RemoveJobIndices(a) PROVE Same
    BY <1>4 DEF RemoveJobIndices
  <1>5. ASSUME NEW a \in Removers, DeleteBlob(a) PROVE Same
    BY <1>5, RowKinds DEF DeleteBlob, StoreOK
  <1>6. ASSUME NEW j \in Jobs, NEW row \in JobRow(Workers), Rewrites(j, row) PROVE Same
    <2>1. Present(jobs[j]) /\ \A k \in Jobs \ {j} : jobs'[k] = jobs[k]
      BY <1>6, RewriteEffect DEF Rewrites
    <2>2. QED
      BY <2>1
  <1>7. ASSUME NEW w \in Workers, NEW j \in Jobs, FetchStale(w, j) PROVE Same
    BY <1>7 DEF FetchStale
  <1>8. ASSUME NEW kind \in {"Scheduled", "AwaitingRetry"}, ClaimDue(kind) PROVE Same
    BY <1>8, BatchDue DEF ClaimDue, Present
  <1>9. ASSUME Tick PROVE Same
    BY <1>9, RowKinds DEF Tick, StoreOK
  <1>10. QED
    BY <1>1, <1>2, <1>3, <1>4, <1>5, <1>6, <1>7, <1>8, <1>9, StoreFrame

(***************************************************************************)
(* The shape of the rest of the state.                                     *)
(***************************************************************************)

\* Only an enqueue and the clock change the enqueues under way.
LEMMA EnqueueFrame ==
  ASSUME [Next]_vars
  PROVE  \/ UNCHANGED <<created, enq>>
         \/ \E j \in Jobs : Enqueue(j) \/ UpdateJobIndices(j) \/ EnqueueFails(j)
         \/ Tick
  <1>1. CASE \E d \in Dashboards :
               RetryJobWrite(d) \/ \E j \in Jobs : RetryJobRead(d, j) \/ DeleteRead(d, j)
    BY <1>1 DEF RetryJobWrite, RetryJobRead, DeleteRead
  <1>2. CASE \E a \in Removers : RemoveJobIndices(a) \/ DeleteBlob(a) \/ RemovalFails(a)
    BY <1>2 DEF RemoveJobIndices, DeleteBlob, RemovalFails
  <1>3. CASE \E s \in Servers : Start(s) \/ RequeueWrite(s) \/ Started(s) \/ Crash(s) \/ CleanupList(s)
    BY <1>3 DEF Start, RequeueWrite, Started, Crash, CleanupList, clients
  <1>4. CASE \E s \in Servers, j \in Jobs : RequeueRead(s, j) \/ CleanupRead(s, j)
    BY <1>4 DEF RequeueRead, CleanupRead, clients
  <1>5. CASE \E w \in Workers : FinishSome(w) \/ UpdateFails(w)
    BY <1>5 DEF FinishSome, Finish, UpdateFails, clients
  <1>6. CASE \E w \in Workers, j \in Jobs : Fetch(w, j) \/ FetchStale(w, j)
    BY <1>6 DEF Fetch, FetchStale, clients
  <1>7. CASE \E kind \in {"Scheduled", "AwaitingRetry"} : ClaimDue(kind)
    BY <1>7 DEF ClaimDue, clients
  <1>8. CASE UNCHANGED vars
    BY <1>8 DEF vars
  <1>9. QED
    BY <1>1, <1>2, <1>3, <1>4, <1>5, <1>6, <1>7, <1>8 DEF Next

\* An id is handed out once and for all.
LEMMA CreatedGrows ==
  ASSUME [Next]_vars
  PROVE  created \subseteq created'
  BY EnqueueFrame DEF Enqueue, UpdateJobIndices, EnqueueFails, Tick

\* What the commands of an enqueue do to it.
LEMMA EnqueueEffect ==
  ASSUME EnqueueOK, NEW j \in Jobs, UpdateJobIndices(j)
  PROVE  /\ enq' \in [Jobs -> EnqSet]
         /\ \A i \in Jobs \ {j} : enq'[i] = enq[i]
         /\ enq[j].step \in 1..5
         /\ enq[j].step = 5 => enq'[j] = NoEnqueue
         /\ enq[j].step # 5 => /\ enq'[j].step = enq[j].step + 1 /\ enq'[j].row = enq[j].row
                               /\ enq'[j].score = (IF enq[j].step = 3 THEN ScoreOf(enq[j].row)
                                                   ELSE enq[j].score)
  <1>1. enq[j] \in EnqSet /\ enq[j].step \in 1..5
    BY DEF EnqueueOK, UpdateJobIndices, EnqSet
  <1>2. CASE enq[j].step = 5
    <2>1. NoEnqueue \in EnqSet
      BY NoRowType DEF NoEnqueue, EnqSet, Scores
    <2>2. enq' = [enq EXCEPT ![j] = NoEnqueue]
      BY <1>2 DEF UpdateJobIndices
    <2>3. QED
      BY <1>1, <1>2, <2>1, <2>2 DEF EnqueueOK
  <1>3. CASE enq[j].step # 5
    <2>1. PICK n \in 0..5, score \in Scores :
            /\ n = enq[j].step + 1
            /\ score = (IF enq[j].step = 3 THEN ScoreOf(enq[j].row) ELSE enq[j].score)
      BY <1>1, <1>3 DEF EnqSet, ScoreOf, Scores
    <2> DEFINE new == [enq[j] EXCEPT !.step = n, !.score = score]
    <2>2. new \in EnqSet /\ new.step = n /\ new.row = enq[j].row /\ new.score = score
      BY <1>1 DEF EnqSet
    <2>3. enq' = [enq EXCEPT ![j] = new]
      BY <1>3, <2>1 DEF UpdateJobIndices
    <2> HIDE DEF new
    <2>4. QED
      BY <1>1, <1>3, <2>1, <2>2, <2>3 DEF EnqueueOK
  <1>4. QED
    BY <1>2, <1>3

\* What starting an enqueue does: a new row, of one of two kinds.
LEMMA EnqueueStarts ==
  ASSUME StoreOK, EnqueueOK, NEW j \in Jobs, Enqueue(j)
  PROVE  /\ j \notin created /\ created' = created \cup {j}
         /\ enq' \in [Jobs -> EnqSet]
         /\ \A i \in Jobs \ {j} : enq'[i] = enq[i] /\ jobs'[i] = jobs[i]
         /\ enq'[j].step = 1 /\ enq'[j].row = jobs'[j]
         /\ jobs'[j] \in JobRow(Workers)
         /\ jobs'[j].kind \in {"Enqueued", "Scheduled"} /\ jobs'[j].expires = NoExpiry
  <1>1. PICK row \in {NewJob("Enqueued", 0)} \cup {NewJob("Scheduled", t) : t \in StartDelays} :
          /\ jobs' = [jobs EXCEPT ![j] = row]
          /\ enq' = [enq EXCEPT ![j] = [step |-> 1, row |-> row, score |-> NoScore]]
    BY DEF Enqueue
  <1>2. /\ row \in JobRow(Workers)
        /\ row.kind \in {"Enqueued", "Scheduled"} /\ row.expires = NoExpiry
    <2>1. CASE row = NewJob("Enqueued", 0)
      BY <2>1, NewJobType DEF NewJob, Kinds
    <2>2. ASSUME NEW t \in StartDelays, row = NewJob("Scheduled", t)
          PROVE  /\ row \in JobRow(Workers)
                 /\ row.kind \in {"Enqueued", "Scheduled"} /\ row.expires = NoExpiry
      BY <2>2, NewJobType, RedisAssumption DEF NewJob, Kinds
    <2>3. QED
      BY <1>1, <2>1, <2>2
  <1>3. [step |-> 1, row |-> row, score |-> NoScore] \in EnqSet
    BY <1>2 DEF EnqSet, Scores
  <1>4. j \notin created /\ created' = created \cup {j}
    BY DEF Enqueue
  <1>5. QED
    BY <1>1, <1>2, <1>3, <1>4 DEF StoreOK, EnqueueOK

LEMMA EnqueueStep ==
  ASSUME StoreOK, EnqueueOK, RemovalsOK, WritersOK, [Next]_vars
  PROVE  EnqueueOK'
  <1>1. \A j \in Jobs : Present(jobs'[j]) => j \in created'
    <2>1. CASE \A j \in Jobs : Present(jobs'[j]) => Present(jobs[j])
      BY <2>1, CreatedGrows DEF EnqueueOK
    <2>2. ASSUME NEW i \in Jobs, Enqueue(i), \A j \in Jobs \ {i} : jobs'[j] = jobs[j]
          PROVE  \A j \in Jobs : Present(jobs'[j]) => j \in created'
      BY <2>2 DEF Enqueue, EnqueueOK
    <2>3. QED
      BY <2>1, <2>2, GoneStep
  <1>2. ASSUME created' \subseteq Jobs, enq' \in [Jobs -> EnqSet],
               \A j \in Jobs : enq'[j].step # 0 =>
                   j \in created' /\ enq'[j].row.kind \in {"Enqueued", "Scheduled"}
        PROVE  EnqueueOK'
    BY <1>1, <1>2 DEF EnqueueOK
  <1>3. CASE UNCHANGED <<created, enq>>
    BY <1>2, <1>3 DEF EnqueueOK
  <1>4. ASSUME NEW j \in Jobs, Enqueue(j) PROVE EnqueueOK'
    <2>1. /\ created' = created \cup {j} /\ enq' \in [Jobs -> EnqSet]
          /\ \A i \in Jobs \ {j} : enq'[i] = enq[i]
          /\ enq'[j].row.kind \in {"Enqueued", "Scheduled"}
      BY <1>4, EnqueueStarts
    <2>2. QED
      BY <1>2, <2>1 DEF EnqueueOK
  <1>5. ASSUME NEW j \in Jobs, UpdateJobIndices(j) PROVE EnqueueOK'
    <2>1. /\ enq' \in [Jobs -> EnqSet] /\ created' = created
          /\ \A i \in Jobs \ {j} : enq'[i] = enq[i]
          /\ enq[j].step # 0 /\ (enq'[j].step # 0 => enq'[j].row = enq[j].row)
      BY <1>5, EnqueueEffect DEF UpdateJobIndices, NoEnqueue
    <2>2. QED
      BY <1>2, <2>1 DEF EnqueueOK
  <1>6. ASSUME NEW j \in Jobs, EnqueueFails(j) PROVE EnqueueOK'
    <2>1. NoEnqueue \in EnqSet /\ NoEnqueue.step = 0
      BY NoRowType DEF NoEnqueue, EnqSet, Scores
    <2>2. enq' = [enq EXCEPT ![j] = NoEnqueue] /\ created' = created
      BY <1>6 DEF EnqueueFails
    <2>3. QED
      BY <1>2, <2>1, <2>2 DEF EnqueueOK
  <1>7. ASSUME Tick PROVE EnqueueOK'
    <2>1. ASSUME NEW j \in Jobs
          PROVE  /\ [enq[j] EXCEPT !.row = Aged(@, Limit)] \in EnqSet
                 /\ [enq[j] EXCEPT !.row = Aged(@, Limit)].step = enq[j].step
                 /\ [enq[j] EXCEPT !.row = Aged(@, Limit)].row.kind = enq[j].row.kind
      <3>1. enq[j] \in EnqSet /\ enq[j].row \in JobRow(Workers)
        BY DEF EnqueueOK, EnqSet
      <3>2. /\ Aged(enq[j].row, Limit) \in JobRow(Workers)
            /\ Aged(enq[j].row, Limit).kind = enq[j].row.kind
        BY <3>1, AgedType
      <3>3. QED
        BY <3>1, <3>2 DEF EnqSet
    <2>2. enq' = [j \in Jobs |-> [enq[j] EXCEPT !.row = Aged(@, Limit)]] /\ created' = created
      BY <1>7 DEF Tick
    <2>3. QED
      BY <1>2, <2>1, <2>2 DEF EnqueueOK
  <1>8. QED
    BY <1>3, <1>4, <1>5, <1>6, <1>7, EnqueueFrame

\* Only the removals, a crash and a failing enqueue change them, and what they
\* leave behind.
LEMMA RemovalFrame ==
  ASSUME [Next]_vars
  PROVE  \/ UNCHANGED <<rem, torn, drift>>
         \/ \E j \in Jobs : EnqueueFails(j)
         \/ \E d \in Dashboards, j \in Jobs : DeleteRead(d, j)
         \/ \E a \in Removers : RemoveJobIndices(a) \/ DeleteBlob(a) \/ RemovalFails(a)
         \/ \E s \in Servers : Crash(s) \/ CleanupList(s) \/ \E j \in Jobs : CleanupRead(s, j)
  <1>1. CASE \E j \in Jobs : Enqueue(j) \/ UpdateJobIndices(j)
    BY <1>1 DEF Enqueue, UpdateJobIndices
  <1>2. CASE \E d \in Dashboards : RetryJobWrite(d) \/ \E j \in Jobs : RetryJobRead(d, j)
    BY <1>2 DEF RetryJobWrite, RetryJobRead
  <1>3. CASE \E s \in Servers : Start(s) \/ RequeueWrite(s) \/ Started(s)
    BY <1>3 DEF Start, RequeueWrite, Started, clients
  <1>4. CASE \E s \in Servers, j \in Jobs : RequeueRead(s, j)
    BY <1>4 DEF RequeueRead, clients
  <1>5. CASE \E w \in Workers : FinishSome(w) \/ UpdateFails(w)
    BY <1>5 DEF FinishSome, Finish, UpdateFails, clients
  <1>6. CASE \E w \in Workers, j \in Jobs : Fetch(w, j) \/ FetchStale(w, j)
    BY <1>6 DEF Fetch, FetchStale, clients
  <1>7. CASE \E kind \in {"Scheduled", "AwaitingRetry"} : ClaimDue(kind)
    BY <1>7 DEF ClaimDue, clients
  <1>8. CASE Tick \/ UNCHANGED vars
    BY <1>8 DEF Tick, vars
  <1>9. QED
    BY <1>1, <1>2, <1>3, <1>4, <1>5, <1>6, <1>7, <1>8 DEF Next

\* Where a removal is stays right: ids stay handed out, and blobs gone.
LEMMA RemovalKept ==
  ASSUME StoreOK, EnqueueOK, RemovalsOK, WritersOK, [Next]_vars,
         NEW a \in Removers, NEW r \in RemSet, RemovalOK(a, r)
  PROVE  RemovalOK(a, r)'
  <1>1. r.id \in created => r.id \in created'
    BY CreatedGrows
  <1>2. r.id \in created /\ ~Present(jobs[r.id]) => ~Present(jobs'[r.id])
    <2> SUFFICES ASSUME r.id \in created, ~Present(jobs[r.id]) PROVE ~Present(jobs'[r.id])
      OBVIOUS
    <2>1. r.id \in Jobs
      BY DEF EnqueueOK
    <2>2. CASE \A j \in Jobs : Present(jobs'[j]) => Present(jobs[j])
      BY <2>1, <2>2
    <2>3. ASSUME NEW i \in Jobs, Enqueue(i), \A j \in Jobs \ {i} : jobs'[j] = jobs[j]
          PROVE  ~Present(jobs'[r.id])
      <3>1. i \notin created
        BY <2>3 DEF Enqueue
      <3>2. QED
        BY <2>1, <2>3, <3>1
    <2>4. QED
      BY <2>2, <2>3, GoneStep
  <1>3. QED
    BY <1>1, <1>2 DEF RemovalOK

\* A removal that moves on is a removal of the same job.
LEMMA RemAt ==
  ASSUME NEW r \in RemSet, NEW pc \in {"idle", "list", "del", "index"}, NEW step \in 0..5
  PROVE  /\ [r EXCEPT !.pc = pc, !.step = step] \in RemSet
         /\ [r EXCEPT !.pc = pc, !.step = step].pc = pc
         /\ [r EXCEPT !.pc = pc, !.step = step].id = r.id
         /\ [r EXCEPT !.pc = pc, !.step = step].kind = r.kind
         /\ [r EXCEPT !.pc = pc, !.step = step].step = step
  BY DEF RemSet

\* Where a removal goes next is right.
LEMMA NoRemovalOK ==
  ASSUME NEW a
  PROVE  NoRemoval \in RemSet /\ RemovalOK(a, NoRemoval) /\ RemovalOK(a, NoRemoval)'
  BY DEF NoRemoval, RemSet, RemovalOK

LEMMA ListingOK ==
  ASSUME NEW a, NEW r \in RemSet
  PROVE  /\ Listing(r) \in RemSet /\ Listing(r).id = NoId /\ Listing(r).pc \in {"idle", "list"}
         /\ RemovalOK(a, Listing(r)) /\ RemovalOK(a, Listing(r))'
  <1>1. Listing(r) \in RemSet /\ Listing(r).id = NoId /\ Listing(r).pc \in {"idle", "list"}
    <2>1. r.todo \in SUBSET Jobs
      BY DEF RemSet
    <2>2. NoRemoval \in RemSet /\ NoRemoval.id = NoId /\ NoRemoval.pc = "idle"
      BY DEF NoRemoval, RemSet
    <2>3. PICK pc \in {"idle", "list", "del", "index"}, none \in RemSet : pc = "list" /\ none = NoRemoval
      BY <2>2
    <2>a. /\ [none EXCEPT !.pc = pc, !.todo = r.todo] \in RemSet
          /\ [none EXCEPT !.pc = pc, !.todo = r.todo].pc = pc
          /\ [none EXCEPT !.pc = pc, !.todo = r.todo].id = none.id
      BY <2>1 DEF RemSet
    <2>4. QED
      BY <2>2, <2>3, <2>a DEF Listing
  <1>2. QED
    BY <1>1 DEF RemovalOK

LEMMA RemovalStep ==
  ASSUME StoreOK, EnqueueOK, RemovalsOK, WritersOK, [Next]_vars
  PROVE  RemovalsOK'
  <1>0. ASSUME NEW a \in Removers
        PROVE  rem[a] \in RemSet /\ RemovalOK(a, rem[a])
    BY <1>0 DEF RemovalsOK
  <1>k. ASSUME NEW a \in Removers, rem'[a] = rem[a]
        PROVE  RemovalOK(a, rem[a])'
    <2>1. PICK r \in RemSet : r = rem[a] /\ RemovalOK(a, r)
      BY <1>0
    <2>2. RemovalOK(a, r)'
      BY <2>1, RemovalKept
    <2>3. QED
      BY <1>k, <2>1, <2>2 DEF RemovalOK
  <1>n. ASSUME NEW a \in Removers, NEW new \in RemSet, rem' = [rem EXCEPT ![a] = new],
               RemovalOK(a, new)', torn' \subseteq Jobs, drift' \subseteq Jobs
        PROVE  RemovalsOK'
    <2>1. rem'[a] = new /\ \A b \in Removers \ {a} : rem'[b] = rem[b]
      BY <1>n DEF RemovalsOK
    <2>2. rem' \in [Removers -> RemSet]
      BY <1>n DEF RemovalsOK
    <2>3. RemovalOK(a, rem[a])'
      BY <1>n, <2>1 DEF RemovalOK
    <2>4. \A b \in Removers : RemovalOK(b, rem[b])'
      BY <2>1, <2>3, <1>k
    <2>5. QED
      BY <1>n, <2>2, <2>4 DEF RemovalsOK
  <1>1. CASE UNCHANGED <<rem, torn, drift>>
    BY <1>1, <1>k DEF RemovalsOK
  <1>2. ASSUME NEW j \in Jobs, EnqueueFails(j) PROVE RemovalsOK'
    <2>1. rem' = rem /\ torn' = torn \cup {j} /\ drift' = drift
      BY <1>2 DEF EnqueueFails
    <2>2. QED
      BY <2>1, <1>k DEF RemovalsOK
  <1>3. ASSUME NEW d \in Dashboards, NEW j \in Jobs, DeleteRead(d, j) PROVE RemovalsOK'
    <2> DEFINE new == [NoRemoval EXCEPT !.pc = "del", !.id = j, !.kind = jobs[j].kind]
    <2>1. /\ rem' = [rem EXCEPT ![d] = new] /\ torn' = torn /\ drift' = drift /\ created' = created
          /\ Present(jobs[j])
      BY <1>3 DEF DeleteRead
    <2>2. jobs[j].kind \in Kinds /\ j \in created
      BY <2>1 DEF StoreOK, JobRow, Present, EnqueueOK
    <2>3. new \in RemSet /\ new.pc = "del" /\ new.id = j /\ new.kind = jobs[j].kind
      <3>1. PICK pc \in {"idle", "list", "del", "index"}, none \in RemSet, kind \in Kinds :
              pc = "del" /\ none = NoRemoval /\ kind = jobs[j].kind
        BY <2>2, NoRemovalOK
      <3>2. /\ [none EXCEPT !.pc = pc, !.id = j, !.kind = kind] \in RemSet
            /\ [none EXCEPT !.pc = pc, !.id = j, !.kind = kind].pc = pc
            /\ [none EXCEPT !.pc = pc, !.id = j, !.kind = kind].id = j
            /\ [none EXCEPT !.pc = pc, !.id = j, !.kind = kind].kind = kind
        BY DEF RemSet
      <3>3. QED
        BY <3>1, <3>2
    <2>4. PICK r \in RemSet : r = new
      BY <2>3
    <2> HIDE DEF new
    <2>5. RemovalOK(d, r)'
      BY <2>1, <2>2, <2>3, <2>4 DEF RemovalOK
    <2>6. d \in Removers /\ torn' \subseteq Jobs /\ drift' \subseteq Jobs
      BY <2>1 DEF Removers, RemovalsOK
    <2>7. QED
      BY <2>1, <2>4, <2>5, <2>6, <1>n
  <1>4. ASSUME NEW a \in Removers, RemoveJobIndices(a) PROVE RemovalsOK'
    <2>0. /\ rem[a] \in RemSet /\ rem[a].pc = "index" /\ rem[a].step \in 1..5
          /\ torn' \subseteq Jobs /\ drift' \subseteq Jobs
          /\ created' = created /\ jobs' = jobs
      BY <1>0, <1>4 DEF RemoveJobIndices, RemSet, RemovalOK, RemovalsOK
    <2>1. PICK n \in 0..5 : n = (IF rem[a].step < 5 THEN rem[a].step + 1 ELSE 0)
      BY <2>0
    <2>2. CASE rem[a].step < 5
      <3> DEFINE new == [rem[a] EXCEPT !.step = n]
      <3>1. rem' = [rem EXCEPT ![a] = new]
        BY <1>4, <2>1, <2>2 DEF RemoveJobIndices
      <3>2. /\ new \in RemSet /\ new.pc = rem[a].pc /\ new.id = rem[a].id
            /\ new.kind = rem[a].kind /\ new.step = n
        BY <2>0 DEF RemSet
      <3>3. n # 0
        BY <2>0, <2>1, <2>2
      <3>4. PICK r \in RemSet : r = new
        BY <3>2
      <3> HIDE DEF new
      <3>5. RemovalOK(a, r)'
        BY <1>0, <2>0, <3>2, <3>3, <3>4 DEF RemovalOK
      <3>6. QED
        BY <2>0, <3>1, <3>4, <3>5, <1>n
    <2>3. CASE ~(rem[a].step < 5) /\ a \in Servers
      <3> DEFINE new == [rem[a] EXCEPT !.pc = "del", !.step = n]
      <3>1. rem' = [rem EXCEPT ![a] = new]
        BY <1>4, <2>1, <2>3 DEF RemoveJobIndices
      <3>2. /\ new \in RemSet /\ new.pc = "del" /\ new.id = rem[a].id /\ new.kind = rem[a].kind
        BY <2>0 DEF RemSet
      <3>3. PICK r \in RemSet : r = new
        BY <3>2
      <3> HIDE DEF new
      <3>4. RemovalOK(a, r)'
        BY <1>0, <2>0, <3>2, <3>3 DEF RemovalOK
      <3>5. QED
        BY <2>0, <3>1, <3>3, <3>4, <1>n
    <2>4. CASE ~(rem[a].step < 5) /\ a \notin Servers
      <3>1. rem' = [rem EXCEPT ![a] = NoRemoval]
        BY <1>4, <2>4 DEF RemoveJobIndices
      <3>2. QED
        BY <2>0, <3>1, NoRemovalOK, <1>n
    <2>5. QED
      BY <2>2, <2>3, <2>4
  <1>5. ASSUME NEW a \in Removers, DeleteBlob(a) PROVE RemovalsOK'
    <2>0. /\ rem[a] \in RemSet /\ rem[a].id \in created /\ rem[a].id \in Jobs
          /\ created' = created /\ rem[a].kind \in Kinds
      BY <1>0, <1>5 DEF DeleteBlob, RemovalOK, EnqueueOK
    <2>1. torn' \subseteq Jobs /\ drift' \subseteq Jobs
      BY <1>5, <2>0 DEF DeleteBlob, RemovalsOK
    <2>2. ~Present(jobs'[rem[a].id])
      BY <1>5, <2>0, RowKinds DEF DeleteBlob, StoreOK
    <2>3. CASE a \in Servers
      <3>1. rem' = [rem EXCEPT ![a] = Listing(rem[a])]
        BY <1>5, <2>3 DEF DeleteBlob
      <3>2. PICK r \in RemSet : r = rem[a]
        BY <2>0
      <3>3. Listing(r) \in RemSet /\ RemovalOK(a, Listing(r))'
        BY ListingOK
      <3>4. rem' = [rem EXCEPT ![a] = Listing(r)]
        BY <3>1, <3>2
      <3>5. QED
        BY <2>1, <3>3, <3>4, <1>n
    <2>4. CASE a \notin Servers /\ Present(jobs[rem[a].id])
      <3> DEFINE new == [rem[a] EXCEPT !.pc = "index", !.step = 1]
      <3>1. rem' = [rem EXCEPT ![a] = new]
        BY <1>5, <2>4 DEF DeleteBlob
      <3>2. /\ new \in RemSet /\ new.pc = "index" /\ new.id = rem[a].id /\ new.kind = rem[a].kind
            /\ new.step = 1
        <4>1. PICK r \in RemSet : r = rem[a]
          BY <2>0
        <4>2. /\ [r EXCEPT !.pc = "index", !.step = 1] \in RemSet
              /\ [r EXCEPT !.pc = "index", !.step = 1].pc = "index"
              /\ [r EXCEPT !.pc = "index", !.step = 1].id = r.id
              /\ [r EXCEPT !.pc = "index", !.step = 1].kind = r.kind
              /\ [r EXCEPT !.pc = "index", !.step = 1].step = 1
          BY 1 \in 0..5, RemAt
        <4>3. QED
          BY <4>1, <4>2
      <3>3. PICK r \in RemSet : r = new
        BY <3>2
      <3> HIDE DEF new
      <3>4. RemovalOK(a, r)'
        BY <2>0, <2>2, <3>2, <3>3 DEF RemovalOK
      <3>5. QED
        BY <2>1, <3>1, <3>3, <3>4, <1>n
    <2>5. CASE a \notin Servers /\ ~Present(jobs[rem[a].id])
      <3>1. rem' = [rem EXCEPT ![a] = NoRemoval]
        BY <1>5, <2>5 DEF DeleteBlob
      <3>2. QED
        BY <2>1, <3>1, NoRemovalOK, <1>n
    <2>6. QED
      BY <2>3, <2>4, <2>5
  <1>6. ASSUME NEW a \in Removers, rem' = [rem EXCEPT ![a] = NoRemoval],
               torn' = torn \cup ({rem[a].id} \ {NoId}), drift' = drift
        PROVE  RemovalsOK'
    <2>1. torn' \subseteq Jobs /\ drift' \subseteq Jobs
      BY <1>0, <1>6 DEF RemovalsOK, RemSet
    <2>2. QED
      BY <1>6, <2>1, NoRemovalOK, <1>n
  <1>7. ASSUME NEW s \in Servers, CleanupList(s) PROVE RemovalsOK'
    <2> DEFINE expired == {j \in all : jobs[j].expires = 0}
               new == [NoRemoval EXCEPT !.pc = "list", !.todo = expired]
    <2>1. rem' = [rem EXCEPT ![s] = new] /\ torn' = torn /\ drift' = drift
      BY <1>7 DEF CleanupList
    <2>2. expired \subseteq Jobs
      BY DEF StoreOK
    <2> HIDE DEF expired
    <2>3. new \in RemSet /\ new.pc = "list" /\ new.id = NoId
      <3>1. PICK pc \in {"idle", "list", "del", "index"}, none \in RemSet, todo \in SUBSET Jobs :
              pc = "list" /\ none = NoRemoval /\ none.id = NoId /\ todo = expired
        BY <2>2, NoRemovalOK DEF NoRemoval
      <3>2. /\ [none EXCEPT !.pc = pc, !.todo = todo] \in RemSet
            /\ [none EXCEPT !.pc = pc, !.todo = todo].pc = pc
            /\ [none EXCEPT !.pc = pc, !.todo = todo].id = none.id
        BY DEF RemSet
      <3>3. QED
        BY <3>1, <3>2
    <2>4. PICK r \in RemSet : r = new
      BY <2>3
    <2> HIDE DEF new
    <2>5. RemovalOK(s, r)'
      BY <2>3, <2>4 DEF RemovalOK
    <2>6. s \in Removers /\ torn' \subseteq Jobs /\ drift' \subseteq Jobs
      BY <2>1 DEF Removers, RemovalsOK
    <2>7. QED
      BY <2>1, <2>4, <2>5, <2>6, <1>n
  <1>8. ASSUME NEW s \in Servers, NEW j \in Jobs, CleanupRead(s, j) PROVE RemovalsOK'
    <2>0. s \in Removers /\ rem[s] \in RemSet /\ torn' \subseteq Jobs /\ drift' \subseteq Jobs
          /\ created' = created
      BY <1>0, <1>8 DEF Removers, CleanupRead, RemovalsOK
    <2> DEFINE rest == [rem[s] EXCEPT !.todo = @ \ {j}]
    <2>1. rest \in RemSet
      BY <2>0 DEF RemSet
    <2>2. CASE Present(jobs[j]) /\ jobs[j].expires = 0
      <3> DEFINE new == [rest EXCEPT !.pc = "index", !.id = j, !.kind = jobs[j].kind, !.step = 1]
      <3>1. rem' = [rem EXCEPT ![s] = new]
        BY <1>8, <2>2 DEF CleanupRead
      <3>2. jobs[j].kind \in Kinds /\ j \in created
        BY <2>2 DEF StoreOK, JobRow, Present, EnqueueOK
      <3> HIDE DEF rest
      <3>3. /\ new \in RemSet /\ new.pc = "index" /\ new.id = j /\ new.kind = jobs[j].kind
            /\ new.step = 1
        <4>1. PICK r \in RemSet, kind \in Kinds, pc \in {"idle", "list", "del", "index"}, n \in 0..5 :
                r = rest /\ kind = jobs[j].kind /\ pc = "index" /\ n = 1
          BY <2>1, <3>2
        <4>2. /\ [r EXCEPT !.pc = pc, !.id = j, !.kind = kind, !.step = n] \in RemSet
              /\ [r EXCEPT !.pc = pc, !.id = j, !.kind = kind, !.step = n].pc = pc
              /\ [r EXCEPT !.pc = pc, !.id = j, !.kind = kind, !.step = n].id = j
              /\ [r EXCEPT !.pc = pc, !.id = j, !.kind = kind, !.step = n].kind = kind
              /\ [r EXCEPT !.pc = pc, !.id = j, !.kind = kind, !.step = n].step = n
          BY DEF RemSet
        <4>3. QED
          BY <4>1, <4>2
      <3>4. s \notin Dashboards
        BY RedisAssumption
      <3>5. PICK r \in RemSet : r = new
        BY <3>3
      <3> HIDE DEF new
      <3>6. RemovalOK(s, r)'
        BY <2>0, <3>2, <3>3, <3>4, <3>5 DEF RemovalOK
      <3>7. QED
        BY <2>0, <3>1, <3>5, <3>6, <1>n
    <2>3. CASE ~(Present(jobs[j]) /\ jobs[j].expires = 0)
      <3>1. rem' = [rem EXCEPT ![s] = Listing(rest)]
        BY <1>8, <2>3 DEF CleanupRead
      <3>2. PICK r \in RemSet : r = rest
        BY <2>1
      <3> HIDE DEF rest
      <3>3. Listing(r) \in RemSet /\ RemovalOK(s, Listing(r))'
        BY ListingOK
      <3>4. rem' = [rem EXCEPT ![s] = Listing(r)]
        BY <3>1, <3>2
      <3>5. QED
        BY <2>0, <3>3, <3>4, <1>n
    <2>4. QED
      BY <2>2, <2>3
  <1>9. QED
    BY <1>1, <1>2, <1>3, <1>4, <1>5, <1>6, <1>7, <1>8, RemovalFrame DEF RemovalFails, Crash, Removers

\* Requests, sweeps and slots: their fields after a change.
LEMMA AgedRequest ==
  ASSUME NEW r \in RequestSet
  PROVE  /\ [r EXCEPT !.row = Aged(@, Limit)] \in RequestSet
         /\ [r EXCEPT !.row = Aged(@, Limit)].id = r.id
         /\ [r EXCEPT !.row = Aged(@, Limit)].row.kind = r.row.kind
  <1>1. r.row \in JobRow(Workers)
    BY DEF RequestSet
  <1>2. Aged(r.row, Limit) \in JobRow(Workers) /\ Aged(r.row, Limit).kind = r.row.kind
    BY <1>1, AgedType
  <1>3. QED
    BY <1>1, <1>2 DEF RequestSet

LEMMA AgedSweep ==
  ASSUME NEW r \in SweepSet
  PROVE  /\ [r EXCEPT !.row = Aged(@, Limit), !.age = @ + 1] \in SweepSet
         /\ [r EXCEPT !.row = Aged(@, Limit), !.age = @ + 1].id = r.id
         /\ [r EXCEPT !.row = Aged(@, Limit), !.age = @ + 1].row.kind = r.row.kind
         /\ [r EXCEPT !.row = Aged(@, Limit), !.age = @ + 1].age = r.age + 1
         /\ [r EXCEPT !.row = Aged(@, Limit), !.age = @ + 1].todo = r.todo
  <1>1. r.row \in JobRow(Workers) /\ r.age \in Nat
    BY DEF SweepSet
  <1>2. PICK row \in JobRow(Workers), n \in Nat :
          row = Aged(r.row, Limit) /\ n = r.age + 1 /\ row.kind = r.row.kind
    BY <1>1, AgedType
  <1>3. /\ [r EXCEPT !.row = row, !.age = n] \in SweepSet
        /\ [r EXCEPT !.row = row, !.age = n].id = r.id
        /\ [r EXCEPT !.row = row, !.age = n].row = row
        /\ [r EXCEPT !.row = row, !.age = n].age = n
        /\ [r EXCEPT !.row = row, !.age = n].todo = r.todo
    BY DEF SweepSet
  <1>4. QED
    BY <1>2, <1>3

LEMMA AgedSlot ==
  ASSUME NEW r \in SlotSet
  PROVE  /\ [r EXCEPT !.elapsed = @ + 1, !.row = Aged(@, Limit)] \in SlotSet
         /\ [r EXCEPT !.elapsed = @ + 1, !.row = Aged(@, Limit)].pc = r.pc
         /\ [r EXCEPT !.elapsed = @ + 1, !.row = Aged(@, Limit)].id = r.id
         /\ [r EXCEPT !.elapsed = @ + 1, !.row = Aged(@, Limit)].elapsed = r.elapsed + 1
  <1>1. r.row \in JobRow(Workers) /\ r.elapsed \in Nat
    BY DEF SlotSet
  <1>2. PICK row \in JobRow(Workers), n \in Nat : row = Aged(r.row, Limit) /\ n = r.elapsed + 1
    BY <1>1, AgedType
  <1>3. /\ [r EXCEPT !.elapsed = n, !.row = row] \in SlotSet
        /\ [r EXCEPT !.elapsed = n, !.row = row].pc = r.pc
        /\ [r EXCEPT !.elapsed = n, !.row = row].id = r.id
        /\ [r EXCEPT !.elapsed = n, !.row = row].elapsed = n
    BY DEF SlotSet
  <1>4. QED
    BY <1>2, <1>3

\* The requests of the dashboards: read, written, or older by a tick.
LEMMA DashFrame ==
  ASSUME [Next]_vars
  PROVE  \/ UNCHANGED <<dash, manual>>
         \/ \E d \in Dashboards : RetryJobWrite(d) \/ \E j \in Jobs : RetryJobRead(d, j)
         \/ Tick
  <1>1. CASE \E j \in Jobs : Enqueue(j) \/ UpdateJobIndices(j) \/ EnqueueFails(j)
    BY <1>1 DEF Enqueue, UpdateJobIndices, EnqueueFails
  <1>2. CASE \E d \in Dashboards, j \in Jobs : DeleteRead(d, j)
    BY <1>2 DEF DeleteRead
  <1>3. CASE \E a \in Removers : RemoveJobIndices(a) \/ DeleteBlob(a) \/ RemovalFails(a)
    BY <1>3 DEF RemoveJobIndices, DeleteBlob, RemovalFails
  <1>4. CASE \E s \in Servers : Start(s) \/ RequeueWrite(s) \/ Started(s) \/ Crash(s) \/ CleanupList(s)
    BY <1>4 DEF Start, RequeueWrite, Started, Crash, CleanupList, clients
  <1>5. CASE \E s \in Servers, j \in Jobs : RequeueRead(s, j) \/ CleanupRead(s, j)
    BY <1>5 DEF RequeueRead, CleanupRead, clients
  <1>6. CASE \E w \in Workers : FinishSome(w) \/ UpdateFails(w)
    BY <1>6 DEF FinishSome, Finish, UpdateFails, clients
  <1>7. CASE \E w \in Workers, j \in Jobs : Fetch(w, j) \/ FetchStale(w, j)
    BY <1>7 DEF Fetch, FetchStale, clients
  <1>8. CASE \E kind \in {"Scheduled", "AwaitingRetry"} : ClaimDue(kind)
    BY <1>8 DEF ClaimDue, clients
  <1>9. CASE UNCHANGED vars
    BY <1>9 DEF vars
  <1>10. QED
    BY <1>1, <1>2, <1>3, <1>4, <1>5, <1>6, <1>7, <1>8, <1>9 DEF Next

LEMMA DashStep ==
  ASSUME StoreOK, DashOK, [Next]_vars
  PROVE  DashOK'
  <1>1. CASE UNCHANGED <<dash, manual>>
    BY <1>1 DEF DashOK
  <1>2. ASSUME NEW d \in Dashboards, RetryJobWrite(d) PROVE DashOK'
    <2>1. NoRequest \in RequestSet /\ NoRequest.id = NoId
      BY NoRowType DEF NoRequest, RequestSet
    <2>2. dash' = [dash EXCEPT ![d] = NoRequest]
      BY <1>2 DEF RetryJobWrite
    <2>3. dash[d].id \in Jobs
      BY <1>2 DEF RetryJobWrite, DashOK, RequestSet
    <2>4. manual' \in [Jobs -> Nat]
      BY <1>2, <2>3 DEF RetryJobWrite, DashOK
    <2>5. QED
      BY <2>1, <2>2, <2>4 DEF DashOK
  <1>3. ASSUME NEW d \in Dashboards, NEW j \in Jobs, RetryJobRead(d, j) PROVE DashOK'
    <2>1. PICK row \in JobRow(Workers) : row = SetState(jobs[j], "Enqueued", 0) /\ row.kind = "Enqueued"
      BY SetStateType, RowKinds DEF StoreOK, Kinds
    <2>2. [id |-> j, row |-> row] \in RequestSet
      BY DEF RequestSet
    <2>3. dash' = [dash EXCEPT ![d] = [id |-> j, row |-> row]] /\ manual' = manual
      BY <1>3, <2>1 DEF RetryJobRead
    <2>4. QED
      BY <2>1, <2>2, <2>3 DEF DashOK
  <1>4. ASSUME Tick PROVE DashOK'
    <2>1. dash' = [d \in Dashboards |-> [dash[d] EXCEPT !.row = Aged(@, Limit)]] /\ manual' = manual
      BY <1>4 DEF Tick
    <2>2. ASSUME NEW d \in Dashboards
          PROVE  dash'[d] \in RequestSet /\ dash'[d].id = dash[d].id /\ dash'[d].row.kind = dash[d].row.kind
      <3>1. PICK r \in RequestSet : r = dash[d]
        BY DEF DashOK
      <3>2. dash'[d] = [r EXCEPT !.row = Aged(@, Limit)]
        BY <2>1, <3>1
      <3>3. QED
        BY <3>1, <3>2, AgedRequest
    <2>3. dash' \in [Dashboards -> RequestSet]
      BY <2>1, <2>2
    <2>4. QED
      BY <2>1, <2>2, <2>3 DEF DashOK
  <1>5. QED
    BY <1>1, <1>2, <1>3, <1>4, DashFrame

\* The sweeps follow their servers.
LEMMA SweepFrame ==
  ASSUME [Next]_vars
  PROVE  \/ UNCHANGED <<srv, sweep>>
         \/ \E s \in Servers : \/ Start(s) \/ RequeueWrite(s) \/ Started(s) \/ Crash(s)
                               \/ \E j \in Jobs : RequeueRead(s, j)
         \/ Tick
  <1>1. CASE \E j \in Jobs : Enqueue(j) \/ UpdateJobIndices(j) \/ EnqueueFails(j)
    BY <1>1 DEF Enqueue, UpdateJobIndices, EnqueueFails
  <1>2. CASE \E d \in Dashboards :
               RetryJobWrite(d) \/ \E j \in Jobs : RetryJobRead(d, j) \/ DeleteRead(d, j)
    BY <1>2 DEF RetryJobWrite, RetryJobRead, DeleteRead
  <1>3. CASE \E a \in Removers : RemoveJobIndices(a) \/ DeleteBlob(a) \/ RemovalFails(a)
    BY <1>3 DEF RemoveJobIndices, DeleteBlob, RemovalFails
  <1>4. CASE \E s \in Servers : CleanupList(s) \/ \E j \in Jobs : CleanupRead(s, j)
    BY <1>4 DEF CleanupList, CleanupRead
  <1>5. CASE \E w \in Workers : FinishSome(w) \/ UpdateFails(w)
    BY <1>5 DEF FinishSome, Finish, UpdateFails
  <1>6. CASE \E w \in Workers, j \in Jobs : Fetch(w, j) \/ FetchStale(w, j)
    BY <1>6 DEF Fetch, FetchStale
  <1>7. CASE \E kind \in {"Scheduled", "AwaitingRetry"} : ClaimDue(kind)
    BY <1>7 DEF ClaimDue
  <1>8. CASE UNCHANGED vars
    BY <1>8 DEF vars
  <1>9. QED
    BY <1>1, <1>2, <1>3, <1>4, <1>5, <1>6, <1>7, <1>8 DEF Next

LEMMA NoSweepType == NoSweep \in SweepSet /\ NoSweep.id = NoId /\ NoSweep.age = 0
  BY NoRowType DEF NoSweep, SweepSet

\* What starting a sweep, reading a job and writing its copy do to the sweep.
LEMMA SweepStarts ==
  ASSUME SweepsOK, NEW s \in Servers, Start(s)
  PROVE  /\ sweep' \in [Servers -> SweepSet] /\ sweep'[s].id = NoId /\ sweep'[s].age = 0
         /\ \A t \in Servers \ {s} : sweep'[t] = sweep[t]
         /\ srv' = [srv EXCEPT ![s] = "starting"]
  <1>1. PICK todo \in SUBSET Jobs : todo = {j \in Jobs : "Processing" \in sets[j]}
    OBVIOUS
  <1>2. PICK none \in SweepSet : none = NoSweep /\ none.id = NoId /\ none.age = 0
    BY NoSweepType
  <1> DEFINE new == [none EXCEPT !.todo = todo]
  <1>3. new \in SweepSet /\ new.id = NoId /\ new.age = 0
    BY <1>2 DEF SweepSet
  <1>4. sweep' = [sweep EXCEPT ![s] = new] /\ srv' = [srv EXCEPT ![s] = "starting"]
    BY <1>1, <1>2 DEF Start
  <1> HIDE DEF new
  <1>5. QED
    BY <1>3, <1>4 DEF SweepsOK

LEMMA SweepReads ==
  ASSUME StoreOK, SweepsOK, NEW s \in Servers, NEW j \in Jobs, RequeueRead(s, j)
  PROVE  /\ sweep' \in [Servers -> SweepSet] /\ srv' = srv
         /\ \A t \in Servers \ {s} : sweep'[t] = sweep[t]
         /\ sweep'[s].age = sweep[s].age
         /\ \/ ~Stale(jobs[j], sweep[s].age) /\ sweep'[s].id = NoId
            \/ /\ Stale(jobs[j], sweep[s].age)
               /\ sweep'[s].id = j /\ sweep'[s].row.kind = "Enqueued"
  <1>1. PICK row \in JobRow(Workers), id \in Jobs \cup {NoId} :
          /\ row = (IF Stale(jobs[j], sweep[s].age) THEN SetState(jobs[j], "Enqueued", 0) ELSE NoRow)
          /\ id = (IF Stale(jobs[j], sweep[s].age) THEN j ELSE NoId)
          /\ Stale(jobs[j], sweep[s].age) => row.kind = "Enqueued"
    <2>1. PICK new \in JobRow(Workers) : new = SetState(jobs[j], "Enqueued", 0) /\ new.kind = "Enqueued"
      BY SetStateType, RowKinds DEF StoreOK, Kinds
    <2>2. CASE Stale(jobs[j], sweep[s].age)
      BY <2>1, <2>2
    <2>3. CASE ~Stale(jobs[j], sweep[s].age)
      BY <2>3, NoRowType
    <2>4. QED
      BY <2>2, <2>3
  <1>2. PICK old \in SweepSet : old = sweep[s]
    BY DEF SweepsOK
  <1>3. PICK todo \in SUBSET Jobs : todo = old.todo \ {j}
    BY DEF SweepSet
  <1> DEFINE new == [old EXCEPT !.todo = todo, !.id = id, !.row = row]
  <1>4. new \in SweepSet /\ new.id = id /\ new.row = row /\ new.age = old.age
    BY DEF SweepSet
  <1>5. sweep' = [sweep EXCEPT ![s] = new] /\ srv' = srv
    BY <1>1, <1>2, <1>3 DEF RequeueRead, SweepsOK, SweepSet
  <1> HIDE DEF new
  <1>6. sweep' \in [Servers -> SweepSet] /\ sweep'[s] = new /\ \A t \in Servers \ {s} : sweep'[t] = sweep[t]
    BY <1>4, <1>5 DEF SweepsOK
  <1>7. QED
    BY <1>1, <1>2, <1>4, <1>5, <1>6

LEMMA SweepWrites ==
  ASSUME SweepsOK, NEW s \in Servers, RequeueWrite(s)
  PROVE  /\ sweep' \in [Servers -> SweepSet] /\ srv' = srv
         /\ \A t \in Servers \ {s} : sweep'[t] = sweep[t]
         /\ sweep'[s].id = NoId /\ sweep'[s].age = sweep[s].age
  <1>1. PICK old \in SweepSet : old = sweep[s]
    BY DEF SweepsOK
  <1>2. PICK todo \in SUBSET Jobs : todo = (IF Present(jobs[sweep[s].id]) THEN old.todo ELSE {})
    BY DEF SweepSet
  <1>3. PICK row \in JobRow(Workers), id \in Jobs \cup {NoId} : row = NoRow /\ id = NoId
    BY NoRowType
  <1> DEFINE new == [old EXCEPT !.id = id, !.row = row, !.todo = todo]
  <1>4. new \in SweepSet /\ new.id = NoId /\ new.age = old.age
    BY <1>3 DEF SweepSet
  <1>5. sweep' = [sweep EXCEPT ![s] = new] /\ srv' = srv
    BY <1>1, <1>2, <1>3 DEF RequeueWrite, SweepsOK, SweepSet
  <1> HIDE DEF new
  <1>6. sweep' \in [Servers -> SweepSet] /\ sweep'[s] = new /\ \A t \in Servers \ {s} : sweep'[t] = sweep[t]
    BY <1>4, <1>5 DEF SweepsOK
  <1>7. QED
    BY <1>1, <1>4, <1>5, <1>6

\* A tick ages the sweeps of the starting servers.
LEMMA SweepTicks ==
  ASSUME SweepsOK, Tick, NEW s \in Servers
  PROVE  /\ srv' = srv /\ sweep'[s] \in SweepSet
         /\ sweep'[s].id = sweep[s].id /\ sweep'[s].row.kind = sweep[s].row.kind
         /\ srv[s] # "starting" => sweep'[s] = sweep[s]
         /\ srv[s] = "starting" => sweep'[s].age = sweep[s].age + 1 /\ sweep[s].age < MaxLag
  <1>1. PICK r \in SweepSet : r = sweep[s]
    BY DEF SweepsOK
  <1>2. CASE srv[s] = "starting"
    <2>1. /\ sweep'[s] = [r EXCEPT !.row = Aged(@, Limit), !.age = @ + 1]
          /\ srv' = srv /\ sweep[s].age < MaxLag
      BY <1>1, <1>2 DEF Tick
    <2>2. QED
      BY <1>1, <1>2, <2>1, AgedSweep
  <1>3. CASE srv[s] # "starting"
    BY <1>1, <1>3 DEF Tick
  <1>4. QED
    BY <1>2, <1>3

LEMMA SweepStep ==
  ASSUME StoreOK, EnqueueOK, SweepsOK, [Next]_vars
  PROVE  SweepsOK'
  <1>1. CASE UNCHANGED <<srv, sweep>>
    BY <1>1, CreatedGrows DEF SweepsOK
  <1>2. ASSUME NEW s \in Servers, Start(s) PROVE SweepsOK'
    BY <1>2, SweepStarts, CreatedGrows DEF SweepsOK
  <1>3. ASSUME NEW s \in Servers, NEW j \in Jobs, RequeueRead(s, j) PROVE SweepsOK'
    <2>1. Stale(jobs[j], sweep[s].age) => j \in created
      BY DEF Stale, EnqueueOK, Present
    <2>2. srv[s] = "starting"
      BY <1>3 DEF RequeueRead, SweepsOK, NoSweep
    <2>3. QED
      BY <1>3, <2>1, <2>2, SweepReads, CreatedGrows DEF SweepsOK
  <1>4. ASSUME NEW s \in Servers, RequeueWrite(s) PROVE SweepsOK'
    <2>1. srv[s] = "starting"
      BY <1>4 DEF RequeueWrite, SweepsOK, NoSweep
    <2>2. QED
      BY <1>4, <2>1, SweepWrites, CreatedGrows DEF SweepsOK
  <1>5. ASSUME NEW s \in Servers, Started(s) PROVE SweepsOK'
    <2>1. srv' = [srv EXCEPT ![s] = "up"] /\ sweep' = [sweep EXCEPT ![s] = NoSweep]
      BY <1>5 DEF Started
    <2>2. QED
      BY <2>1, NoSweepType, CreatedGrows DEF SweepsOK
  <1>6. ASSUME NEW s \in Servers, Crash(s) PROVE SweepsOK'
    <2>1. srv' = [srv EXCEPT ![s] = "down"] /\ sweep' = [sweep EXCEPT ![s] = NoSweep]
      BY <1>6 DEF Crash
    <2>2. QED
      BY <2>1, NoSweepType, CreatedGrows DEF SweepsOK
  <1>7. ASSUME Tick PROVE SweepsOK'
    <2>1. \A s \in Servers :
            /\ sweep'[s] \in SweepSet
            /\ sweep'[s].id = sweep[s].id /\ sweep'[s].row.kind = sweep[s].row.kind
            /\ srv[s] # "starting" => sweep'[s] = sweep[s]
      BY <1>7, SweepTicks
    <2>2. sweep' \in [Servers -> SweepSet] /\ srv' = srv
      BY <1>7, <2>1 DEF Tick
    <2>3. QED
      BY <2>1, <2>2, CreatedGrows DEF SweepsOK
  <1>8. QED
    BY <1>1, <1>2, <1>3, <1>4, <1>5, <1>6, <1>7, SweepFrame

\* A slot is filled by a claim, emptied by the end of the attempt or of the
\* process, and older by a tick.
LEMMA SlotFrame ==
  ASSUME [Next]_vars
  PROVE  \/ UNCHANGED wk
         \/ \E s \in Servers : Started(s) \/ Crash(s)
         \/ \E w \in Workers : FinishSome(w) \/ UpdateFails(w)
         \/ \E w \in Workers, j \in Jobs : Fetch(w, j)
         \/ Tick
  <1>1. CASE \E j \in Jobs : Enqueue(j) \/ UpdateJobIndices(j) \/ EnqueueFails(j)
    BY <1>1 DEF Enqueue, UpdateJobIndices, EnqueueFails
  <1>2. CASE \E d \in Dashboards :
               RetryJobWrite(d) \/ \E j \in Jobs : RetryJobRead(d, j) \/ DeleteRead(d, j)
    BY <1>2 DEF RetryJobWrite, RetryJobRead, DeleteRead
  <1>3. CASE \E a \in Removers : RemoveJobIndices(a) \/ DeleteBlob(a) \/ RemovalFails(a)
    BY <1>3 DEF RemoveJobIndices, DeleteBlob, RemovalFails
  <1>4. CASE \E s \in Servers : Start(s) \/ RequeueWrite(s) \/ CleanupList(s)
    BY <1>4 DEF Start, RequeueWrite, CleanupList
  <1>5. CASE \E s \in Servers, j \in Jobs : RequeueRead(s, j) \/ CleanupRead(s, j)
    BY <1>5 DEF RequeueRead, CleanupRead
  <1>6. CASE \E w \in Workers, j \in Jobs : FetchStale(w, j)
    BY <1>6 DEF FetchStale
  <1>7. CASE \E kind \in {"Scheduled", "AwaitingRetry"} : ClaimDue(kind)
    BY <1>7 DEF ClaimDue
  <1>8. CASE UNCHANGED vars
    BY <1>8 DEF vars
  <1>9. QED
    BY <1>1, <1>2, <1>3, <1>4, <1>5, <1>6, <1>7, <1>8 DEF Next

LEMMA SlotType ==
  ASSUME NEW pc \in {"off", "idle"}
  PROVE  Slot(pc) \in SlotSet /\ Slot(pc).pc = pc
  BY NoRowType DEF Slot, SlotSet

\* The slot that a claim fills.
LEMMA ClaimFills ==
  ASSUME StoreOK, SlotsOK, NEW w \in Workers, NEW j \in Jobs, Fetch(w, j)
  PROVE  /\ wk' \in [Workers -> SlotSet]
         /\ \A v \in Workers \ {w} : wk'[v] = wk[v]
         /\ wk'[w].pc = "run" /\ wk'[w].id = j /\ wk'[w].elapsed = 0
  <1>1. PICK row \in JobRow(Workers) :
          row = CountAttempt([jobs[j] EXCEPT !.kind = "Processing", !.timer = 0, !.worker = w])
    BY ClaimRewrites, CountAttemptType
  <1>2. [pc |-> "run", id |-> j, row |-> row, elapsed |-> 0] \in SlotSet
    BY DEF SlotSet
  <1>3. wk' = [wk EXCEPT ![w] = [pc |-> "run", id |-> j, row |-> row, elapsed |-> 0]]
    BY <1>1 DEF Fetch
  <1>4. QED
    BY <1>2, <1>3 DEF SlotsOK

\* The slots that empty: of one worker, or of all workers of a server.
LEMMA SlotEmpties ==
  ASSUME SlotsOK, NEW w \in Workers,
         UpdateFails(w) \/ \E o \in Outcomes, d \in RetryDelays : Finish(w, o, d)
  PROVE  /\ wk' \in [Workers -> SlotSet] /\ wk'[w].pc = "idle"
         /\ \A v \in Workers \ {w} : wk'[v] = wk[v]
  <1>1. wk' = [wk EXCEPT ![w] = Slot("idle")]
    BY DEF UpdateFails, Finish
  <1>2. QED
    BY <1>1, SlotType DEF SlotsOK

LEMMA SlotsEmpty ==
  ASSUME SlotsOK, NEW s \in Servers, Started(s) \/ Crash(s)
  PROVE  /\ wk' \in [Workers -> SlotSet]
         /\ \A w \in Workers : wk'[w] = wk[w] \/ wk'[w].pc # "run"
  <1>1. PICK pc \in {"off", "idle"} :
          wk' = [w \in Workers |-> IF Home[w] = s THEN Slot(pc) ELSE wk[w]]
    BY DEF Started, Crash
  <1>2. QED
    BY <1>1, SlotType DEF SlotsOK

LEMMA SlotTicks ==
  ASSUME SlotsOK, Tick, NEW w \in Workers
  PROVE  /\ wk'[w] \in SlotSet /\ wk'[w].pc = wk[w].pc /\ wk'[w].id = wk[w].id
         /\ wk[w].pc = "run" => /\ wk'[w].elapsed = wk[w].elapsed + 1
                                /\ wk[w].elapsed < JobTimeout + MaxLag
  <1>1. PICK r \in SlotSet : r = wk[w]
    BY DEF SlotsOK
  <1>2. CASE Running(w)
    <2>1. /\ wk'[w] = [r EXCEPT !.elapsed = @ + 1, !.row = Aged(@, Limit)]
          /\ wk[w].elapsed < JobTimeout + MaxLag
      BY <1>1, <1>2 DEF Tick
    <2>2. QED
      BY <1>1, <2>1, AgedSlot
  <1>3. CASE ~Running(w)
    BY <1>1, <1>3 DEF Tick, Running
  <1>4. QED
    BY <1>2, <1>3

LEMMA SlotStep ==
  ASSUME StoreOK, EnqueueOK, SlotsOK, [Next]_vars
  PROVE  SlotsOK'
  <1>1. CASE UNCHANGED wk
    BY <1>1, CreatedGrows DEF SlotsOK, Running
  <1>2. ASSUME NEW s \in Servers, Started(s) \/ Crash(s) PROVE SlotsOK'
    BY <1>2, SlotsEmpty, CreatedGrows DEF SlotsOK, Running
  <1>3. ASSUME NEW w \in Workers, FinishSome(w) \/ UpdateFails(w) PROVE SlotsOK'
    BY <1>3, SlotEmpties, CreatedGrows DEF FinishSome, SlotsOK, Running
  <1>4. ASSUME NEW w \in Workers, NEW j \in Jobs, Fetch(w, j) PROVE SlotsOK'
    <2>1. j \in created
      BY <1>4 DEF Fetch, Claimable, EnqueueOK, Present
    <2>2. QED
      BY <1>4, <2>1, ClaimFills, CreatedGrows DEF SlotsOK, Running
  <1>5. ASSUME Tick PROVE SlotsOK'
    <2>1. \A w \in Workers : wk'[w] \in SlotSet /\ wk'[w].pc = wk[w].pc /\ wk'[w].id = wk[w].id
      BY <1>5, SlotTicks
    <2>2. wk' \in [Workers -> SlotSet]
      BY <1>5, <2>1 DEF Tick
    <2>3. QED
      BY <2>1, <2>2, CreatedGrows DEF SlotsOK, Running
  <1>6. QED
    BY <1>1, <1>2, <1>3, <1>4, <1>5, SlotFrame

\* Every step counts the crashes and failed commands it stands for.
LEMMA DisruptionStep ==
  ASSUME disruptions \in Nat, [Next]_vars
  PROVE  disruptions' \in Nat
  <1>1. CASE \E j \in Jobs : Enqueue(j) \/ UpdateJobIndices(j) \/ EnqueueFails(j)
    BY <1>1 DEF Enqueue, UpdateJobIndices, EnqueueFails, Disrupted
  <1>2. CASE \E d \in Dashboards :
               RetryJobWrite(d) \/ \E j \in Jobs : RetryJobRead(d, j) \/ DeleteRead(d, j)
    BY <1>2 DEF RetryJobWrite, RetryJobRead, DeleteRead
  <1>3. CASE \E a \in Removers : RemoveJobIndices(a) \/ DeleteBlob(a) \/ RemovalFails(a)
    BY <1>3 DEF RemoveJobIndices, DeleteBlob, RemovalFails, Disrupted
  <1>4. CASE \E s \in Servers : Start(s) \/ RequeueWrite(s) \/ CleanupList(s)
    BY <1>4 DEF Start, RequeueWrite, CleanupList
  <1>5. CASE \E s \in Servers : Started(s) \/ Crash(s)
    BY <1>5 DEF Started, Crash, Disrupted
  <1>6. CASE \E s \in Servers, j \in Jobs : RequeueRead(s, j) \/ CleanupRead(s, j)
    BY <1>6 DEF RequeueRead, CleanupRead
  <1>7. CASE \E w \in Workers : FinishSome(w) \/ UpdateFails(w)
    BY <1>7 DEF FinishSome, Finish, UpdateFails, Disrupted
  <1>8. CASE \E w \in Workers, j \in Jobs : Fetch(w, j) \/ FetchStale(w, j)
    BY <1>8 DEF Fetch, FetchStale
  <1>9. CASE \E kind \in {"Scheduled", "AwaitingRetry"} : ClaimDue(kind)
    BY <1>9 DEF ClaimDue
  <1>10. CASE Tick \/ UNCHANGED vars
    BY <1>10 DEF Tick, vars
  <1>11. QED
    BY <1>1, <1>2, <1>3, <1>4, <1>5, <1>6, <1>7, <1>8, <1>9, <1>10 DEF Next

(***************************************************************************)
(* Type correctness, and blobs that stay gone.                             *)
(***************************************************************************)

LEMMA ShapeInit == Init => Shape
  <1> SUFFICES ASSUME Init PROVE Shape
    OBVIOUS
  <1>1. StoreOK
    BY NoRowType DEF Init, StoreOK, Scores
  <1>2. EnqueueOK
    <2>1. NoEnqueue \in EnqSet /\ NoEnqueue.step = 0
      BY NoRowType DEF NoEnqueue, EnqSet, Scores
    <2>2. QED
      BY <2>1, RowKinds DEF Init, EnqueueOK
  <1>3. RemovalsOK
    BY NoRemovalOK DEF Init, RemovalsOK
  <1>4. DashOK
    <2>1. NoRequest \in RequestSet /\ NoRequest.id = NoId
      BY NoRowType DEF NoRequest, RequestSet
    <2>2. QED
      BY <2>1 DEF Init, DashOK
  <1>5. SweepsOK
    BY NoSweepType DEF Init, SweepsOK
  <1>6. SlotsOK
    BY SlotType DEF Init, SlotsOK, Running
  <1>7. disruptions \in Nat
    BY DEF Init
  <1>8. QED
    BY <1>1, <1>2, <1>3, <1>4, <1>5, <1>6, <1>7 DEF Shape, WritersOK

LEMMA ShapeStep == Shape /\ [Next]_vars => Shape'
  BY StoreStep, EnqueueStep, RemovalStep, DashStep, SweepStep, SlotStep, DisruptionStep
     DEF Shape, WritersOK

LEMMA ShapeHolds == Spec => []Shape
  BY ShapeInit, ShapeStep, PTL DEF Spec

LEMMA ShapeIsType == Shape => TypeOK
  BY DEF Shape, WritersOK, StoreOK, EnqueueOK, RemovalsOK, DashOK, SweepsOK, SlotsOK, TypeOK,
         EnqSet, RemSet, SweepSet, SlotSet, RequestSet

\* The variables keep their types, whatever the scripts, the command sequences and
\* those who die in the middle of them do.
THEOREM TypeCorrect == Spec => []TypeOK
  BY ShapeHolds, ShapeIsType, PTL

\* A blob that was removed stays gone: no late result, dashboard retry or recovery
\* sweep brings it back, because update and update_if_state look for the blob in
\* the script that writes it.
THEOREM GoneStaysGone == Spec => GoneForGood
  <1>1. Shape /\ [Next]_vars =>
          [\A j \in Jobs : j \in created /\ ~Present(jobs[j]) => ~Present(jobs'[j])]_vars
    <2> SUFFICES ASSUME Shape, [Next]_vars, NEW j \in Jobs, j \in created, ~Present(jobs[j])
                 PROVE  ~Present(jobs'[j])
      OBVIOUS
    <2>1. CASE \A i \in Jobs : Present(jobs'[i]) => Present(jobs[i])
      BY <2>1
    <2>2. ASSUME NEW i \in Jobs, Enqueue(i), \A k \in Jobs \ {i} : jobs'[k] = jobs[k]
          PROVE  ~Present(jobs'[j])
      <3>1. i # j
        BY <2>2 DEF Enqueue
      <3>2. QED
        BY <2>2, <3>1
    <2>3. QED
      BY <2>1, <2>2, GoneStep DEF Shape
  <1>2. QED
    BY <1>1, ShapeHolds, PTL DEF Spec, GoneForGood

(***************************************************************************)
(* No job run twice, and results that replace their own claim.             *)
(***************************************************************************)

Attempts == RunnerInTime /\ RunnerOwnsRow /\ NoDoubleExecution /\ SweepSafe

\* Nobody runs the job or holds a copy of it that is to be written.
Idle(j) ==
    /\ \A w \in Workers : Running(w) => wk[w].id # j
    /\ \A s \in Servers : sweep[s].id # j

\* A step that only ends attempts and copies, and that changes the blob of a job
\* only if nobody has it afterwards, or by removing it.
Calm ==
    /\ \A w \in Workers : wk'[w] = wk[w] \/ wk'[w].pc # "run"
    /\ \A s \in Servers : sweep'[s].id = sweep[s].id \/ sweep'[s].id = NoId
    /\ \A j \in Jobs : \/ jobs'[j] = jobs[j] \/ jobs'[j] = NoRow
                       \/ /\ \A w \in Workers : wk'[w].pc = "run" => wk'[w].id # j
                          /\ \A s \in Servers : sweep'[s].id # j

LEMMA CalmKeeps ==
  ASSUME Shape, Attempts, Calm
  PROVE  Attempts'
  <1>1. /\ \A w \in Workers : Running(w) => wk[w].id \in Jobs
        /\ \A s \in Servers : sweep[s].id # NoId => sweep[s].id \in Jobs
    BY DEF Shape, WritersOK, SlotsOK, SweepsOK, EnqueueOK
  <1>2. NoDoubleExecution'
    BY DEF Attempts, Calm, NoDoubleExecution, Running
  <1>3. ASSUME NEW w \in Workers, Running(w)'
        PROVE  /\ wk'[w] = wk[w] /\ Running(w) /\ wk[w].id \in Jobs
               /\ jobs'[wk[w].id] = jobs[wk[w].id] \/ jobs'[wk[w].id] = NoRow
    BY <1>1, <1>3 DEF Calm, Running
  <1>4. RunnerInTime'
    <2> SUFFICES ASSUME NEW w \in Workers, Running(w)'
                 PROVE  /\ wk'[w].elapsed <= JobTimeout + MaxLag
                        /\ Present(jobs'[wk'[w].id]) => jobs'[wk'[w].id].timer = wk'[w].elapsed
      BY DEF RunnerInTime
    <2>1. QED
      BY <1>3, RowKinds DEF Attempts, RunnerInTime
  <1>5. RunnerOwnsRow'
    <2> SUFFICES ASSUME NEW w \in Workers, Running(w)', Present(jobs'[wk'[w].id])
                 PROVE  jobs'[wk'[w].id].kind = "Processing" /\ jobs'[wk'[w].id].worker = w
      BY DEF RunnerOwnsRow
    <2>1. QED
      BY <1>3, RowKinds DEF Attempts, RunnerOwnsRow
  <1>6. SweepSafe'
    <2> SUFFICES ASSUME NEW s \in Servers, sweep'[s].id # NoId
                 PROVE  /\ jobs'[sweep'[s].id].kind \in {"Processing", "None"}
                        /\ jobs'[sweep'[s].id].kind = "Processing" => jobs'[sweep'[s].id].timer > StaleAfter
                        /\ \A w \in Workers : Running(w)' => wk'[w].id # sweep'[s].id
      BY DEF SweepSafe
    <2>1. sweep'[s].id = sweep[s].id /\ sweep[s].id # NoId /\ sweep[s].id \in Jobs
      BY <1>1 DEF Calm
    <2>2. jobs'[sweep[s].id] = jobs[sweep[s].id] \/ jobs'[sweep[s].id] = NoRow
      BY <2>1 DEF Calm
    <2>3. /\ jobs[sweep[s].id].kind \in {"Processing", "None"}
          /\ jobs[sweep[s].id].kind = "Processing" => jobs[sweep[s].id].timer > StaleAfter
          /\ \A w \in Workers : Running(w) => wk[w].id # sweep[s].id
      BY <2>1 DEF Attempts, SweepSafe
    <2>4. QED
      BY <1>3, <2>1, <2>2, <2>3 DEF NoRow
  <1>7. QED
    BY <1>2, <1>4, <1>5, <1>6 DEF Attempts

\* A job in a state that no attempt is in is idle.
LEMMA IdleKinds ==
  ASSUME Shape, Attempts, NEW j \in Jobs, jobs[j].kind \notin {"Processing", "None"}
  PROVE  Idle(j)
  <1>1. j # NoId
    BY RedisAssumption
  <1>2. QED
    BY <1>1 DEF Idle, Attempts, RunnerOwnsRow, SweepSafe, Present

\* So is an id nobody has.
LEMMA IdleNew ==
  ASSUME Shape, NEW j \in Jobs, j \notin created
  PROVE  Idle(j)
  <1>1. j # NoId
    BY RedisAssumption
  <1>2. QED
    BY <1>1 DEF Idle, Shape, WritersOK, SlotsOK, SweepsOK

\* Every step but a claim, a read of the recovery sweep and a tick is calm.
LEMMA CalmSteps ==
  ASSUME ClaimInv, [Next]_vars
  PROVE  \/ Calm
         \/ \E s \in Servers, j \in Jobs : RequeueRead(s, j)
         \/ \E w \in Workers, j \in Jobs : Fetch(w, j)
         \/ Tick
  <1>0. Shape /\ Attempts /\ OneStarting
    BY DEF ClaimInv, Attempts
  <1>1. ASSUME NEW i \in Jobs, Enqueue(i) PROVE Calm
    <2>1. Idle(i)
      BY <1>0, <1>1, IdleNew DEF Enqueue
    <2>2. \A j \in Jobs \ {i} : jobs'[j] = jobs[j]
      BY <1>0, <1>1, EnqueueStarts DEF Shape
    <2>3. wk' = wk /\ sweep' = sweep
      BY <1>1 DEF Enqueue
    <2>4. QED
      BY <2>1, <2>2, <2>3 DEF Calm, Idle, Running
  <1>2. ASSUME UNCHANGED <<jobs, wk, sweep>> PROVE Calm
    BY <1>2 DEF Calm
  <1>3. CASE \E j \in Jobs : UpdateJobIndices(j) \/ EnqueueFails(j)
    BY <1>2, <1>3 DEF UpdateJobIndices, EnqueueFails
  <1>4. CASE \E d \in Dashboards, j \in Jobs : RetryJobRead(d, j) \/ DeleteRead(d, j)
    BY <1>2, <1>4 DEF RetryJobRead, DeleteRead
  <1>5. ASSUME NEW d \in Dashboards, RetryJobWrite(d) PROVE Calm
    <2>1. CASE UNCHANGED <<jobs, index>>
      BY <1>2, <1>5, <2>1 DEF RetryJobWrite
    <2>2. CASE /\ dash[d].id \in Jobs /\ jobs[dash[d].id].kind = "Failed"
               /\ dash[d].row \in JobRow(Workers) /\ Rewrites(dash[d].id, dash[d].row)
      <3>1. Idle(dash[d].id)
        BY <1>0, <2>2, IdleKinds
      <3>2. \A j \in Jobs \ {dash[d].id} : jobs'[j] = jobs[j]
        BY <1>0, <2>2, RewriteEffect DEF Shape
      <3>3. wk' = wk /\ sweep' = sweep
        BY <1>5 DEF RetryJobWrite
      <3>4. QED
        BY <3>1, <3>2, <3>3 DEF Calm, Idle, Running
    <2>3. QED
      BY <1>0, <1>5, <2>1, <2>2, DashboardRewrites DEF Shape
  <1>6. CASE \E a \in Removers : RemoveJobIndices(a) \/ RemovalFails(a)
    BY <1>2, <1>6 DEF RemoveJobIndices, RemovalFails
  <1>7. ASSUME NEW a \in Removers, DeleteBlob(a) PROVE Calm
    BY <1>0, <1>7 DEF DeleteBlob, Calm, Shape, StoreOK
  <1>8. ASSUME NEW s \in Servers, Start(s) PROVE Calm
    <2>1. jobs' = jobs /\ wk' = wk
      BY <1>8 DEF Start
    <2>2. \A t \in Servers : sweep'[t].id = sweep[t].id \/ sweep'[t].id = NoId
      BY <1>0, <1>8, SweepStarts DEF Shape, WritersOK
    <2>3. QED
      BY <2>1, <2>2 DEF Calm
  <1>9. ASSUME NEW s \in Servers, RequeueWrite(s) PROVE Calm
    <2>1. wk' = wk /\ sweep[s].id # NoId
      BY <1>9 DEF RequeueWrite
    <2>2. sweep'[s].id = NoId /\ \A t \in Servers \ {s} : sweep'[t] = sweep[t]
      BY <1>0, <1>9, SweepWrites DEF Shape, WritersOK
    <2>3. \A t \in Servers : sweep[t].id # NoId => t = s
      <3>1. \A t \in Servers : sweep[t].id # NoId => srv[t] = "starting"
        BY <1>0, NoSweepType DEF Shape, WritersOK, SweepsOK
      <3>2. QED
        BY <1>0, <2>1, <3>1 DEF OneStarting
    <2>4. \A t \in Servers : sweep'[t].id # sweep[s].id
      BY <2>1, <2>2, <2>3
    <2>5. \A w \in Workers : wk'[w].pc = "run" => wk'[w].id # sweep[s].id
      BY <1>0, <2>1 DEF Attempts, SweepSafe, Running
    <2>6. \A j \in Jobs : j # sweep[s].id => jobs'[j] = jobs[j]
      <3>1. \/ UNCHANGED <<jobs, index>>
            \/ sweep[s].id \in Jobs /\ sweep[s].row \in JobRow(Workers)
               /\ Rewrites(sweep[s].id, sweep[s].row)
        BY <1>0, <1>9, SweepRewrites DEF Shape
      <3>2. CASE UNCHANGED <<jobs, index>>
        BY <3>2
      <3>3. CASE sweep[s].id \in Jobs /\ sweep[s].row \in JobRow(Workers)
                 /\ Rewrites(sweep[s].id, sweep[s].row)
        <4>1. \A j \in Jobs \ {sweep[s].id} : jobs'[j] = jobs[j]
          BY <1>0, <3>3, RewriteEffect DEF Shape
        <4>2. QED
          BY <4>1
      <3>4. QED
        BY <3>1, <3>2, <3>3
    <2>7. QED
      BY <2>1, <2>2, <2>4, <2>5, <2>6 DEF Calm
  <1>10. ASSUME NEW s \in Servers, Started(s) \/ Crash(s) PROVE Calm
    <2>1. jobs' = jobs /\ sweep' = [sweep EXCEPT ![s] = NoSweep]
      BY <1>10 DEF Started, Crash
    <2>2. \A w \in Workers : wk'[w] = wk[w] \/ wk'[w].pc # "run"
      BY <1>0, <1>10, SlotsEmpty DEF Shape, WritersOK
    <2>3. QED
      BY <1>0, <2>1, <2>2, NoSweepType DEF Calm, Shape, WritersOK, SweepsOK
  <1>11. CASE \E s \in Servers : CleanupList(s) \/ \E j \in Jobs : CleanupRead(s, j)
    BY <1>2, <1>11 DEF CleanupList, CleanupRead
  <1>12. ASSUME NEW w \in Workers, NEW o \in Outcomes, NEW d \in RetryDelays, Finish(w, o, d)
         PROVE  Calm
    <2>1. wk'[w].pc = "idle" /\ \A v \in Workers \ {w} : wk'[v] = wk[v]
      BY <1>0, <1>12, SlotEmpties DEF Shape, WritersOK
    <2>2. Running(w) /\ sweep' = sweep
      BY <1>12 DEF Finish
    <2>3. PICK row \in JobRow(Workers) :
            wk[w].id \in Jobs /\ (UNCHANGED <<jobs, index>> \/ Rewrites(wk[w].id, row))
      BY <1>0, <1>12, ResultRewrites DEF Shape
    <2>4. \A j \in Jobs : j # wk[w].id => jobs'[j] = jobs[j]
      <3>1. CASE UNCHANGED <<jobs, index>>
        BY <3>1
      <3>2. CASE Rewrites(wk[w].id, row)
        <4>1. \A j \in Jobs \ {wk[w].id} : jobs'[j] = jobs[j]
          BY <1>0, <2>3, <3>2, RewriteEffect DEF Shape
        <4>2. QED
          BY <4>1
      <3>3. QED
        BY <2>3, <3>1, <3>2
    <2>5. \A v \in Workers : wk'[v].pc = "run" => wk'[v].id # wk[w].id
      BY <1>0, <2>1, <2>2 DEF Attempts, NoDoubleExecution, Running
    <2>6. \A s \in Servers : sweep'[s].id # wk[w].id
      BY <1>0, <2>2, <2>3, RedisAssumption DEF Attempts, SweepSafe
    <2>7. QED
      BY <2>1, <2>2, <2>4, <2>5, <2>6 DEF Calm
  <1>13. ASSUME NEW w \in Workers, UpdateFails(w) PROVE Calm
    <2>1. jobs' = jobs /\ sweep' = sweep
      BY <1>13 DEF UpdateFails
    <2>2. QED
      BY <1>0, <1>13, <2>1, SlotEmpties DEF Calm, Shape, WritersOK
  <1>14. CASE \E w \in Workers, j \in Jobs : FetchStale(w, j)
    BY <1>2, <1>14 DEF FetchStale
  <1>15. ASSUME NEW kind \in {"Scheduled", "AwaitingRetry"}, ClaimDue(kind) PROVE Calm
    <2>1. PICK B \in DueBatches(kind) :
            jobs' = [j \in Jobs |-> IF j \in B THEN SetState(jobs[j], "Enqueued", 0) ELSE jobs[j]]
      BY <1>15 DEF ClaimDue
    <2>2. wk' = wk /\ sweep' = sweep
      BY <1>15 DEF ClaimDue
    <2>3. ASSUME NEW j \in B PROVE Idle(j)
      BY <1>0, <2>3, BatchDue, IdleKinds
    <2>4. QED
      BY <2>1, <2>2, <2>3 DEF Calm, Idle, Running
  <1>16. CASE UNCHANGED vars
    BY <1>2, <1>16 DEF vars
  <1>17. QED
    BY <1>1, <1>3, <1>4, <1>5, <1>6, <1>7, <1>8, <1>9, <1>10, <1>11, <1>12, <1>13, <1>14, <1>15, <1>16
       DEF Next, FinishSome

LEMMA OneStartingStep ==
  ASSUME SerialStarts, SweepsOK, OneStarting, [Next]_vars
  PROVE  OneStarting'
  <1>1. CASE srv' = srv
    BY <1>1 DEF OneStarting
  <1>2. ASSUME NEW s \in Servers, Start(s) PROVE OneStarting'
    BY <1>2 DEF Start, OneStarting, SweepsOK
  <1>3. ASSUME NEW s \in Servers, Started(s) \/ Crash(s) PROVE OneStarting'
    BY <1>3 DEF Started, Crash, OneStarting, SweepsOK
  <1>4. CASE \E s \in Servers : RequeueWrite(s) \/ \E j \in Jobs : RequeueRead(s, j)
    BY <1>1, <1>4 DEF RequeueWrite, RequeueRead
  <1>5. CASE Tick
    BY <1>1, <1>5 DEF Tick
  <1>6. QED
    BY <1>1, <1>2, <1>3, <1>4, <1>5, SweepFrame

\* The recovery sweep takes a job for stranded only when its attempt has ended:
\* a running attempt is no older than StaleAfter.
LEMMA StaleIsStranded ==
  ASSUME StaleOutlastsAttempt, Shape, Attempts, NEW s \in Servers, NEW j \in Jobs,
         Stale(jobs[j], sweep[s].age)
  PROVE  /\ jobs[j].kind = "Processing" /\ jobs[j].timer > StaleAfter
         /\ \A w \in Workers : Running(w) => wk[w].id # j
  <1>1. sweep[s].age \in Nat /\ jobs[j].timer \in Nat
    BY DEF Shape, WritersOK, SweepsOK, SweepSet, StoreOK, JobRow
  <1>2. jobs[j].kind = "Processing" /\ jobs[j].timer > StaleAfter
    BY <1>1, RedisAssumption DEF Stale
  <1>3. ASSUME NEW w \in Workers, Running(w), wk[w].id = j PROVE FALSE
    <2>1. jobs[j].timer <= JobTimeout + MaxLag
      BY <1>2, <1>3 DEF Attempts, RunnerInTime, Present
    <2>2. QED
      BY <1>1, <1>2, <2>1, RedisAssumption DEF StaleOutlastsAttempt
  <1>4. QED
    BY <1>2, <1>3

LEMMA AttemptsRead ==
  ASSUME StaleOutlastsAttempt, Shape, Attempts, NEW s \in Servers, NEW j \in Jobs, RequeueRead(s, j)
  PROVE  Attempts'
  <1>1. jobs' = jobs /\ wk' = wk
    BY DEF RequeueRead
  <1>2. RunnerInTime' /\ RunnerOwnsRow' /\ NoDoubleExecution'
    BY <1>1 DEF Attempts, RunnerInTime, RunnerOwnsRow, NoDoubleExecution, Running
  <1>3. ASSUME NEW t \in Servers, sweep'[t].id # NoId
        PROVE  /\ jobs[sweep'[t].id].kind \in {"Processing", "None"}
               /\ jobs[sweep'[t].id].kind = "Processing" => jobs[sweep'[t].id].timer > StaleAfter
               /\ \A w \in Workers : Running(w) => wk[w].id # sweep'[t].id
    <2>1. CASE sweep'[t] = sweep[t]
      BY <1>3, <2>1 DEF Attempts, SweepSafe
    <2>2. CASE sweep'[t] # sweep[t]
      <3>1. t = s /\ Stale(jobs[j], sweep[s].age) /\ sweep'[s].id = j
        BY <1>3, <2>2, SweepReads DEF Shape, WritersOK
      <3>2. QED
        BY <3>1, StaleIsStranded
    <2>3. QED
      BY <2>1, <2>2
  <1>4. SweepSafe'
    BY <1>1, <1>3 DEF SweepSafe, Running
  <1>5. QED
    BY <1>2, <1>4 DEF Attempts

LEMMA AttemptsClaim ==
  ASSUME Shape, Attempts, NEW w \in Workers, NEW j \in Jobs, Fetch(w, j)
  PROVE  Attempts'
  <1>1. Idle(j)
    BY IdleKinds DEF Fetch, Claimable
  <1>2. PICK row \in JobRow(Workers) : /\ row.kind = "Processing" /\ row.timer = 0 /\ row.worker = w
                                       /\ Rewrites(j, row)
    BY ClaimRewrites DEF Shape
  <1>3. jobs'[j] = row /\ \A k \in Jobs \ {j} : jobs'[k] = jobs[k]
    BY <1>2, RewriteEffect DEF Shape
  <1>4. /\ \A v \in Workers \ {w} : wk'[v] = wk[v]
        /\ wk'[w].pc = "run" /\ wk'[w].id = j /\ wk'[w].elapsed = 0
    BY ClaimFills DEF Shape, WritersOK
  <1>5. sweep' = sweep
    BY DEF Fetch
  <1>6. ASSUME NEW v \in Workers \ {w}, Running(v)'
        PROVE  Running(v) /\ wk'[v] = wk[v] /\ wk[v].id # j /\ jobs'[wk[v].id] = jobs[wk[v].id]
    <2>1. Running(v) /\ wk[v].id \in Jobs
      BY <1>4, <1>6 DEF Running, Shape, WritersOK, SlotsOK, EnqueueOK
    <2>2. QED
      BY <1>1, <1>3, <1>4, <2>1 DEF Idle
  <1>7. RunnerInTime'
    <2> SUFFICES ASSUME NEW v \in Workers, Running(v)'
                 PROVE  /\ wk'[v].elapsed <= JobTimeout + MaxLag
                        /\ Present(jobs'[wk'[v].id]) => jobs'[wk'[v].id].timer = wk'[v].elapsed
      BY DEF RunnerInTime
    <2>1. CASE v = w
      BY <1>2, <1>3, <1>4, <2>1, RedisAssumption
    <2>2. CASE v # w
      BY <1>6, <2>2 DEF Attempts, RunnerInTime
    <2>3. QED
      BY <2>1, <2>2
  <1>8. RunnerOwnsRow'
    <2> SUFFICES ASSUME NEW v \in Workers, Running(v)', Present(jobs'[wk'[v].id])
                 PROVE  jobs'[wk'[v].id].kind = "Processing" /\ jobs'[wk'[v].id].worker = v
      BY DEF RunnerOwnsRow
    <2>1. CASE v = w
      BY <1>2, <1>3, <1>4, <2>1
    <2>2. CASE v # w
      BY <1>6, <2>2 DEF Attempts, RunnerOwnsRow
    <2>3. QED
      BY <2>1, <2>2
  <1>9. NoDoubleExecution'
    BY <1>4, <1>6 DEF NoDoubleExecution, Attempts
  <1>10. SweepSafe'
    <2> SUFFICES ASSUME NEW s \in Servers, sweep[s].id # NoId
                 PROVE  /\ jobs'[sweep[s].id].kind \in {"Processing", "None"}
                        /\ jobs'[sweep[s].id].kind = "Processing" => jobs'[sweep[s].id].timer > StaleAfter
                        /\ \A v \in Workers : Running(v)' => wk'[v].id # sweep[s].id
      BY <1>5 DEF SweepSafe
    <2>1. sweep[s].id \in Jobs /\ sweep[s].id # j
      BY <1>1 DEF Idle, Shape, WritersOK, SweepsOK, EnqueueOK
    <2>2. jobs'[sweep[s].id] = jobs[sweep[s].id]
      BY <1>3, <2>1
    <2>3. \A v \in Workers : Running(v)' => wk'[v].id # sweep[s].id
      BY <1>4, <1>6, <2>1 DEF Attempts, SweepSafe
    <2>4. QED
      BY <2>2, <2>3 DEF Attempts, SweepSafe
  <1>11. QED
    BY <1>7, <1>8, <1>9, <1>10 DEF Attempts

\* Blobs and attempts grow old together.
LEMMA AttemptsTick ==
  ASSUME StaleOutlastsAttempt, Shape, Attempts, Tick
  PROVE  Attempts'
  <1>1. ASSUME NEW j \in Jobs
        PROVE  /\ jobs'[j].kind = jobs[j].kind /\ jobs'[j].worker = jobs[j].worker
               /\ jobs[j].kind = "Processing" => jobs'[j].timer = Inc(jobs[j].timer, Limit)
               /\ jobs[j].timer \in Nat
    <2>1. jobs'[j] = Aged(jobs[j], Limit) /\ jobs[j] \in JobRow(Workers)
      BY DEF Tick, Shape, StoreOK
    <2>2. jobs[j].timer \in Nat
      BY <2>1 DEF JobRow
    <2>3. QED
      BY <2>1, <2>2, AgedType
  <1>2. ASSUME NEW w \in Workers
        PROVE  /\ wk'[w].pc = wk[w].pc /\ wk'[w].id = wk[w].id
               /\ Running(w) => /\ wk[w].id \in Jobs /\ wk[w].elapsed \in Nat
                                /\ wk'[w].elapsed = wk[w].elapsed + 1
                                /\ wk[w].elapsed < JobTimeout + MaxLag
    BY SlotTicks DEF Shape, WritersOK, SlotsOK, SlotSet, EnqueueOK, Running
  <1>3. RunnerInTime'
    <2> SUFFICES ASSUME NEW w \in Workers, Running(w)
                 PROVE  /\ wk'[w].elapsed <= JobTimeout + MaxLag
                        /\ Present(jobs'[wk[w].id]) => jobs'[wk[w].id].timer = wk'[w].elapsed
      BY <1>2 DEF RunnerInTime, Running
    <2>1. wk'[w].elapsed <= JobTimeout + MaxLag
      BY <1>2, RedisAssumption
    <2>2. ASSUME Present(jobs'[wk[w].id]) PROVE jobs'[wk[w].id].timer = wk'[w].elapsed
      <3>1. jobs[wk[w].id].kind = "Processing" /\ jobs[wk[w].id].timer = wk[w].elapsed
        BY <1>1, <1>2, <2>2 DEF Attempts, RunnerInTime, RunnerOwnsRow, Present
      <3>2. jobs'[wk[w].id].timer = Inc(wk[w].elapsed, Limit)
        BY <1>1, <1>2, <3>1
      <3>3. QED
        BY <1>2, <3>2, RedisAssumption DEF Inc, Limit, StaleOutlastsAttempt
    <2>3. QED
      BY <2>1, <2>2
  <1>4. RunnerOwnsRow'
    BY <1>1, <1>2 DEF Attempts, RunnerOwnsRow, Running, Present
  <1>5. NoDoubleExecution'
    BY <1>2 DEF Attempts, NoDoubleExecution, Running
  <1>6. SweepSafe'
    <2>1. \A s \in Servers : sweep'[s].id = sweep[s].id
      BY SweepTicks DEF Shape, WritersOK
    <2>2. ASSUME NEW s \in Servers, sweep[s].id # NoId
          PROVE  /\ jobs'[sweep[s].id].kind \in {"Processing", "None"}
                 /\ jobs'[sweep[s].id].kind = "Processing" => jobs'[sweep[s].id].timer > StaleAfter
                 /\ \A w \in Workers : Running(w) => wk[w].id # sweep[s].id
      <3>1. sweep[s].id \in Jobs
        BY <2>2 DEF Shape, WritersOK, SweepsOK, EnqueueOK
      <3>2. /\ jobs[sweep[s].id].kind \in {"Processing", "None"}
            /\ jobs[sweep[s].id].kind = "Processing" => jobs[sweep[s].id].timer > StaleAfter
            /\ \A w \in Workers : Running(w) => wk[w].id # sweep[s].id
        BY <2>2 DEF Attempts, SweepSafe
      <3>3. QED
        BY <1>1, <3>1, <3>2, RedisAssumption DEF Inc
    <2>3. QED
      BY <1>2, <2>1, <2>2 DEF SweepSafe, Running
  <1>7. QED
    BY <1>3, <1>4, <1>5, <1>6 DEF Attempts

LEMMA ClaimStep ==
  ASSUME StaleOutlastsAttempt, SerialStarts
  PROVE  ClaimInv /\ [Next]_vars => ClaimInv'
  <1> SUFFICES ASSUME ClaimInv, [Next]_vars PROVE ClaimInv'
    OBVIOUS
  <1>1. Shape /\ Attempts /\ OneStarting
    BY DEF ClaimInv, Attempts
  <1>2. Shape' /\ OneStarting'
    BY <1>1, ShapeStep, OneStartingStep DEF Shape, WritersOK
  <1>3. Attempts'
    BY <1>1, CalmSteps, CalmKeeps, AttemptsRead, AttemptsClaim, AttemptsTick
  <1>4. QED
    BY <1>2, <1>3 DEF ClaimInv, Attempts

LEMMA ClaimHolds ==
  ASSUME StaleOutlastsAttempt, SerialStarts
  PROVE  Spec => []ClaimInv
  <1>1. Init => ClaimInv
    <2> SUFFICES ASSUME Init PROVE ClaimInv
      OBVIOUS
    <2>1. \A w \in Workers : ~Running(w)
      BY SlotType DEF Init, Running
    <2>2. \A s \in Servers : sweep[s].id = NoId /\ srv[s] = "down"
      BY NoSweepType DEF Init
    <2>3. QED
      BY <2>1, <2>2, ShapeInit
         DEF ClaimInv, RunnerInTime, RunnerOwnsRow, NoDoubleExecution, SweepSafe, OneStarting
  <1>2. ClaimInv /\ [Next]_vars => ClaimInv'
    BY ClaimStep
  <1>3. QED
    BY <1>1, <1>2, PTL DEF Spec

\* No job runs twice at once, although requeue_stranded_jobs writes a copy it read
\* earlier with an update that does not compare: a running attempt is too young to
\* be taken for stranded, and a second sweep that could have requeued the job in
\* between needs a second starting server.
THEOREM NoJobRunsTwice ==
  ASSUME StaleOutlastsAttempt, SerialStarts
  PROVE  Spec => []NoDoubleExecution
  <1>1. ClaimInv => NoDoubleExecution
    BY DEF ClaimInv
  <1>2. QED
    BY <1>1, ClaimHolds, PTL

\* The result a worker writes replaces its own claim, or finds the job removed: the
\* blob of a running job is the Processing row of that worker.
THEOREM ResultReplacesOwnClaim ==
  ASSUME StaleOutlastsAttempt, SerialStarts
  PROVE  Spec => []RunnerOwnsRow
  <1>1. ClaimInv => RunnerOwnsRow
    BY DEF ClaimInv
  <1>2. QED
    BY <1>1, ClaimHolds, PTL

(***************************************************************************)
(* An index that finds every stored job.                                   *)
(***************************************************************************)

\* Nobody who was not at the job before is at it after the step.
Shrinks(j) ==
    /\ \A w \in Workers : wk'[w].pc = "run" /\ wk'[w].id = j => Running(w) /\ wk[w].id = j
    /\ \A s \in Servers : sweep'[s].id = j => sweep[s].id = j

\* The step leaves the blob, the entries and the enqueue of the job alone.
Untouched(j) ==
    /\ jobs'[j] = jobs[j] /\ sets'[j] = sets[j] /\ avail'[j] = avail[j] /\ queue'[j] = queue[j]
    /\ j \in all => j \in all'
    /\ enq'[j] = enq[j] /\ (j \in created' <=> j \in created)

Wholes(j) == Whole(j)' => Whole(j) \/ ~Present(jobs'[j])

\* A job is not made whole: who cleans it up leaves it cut short, or removed.
LEMMA WholeStep ==
  ASSUME Shape, [Next]_vars, NEW j \in Jobs
  PROVE  Wholes(j)
  <1>0. ASSUME NEW s \in Servers
        PROVE  /\ s \in Removers /\ rem[s] \in RemSet /\ RemovalOK(s, rem[s])
               /\ s \notin Dashboards
    BY RedisAssumption DEF Shape, RemovalsOK, Removers
  <1>1. CASE torn \subseteq torn' /\ \A s \in Servers : rem[s].id = j => rem'[s].id = j
    BY <1>1 DEF Wholes, Whole
  <1>2. CASE UNCHANGED <<rem, torn, drift>>
    BY <1>1, <1>2
  <1>3. ASSUME NEW i \in Jobs, EnqueueFails(i) PROVE Wholes(j)
    BY <1>1, <1>3 DEF EnqueueFails
  <1>4. ASSUME NEW d \in Dashboards, NEW i \in Jobs, DeleteRead(d, i) PROVE Wholes(j)
    BY <1>0, <1>1, <1>4 DEF DeleteRead, Shape, RemovalsOK
  <1>5. ASSUME NEW a \in Removers, RemoveJobIndices(a) PROVE Wholes(j)
    <2>1. PICK r \in RemSet : r = rem[a]
      BY DEF Shape, RemovalsOK
    <2>2. ASSUME NEW s \in Servers, rem[s].id = j PROVE rem'[s].id = j
      <3>1. CASE s = a
        <4>1. \A n : [r EXCEPT !.step = n].id = r.id /\ [r EXCEPT !.pc = "del", !.step = 0].id = r.id
          BY DEF RemSet
        <4>2. rem'[s] = (IF r.step < 5 THEN [r EXCEPT !.step = @ + 1] ELSE [r EXCEPT !.pc = "del", !.step = 0])
          BY <1>5, <2>1, <3>1, <2>2 DEF RemoveJobIndices, Shape, RemovalsOK
        <4>3. QED
          BY <2>1, <2>2, <3>1, <4>1, <4>2
      <3>2. CASE s # a
        BY <1>0, <1>5, <2>2, <3>2 DEF RemoveJobIndices, Shape, RemovalsOK
      <3>3. QED
        BY <3>1, <3>2
    <2>3. torn' = torn
      BY <1>5 DEF RemoveJobIndices
    <2>4. QED
      BY <1>1, <2>2, <2>3
  <1>6. ASSUME NEW a \in Removers, DeleteBlob(a) PROVE Wholes(j)
    <2>1. CASE rem[a].id = j
      <3>1. ~Present(jobs'[j])
        BY <1>6, <2>1, RowKinds DEF DeleteBlob, Shape, StoreOK
      <3>2. QED
        BY <3>1 DEF Wholes
    <2>2. CASE rem[a].id # j
      <3>1. torn' = torn /\ \A s \in Servers : s # a => rem'[s] = rem[s]
        BY <1>0, <1>6 DEF DeleteBlob, Shape, RemovalsOK
      <3>2. QED
        BY <1>1, <2>2, <3>1
    <2>3. QED
      BY <2>1, <2>2
  <1>7. ASSUME NEW a \in Removers, rem' = [rem EXCEPT ![a] = NoRemoval],
               torn' = torn \cup ({rem[a].id} \ {NoId})
        PROVE  Wholes(j)
    <2>1. j # NoId
      BY RedisAssumption
    <2>2. CASE rem[a].id = j
      BY <1>7, <2>1, <2>2 DEF Wholes, Whole
    <2>3. CASE rem[a].id # j
      <3>1. torn \subseteq torn' /\ \A s \in Servers : s # a => rem'[s] = rem[s]
        BY <1>0, <1>7 DEF Shape, RemovalsOK
      <3>2. QED
        BY <1>1, <2>3, <3>1
    <2>4. QED
      BY <2>2, <2>3
  <1>8. ASSUME NEW s \in Servers, CleanupList(s) \/ \E i \in Jobs : CleanupRead(s, i) PROVE Wholes(j)
    <2>1. rem[s].pc \in {"idle", "list"} /\ torn' = torn
      BY <1>8 DEF CleanupList, CleanupRead
    <2>2. rem[s].id # j
      BY <1>0, <2>1, RedisAssumption DEF RemovalOK
    <2>3. \A t \in Servers : t # s => rem'[t] = rem[t]
      BY <1>0, <1>8 DEF CleanupList, CleanupRead, Shape, RemovalsOK
    <2>4. QED
      BY <1>1, <2>1, <2>2, <2>3
  <1>9. QED
    BY <1>2, <1>3, <1>4, <1>5, <1>6, <1>7, <1>8, RemovalFrame DEF RemovalFails, Crash, Removers

\* Only a claim and a read of the recovery sweep come to a job.
LEMMA HoldersStep ==
  ASSUME Shape, [Next]_vars, NEW j \in Jobs
  PROVE  \/ Shrinks(j)
         \/ \E w \in Workers : Fetch(w, j)
         \/ \E s \in Servers : RequeueRead(s, j) /\ Stale(jobs[j], sweep[s].age)
  <1>0. j # NoId
    BY RedisAssumption
  <1>1. \/ \A w \in Workers : wk'[w].pc = "run" /\ wk'[w].id = j => Running(w) /\ wk[w].id = j
        \/ \E w \in Workers : Fetch(w, j)
    <2>1. CASE wk' = wk
      BY <2>1 DEF Running
    <2>2. CASE \E s \in Servers : Started(s) \/ Crash(s)
      BY <2>2, SlotsEmpty DEF Running, Shape, WritersOK
    <2>3. CASE \E w \in Workers : FinishSome(w) \/ UpdateFails(w)
      BY <2>3, SlotEmpties DEF FinishSome, Running, Shape, WritersOK
    <2>4. ASSUME NEW w \in Workers, NEW i \in Jobs, Fetch(w, i), i # j
          PROVE  \A v \in Workers : wk'[v].pc = "run" /\ wk'[v].id = j => Running(v) /\ wk[v].id = j
      BY <2>4, ClaimFills DEF Running, Shape, WritersOK
    <2>5. CASE Tick
      BY <2>5, SlotTicks DEF Running, Shape, WritersOK
    <2>6. QED
      BY <2>1, <2>2, <2>3, <2>4, <2>5, SlotFrame
  <1>2. \/ \A s \in Servers : sweep'[s].id = j => sweep[s].id = j
        \/ \E s \in Servers : RequeueRead(s, j) /\ Stale(jobs[j], sweep[s].age)
    <2>1. CASE sweep' = sweep
      BY <2>1
    <2>2. ASSUME NEW s \in Servers, Start(s) PROVE \A t \in Servers : sweep'[t].id = j => sweep[t].id = j
      BY <1>0, <2>2, SweepStarts DEF Shape, WritersOK
    <2>3. ASSUME NEW s \in Servers, RequeueWrite(s)
          PROVE  \A t \in Servers : sweep'[t].id = j => sweep[t].id = j
      BY <1>0, <2>3, SweepWrites DEF Shape, WritersOK
    <2>4. ASSUME NEW s \in Servers, Started(s) \/ Crash(s)
          PROVE  \A t \in Servers : sweep'[t].id = j => sweep[t].id = j
      <3>1. sweep' = [sweep EXCEPT ![s] = NoSweep]
        BY <2>4 DEF Started, Crash
      <3>2. QED
        BY <1>0, <3>1, NoSweepType DEF Shape, WritersOK, SweepsOK
    <2>5. ASSUME NEW s \in Servers, NEW i \in Jobs, RequeueRead(s, i),
                 ~(i = j /\ Stale(jobs[j], sweep[s].age))
          PROVE  \A t \in Servers : sweep'[t].id = j => sweep[t].id = j
      BY <1>0, <2>5, SweepReads DEF Shape, WritersOK
    <2>6. CASE Tick
      BY <2>6, SweepTicks DEF Shape, WritersOK
    <2>7. QED
      BY <2>1, <2>2, <2>3, <2>4, <2>5, <2>6, SweepFrame
  <1>3. QED
    BY <1>1, <1>2 DEF Shrinks

Found(j) == FreshOK(j) /\ IndexOK(j)

LEMMA FoundKept ==
  ASSUME NEW j \in Jobs, Found(j), Untouched(j), Shrinks(j), Wholes(j)
  PROVE  Found(j)'
  <1>1. FreshOK(j)'
    <2>1. Unreached(j)' <=> Unreached(j)
      BY DEF Unreached, Untouched
    <2>2. QED
      BY <2>1 DEF Found, FreshOK, Untouched, Shrinks, Running
  <1>2. IndexOK(j)'
    BY DEF Found, IndexOK, Untouched, Wholes
  <1>3. QED
    BY <1>1, <1>2 DEF Found

\* A stored job that is unreached is as its enqueue made it.
LEMMA UnreachedRow ==
  ASSUME Shape, NEW j \in Jobs, Found(j), Unreached(j), Present(jobs[j])
  PROVE  /\ j \in created /\ enq[j].step # 0 /\ jobs[j] = enq[j].row
         /\ jobs[j].kind \in {"Enqueued", "Scheduled"}
         /\ enq[j].step = 1 \/ ~Available(jobs[j])
  <1>1. j \in created
    BY DEF Shape, EnqueueOK
  <1>2. enq[j].step # 0 /\ jobs[j] = enq[j].row /\ (enq[j].step = 1 \/ ~Available(enq[j].row))
    BY <1>1 DEF Unreached, Found, FreshOK
  <1>3. QED
    BY <1>1, <1>2 DEF Shape, EnqueueOK

\* Enqueue, its commands, and an enqueue that fails.
LEMMA FoundEnqueue ==
  ASSUME FoundInv, [Next]_vars, NEW i \in Jobs, Enqueue(i), NEW j \in Jobs
  PROVE  Found(j)'
  <1>0. Shape /\ Found(j)
    BY DEF FoundInv, Found
  <1>1. /\ i \notin created /\ created' = created \cup {i}
        /\ \A k \in Jobs \ {i} : enq'[k] = enq[k] /\ jobs'[k] = jobs[k]
        /\ enq'[i].step = 1 /\ enq'[i].row = jobs'[i]
    BY <1>0, EnqueueStarts DEF Shape
  <1>2. UNCHANGED <<index, wk, sweep>>
    BY DEF Enqueue
  <1>3. CASE j # i
    <2>1. Untouched(j) /\ Shrinks(j)
      BY <1>1, <1>2, <1>3 DEF Untouched, Shrinks, Running, index
    <2>2. QED
      BY <1>0, <2>1, FoundKept, WholeStep
  <1>4. CASE j = i
    <2>1. Idle(j)
      BY <1>0, <1>1, <1>4, IdleNew
    <2>2. sets[j] = {} /\ avail[j] = NoScore /\ queue[j] = NoScore
      BY <1>0, <1>1, <1>4 DEF Found, FreshOK
    <2>3. FreshOK(j)'
      BY <1>1, <1>2, <1>4, <2>1, <2>2 DEF FreshOK, Idle, Running, index
    <2>4. IndexOK(j)'
      BY <1>1, <1>4 DEF IndexOK
    <2>5. QED
      BY <2>3, <2>4 DEF Found
  <1>5. QED
    BY <1>3, <1>4

LEMMA FoundIndexed ==
  ASSUME FoundInv, [Next]_vars, NEW i \in Jobs, UpdateJobIndices(i), NEW j \in Jobs
  PROVE  Found(j)'
  <1>0. Shape /\ Found(j) /\ Wholes(j)
    BY WholeStep DEF FoundInv, Found
  <1>1. UNCHANGED <<jobs, created, wk, sweep, rem, torn>>
    BY DEF UpdateJobIndices
  <1>2. /\ \A k \in Jobs \ {i} : enq'[k] = enq[k]
        /\ enq[i].step \in 1..5
        /\ enq[i].step = 5 => enq'[i] = NoEnqueue
        /\ enq[i].step # 5 => /\ enq'[i].step = enq[i].step + 1 /\ enq'[i].row = enq[i].row
                              /\ enq'[i].score = (IF enq[i].step = 3 THEN ScoreOf(enq[i].row)
                                                  ELSE enq[i].score)
    BY <1>0, EnqueueEffect DEF Shape
  <1>3. CASE j # i
    <2>1. /\ sets'[j] = sets[j] /\ avail'[j] = avail[j] /\ queue'[j] = queue[j]
          /\ (j \in all => j \in all')
      BY <1>0, <1>3 DEF UpdateJobIndices, Shape, StoreOK
    <2>2. Untouched(j) /\ Shrinks(j)
      BY <1>1, <1>2, <1>3, <2>1 DEF Untouched, Shrinks, Running
    <2>3. QED
      BY <1>0, <2>2, FoundKept
  <1>4. CASE j = i
    <2>1. /\ sets'[j] = (IF enq[j].step = 1 THEN sets[j] \cup {enq[j].row.kind} ELSE sets[j])
          /\ (j \in all => j \in all') /\ (enq[j].step = 2 => j \in all')
          /\ avail'[j] = (IF enq[j].step = 4 THEN enq[j].score ELSE avail[j])
          /\ queue'[j] = (IF enq[j].step = 5 THEN enq[j].score ELSE queue[j])
      BY <1>0, <1>4 DEF UpdateJobIndices, Shape, StoreOK
    <2>2. j \in created /\ created' = created
      BY <1>0, <1>1, <1>2, <1>4 DEF Shape, EnqueueOK
    <2>3. enq'[j].step # 0 => /\ enq'[j].step = enq[j].step + 1 /\ enq'[j].row = enq[j].row
                              /\ enq[j].step # 5 /\ enq'[j].step # 1
      BY <1>2, <1>4 DEF NoEnqueue
    <2>4. enq[j].step # 5 => enq'[j].step = enq[j].step + 1
      BY <1>2, <1>4
    <2>5. enq[j].step = 5 => enq'[j].step = 0
      BY <1>2, <1>4 DEF NoEnqueue
    <2>6. Unreached(j)' => Unreached(j)
      BY <1>2, <1>4, <2>2, <2>3 DEF Unreached
    <2>7. FreshOK(j)'
      <3>1. ~(j \notin created' \/ enq'[j].step = 1)
        BY <1>2, <1>4, <2>2, <2>4, <2>5
      <3>2. Unreached(j)' => /\ \A w \in Workers : Running(w)' => wk'[w].id # j
                             /\ \A s \in Servers : sweep'[s].id # j
                             /\ j \in created' /\ Present(jobs'[j]) => jobs'[j] = enq'[j].row
        <4>1. Unreached(j)' => enq'[j].step # 0
          BY <2>2 DEF Unreached
        <4>2. QED
          BY <1>0, <1>1, <2>3, <2>6, <4>1 DEF Found, FreshOK, Running
      <3>3. enq'[j].step \in {4, 5} => enq'[j].score = ScoreOf(enq'[j].row)
        <4>1. enq[j].step = 3 => enq'[j].score = ScoreOf(enq'[j].row)
          BY <1>2, <1>4
        <4>2. enq[j].step = 4 => enq'[j].score = ScoreOf(enq'[j].row)
          BY <1>0, <1>2, <1>4 DEF Found, FreshOK
        <4>3. enq'[j].step \in {4, 5} => enq[j].step \in {3, 4}
          BY <1>2, <1>4, <2>4, <2>5
        <4>4. QED
          BY <4>1, <4>2, <4>3
      <3>4. QED
        BY <3>1, <3>2, <3>3 DEF FreshOK
    <2>8. IndexOK(j)'
      <3> SUFFICES ASSUME Present(jobs'[j]), Whole(j)'
                   PROVE  /\ enq'[j].step # 1 => sets'[j] = {jobs'[j].kind}
                          /\ enq'[j].step \notin {1, 2} => j \in all'
                          /\ jobs'[j].kind = "Enqueued" =>
                                /\ enq'[j].step \in {0, 5} => avail'[j] # NoScore
                                /\ enq'[j].step = 0 => queue'[j] # NoScore
        BY DEF IndexOK
      <3>1. Whole(j) /\ Present(jobs[j]) /\ jobs' = jobs
        BY <1>0, <1>1 DEF Wholes
      <3>2. /\ enq[j].step # 1 => sets[j] = {jobs[j].kind}
            /\ enq[j].step \notin {1, 2} => j \in all
            /\ jobs[j].kind = "Enqueued" /\ enq[j].step = 5 => avail[j] # NoScore
        BY <1>0, <3>1 DEF Found, IndexOK
      <3>3. sets'[j] = {jobs[j].kind}
        <4>1. enq[j].step = 1 => sets[j] = {} /\ jobs[j] = enq[j].row
          BY <1>0, <2>2, <3>1 DEF Found, FreshOK, Unreached
        <4>2. QED
          BY <2>1, <3>2, <4>1
      <3>4. enq[j].step \in {4, 5} /\ jobs[j].kind = "Enqueued" => enq[j].score # NoScore
        <4>1. enq[j].step \in {4, 5} /\ jobs[j].kind = "Enqueued" => Available(enq[j].row)
          BY <1>0, <2>2, <3>1 DEF Found, FreshOK, Unreached, Available
        <4>2. QED
          BY <1>0, <4>1 DEF Found, FreshOK, ScoreOf, NoScore
      <3>5. enq'[j].step \notin {1, 2} => j \in all'
        BY <1>2, <1>4, <2>1, <2>4, <3>2
      <3>6. /\ enq'[j].step = 5 => enq[j].step = 4
            /\ enq'[j].step = 0 => enq[j].step = 5
        BY <1>2, <1>4, <2>4, <2>5
      <3>7. QED
        BY <2>1, <3>1, <3>2, <3>3, <3>4, <3>5, <3>6
    <2>9. QED
      BY <2>7, <2>8 DEF Found
  <1>5. QED
    BY <1>3, <1>4

LEMMA FoundCutShort ==
  ASSUME FoundInv, [Next]_vars, NEW i \in Jobs, EnqueueFails(i), NEW j \in Jobs
  PROVE  Found(j)'
  <1>0. Shape /\ Found(j) /\ Wholes(j)
    BY WholeStep DEF FoundInv, Found
  <1>1. /\ UNCHANGED <<jobs, index, created, wk, sweep>> /\ torn' = torn \cup {i}
        /\ enq' = [enq EXCEPT ![i] = NoEnqueue]
    BY DEF EnqueueFails
  <1>2. CASE j # i
    <2>1. Untouched(j) /\ Shrinks(j)
      BY <1>0, <1>1, <1>2 DEF Untouched, Shrinks, Running, index, Shape, EnqueueOK
    <2>2. QED
      BY <1>0, <2>1, FoundKept
  <1>3. CASE j = i
    <2>1. enq'[j].step = 0 /\ j \in created'
      BY <1>0, <1>1, <1>3 DEF Shape, EnqueueOK, EnqueueFails, NoEnqueue
    <2>2. ~Unreached(j)'
      BY <2>1 DEF Unreached
    <2>3. FreshOK(j)'
      BY <2>1, <2>2 DEF FreshOK
    <2>4. IndexOK(j)'
      BY <1>1, <1>3 DEF IndexOK, Whole
    <2>5. QED
      BY <2>3, <2>4 DEF Found
  <1>4. QED
    BY <1>2, <1>3

\* A tick: no enqueue is under way, and rows only grow older.
LEMMA FoundTick ==
  ASSUME QuickEnqueues, FoundInv, [Next]_vars, Tick, NEW j \in Jobs
  PROVE  Found(j)'
  <1>0. Shape /\ Found(j) /\ Wholes(j)
    BY WholeStep DEF FoundInv, Found
  <1>1. UNCHANGED <<index, created>> /\ enq[j].step = 0
    BY DEF Tick
  <1>2. enq'[j].step = 0
    <2>1. PICK e \in EnqSet : e = enq[j]
      BY <1>0 DEF Shape, EnqueueOK
    <2>2. enq'[j] = [e EXCEPT !.row = Aged(@, Limit)]
      BY <2>1 DEF Tick
    <2>3. QED
      BY <1>1, <2>1, <2>2 DEF EnqSet
  <1>3. jobs'[j].kind = jobs[j].kind
    BY <1>0, AgedType DEF Tick, Shape, StoreOK
  <1>4. \A w \in Workers : wk'[w].pc = wk[w].pc /\ wk'[w].id = wk[w].id
    BY <1>0, SlotTicks DEF Shape, WritersOK
  <1>5. \A s \in Servers : sweep'[s].id = sweep[s].id
    BY <1>0, SweepTicks DEF Shape, WritersOK
  <1>6. FreshOK(j)'
    BY <1>0, <1>1, <1>2, <1>4, <1>5 DEF Found, FreshOK, Unreached, Running, index
  <1>7. IndexOK(j)'
    BY <1>0, <1>1, <1>2, <1>3 DEF Found, IndexOK, Wholes, Present, index
  <1>8. QED
    BY <1>6, <1>7 DEF Found

\* The commands of a removal: those of a clean-up take entries of a job that is
\* not whole, those of a dashboard of a job whose blob is gone.
LEMMA FoundRemoval ==
  ASSUME FoundInv, [Next]_vars, NEW a \in Removers, RemoveJobIndices(a), NEW j \in Jobs
  PROVE  Found(j)'
  <1>0. Shape /\ Found(j) /\ Wholes(j)
    BY WholeStep DEF FoundInv, Found
  <1>1. UNCHANGED <<jobs, created, enq, wk, sweep, torn>> /\ rem[a].pc = "index"
    BY DEF RemoveJobIndices
  <1>2. PICK i \in Jobs : i = rem[a].id /\ i \in created
    BY <1>0, <1>1 DEF Shape, RemovalsOK, RemovalOK, EnqueueOK
  <1>3. CASE j # i
    <2>1. /\ sets'[j] = sets[j] /\ avail'[j] = avail[j] /\ queue'[j] = queue[j]
          /\ (j \in all => j \in all')
      BY <1>0, <1>2, <1>3 DEF RemoveJobIndices, Shape, StoreOK
    <2>2. Untouched(j) /\ Shrinks(j)
      BY <1>1, <2>1 DEF Untouched, Shrinks, Running
    <2>3. QED
      BY <1>0, <2>2, FoundKept
  <1>4. CASE j = i
    <2>1. /\ sets'[j] \subseteq sets[j]
          /\ avail'[j] \in {avail[j], NoScore} /\ queue'[j] \in {queue[j], NoScore}
      BY <1>0, <1>2, <1>4 DEF RemoveJobIndices, Shape, StoreOK
    <2>2. FreshOK(j)'
      <3>1. Unreached(j)' <=> Unreached(j)
        BY <1>1 DEF Unreached
      <3>2. QED
        BY <1>0, <1>1, <2>1, <3>1 DEF Found, FreshOK, Running
    <2>3. IndexOK(j)'
      <3>1. CASE a \in Dashboards
        <4>1. ~Present(jobs'[j])
          BY <1>0, <1>1, <1>2, <1>4, <3>1 DEF Shape, RemovalsOK, RemovalOK
        <4>2. QED
          BY <4>1 DEF IndexOK
      <3>2. CASE a \in Servers
        <4>1. ~Whole(j)
          BY <1>2, <1>4, <3>2 DEF Whole
        <4>2. QED
          BY <1>0, <4>1 DEF IndexOK, Wholes
      <3>3. QED
        BY <3>1, <3>2 DEF Removers
    <2>4. QED
      BY <2>2, <2>3 DEF Found
  <1>5. QED
    BY <1>3, <1>4

LEMMA FoundDeleted ==
  ASSUME FoundInv, [Next]_vars, NEW a \in Removers, DeleteBlob(a), NEW j \in Jobs
  PROVE  Found(j)'
  <1>0. Shape /\ Found(j) /\ Wholes(j)
    BY WholeStep DEF FoundInv, Found
  <1>1. /\ UNCHANGED <<index, created, enq, wk, sweep, torn>>
        /\ jobs' = [jobs EXCEPT ![rem[a].id] = NoRow]
    BY DEF DeleteBlob
  <1>2. CASE j # rem[a].id
    <2>1. Untouched(j) /\ Shrinks(j)
      BY <1>0, <1>1, <1>2 DEF Untouched, Shrinks, Running, index, Shape, StoreOK
    <2>2. QED
      BY <1>0, <2>1, FoundKept
  <1>3. CASE j = rem[a].id
    <2>1. ~Present(jobs'[j])
      BY <1>0, <1>1, <1>3, RowKinds DEF Shape, StoreOK
    <2>2. Unreached(j)' <=> Unreached(j)
      BY <1>1 DEF Unreached
    <2>3. FreshOK(j)'
      BY <1>0, <1>1, <2>1, <2>2 DEF Found, FreshOK, Running, index
    <2>4. IndexOK(j)'
      BY <2>1 DEF IndexOK
    <2>5. QED
      BY <2>3, <2>4 DEF Found
  <1>4. QED
    BY <1>2, <1>3

\* A rewrite of a job that its enqueue has let the claims reach.
LEMMA FoundRewritten ==
  ASSUME FoundInv, [Next]_vars, UNCHANGED <<created, enq>>,
         NEW i \in Jobs, NEW row \in JobRow(Workers), Rewrites(i, row), ~Unreached(i),
         \A k \in Jobs \ {i} : Shrinks(k), NEW j \in Jobs
  PROVE  Found(j)'
  <1>0. Shape /\ Found(j) /\ Wholes(j)
    BY WholeStep DEF FoundInv, Found
  <1>1. /\ jobs'[i] = row /\ sets'[i] = (IF jobs[i].kind = row.kind THEN sets[i]
                                         ELSE (sets[i] \ {jobs[i].kind}) \cup {row.kind})
        /\ avail'[i] = ScoreOf(row) /\ queue'[i] = ScoreOf(row)
        /\ all' \in {all, all \cup {i}}
        /\ \A k \in Jobs \ {i} : /\ jobs'[k] = jobs[k] /\ sets'[k] = sets[k]
                                 /\ avail'[k] = avail[k] /\ queue'[k] = queue[k]
    BY <1>0, RewriteEffect DEF Shape
  <1>2. CASE j # i
    <2>1. Untouched(j)
      BY <1>1, <1>2 DEF Untouched
    <2>2. QED
      BY <1>0, <1>2, <2>1, FoundKept
  <1>3. CASE j = i
    <2>1. ~Unreached(j)' /\ ~(j \notin created \/ enq[j].step = 1)
      BY <1>3 DEF Unreached
    <2>2. FreshOK(j)'
      BY <1>0, <2>1 DEF Found, FreshOK
    <2>3. IndexOK(j)'
      <3>1. Present(jobs[j])
        BY <1>3 DEF Rewrites
      <3>2. row.kind = "Enqueued" => ScoreOf(row) # NoScore
        BY DEF ScoreOf, Available, NoScore
      <3>3. Present(jobs'[j]) /\ Whole(j)' => Whole(j)
        BY <1>0 DEF Wholes
      <3>4. Whole(j) => sets[j] = {jobs[j].kind} /\ (enq[j].step \notin {1, 2} => j \in all)
        BY <1>0, <2>1, <3>1 DEF Found, IndexOK
      <3>5. Whole(j) => sets'[j] = {row.kind}
        BY <1>1, <1>3, <3>4
      <3>6. QED
        BY <1>1, <1>3, <3>2, <3>3, <3>4, <3>5 DEF IndexOK
    <2>4. QED
      BY <2>2, <2>3 DEF Found
  <1>4. QED
    BY <1>2, <1>3

LEMMA FoundRetried ==
  ASSUME FoundInv, [Next]_vars, NEW d \in Dashboards, RetryJobWrite(d), ~UNCHANGED <<jobs, index>>,
         NEW j \in Jobs
  PROVE  Found(j)'
  <1>0. Shape
    BY DEF FoundInv
  <1>1. UNCHANGED <<created, enq>> /\ \A k \in Jobs : Shrinks(k)
    BY DEF RetryJobWrite, Shrinks, Running
  <1>2. PICK i \in Jobs, row \in JobRow(Workers) : jobs[i].kind = "Failed" /\ Rewrites(i, row)
    BY <1>0, DashboardRewrites DEF Shape
  <1>3. ~Unreached(i)
    <2>1. Found(i) /\ Present(jobs[i])
      BY <1>2 DEF FoundInv, Found, Present
    <2>2. QED
      BY <1>0, <1>2, <2>1, UnreachedRow
  <1>4. QED
    BY <1>1, <1>2, <1>3, FoundRewritten

LEMMA FoundRequeued ==
  ASSUME FoundInv, [Next]_vars, NEW s \in Servers, RequeueWrite(s), ~UNCHANGED <<jobs, index>>,
         NEW j \in Jobs
  PROVE  Found(j)'
  <1>0. Shape
    BY DEF FoundInv
  <1>1. UNCHANGED <<created, enq, wk>>
    BY DEF RequeueWrite, clients
  <1>2. sweep'[s].id = NoId /\ \A t \in Servers \ {s} : sweep'[t] = sweep[t]
    BY <1>0, SweepWrites DEF Shape, WritersOK
  <1>3. \A k \in Jobs : Shrinks(k)
    BY <1>1, <1>2, RedisAssumption DEF Shrinks, Running
  <1>4. PICK i \in Jobs, row \in JobRow(Workers) : i = sweep[s].id /\ Rewrites(i, row)
    BY <1>0, SweepRewrites DEF Shape
  <1>5. ~Unreached(i)
    BY <1>4 DEF FoundInv, FreshOK
  <1>6. QED
    BY <1>1, <1>3, <1>4, <1>5, FoundRewritten

LEMMA FoundFinished ==
  ASSUME FoundInv, [Next]_vars, NEW w \in Workers, NEW o \in Outcomes, NEW d \in RetryDelays,
         Finish(w, o, d), ~UNCHANGED <<jobs, index>>, NEW j \in Jobs
  PROVE  Found(j)'
  <1>0. Shape
    BY DEF FoundInv
  <1>1. UNCHANGED <<created, enq, sweep>> /\ Running(w)
    BY DEF Finish, clients
  <1>2. wk'[w].pc = "idle" /\ \A v \in Workers \ {w} : wk'[v] = wk[v]
    BY <1>0, SlotEmpties DEF Shape, WritersOK
  <1>3. \A k \in Jobs : Shrinks(k)
    BY <1>1, <1>2 DEF Shrinks, Running
  <1>4. PICK i \in Jobs, row \in JobRow(Workers) : i = wk[w].id /\ Rewrites(i, row)
    BY <1>0, ResultRewrites DEF Shape
  <1>5. ~Unreached(i)
    BY <1>1, <1>4 DEF FoundInv, FreshOK
  <1>6. QED
    BY <1>1, <1>3, <1>4, <1>5, FoundRewritten

LEMMA FoundClaimed ==
  ASSUME FoundInv, [Next]_vars, NEW w \in Workers, NEW i \in Jobs, Fetch(w, i), NEW j \in Jobs
  PROVE  Found(j)'
  <1>0. Shape /\ Found(i)
    BY DEF FoundInv, Found
  <1>1. UNCHANGED <<created, enq, sweep>> /\ Claimable(jobs[i]) /\ Top(i, Home[w])
    BY DEF Fetch, clients
  <1>2. \A v \in Workers \ {w} : wk'[v] = wk[v] 
    BY <1>0, ClaimFills DEF Shape, WritersOK
  <1>3. wk'[w].id = i
    BY <1>0, ClaimFills DEF Shape, WritersOK
  <1>4. \A k \in Jobs \ {i} : Shrinks(k)
    BY <1>1, <1>2, <1>3 DEF Shrinks, Running
  <1>5. PICK row \in JobRow(Workers) : Rewrites(i, row)
    BY <1>0, ClaimRewrites DEF Shape
  <1>6. ~Unreached(i)
    <2> SUFFICES ASSUME Unreached(i) PROVE FALSE
      OBVIOUS
    <2>1. /\ jobs[i].kind \in {"Enqueued", "Scheduled"}
          /\ enq[i].step = 1 \/ ~Available(jobs[i])
      BY <1>0, <1>1, UnreachedRow DEF Claimable, Present
    <2>2. enq[i].step = 1
      BY <1>1, <2>1 DEF Claimable, Available
    <2>3. avail[i] = NoScore /\ queue[i] = NoScore
      BY <1>0, <2>2 DEF Found, FreshOK
    <2>4. QED
      BY <1>1, <2>3 DEF Top, Candidates
  <1>7. QED
    BY <1>1, <1>4, <1>5, <1>6, FoundRewritten

\* A claim that drops an entry drops that of a job it could not claim.
LEMMA FoundDropped ==
  ASSUME FoundInv, [Next]_vars, NEW w \in Workers, NEW i \in Jobs, FetchStale(w, i), NEW j \in Jobs
  PROVE  Found(j)'
  <1>0. Shape /\ Found(j) /\ Wholes(j)
    BY WholeStep DEF FoundInv, Found
  <1>1. UNCHANGED <<jobs, sets, all, created, enq, wk, sweep>> /\ ~Claimable(jobs[i])
    BY DEF FetchStale, clients
  <1>2. CASE j # i
    <2>1. avail'[j] = avail[j] /\ queue'[j] = queue[j]
      BY <1>0, <1>2 DEF FetchStale, Shape, StoreOK
    <2>2. Untouched(j) /\ Shrinks(j)
      BY <1>1, <2>1 DEF Untouched, Shrinks, Running
    <2>3. QED
      BY <1>0, <2>2, FoundKept
  <1>3. CASE j = i
    <2>1. avail'[j] = NoScore /\ queue'[j] \in {queue[j], NoScore}
      BY <1>0, <1>3 DEF FetchStale, Shape, StoreOK
    <2>2. Unreached(j)' <=> Unreached(j)
      BY <1>1 DEF Unreached
    <2>3. FreshOK(j)'
      BY <1>0, <1>1, <2>1, <2>2 DEF Found, FreshOK, Running
    <2>4. jobs[j].kind # "Enqueued"
      BY <1>1, <1>3 DEF Claimable
    <2>5. IndexOK(j)'
      BY <1>0, <1>1, <2>4 DEF Found, IndexOK, Wholes
    <2>6. QED
      BY <2>3, <2>5 DEF Found
  <1>4. QED
    BY <1>2, <1>3

\* The scheduler moves the due jobs, and cleans the state set of ids without blob.
LEMMA FoundDue ==
  ASSUME FoundInv, [Next]_vars, NEW kind \in {"Scheduled", "AwaitingRetry"}, ClaimDue(kind),
         NEW j \in Jobs
  PROVE  Found(j)'
  <1>0. Shape /\ Found(j) /\ Wholes(j)
    BY WholeStep DEF FoundInv, Found
  <1>1. UNCHANGED <<all, created, enq, wk, sweep>> /\ Shrinks(j)
    BY DEF ClaimDue, clients, Shrinks, Running
  <1>2. PICK B \in DueBatches(kind) :
          /\ jobs' = [k \in Jobs |-> IF k \in B THEN SetState(jobs[k], "Enqueued", 0) ELSE jobs[k]]
          /\ sets' = [k \in Jobs |-> CASE k \in B -> (sets[k] \ {kind}) \cup {"Enqueued"}
                                       [] ~Present(jobs[k]) -> sets[k] \ {kind}
                                       [] OTHER -> sets[k]]
          /\ avail' = [k \in Jobs |-> IF k \in B THEN "bare" ELSE avail[k]]
          /\ queue' = [k \in Jobs |-> IF k \in B THEN "bare" ELSE queue[k]]
    BY DEF ClaimDue
  <1>3. CASE j \in B
    <2>1. kind \in sets[j] /\ jobs[j].kind = kind /\ jobs[j].timer = 0 /\ Present(jobs[j])
      BY <1>3, BatchDue DEF Present
    <2>2. ~Unreached(j)
      <3> SUFFICES ASSUME Unreached(j) PROVE FALSE
        OBVIOUS
      <3>1. enq[j].step = 1
        BY <1>0, <2>1, UnreachedRow DEF Available
      <3>2. QED
        BY <1>0, <2>1, <3>1 DEF Found, FreshOK
    <2>3. ~Unreached(j)' /\ ~(j \notin created \/ enq[j].step = 1)
      BY <1>1, <2>2 DEF Unreached
    <2>4. FreshOK(j)'
      BY <1>0, <1>1, <2>3 DEF Found, FreshOK
    <2>5. /\ jobs'[j].kind = "Enqueued" /\ avail'[j] = "bare" /\ queue'[j] = "bare"
          /\ sets'[j] = (sets[j] \ {kind}) \cup {"Enqueued"}
      <3>1. jobs'[j] = SetState(jobs[j], "Enqueued", 0)
        BY <1>2, <1>3
      <3>2. jobs[j] \in JobRow(Workers)
        BY <1>0 DEF Shape, StoreOK
      <3>3. jobs'[j].kind = "Enqueued"
        BY <3>1, <3>2, RowKinds
      <3>4. QED
        <4>1. sets'[j] = (CASE j \in B -> (sets[j] \ {kind}) \cup {"Enqueued"}
                             [] ~Present(jobs[j]) -> sets[j] \ {kind}
                             [] OTHER -> sets[j])
          BY <1>2
        <4>2. sets'[j] = (sets[j] \ {kind}) \cup {"Enqueued"}
          BY <1>3, <2>1, <4>1
        <4>3. QED
          BY <1>2, <1>3, <3>3, <4>2
    <2>6. Whole(j) => sets[j] = {jobs[j].kind} /\ (enq[j].step \notin {1, 2} => j \in all)
      BY <1>0, <2>1, <2>3 DEF Found, IndexOK
    <2>7. Whole(j) => sets'[j] = {"Enqueued"}
      BY <2>1, <2>5, <2>6
    <2>8. IndexOK(j)'
      BY <1>0, <1>1, <2>5, <2>6, <2>7 DEF IndexOK, Wholes, NoScore
    <2>9. QED
      BY <2>4, <2>8 DEF Found
  <1>4. CASE j \notin B
    <2>1. jobs'[j] = jobs[j] /\ avail'[j] = avail[j] /\ queue'[j] = queue[j]
      BY <1>2, <1>4
    <2>2. CASE Present(jobs[j])
      <3>1. sets'[j] = sets[j]
        BY <1>2, <1>4, <2>2
      <3>2. Untouched(j)
        BY <1>1, <2>1, <3>1 DEF Untouched
      <3>3. QED
        BY <1>0, <1>1, <3>2, FoundKept
    <2>3. CASE ~Present(jobs[j])
      <3>1. sets'[j] = sets[j] \ {kind}
        BY <1>2, <1>4, <2>3
      <3>2. Unreached(j)' <=> Unreached(j)
        BY <1>1 DEF Unreached
      <3>3. FreshOK(j)'
        BY <1>0, <1>1, <2>1, <2>3, <3>1, <3>2 DEF Found, FreshOK, Running
      <3>4. IndexOK(j)'
        BY <2>1, <2>3 DEF IndexOK
      <3>5. QED
        BY <3>3, <3>4 DEF Found
    <2>4. QED
      BY <2>2, <2>3
  <1>5. QED
    BY <1>3, <1>4

\* A step that changes neither store nor enqueues may start a sweep's copy, but of
\* a Processing job only.
LEMMA FoundQuiet ==
  ASSUME FoundInv, [Next]_vars, UNCHANGED <<jobs, index, created, enq>>, NEW j \in Jobs
  PROVE  Found(j)'
  <1>0. Shape /\ Found(j) /\ Wholes(j)
    BY WholeStep DEF FoundInv, Found
  <1>1. Untouched(j)
    BY DEF Untouched, index
  <1>2. CASE Shrinks(j)
    BY <1>0, <1>1, <1>2, FoundKept
  <1>3. ASSUME NEW w \in Workers, Fetch(w, j) PROVE Found(j)'
    BY <1>3, FoundClaimed
  <1>4. ASSUME NEW s \in Servers, RequeueRead(s, j), Stale(jobs[j], sweep[s].age) PROVE Found(j)'
    <2>1. ~Unreached(j)
      BY <1>0, <1>4, UnreachedRow DEF Stale, Present
    <2>2. ~Unreached(j)' /\ ~(j \notin created \/ enq[j].step = 1)
      BY <2>1 DEF Unreached
    <2>3. FreshOK(j)'
      BY <1>0, <2>2 DEF Found, FreshOK
    <2>4. IndexOK(j)'
      BY <1>0, <1>1 DEF Found, IndexOK, Untouched, Wholes
    <2>5. QED
      BY <2>3, <2>4 DEF Found
  <1>5. QED
    BY <1>0, <1>2, <1>3, <1>4, HoldersStep

LEMMA FoundStep ==
  ASSUME QuickEnqueues
  PROVE  FoundInv /\ [Next]_vars => FoundInv'
  <1> SUFFICES ASSUME FoundInv, [Next]_vars PROVE FoundInv'
    OBVIOUS
  <1>1. Shape'
    BY ShapeStep DEF FoundInv
  <1>2. ASSUME NEW j \in Jobs PROVE Found(j)'
    <2>1. CASE \E i \in Jobs : Enqueue(i) \/ UpdateJobIndices(i) \/ EnqueueFails(i)
      BY <2>1, FoundEnqueue, FoundIndexed, FoundCutShort
    <2>2. CASE Tick
      BY <2>2, FoundTick
    <2>3. CASE UNCHANGED <<created, enq>>
      <3>1. CASE UNCHANGED <<jobs, index>>
        BY <2>3, <3>1, FoundQuiet
      <3>2. CASE \E a \in Removers : RemoveJobIndices(a) \/ DeleteBlob(a)
        BY <3>2, FoundRemoval, FoundDeleted
      <3>3. CASE \E d \in Dashboards : RetryJobWrite(d)
        BY <3>1, <3>3, FoundRetried
      <3>4. CASE \E s \in Servers : RequeueWrite(s)
        BY <3>1, <3>4, FoundRequeued
      <3>5. CASE \E w \in Workers, i \in Jobs : Fetch(w, i) \/ FetchStale(w, i)
        BY <3>5, FoundClaimed, FoundDropped
      <3>6. CASE \E w \in Workers, o \in Outcomes, d \in RetryDelays : Finish(w, o, d)
        BY <3>1, <3>6, FoundFinished
      <3>7. CASE \E kind \in {"Scheduled", "AwaitingRetry"} : ClaimDue(kind)
        BY <3>7, FoundDue
      <3>8. QED
        BY <2>1, <2>2, <3>1, <3>2, <3>3, <3>4, <3>5, <3>6, <3>7, StoreActions
    <2>4. QED
      BY <2>1, <2>2, <2>3, EnqueueFrame
  <1>3. QED
    BY <1>1, <1>2 DEF FoundInv, Found

LEMMA FoundHolds ==
  ASSUME QuickEnqueues
  PROVE  Spec => []FoundInv
  <1>1. Init => FoundInv
    <2> SUFFICES ASSUME Init PROVE FoundInv
      OBVIOUS
    <2>1. \A w \in Workers : ~Running(w)
      BY SlotType DEF Init, Running
    <2>2. ASSUME NEW s \in Servers, NEW j \in Jobs PROVE sweep[s].id # j
      BY NoSweepType, RedisAssumption DEF Init
    <2>3. \A j \in Jobs : /\ sets[j] = {} /\ avail[j] = NoScore /\ queue[j] = NoScore /\ j \notin created
                          /\ ~Present(jobs[j]) /\ enq[j].step = 0
      BY RowKinds DEF Init, NoEnqueue
    <2>4. \A j \in Jobs : FreshOK(j) /\ IndexOK(j)
      BY <2>1, <2>2, <2>3 DEF FreshOK, IndexOK
    <2>5. QED
      BY <2>4, ShapeInit DEF FoundInv
  <1>2. FoundInv /\ [Next]_vars => FoundInv'
    BY FoundStep
  <1>3. QED
    BY <1>1, <1>2, PTL DEF Spec

\* A stored job that nobody is half way through is where the claims look for it,
\* however the scripts and the command sequences of enqueue, delete and the sweep of
\* expired jobs have interleaved: until the fourth command of its enqueue a
\* job that is not due is out of reach of every script, and after it the scripts
\* keep blob and entries together.
THEOREM StoredJobsFound ==
  ASSUME QuickEnqueues
  PROVE  Spec => []StoredIsFound
  <1>1. FoundInv => StoredIsFound
    <2> SUFFICES ASSUME FoundInv, NEW j \in Jobs, Present(jobs[j]), Quiet(j)
                 PROVE  /\ sets[j] = {jobs[j].kind}
                        /\ j \in all
                        /\ jobs[j].kind = "Enqueued" => avail[j] # NoScore /\ queue[j] # NoScore
      BY DEF StoredIsFound
    <2>1. Whole(j) /\ enq[j].step = 0
      BY DEF Quiet, Whole, Removers
    <2>2. QED
      BY <2>1 DEF FoundInv, IndexOK
  <1>2. QED
    BY <1>1, FoundHolds, PTL

(***************************************************************************)
(* Counters that are exact.                                                *)
(***************************************************************************)

\* Joining a set with one it does not meet adds their sizes.
LEMMA SizeAdds ==
  ASSUME NEW S, IsFiniteSet(S), NEW B, IsFiniteSet(B), S \cap B = {}, NEW T, T = S \cup B
  PROVE  Cardinality(T) = Cardinality(S) + Cardinality(B)
  <1>1. Cardinality(S) \in Nat /\ Cardinality(B) \in Nat
    BY FS_CardinalityType
  <1>2. Cardinality(T) = Cardinality(S) + Cardinality(B) - Cardinality({})
    BY FS_Union
  <1>3. Cardinality({}) = 0
    BY FS_EmptySet
  <1>4. QED
    BY <1>1, <1>2, <1>3

LEMMA SizeGrows ==
  ASSUME NEW S, IsFiniteSet(S), NEW x, x \notin S, NEW T, T = S \cup {x}
  PROVE  Cardinality(T) = Cardinality(S) + 1
  BY FS_AddElement

LEMMA SizeShrinks ==
  ASSUME NEW S, IsFiniteSet(S), NEW x, x \in S, NEW T, T = S \ {x}
  PROVE  Cardinality(T) = Cardinality(S) - 1
  BY FS_RemoveElement

LEMMA AccountsFinite ==
  ASSUME NEW k
  PROVE  /\ IsFiniteSet(Stored(k)) /\ IsFiniteSet(Stored(k)')
         /\ IsFiniteSet(Uncounted(k)) /\ IsFiniteSet(Uncounted(k)')
         /\ IsFiniteSet(Lingering(k)) /\ IsFiniteSet(Lingering(k)')
         /\ IsFiniteSet(Discounted(k)) /\ IsFiniteSet(Discounted(k)')
  <1>1. /\ Stored(k) \subseteq Jobs /\ Stored(k)' \subseteq Jobs
        /\ Uncounted(k) \subseteq Jobs /\ Uncounted(k)' \subseteq Jobs
    BY DEF Stored, Uncounted
  <1>2. /\ Lingering(k) \subseteq Dashboards /\ Lingering(k)' \subseteq Dashboards
        /\ Discounted(k) \subseteq Servers /\ Discounted(k)' \subseteq Servers
    BY DEF Lingering, Discounted
  <1>3. ASSUME NEW S, NEW T, IsFiniteSet(S), T \subseteq S PROVE IsFiniteSet(T)
    BY <1>3, FS_Subset
  <1>4. /\ IsFiniteSet(Stored(k)) /\ IsFiniteSet(Stored(k)')
        /\ IsFiniteSet(Uncounted(k)) /\ IsFiniteSet(Uncounted(k)')
    BY <1>1, <1>3, RedisAssumption
  <1>5. /\ IsFiniteSet(Lingering(k)) /\ IsFiniteSet(Lingering(k)')
        /\ IsFiniteSet(Discounted(k)) /\ IsFiniteSet(Discounted(k)')
    BY <1>2, <1>3, RedisAssumption
  <1>6. QED
    BY <1>4, <1>5

LEMMA AccountsNat ==
  ASSUME NEW k
  PROVE  /\ Cardinality(Stored(k)) \in Nat /\ Cardinality(Stored(k)') \in Nat
         /\ Cardinality(Uncounted(k)) \in Nat /\ Cardinality(Uncounted(k)') \in Nat
         /\ Cardinality(Lingering(k)) \in Nat /\ Cardinality(Lingering(k)') \in Nat
         /\ Cardinality(Discounted(k)) \in Nat /\ Cardinality(Discounted(k)') \in Nat
  BY AccountsFinite, FS_CardinalityType

\* What was cut short or crossed stays so.
LEMMA MarksGrow ==
  ASSUME [Next]_vars
  PROVE  torn \subseteq torn' /\ drift \subseteq drift'
  BY RemovalFrame DEF EnqueueFails, DeleteRead, RemoveJobIndices, DeleteBlob, RemovalFails, Crash,
                      CleanupList, CleanupRead

SameStored == \A k \in Kinds : Stored(k)' = Stored(k)
SameUncounted == \A k \in Kinds : Uncounted(k)' = Uncounted(k)
SameRemovals == \A k \in Kinds : Lingering(k)' = Lingering(k) /\ Discounted(k)' = Discounted(k)

LEMMA SameAccounts ==
  /\ UNCHANGED jobs => SameStored
  /\ UNCHANGED enq => SameUncounted
  /\ UNCHANGED rem => SameRemovals
  BY DEF SameStored, SameUncounted, SameRemovals, Stored, Uncounted, Lingering, Discounted

\* A removal that is at another place counts as before when it is at the index, or
\* past it, as before.
LEMMA SamePlace ==
  ASSUME RemovalsOK, NEW a \in Removers, \A b \in Removers \ {a} : rem'[b] = rem[b],
         a \in Dashboards => \/ rem[a].pc # "index" /\ rem'[a].pc # "index"
                             \/ rem[a].pc = "index" /\ rem'[a].pc = "index" /\ rem'[a].kind = rem[a].kind,
         a \in Servers => rem[a].pc # "del" /\ rem'[a].pc # "del"
  PROVE  SameRemovals
  <1>1. ASSUME NEW k \in Kinds, NEW d \in Dashboards
        PROVE  rem'[d].pc = "index" /\ rem'[d].kind = k <=> rem[d].pc = "index" /\ rem[d].kind = k
    <2>1. CASE d = a
      BY <2>1
    <2>2. CASE d # a
      BY <2>2 DEF Removers
    <2>3. QED
      BY <2>1, <2>2
  <1>2. ASSUME NEW k \in Kinds, NEW s \in Servers
        PROVE  rem'[s].pc = "del" /\ rem'[s].kind = k <=> rem[s].pc = "del" /\ rem[s].kind = k
    <2>1. CASE s = a
      BY <2>1
    <2>2. CASE s # a
      BY <2>2 DEF Removers
    <2>3. QED
      BY <2>1, <2>2
  <1>3. QED
    BY <1>1, <1>2 DEF SameRemovals, Lingering, Discounted

\* A step that keeps every account balanced.
LEMMA AccountsKept ==
  ASSUME Balanced, [Next]_vars, UNCHANGED counts, SameStored, SameUncounted, SameRemovals
  PROVE  Balanced'
  BY MarksGrow DEF Balanced, SameStored, SameUncounted, SameRemovals

\* The commands of an enqueue.
LEMMA CountEnqueue ==
  ASSUME CountInv, [Next]_vars, NEW i \in Jobs, Enqueue(i)
  PROVE  Balanced'
  <1>1. /\ i \notin created
        /\ \A j \in Jobs \ {i} : enq'[j] = enq[j] /\ jobs'[j] = jobs[j]
        /\ enq'[i].step = 1 /\ enq'[i].row = jobs'[i]
    BY EnqueueStarts DEF CountInv, Shape
  <1>2. ~Present(jobs[i]) /\ enq[i].step = 0
    BY <1>1 DEF CountInv, Shape, EnqueueOK
  <1>3. SameRemovals /\ counts' = counts
    BY SameAccounts DEF Enqueue, index
  <1>4. ASSUME NEW k \in Kinds, torn = {}, drift = {}
        PROVE  counts[k] = Cardinality(Stored(k)') - Cardinality(Uncounted(k)')
                           + Cardinality(Lingering(k)) - Cardinality(Discounted(k))
    <2>1. counts[k] = Cardinality(Stored(k)) - Cardinality(Uncounted(k))
                      + Cardinality(Lingering(k)) - Cardinality(Discounted(k))
      BY <1>4 DEF CountInv, Balanced
    <2>2. CASE jobs'[i].kind = k
      <3>1. i \notin Stored(k) /\ Stored(k)' = Stored(k) \cup {i}
        BY <1>1, <1>2, <2>2 DEF Stored, Present, Kinds
      <3>2. i \notin Uncounted(k) /\ Uncounted(k)' = Uncounted(k) \cup {i}
        BY <1>1, <1>2, <2>2 DEF Uncounted
      <3>3. Cardinality(Stored(k)') = Cardinality(Stored(k)) + 1
        BY <3>1, AccountsFinite, SizeGrows
      <3>4. Cardinality(Uncounted(k)') = Cardinality(Uncounted(k)) + 1
        BY <3>2, AccountsFinite, SizeGrows
      <3>5. QED
        BY <2>1, <3>3, <3>4, AccountsNat
    <2>3. CASE jobs'[i].kind # k
      <3>1. Stored(k)' = Stored(k)
        BY <1>1, <1>2, <2>3 DEF Stored, Present, Kinds
      <3>2. Uncounted(k)' = Uncounted(k)
        BY <1>1, <1>2, <2>3 DEF Uncounted
      <3>3. QED
        BY <2>1, <3>1, <3>2
    <2>4. QED
      BY <2>2, <2>3
  <1>5. QED
    BY <1>3, <1>4, MarksGrow DEF Balanced, SameRemovals

LEMMA CountIndexed ==
  ASSUME CountInv, [Next]_vars, NEW i \in Jobs, UpdateJobIndices(i)
  PROVE  Balanced'
  <1>1. /\ \A j \in Jobs \ {i} : enq'[j] = enq[j]
        /\ enq[i].step \in 1..5
        /\ enq[i].step = 5 => enq'[i] = NoEnqueue
        /\ enq[i].step # 5 => enq'[i].step = enq[i].step + 1 /\ enq'[i].row = enq[i].row
    BY EnqueueEffect DEF CountInv, Shape
  <1>2. SameRemovals /\ SameStored
    BY SameAccounts DEF UpdateJobIndices
  <1>3. CASE enq[i].step # 3
    <2>1. counts' = counts
      BY <1>3 DEF UpdateJobIndices
    <2>2. /\ enq'[i].step \in 1..3 <=> enq[i].step \in 1..3
          /\ enq[i].step \in 1..3 => enq'[i].row = enq[i].row
      BY <1>1, <1>3 DEF NoEnqueue
    <2>3. SameUncounted
      BY <1>1, <2>2 DEF SameUncounted, Uncounted
    <2>4. QED
      BY <1>2, <2>1, <2>3, AccountsKept DEF CountInv
  <1>4. CASE enq[i].step = 3
    <2>1. PICK k0 \in Kinds : k0 = enq[i].row.kind
      BY <1>4 DEF CountInv, Shape, EnqueueOK, Kinds
    <2>2. counts' = [counts EXCEPT ![k0] = @ + 1]
      BY <1>4, <2>1 DEF UpdateJobIndices
    <2>3. enq'[i].step = 4
      BY <1>1, <1>4
    <2>4. ASSUME NEW k \in Kinds, torn = {}, drift = {}
          PROVE  counts'[k] = Cardinality(Stored(k)) - Cardinality(Uncounted(k)')
                              + Cardinality(Lingering(k)) - Cardinality(Discounted(k))
      <3>1. counts[k] = Cardinality(Stored(k)) - Cardinality(Uncounted(k))
                        + Cardinality(Lingering(k)) - Cardinality(Discounted(k))
        BY <2>4 DEF CountInv, Balanced
      <3>2. CASE k = k0
        <4>1. i \in Uncounted(k) /\ Uncounted(k)' = Uncounted(k) \ {i}
          BY <1>1, <1>4, <2>1, <2>3, <3>2 DEF Uncounted
        <4>2. Cardinality(Uncounted(k)') = Cardinality(Uncounted(k)) - 1
          BY <4>1, AccountsFinite, SizeShrinks
        <4>3. counts'[k] = counts[k] + 1
          BY <2>2, <3>2 DEF CountInv, Shape, StoreOK
        <4>4. QED
          BY <3>1, <4>2, <4>3, AccountsNat
      <3>3. CASE k # k0
        <4>1. Uncounted(k)' = Uncounted(k)
          BY <1>1, <1>4, <2>1, <2>3, <3>3 DEF Uncounted
        <4>2. counts'[k] = counts[k]
          BY <2>2, <3>3 DEF CountInv, Shape, StoreOK
        <4>3. QED
          BY <3>1, <4>1, <4>2
      <3>4. QED
        BY <3>2, <3>3
    <2>5. QED
      BY <1>2, <2>4, MarksGrow DEF Balanced, SameRemovals, SameStored
  <1>5. QED
    BY <1>3, <1>4

\* Jobs that move from one state to another move in the counters too.
LEMMA CountMoved ==
  ASSUME CountInv, [Next]_vars, SameUncounted, SameRemovals,
         NEW B, IsFiniteSet(B), NEW from \in Kinds, NEW to \in Kinds, from # to,
         counts' = Moved(B, from, to), B \cap Stored(to) = {}, B \subseteq Stored(from),
         Stored(from)' = Stored(from) \ B, Stored(to)' = Stored(to) \cup B,
         \A k \in Kinds \ {from, to} : Stored(k)' = Stored(k)
  PROVE  Balanced'
  <1>1. Cardinality(B) \in Nat
    BY FS_CardinalityType
  <1>2. /\ counts'[from] = counts[from] - Cardinality(B)
        /\ counts'[to] = counts[to] + Cardinality(B)
        /\ \A k \in Kinds \ {from, to} : counts'[k] = counts[k]
    BY <1>1, MovedCounts DEF CountInv, Shape, StoreOK
  <1>3. Cardinality(Stored(to)') = Cardinality(Stored(to)) + Cardinality(B)
    BY AccountsFinite, SizeAdds
  <1>4. Cardinality(Stored(from)) = Cardinality(Stored(from)') + Cardinality(B)
    <2>1. IsFiniteSet(Stored(from)') /\ Stored(from)' \cap B = {} /\ Stored(from) = Stored(from)' \cup B
      BY AccountsFinite
    <2>2. QED
      BY <2>1, SizeAdds
  <1>5. ASSUME NEW k \in Kinds, torn = {}, drift = {}
        PROVE  counts'[k] = Cardinality(Stored(k)') - Cardinality(Uncounted(k))
                            + Cardinality(Lingering(k)) - Cardinality(Discounted(k))
    <2>1. counts[k] = Cardinality(Stored(k)) - Cardinality(Uncounted(k))
                      + Cardinality(Lingering(k)) - Cardinality(Discounted(k))
      BY <1>5 DEF CountInv, Balanced
    <2>a. PICK n \in Nat, s \in Nat, t \in Nat, u \in Nat, l \in Nat, d \in Nat :
            /\ n = Cardinality(B) /\ s = Cardinality(Stored(k)) /\ t = Cardinality(Stored(k)')
            /\ u = Cardinality(Uncounted(k)) /\ l = Cardinality(Lingering(k))
            /\ d = Cardinality(Discounted(k))
      BY <1>1, AccountsNat
    <2>b. counts[k] = s - u + l - d
      BY <2>1, <2>a
    <2>2. CASE k = from
      <3>1. counts'[k] = counts[k] - n /\ s = t + n
        BY <1>2, <1>4, <2>2, <2>a
      <3>2. counts'[k] = t - u + l - d
        BY <2>b, <3>1
      <3>3. QED
        BY <2>a, <3>2
    <2>3. CASE k = to
      <3>1. counts'[k] = counts[k] + n /\ t = s + n
        BY <1>2, <1>3, <2>3, <2>a
      <3>2. counts'[k] = t - u + l - d
        BY <2>b, <3>1
      <3>3. QED
        BY <2>a, <3>2
    <2>4. CASE k \notin {from, to}
      BY <1>2, <2>1, <2>4
    <2>5. QED
      BY <2>2, <2>3, <2>4
  <1>6. QED
    BY <1>5, MarksGrow DEF Balanced, SameUncounted, SameRemovals

LEMMA CountRewritten ==
  ASSUME CountInv, [Next]_vars, UNCHANGED <<enq, rem>>,
         NEW i \in Jobs, NEW row \in JobRow(Workers), Rewrites(i, row)
  PROVE  Balanced'
  <1>1. SameUncounted /\ SameRemovals
    BY SameAccounts
  <1>2. /\ jobs'[i] = row /\ counts' = Moved({i}, jobs[i].kind, row.kind)
        /\ jobs[i].kind \in Kinds /\ row.kind \in Kinds
        /\ \A k \in Jobs \ {i} : jobs'[k] = jobs[k]
    BY RewriteEffect DEF CountInv, Shape
  <1>3. CASE jobs[i].kind = row.kind
    <2>1. counts' = counts
      BY <1>2, <1>3 DEF Moved
    <2>2. SameStored
      BY <1>2, <1>3 DEF SameStored, Stored
    <2>3. QED
      BY <1>1, <2>1, <2>2, AccountsKept DEF CountInv
  <1>4. CASE jobs[i].kind # row.kind
    <2>1. PICK from \in Kinds, to \in Kinds : from = jobs[i].kind /\ to = row.kind
      BY <1>2
    <2>2. /\ {i} \cap Stored(to) = {} /\ {i} \subseteq Stored(from)
          /\ Stored(from)' = Stored(from) \ {i} /\ Stored(to)' = Stored(to) \cup {i}
      BY <1>2, <1>4, <2>1 DEF Stored
    <2>3. \A k \in Kinds \ {from, to} : Stored(k)' = Stored(k)
      BY <1>2, <1>4, <2>1 DEF Stored
    <2>4. PICK B : B = {i} /\ IsFiniteSet(B)
      BY FS_Singleton
    <2>5. from # to /\ counts' = Moved(B, from, to)
      BY <1>2, <1>4, <2>1, <2>4
    <2>6. QED
      BY <1>1, <2>2, <2>3, <2>4, <2>5, CountMoved
  <1>5. QED
    BY <1>3, <1>4

LEMMA CountDue ==
  ASSUME CountInv, [Next]_vars, NEW kind \in {"Scheduled", "AwaitingRetry"}, ClaimDue(kind)
  PROVE  Balanced'
  <1>1. SameUncounted /\ SameRemovals
    BY SameAccounts DEF ClaimDue, clients
  <1>2. PICK B \in DueBatches(kind) :
          /\ jobs' = [k \in Jobs |-> IF k \in B THEN SetState(jobs[k], "Enqueued", 0) ELSE jobs[k]]
          /\ counts' = Moved(B, kind, "Enqueued")
    BY DEF ClaimDue
  <1>3. B \subseteq Jobs /\ IsFiniteSet(B) /\ \A j \in B : jobs[j].kind = kind
    BY BatchDue
  <1>4. ASSUME NEW j \in Jobs
        PROVE  /\ j \in B => jobs'[j].kind = "Enqueued"
               /\ j \notin B => jobs'[j].kind = jobs[j].kind
    <2>1. jobs[j] \in JobRow(Workers)
      BY DEF CountInv, Shape, StoreOK
    <2>2. QED
      BY <1>2, <2>1, RowKinds
  <1>5. PICK from \in Kinds, to \in Kinds : from = kind /\ to = "Enqueued" /\ from # to
    BY DEF Kinds
  <1>6. /\ B \cap Stored(to) = {} /\ B \subseteq Stored(from)
        /\ Stored(from)' = Stored(from) \ B /\ Stored(to)' = Stored(to) \cup B
    BY <1>3, <1>4, <1>5 DEF Stored
  <1>7. \A k \in Kinds \ {from, to} : Stored(k)' = Stored(k)
    BY <1>3, <1>4, <1>5 DEF Stored
  <1>8. counts' = Moved(B, from, to)
    BY <1>2, <1>5
  <1>9. QED
    BY <1>1, <1>3, <1>5, <1>6, <1>7, <1>8, CountMoved

\* Where the commands of a removal lead it.
LEMMA RemovalMoves ==
  ASSUME RemovalsOK, NEW a \in Removers, RemoveJobIndices(a)
  PROVE  /\ rem[a].pc = "index" /\ rem[a].step \in 1..5
         /\ \A b \in Removers \ {a} : rem'[b] = rem[b]
         /\ rem[a].step # 5 => rem'[a].pc = "index" /\ rem'[a].kind = rem[a].kind
         /\ rem[a].step = 5 /\ a \in Servers => rem'[a].pc = "del" /\ rem'[a].kind = rem[a].kind
         /\ rem[a].step = 5 /\ a \notin Servers => rem'[a].pc = "idle"
  <1>1. PICK r \in RemSet : r = rem[a]
    BY DEF RemovalsOK
  <1>2. rem[a].pc = "index" /\ rem[a].step \in 1..5
    BY <1>1 DEF RemoveJobIndices, RemovalsOK, RemovalOK, RemSet
  <1>3. \A b \in Removers \ {a} : rem'[b] = rem[b]
    BY DEF RemoveJobIndices, RemovalsOK
  <1>4. rem'[a] = (IF r.step < 5 THEN [r EXCEPT !.step = @ + 1]
                   ELSE IF a \in Servers THEN [r EXCEPT !.pc = "del", !.step = 0]
                   ELSE NoRemoval)
    BY <1>1 DEF RemoveJobIndices, RemovalsOK
  <1>5. /\ \A n : [r EXCEPT !.step = n].pc = r.pc /\ [r EXCEPT !.step = n].kind = r.kind
        /\ [r EXCEPT !.pc = "del", !.step = 0].pc = "del"
        /\ [r EXCEPT !.pc = "del", !.step = 0].kind = r.kind
        /\ NoRemoval.pc = "idle"
    BY DEF RemSet, NoRemoval
  <1>6. rem[a].step # 5 => r.step < 5
    BY <1>1, <1>2
  <1>7. rem[a].step = 5 => ~(r.step < 5)
    BY <1>1
  <1>8. QED
    BY <1>1, <1>2, <1>3, <1>4, <1>5, <1>6, <1>7

LEMMA CountRemoval ==
  ASSUME CountInv, [Next]_vars, NEW a \in Removers, RemoveJobIndices(a)
  PROVE  Balanced'
  <1>0. RemovalsOK /\ (a \in Servers => a \notin Dashboards) /\ (a \notin Servers => a \in Dashboards)
    BY RedisAssumption DEF CountInv, Shape, Removers
  <1>1. /\ rem[a].pc = "index" /\ rem[a].step \in 1..5
        /\ \A b \in Removers \ {a} : rem'[b] = rem[b]
        /\ rem[a].step # 5 => rem'[a].pc = "index" /\ rem'[a].kind = rem[a].kind
        /\ rem[a].step = 5 /\ a \in Servers => rem'[a].pc = "del" /\ rem'[a].kind = rem[a].kind
        /\ rem[a].step = 5 /\ a \notin Servers => rem'[a].pc = "idle"
    BY <1>0, RemovalMoves
  <1>2. SameStored /\ SameUncounted
    BY SameAccounts DEF RemoveJobIndices
  <1>3. CASE rem[a].step # 5
    <2>1. counts' = counts
      BY <1>3 DEF RemoveJobIndices
    <2>2. SameRemovals
      BY <1>0, <1>1, <1>3, SamePlace
    <2>3. QED
      BY <1>2, <2>1, <2>2, AccountsKept DEF CountInv
  <1>4. CASE rem[a].step = 5
    <2>1. PICK k0 \in Kinds : k0 = rem[a].kind
      BY <1>0, <1>1 DEF RemovalsOK, RemovalOK
    <2>2. counts' = [counts EXCEPT ![k0] = @ - 1]
      BY <1>4, <2>1 DEF RemoveJobIndices
    <2>3. counts'[k0] = counts[k0] - 1 /\ \A k \in Kinds \ {k0} : counts'[k] = counts[k]
      BY <2>2 DEF CountInv, Shape, StoreOK
    <2>4. ASSUME NEW k \in Kinds, torn = {}, drift = {}
          PROVE  counts'[k] = Cardinality(Stored(k)) - Cardinality(Uncounted(k))
                              + Cardinality(Lingering(k)') - Cardinality(Discounted(k)')
      <3>1. counts[k] = Cardinality(Stored(k)) - Cardinality(Uncounted(k))
                        + Cardinality(Lingering(k)) - Cardinality(Discounted(k))
        BY <2>4 DEF CountInv, Balanced
      <3>2. CASE a \in Servers
        <4>1. Lingering(k)' = Lingering(k)
          BY <1>0, <1>1, <3>2 DEF Lingering, Removers
        <4>2. CASE k = k0
          <5>1. a \notin Discounted(k) /\ Discounted(k)' = Discounted(k) \cup {a}
            BY <1>1, <1>4, <2>1, <3>2, <4>2 DEF Discounted, Removers
          <5>2. Cardinality(Discounted(k)') = Cardinality(Discounted(k)) + 1
            BY <5>1, AccountsFinite, SizeGrows
          <5>3. QED
            BY <2>3, <3>1, <4>1, <4>2, <5>2, AccountsNat
        <4>3. CASE k # k0
          <5>1. Discounted(k)' = Discounted(k)
            BY <1>1, <1>4, <2>1, <3>2, <4>3 DEF Discounted, Removers
          <5>2. QED
            BY <2>3, <3>1, <4>1, <4>3, <5>1
        <4>4. QED
          BY <4>2, <4>3
      <3>3. CASE a \notin Servers
        <4>1. Discounted(k)' = Discounted(k)
          BY <1>1, <3>3 DEF Discounted, Removers
        <4>2. CASE k = k0
          <5>1. a \in Lingering(k) /\ Lingering(k)' = Lingering(k) \ {a}
            BY <1>0, <1>1, <1>4, <2>1, <3>3, <4>2 DEF Lingering, Removers
          <5>2. Cardinality(Lingering(k)') = Cardinality(Lingering(k)) - 1
            BY <5>1, AccountsFinite, SizeShrinks
          <5>3. QED
            BY <2>3, <3>1, <4>1, <4>2, <5>2, AccountsNat
        <4>3. CASE k # k0
          <5>1. Lingering(k)' = Lingering(k)
            BY <1>0, <1>1, <1>4, <2>1, <3>3, <4>3 DEF Lingering, Removers
          <5>2. QED
            BY <2>3, <3>1, <4>1, <4>3, <5>1
        <4>4. QED
          BY <4>2, <4>3
      <3>4. QED
        BY <3>2, <3>3
    <2>5. QED
      BY <1>2, <2>4, MarksGrow DEF Balanced, SameStored, SameUncounted
  <1>5. QED
    BY <1>3, <1>4

\* Where the DEL of a blob leads a removal.
LEMMA DeletionMoves ==
  ASSUME RemovalsOK, NEW a \in Removers, DeleteBlob(a)
  PROVE  /\ rem[a].pc = "del"
         /\ \A b \in Removers \ {a} : rem'[b] = rem[b]
         /\ a \in Servers => rem'[a].pc \in {"idle", "list"}
         /\ a \notin Servers /\ Present(jobs[rem[a].id]) =>
               rem'[a].pc = "index" /\ rem'[a].kind = rem[a].kind
         /\ a \notin Servers /\ ~Present(jobs[rem[a].id]) => rem'[a].pc = "idle"
  <1>1. PICK r \in RemSet : r = rem[a]
    BY DEF RemovalsOK
  <1>2. rem[a].pc = "del" /\ \A b \in Removers \ {a} : rem'[b] = rem[b]
    BY DEF DeleteBlob, RemovalsOK
  <1>3. rem'[a] = (IF a \in Servers THEN Listing(r)
                   ELSE IF Present(jobs[r.id]) THEN [r EXCEPT !.pc = "index", !.step = 1]
                   ELSE NoRemoval)
    BY <1>1 DEF DeleteBlob, RemovalsOK
  <1>4. /\ [r EXCEPT !.pc = "index", !.step = 1].pc = "index"
        /\ [r EXCEPT !.pc = "index", !.step = 1].kind = r.kind
        /\ NoRemoval.pc = "idle"
    BY DEF RemSet, NoRemoval
  <1>5. Listing(r).pc \in {"idle", "list"}
    BY ListingOK
  <1>6. QED
    BY <1>1, <1>2, <1>3, <1>4, <1>5

LEMMA CountDeleted ==
  ASSUME CountInv, [Next]_vars, NEW a \in Removers, DeleteBlob(a)
  PROVE  Balanced'
  <1>0. /\ RemovalsOK /\ StoreOK /\ EnqueueOK
        /\ (a \in Servers => a \notin Dashboards) /\ (a \notin Servers => a \in Dashboards)
    BY RedisAssumption DEF CountInv, Shape, Removers
  <1>1. /\ rem[a].pc = "del"
        /\ \A b \in Removers \ {a} : rem'[b] = rem[b]
        /\ a \in Servers => rem'[a].pc \in {"idle", "list"}
        /\ a \notin Servers /\ Present(jobs[rem[a].id]) =>
              rem'[a].pc = "index" /\ rem'[a].kind = rem[a].kind
    BY <1>0, DeletionMoves
  <1>2. SameUncounted /\ counts' = counts
    BY SameAccounts DEF DeleteBlob, index
  <1>3. PICK i \in Jobs, k0 \in Kinds : i = rem[a].id /\ k0 = rem[a].kind
    BY <1>0, <1>1 DEF RemovalsOK, RemovalOK, EnqueueOK
  <1>4. jobs' = [jobs EXCEPT ![i] = NoRow] /\ (drift' = {} => jobs[i].kind = k0)
    BY <1>3 DEF DeleteBlob
  <1>5. jobs'[i].kind = "None" /\ \A j \in Jobs \ {i} : jobs'[j] = jobs[j]
    BY <1>0, <1>4 DEF StoreOK, NoRow
  <1>6. ASSUME NEW k \in Kinds, torn = {}, drift' = {}
        PROVE  counts[k] = Cardinality(Stored(k)') - Cardinality(Uncounted(k))
                           + Cardinality(Lingering(k)') - Cardinality(Discounted(k)')
    <2>1. counts[k] = Cardinality(Stored(k)) - Cardinality(Uncounted(k))
                      + Cardinality(Lingering(k)) - Cardinality(Discounted(k))
      BY <1>6, MarksGrow DEF CountInv, Balanced
    <2>2. jobs[i].kind = k0 /\ Present(jobs[i]) /\ k # "None"
      BY <1>4, <1>6 DEF Present, Kinds
    <2>3. CASE k # k0
      <3>1. Stored(k)' = Stored(k)
        BY <1>5, <2>2, <2>3 DEF Stored
      <3>2. Lingering(k)' = Lingering(k) /\ Discounted(k)' = Discounted(k)
        <4>1. a \notin Servers => rem'[a].pc = "index" /\ rem'[a].kind = k0
          BY <1>1, <1>3, <2>2
        <4>2. Lingering(k)' = Lingering(k)
          BY <1>0, <1>1, <1>3, <2>3, <4>1 DEF Lingering, Removers
        <4>3. Discounted(k)' = Discounted(k)
          BY <1>0, <1>1, <1>3, <2>3, <4>1 DEF Discounted, Removers
        <4>4. QED
          BY <4>2, <4>3
      <3>3. QED
        BY <2>1, <3>1, <3>2
    <2>4. CASE k = k0
      <3>1. i \in Stored(k) /\ Stored(k)' = Stored(k) \ {i}
        BY <1>5, <2>2, <2>4 DEF Stored
      <3>2. Cardinality(Stored(k)') = Cardinality(Stored(k)) - 1
        BY <3>1, AccountsFinite, SizeShrinks
      <3>3. CASE a \in Servers
        <4>1. Lingering(k)' = Lingering(k)
          BY <1>0, <1>1, <3>3 DEF Lingering, Removers
        <4>2. a \in Discounted(k) /\ Discounted(k)' = Discounted(k) \ {a}
          BY <1>0, <1>1, <1>3, <2>4, <3>3 DEF Discounted, Removers
        <4>3. Cardinality(Discounted(k)') = Cardinality(Discounted(k)) - 1
          BY <4>2, AccountsFinite, SizeShrinks
        <4>4. QED
          BY <2>1, <3>2, <4>1, <4>3, AccountsNat
      <3>4. CASE a \notin Servers
        <4>1. Discounted(k)' = Discounted(k)
          BY <1>1, <3>4 DEF Discounted, Removers
        <4>2. a \notin Lingering(k) /\ Lingering(k)' = Lingering(k) \cup {a}
          BY <1>0, <1>1, <1>3, <2>2, <2>4, <3>4 DEF Lingering, Removers
        <4>3. Cardinality(Lingering(k)') = Cardinality(Lingering(k)) + 1
          BY <4>2, AccountsFinite, SizeGrows
        <4>4. QED
          BY <2>1, <3>2, <4>1, <4>3, AccountsNat
      <3>5. QED
        BY <3>3, <3>4
    <2>5. QED
      BY <2>3, <2>4
  <1>7. QED
    BY <1>2, <1>6, MarksGrow DEF Balanced, SameUncounted

\* A removal that ends without a job in hand counted for nothing.
LEMMA CountGivenUp ==
  ASSUME CountInv, [Next]_vars, UNCHANGED <<jobs, counts, enq>>, NEW a \in Removers,
         rem' = [rem EXCEPT ![a] = NoRemoval], torn' = torn \cup ({rem[a].id} \ {NoId})
  PROVE  Balanced'
  <1>1. SameStored /\ SameUncounted
    BY SameAccounts
  <1>2. CASE rem[a].pc \in {"idle", "list"}
    <2>1. rem'[a] = NoRemoval /\ \A b \in Removers \ {a} : rem'[b] = rem[b]
      BY DEF CountInv, Shape, RemovalsOK
    <2>2. NoRemoval.pc = "idle"
      BY DEF NoRemoval
    <2>3. SameRemovals
      BY <1>2, <2>1, <2>2, SamePlace DEF CountInv, Shape
    <2>4. QED
      BY <1>1, <2>3, AccountsKept DEF CountInv
  <1>3. CASE rem[a].pc \in {"del", "index"}
    <2>1. rem[a].id # NoId
      BY <1>3, RedisAssumption DEF CountInv, Shape, RemovalsOK, RemovalOK, EnqueueOK
    <2>2. torn' # {}
      BY <2>1
    <2>3. QED
      BY <2>2 DEF Balanced
  <1>4. QED
    BY <1>2, <1>3 DEF CountInv, Shape, RemovalsOK, RemSet

\* What a removal reads does not count yet.
LEMMA CountRead ==
  ASSUME CountInv, [Next]_vars
  PROVE  /\ \A d \in Dashboards, j \in Jobs : DeleteRead(d, j) => Balanced'
         /\ \A s \in Servers : CleanupList(s) => Balanced'
         /\ \A s \in Servers, j \in Jobs : CleanupRead(s, j) => Balanced'
  <1>0. RemovalsOK
    BY DEF CountInv, Shape
  <1>1. ASSUME NEW d \in Dashboards, NEW j \in Jobs, DeleteRead(d, j) PROVE Balanced'
    <2>1. SameStored /\ SameUncounted /\ counts' = counts
      BY <1>1, SameAccounts DEF DeleteRead, index
    <2>2. /\ d \in Removers /\ d \notin Servers /\ rem[d].pc = "idle"
          /\ \A b \in Removers \ {d} : rem'[b] = rem[b]
      BY <1>0, <1>1, RedisAssumption DEF DeleteRead, Removers, RemovalsOK
    <2>3. rem'[d].pc = "del"
      <3>1. rem'[d] = [NoRemoval EXCEPT !.pc = "del", !.id = j, !.kind = jobs[j].kind]
        BY <1>0, <1>1, <2>2 DEF DeleteRead, RemovalsOK
      <3>2. QED
        BY <3>1 DEF NoRemoval
    <2>4. SameRemovals
      BY <1>0, <2>2, <2>3, SamePlace
    <2>5. QED
      BY <2>1, <2>4, AccountsKept DEF CountInv
  <1>2. ASSUME NEW s \in Servers, CleanupList(s) PROVE Balanced'
    <2>1. SameStored /\ SameUncounted /\ counts' = counts
      BY <1>2, SameAccounts DEF CleanupList, index
    <2>2. /\ s \in Removers /\ s \notin Dashboards /\ rem[s].pc = "idle"
          /\ \A b \in Removers \ {s} : rem'[b] = rem[b]
      BY <1>0, <1>2, RedisAssumption DEF CleanupList, Removers, RemovalsOK
    <2>3. rem'[s].pc = "list"
      BY <1>0, <1>2, <2>2 DEF CleanupList, RemovalsOK, NoRemoval
    <2>4. SameRemovals
      BY <1>0, <2>2, <2>3, SamePlace
    <2>5. QED
      BY <2>1, <2>4, AccountsKept DEF CountInv
  <1>3. ASSUME NEW s \in Servers, NEW j \in Jobs, CleanupRead(s, j) PROVE Balanced'
    <2>1. SameStored /\ SameUncounted /\ counts' = counts
      BY <1>3, SameAccounts DEF CleanupRead, index
    <2>2. /\ s \in Removers /\ s \notin Dashboards /\ rem[s].pc = "list" /\ rem[s] \in RemSet
          /\ \A b \in Removers \ {s} : rem'[b] = rem[b]
      BY <1>0, <1>3, RedisAssumption DEF CleanupRead, Removers, RemovalsOK
    <2>3. rem'[s].pc # "del"
      <3>1. PICK r \in RemSet : r = [rem[s] EXCEPT !.todo = @ \ {j}]
        BY <2>2 DEF RemSet
      <3>2. rem'[s] = (IF Present(jobs[j]) /\ jobs[j].expires = 0
                       THEN [r EXCEPT !.pc = "index", !.id = j, !.kind = jobs[j].kind, !.step = 1]
                       ELSE Listing(r))
        BY <1>0, <1>3, <2>2, <3>1 DEF CleanupRead, RemovalsOK
      <3>3. \A k : [r EXCEPT !.pc = "index", !.id = j, !.kind = k, !.step = 1].pc = "index"
        BY DEF RemSet
      <3>4. Listing(r).pc \in {"idle", "list"}
        BY ListingOK
      <3>5. QED
        BY <3>2, <3>3, <3>4
    <2>4. SameRemovals
      BY <1>0, <2>2, <2>3, SamePlace
    <2>5. QED
      BY <2>1, <2>4, AccountsKept DEF CountInv
  <1>4. QED
    BY <1>1, <1>2, <1>3

LEMMA CountTick ==
  ASSUME CountInv, [Next]_vars, Tick
  PROVE  Balanced'
  <1>1. SameRemovals /\ counts' = counts
    BY SameAccounts DEF Tick, index
  <1>2. \A j \in Jobs : jobs'[j].kind = jobs[j].kind
    BY AgedType DEF Tick, CountInv, Shape, StoreOK
  <1>3. ASSUME NEW j \in Jobs PROVE enq'[j].step = enq[j].step /\ enq'[j].row.kind = enq[j].row.kind
    <2>1. PICK e \in EnqSet : e = enq[j]
      BY DEF CountInv, Shape, EnqueueOK
    <2>2. enq'[j] = [e EXCEPT !.row = Aged(@, Limit)]
      BY <2>1 DEF Tick
    <2>3. e.row \in JobRow(Workers)
      BY DEF EnqSet
    <2>4. Aged(e.row, Limit).kind = e.row.kind
      BY <2>3, AgedType
    <2>5. QED
      BY <2>1, <2>2, <2>4 DEF EnqSet
  <1>4. SameStored /\ SameUncounted
    BY <1>2, <1>3 DEF SameStored, SameUncounted, Stored, Uncounted
  <1>5. QED
    BY <1>1, <1>4, AccountsKept DEF CountInv

LEMMA CountStep == CountInv /\ [Next]_vars => CountInv'
  <1> SUFFICES ASSUME CountInv, [Next]_vars PROVE CountInv'
    OBVIOUS
  <1>0. Shape /\ Shape'
    BY ShapeStep DEF CountInv
  <1>1. ASSUME UNCHANGED <<jobs, counts, enq, rem>> PROVE Balanced'
    BY <1>1, SameAccounts, AccountsKept DEF CountInv
  <1>2. CASE \E j \in Jobs : Enqueue(j) \/ UpdateJobIndices(j)
    BY <1>0, <1>2, CountEnqueue, CountIndexed DEF CountInv
  <1>3. ASSUME NEW j \in Jobs, EnqueueFails(j) PROVE Balanced'
    BY <1>3 DEF EnqueueFails, Balanced
  <1>4. ASSUME NEW d \in Dashboards, RetryJobWrite(d) PROVE Balanced'
    <2>1. UNCHANGED <<enq, rem>>
      BY <1>4 DEF RetryJobWrite
    <2>2. QED
      BY <1>0, <1>1, <1>4, <2>1, DashboardRewrites, CountRewritten DEF Shape, index
  <1>5. ASSUME NEW s \in Servers, RequeueWrite(s) PROVE Balanced'
    <2>1. UNCHANGED <<enq, rem>>
      BY <1>5 DEF RequeueWrite, clients
    <2>2. QED
      BY <1>0, <1>1, <1>5, <2>1, SweepRewrites, CountRewritten DEF Shape, index
  <1>6. ASSUME NEW w \in Workers, NEW j \in Jobs, Fetch(w, j) PROVE Balanced'
    <2>1. UNCHANGED <<enq, rem>>
      BY <1>6 DEF Fetch, clients
    <2>2. QED
      BY <1>0, <1>6, <2>1, ClaimRewrites, CountRewritten DEF Shape
  <1>7. ASSUME NEW w \in Workers, NEW o \in Outcomes, NEW d \in RetryDelays, Finish(w, o, d)
        PROVE  Balanced'
    <2>1. UNCHANGED <<enq, rem>>
      BY <1>7 DEF Finish, clients
    <2>2. PICK i \in Jobs, row \in JobRow(Workers) : UNCHANGED <<jobs, index>> \/ Rewrites(i, row)
      BY <1>0, <1>7, ResultRewrites DEF Shape
    <2>3. QED
      BY <1>1, <2>1, <2>2, CountRewritten DEF index
  <1>8. CASE \E a \in Removers : RemoveJobIndices(a) \/ DeleteBlob(a)
    BY <1>0, <1>8, CountRemoval, CountDeleted DEF CountInv
  <1>9. ASSUME NEW a \in Removers, RemovalFails(a) PROVE Balanced'
    BY <1>9, CountGivenUp DEF RemovalFails, index
  <1>10. ASSUME NEW s \in Servers, Crash(s) PROVE Balanced'
    BY <1>10, CountGivenUp DEF Crash, index, Removers
  <1>11. ASSUME NEW d \in Dashboards, NEW j \in Jobs, RetryJobRead(d, j) \/ DeleteRead(d, j)
         PROVE  Balanced'
    BY <1>1, <1>11, CountRead DEF RetryJobRead, index
  <1>12. ASSUME NEW s \in Servers, Start(s) \/ Started(s) \/ CleanupList(s) PROVE Balanced'
    BY <1>1, <1>12, CountRead DEF Start, Started, clients, index
  <1>13. ASSUME NEW s \in Servers, NEW j \in Jobs, RequeueRead(s, j) \/ CleanupRead(s, j)
         PROVE  Balanced'
    BY <1>1, <1>13, CountRead DEF RequeueRead, clients, index
  <1>14. ASSUME NEW w \in Workers, UpdateFails(w) PROVE Balanced'
    BY <1>1, <1>14 DEF UpdateFails, clients, index
  <1>15. ASSUME NEW w \in Workers, NEW j \in Jobs, FetchStale(w, j) PROVE Balanced'
    BY <1>1, <1>15 DEF FetchStale, clients
  <1>16. CASE \E kind \in {"Scheduled", "AwaitingRetry"} : ClaimDue(kind)
    BY <1>0, <1>16, CountDue DEF CountInv
  <1>17. CASE Tick
    BY <1>0, <1>17, CountTick DEF CountInv
  <1>18. CASE UNCHANGED vars
    BY <1>0, <1>1, <1>18 DEF vars, CountInv
  <1>19. QED
    BY <1>0, <1>2, <1>3, <1>4, <1>5, <1>6, <1>7, <1>8, <1>9, <1>10, <1>11, <1>12, <1>13, <1>14, <1>15,
       <1>16, <1>17, <1>18 DEF Next, FinishSome, CountInv

\* The counters count what is stored, state by state, as soon as no enqueue or
\* removal is under way, none was cut short and none crossed another change.
THEOREM CountersExact == Spec => []CountsExact
  <1>1. Init => CountInv
    <2> SUFFICES ASSUME Init PROVE CountInv
      OBVIOUS
    <2>1. ASSUME NEW k \in Kinds
          PROVE  /\ Stored(k) = {} /\ Uncounted(k) = {} /\ Lingering(k) = {} /\ Discounted(k) = {}
                 /\ counts[k] = 0
      <3>1. Stored(k) = {} /\ Uncounted(k) = {}
        BY DEF Init, Stored, Uncounted, NoRow, NoEnqueue, Kinds
      <3>2. Lingering(k) = {} /\ Discounted(k) = {}
        BY DEF Init, Lingering, Discounted, NoRemoval, Removers
      <3>3. QED
        BY <3>1, <3>2 DEF Init
    <2>2. Cardinality({}) = 0
      BY FS_EmptySet
    <2>3. QED
      BY <2>1, <2>2, ShapeInit DEF CountInv, Balanced
  <1>2. CountInv => CountsExact
    <2> SUFFICES ASSUME CountInv, \A j \in Jobs : Quiet(j) /\ j \notin drift, NEW k \in Kinds
                 PROVE  counts[k] = Cardinality(Stored(k))
      BY DEF CountsExact, Stored
    <2>1. torn = {} /\ drift = {}
      BY DEF CountInv, Shape, RemovalsOK, Quiet
    <2>2. Uncounted(k) = {}
      BY DEF Uncounted, Quiet
    <2>3. ASSUME NEW a \in Removers PROVE rem[a].pc \notin {"del", "index"}
      BY <2>3 DEF CountInv, Shape, RemovalsOK, RemovalOK, EnqueueOK, Quiet
    <2>4. Lingering(k) = {} /\ Discounted(k) = {}
      BY <2>3 DEF Lingering, Discounted, Removers
    <2>5. counts[k] = Cardinality(Stored(k)) - Cardinality({}) + Cardinality({}) - Cardinality({})
      BY <2>1, <2>2, <2>4 DEF CountInv, Balanced
    <2>6. QED
      BY <2>5, FS_EmptySet, AccountsNat
  <1>3. QED
    BY <1>1, <1>2, CountStep, PTL DEF Spec

(***************************************************************************)
(* The refinement.  A step changes the promised status of a job only with  *)
(* the kind of its blob, and its runners only with what a worker does.     *)
(***************************************************************************)

\* What the status of a job and its runners say.
LEMMA Mapped ==
  ASSUME NEW j \in Jobs
  PROVE  /\ jobs[j].kind \in {"Enqueued", "Scheduled", "AwaitingRetry"} => JobStatus(j) = "waiting"
         /\ jobs[j].kind = "Processing" => JobStatus(j) = "claimed"
         /\ jobs[j].kind = "Failed" => JobStatus(j) = "failed"
         /\ jobs[j].kind = "None" => JobStatus(j) = IF j \in created THEN "gone" ELSE "new"
         /\ jobs'[j].kind \in {"Enqueued", "Scheduled", "AwaitingRetry"} => JobStatus(j)' = "waiting"
         /\ jobs'[j].kind = "Processing" => JobStatus(j)' = "claimed"
         /\ jobs'[j].kind = "Succeeded" => JobStatus(j)' = "succeeded"
         /\ jobs'[j].kind = "Failed" => JobStatus(j)' = "failed"
         /\ jobs'[j].kind = "None" => JobStatus(j)' = IF j \in created' THEN "gone" ELSE "new"
  BY DEF JobStatus, StatusOf

\* Rows that keep their kind keep their status.
LEMMA StatusKept ==
  ASSUME NEW j \in Jobs, jobs'[j].kind = jobs[j].kind, created' = created
  PROVE  JobStatus(j)' = JobStatus(j)
  BY DEF JobStatus, StatusOf

\* Workers that go on with what they do stay the runners of their jobs.
LEMMA RunnersKept ==
  ASSUME \A w \in Workers :
             (Running(w)' <=> Running(w)) /\ (Running(w) => wk'[w].id = wk[w].id),
         NEW j \in Jobs
  PROVE  RunnersOf(j)' = RunnersOf(j)
  BY DEF RunnersOf

\* An id that was used is never new again.
LEMMA UsedIsNotNew ==
  ASSUME StoreOK, EnqueueOK, NEW j \in created
  PROVE  JobStatus(j) # "new"
  <1>1. j \in Jobs /\ jobs[j].kind \in Kinds \cup {"None"}
    BY DEF StoreOK, EnqueueOK, JobRow
  <1>2. QED
    BY <1>1 DEF Kinds, JobStatus, StatusOf

\* The jobs of J get a status, the others keep theirs.
LEMMA MovesTo ==
  ASSUME NEW J \in SUBSET Jobs, NEW s,
         \A j \in J : JobStatus(j)' = s,
         \A j \in Jobs \ J : jobs'[j].kind = jobs[j].kind,
         created' = created
  PROVE  Promise!Becomes(J, s)
  <1>1. \A j \in Jobs : JobStatus(j)' = IF j \in J THEN s ELSE JobStatus(j)
    BY StatusKept
  <1>2. QED
    BY <1>1 DEF Promise!Becomes

\* A rewrite, as the promise sees it.
LEMMA RewritesBlob ==
  ASSUME StoreOK, NEW j \in Jobs, NEW row \in JobRow(Workers), Rewrites(j, row)
  PROVE  jobs'[j] = row /\ \A k \in Jobs \ {j} : jobs'[k] = jobs[k]
  BY RewriteEffect

\* The steps that touch a blob or a worker.
LEMMA PromiseActions ==
  ASSUME [Next]_vars
  PROVE  \/ UNCHANGED <<jobs, created, wk>>
         \/ \E j \in Jobs : Enqueue(j)
         \/ \E a \in Removers : DeleteBlob(a)
         \/ \E d \in Dashboards : RetryJobWrite(d)
         \/ \E s \in Servers : RequeueWrite(s) \/ Started(s) \/ Crash(s)
         \/ \E w \in Workers : UpdateFails(w) \/ \E j \in Jobs : Fetch(w, j)
         \/ \E w \in Workers, o \in Outcomes, d \in RetryDelays : Finish(w, o, d)
         \/ \E kind \in {"Scheduled", "AwaitingRetry"} : ClaimDue(kind)
         \/ Tick
  <1>1. CASE \E j \in Jobs : UpdateJobIndices(j) \/ EnqueueFails(j)
    BY <1>1 DEF UpdateJobIndices, EnqueueFails
  <1>2. CASE \E d \in Dashboards, j \in Jobs : RetryJobRead(d, j) \/ DeleteRead(d, j)
    BY <1>2 DEF RetryJobRead, DeleteRead
  <1>3. CASE \E a \in Removers : RemoveJobIndices(a) \/ RemovalFails(a)
    BY <1>3 DEF RemoveJobIndices, RemovalFails
  <1>4. CASE \E s \in Servers : Start(s) \/ CleanupList(s)
    BY <1>4 DEF Start, CleanupList, clients
  <1>5. CASE \E s \in Servers, j \in Jobs : RequeueRead(s, j) \/ CleanupRead(s, j)
    BY <1>5 DEF RequeueRead, CleanupRead, clients
  <1>6. CASE \E w \in Workers, j \in Jobs : FetchStale(w, j)
    BY <1>6 DEF FetchStale, clients
  <1>7. CASE UNCHANGED vars
    BY <1>7 DEF vars
  <1>8. QED
    BY <1>1, <1>2, <1>3, <1>4, <1>5, <1>6, <1>7 DEF Next, FinishSome

\* A step of the servers, clients and dashboards is a step of the abstract
\* queue or leaves it alone.
LEMMA StepRefines ==
  ASSUME ClaimInv, [Next]_vars
  PROVE  [Promise!Next]_<<[j \in Jobs |-> JobStatus(j)], [j \in Jobs |-> RunnersOf(j)]>>
  <1> DEFINE st == [j \in Jobs |-> JobStatus(j)]
             rn == [j \in Jobs |-> RunnersOf(j)]
  <1>0. StoreOK /\ EnqueueOK /\ RemovalsOK /\ WritersOK /\ DashOK /\ SweepsOK /\ SlotsOK
    BY DEF ClaimInv, Shape, WritersOK
  <1>s. ASSUME created' = created, \A j \in Jobs : jobs'[j].kind = jobs[j].kind PROVE st' = st
    BY <1>s, StatusKept
  <1>r. ASSUME \A w \in Workers : (Running(w)' <=> Running(w)) /\ (Running(w) => wk'[w].id = wk[w].id)
        PROVE  rn' = rn
    BY <1>r, RunnersKept
  <1>w. wk' = wk => rn' = rn
    BY <1>r DEF Running
  <1>u. ASSUME UNCHANGED <<jobs, created, wk>> PROVE UNCHANGED <<st, rn>>
    BY <1>u, <1>s, <1>w
  <1>1. ASSUME NEW j \in Jobs, Enqueue(j) PROVE Promise!Next
    <2>1. JobStatus(j) = "new" /\ jobs[j].kind = "None"
      BY <1>0, <1>1, Mapped DEF Enqueue, EnqueueOK, Present
    <2>2. PICK row \in {NewJob("Enqueued", 0)} \cup {NewJob("Scheduled", t) : t \in StartDelays} :
             jobs' = [jobs EXCEPT ![j] = row]
      BY <1>1 DEF Enqueue
    <2>3. row.kind \in {"Enqueued", "Scheduled"}
      BY <2>2 DEF NewJob
    <2>4. JobStatus(j)' = "waiting"
      BY <1>0, <2>2, <2>3, Mapped DEF StoreOK
    <2>5. \A k \in Jobs \ {j} : JobStatus(k)' = JobStatus(k)
      <3>1. ASSUME NEW k \in Jobs \ {j} PROVE JobStatus(k)' = JobStatus(k)
        <4>1. jobs'[k] = jobs[k] /\ (k \in created' <=> k \in created)
          BY <1>0, <1>1, <2>2 DEF Enqueue, StoreOK
        <4>2. QED
          BY <4>1 DEF JobStatus, StatusOf
      <3>2. QED
        BY <3>1
    <2>6. st' = [k \in Jobs |-> IF k \in {j} THEN "waiting" ELSE st[k]]
      BY <2>4, <2>5
    <2>7. Promise!Enqueue(j)
      BY <1>1, <1>w, <2>1, <2>6 DEF Promise!Enqueue, Promise!Becomes, Enqueue
    <2>8. QED
      BY <2>7 DEF Promise!Next
  <1>2. ASSUME NEW a \in Removers, DeleteBlob(a) PROVE Promise!Next
    <2>1. PICK j \in Jobs : j = rem[a].id /\ j \in created
      BY <1>0, <1>2 DEF DeleteBlob, RemovalsOK, RemovalOK, EnqueueOK
    <2>2. jobs'[j].kind = "None" /\ \A k \in Jobs \ {j} : jobs'[k] = jobs[k]
      BY <1>0, <1>2, <2>1 DEF DeleteBlob, NoRow, StoreOK
    <2>3. created' = created /\ wk' = wk
      BY <1>2 DEF DeleteBlob
    <2>4. JobStatus(j)' = "gone" /\ JobStatus(j) # "new"
      BY <1>0, <2>1, <2>2, <2>3, Mapped, UsedIsNotNew
    <2>5. Promise!Becomes({j}, "gone")
      BY <2>2, <2>3, <2>4, MovesTo
    <2>6. Promise!Remove({j})
      BY <1>w, <2>3, <2>4, <2>5 DEF Promise!Remove
    <2>7. QED
      BY <2>6 DEF Promise!Next
  <1>3. ASSUME NEW d \in Dashboards, RetryJobWrite(d)
        PROVE  Promise!Next \/ UNCHANGED <<st, rn>>
    <2>1. created' = created /\ wk' = wk
      BY <1>3 DEF RetryJobWrite
    <2>2. PICK j \in Jobs : j = dash[d].id /\ dash[d].row.kind = "Enqueued"
      BY <1>0, <1>3 DEF RetryJobWrite, DashOK, RequestSet
    <2>3. CASE UNCHANGED <<jobs, index>>
      BY <1>u, <2>1, <2>3
    <2>4. CASE /\ jobs[j].kind = "Failed" /\ dash[d].row \in JobRow(Workers)
               /\ Rewrites(j, dash[d].row)
      <3>1. jobs'[j].kind = "Enqueued" /\ \A k \in Jobs \ {j} : jobs'[k] = jobs[k]
        BY <1>0, <2>2, <2>4, RewritesBlob
      <3>2. JobStatus(j)' = "waiting" /\ JobStatus(j) = "failed"
        BY <2>4, <3>1, Mapped
      <3>3. Promise!Becomes({j}, "waiting")
        BY <2>1, <3>1, <3>2, MovesTo
      <3>4. Promise!Retry(j)
        BY <1>w, <2>1, <3>2, <3>3 DEF Promise!Retry
      <3>5. QED
        BY <3>4 DEF Promise!Next
    <2>5. QED
      BY <1>0, <1>3, <2>2, <2>3, <2>4, DashboardRewrites
  <1>4. ASSUME NEW s \in Servers, RequeueWrite(s)
        PROVE  Promise!Next \/ UNCHANGED <<st, rn>>
    <2>1. created' = created /\ wk' = wk
      BY <1>4 DEF RequeueWrite, clients
    <2>2. PICK j \in Jobs : j = sweep[s].id /\ sweep[s].row.kind = "Enqueued"
      BY <1>0, <1>4 DEF RequeueWrite, SweepsOK, EnqueueOK
    <2>3. CASE UNCHANGED <<jobs, index>>
      BY <1>u, <2>1, <2>3
    <2>4. CASE sweep[s].row \in JobRow(Workers) /\ Rewrites(j, sweep[s].row)
      <3>1. jobs'[j].kind = "Enqueued" /\ \A k \in Jobs \ {j} : jobs'[k] = jobs[k]
        BY <1>0, <2>2, <2>4, RewritesBlob
      <3>2. jobs[j].kind = "Processing" /\ RunnersOf(j) = {}
        BY <1>4, <2>2, <2>4 DEF RequeueWrite, ClaimInv, SweepSafe, Rewrites, Present, RunnersOf
      <3>3. JobStatus(j)' = "waiting" /\ JobStatus(j) = "claimed"
        BY <3>1, <3>2, Mapped
      <3>4. Promise!Becomes({j}, "waiting")
        BY <2>1, <3>1, <3>3, MovesTo
      <3>5. Promise!Recover({j})
        BY <1>w, <2>1, <3>2, <3>3, <3>4 DEF Promise!Recover
      <3>6. QED
        BY <3>5 DEF Promise!Next
    <2>5. QED
      BY <1>0, <1>4, <2>2, <2>3, <2>4, SweepRewrites
  <1>5. ASSUME NEW W \in SUBSET Workers, UNCHANGED <<jobs, created>>,
               \A w \in Workers : IF w \in W THEN ~Running(w)' ELSE wk'[w] = wk[w]
        PROVE  Promise!Next
    <2>1. \A j \in Jobs : RunnersOf(j)' = RunnersOf(j) \ W
      BY <1>5 DEF RunnersOf, Running
    <2>2. Promise!Abandon(W)
      BY <1>5, <1>s, <2>1 DEF Promise!Abandon
    <2>3. QED
      BY <2>2 DEF Promise!Next
  <1>6. ASSUME NEW s \in Servers, Started(s) \/ Crash(s) PROVE Promise!Next
    <2> DEFINE W == {w \in Workers : ~Running(w)'}
    <2>1. \A w \in Workers : IF w \in W THEN ~Running(w)' ELSE wk'[w] = wk[w]
      BY <1>0, <1>6, SlotsEmpty DEF Running
    <2>2. UNCHANGED <<jobs, created>>
      BY <1>6 DEF Started, Crash, clients
    <2> HIDE DEF W
    <2>3. W \in SUBSET Workers
      BY DEF W
    <2>4. QED
      BY <1>5, <2>1, <2>2, <2>3
  <1>7. ASSUME NEW w \in Workers, UpdateFails(w) PROVE Promise!Next
    <2>1. \A v \in Workers : IF v \in {w} THEN ~Running(v)' ELSE wk'[v] = wk[v]
      BY <1>0, <1>7, SlotEmpties DEF Running
    <2>2. UNCHANGED <<jobs, created>>
      BY <1>7 DEF UpdateFails, clients
    <2>3. QED
      BY <1>5, <2>1, <2>2
  <1>8. ASSUME NEW w \in Workers, NEW j \in Jobs, Fetch(w, j) PROVE Promise!Next
    <2>1. jobs[j].kind \in {"Enqueued", "AwaitingRetry"} /\ ~Running(w) /\ created' = created
      BY <1>8 DEF Fetch, Claimable, Running, clients
    <2>2. jobs'[j].kind = "Processing" /\ \A k \in Jobs \ {j} : jobs'[k] = jobs[k]
      <3>1. PICK row \in JobRow(Workers) : row.kind = "Processing" /\ Rewrites(j, row)
        BY <1>0, <1>8, ClaimRewrites
      <3>2. QED
        BY <1>0, <3>1, RewritesBlob
    <2>3. /\ Running(w)' /\ wk'[w].id = j
          /\ \A v \in Workers \ {w} : wk'[v] = wk[v]
      BY <1>0, <1>8, ClaimFills DEF Running
    <2>4. RunnersOf(j) = {}
      BY <2>1 DEF RunnersOf, ClaimInv, RunnerOwnsRow, Present
    <2>5. \A k \in Jobs : w \notin RunnersOf(k)
      BY <2>1 DEF RunnersOf
    <2>6. \A k \in Jobs : RunnersOf(k)' = IF k = j THEN {w} ELSE RunnersOf(k)
      BY <2>1, <2>3, <2>4 DEF RunnersOf, Running
    <2>7. JobStatus(j) = "waiting" /\ JobStatus(j)' = "claimed"
      BY <2>1, <2>2, Mapped
    <2>8. Promise!Becomes({j}, "claimed")
      BY <2>1, <2>2, <2>7, MovesTo
    <2>9. rn' = [rn EXCEPT ![j] = {w}]
      BY <2>6
    <2>10. Promise!Claim(w, j)
      BY <2>4, <2>5, <2>7, <2>8, <2>9 DEF Promise!Claim
    <2>11. QED
      BY <2>10 DEF Promise!Next
  <1>9. ASSUME NEW w \in Workers, NEW o \in Outcomes, NEW d \in RetryDelays, Finish(w, o, d)
        PROVE  Promise!Next
    <2>1. PICK j \in Jobs : j = wk[w].id /\ Running(w) /\ created' = created
      BY <1>0, <1>9 DEF Finish, SlotsOK, EnqueueOK, clients
    <2>2. ~Running(w)' /\ \A v \in Workers \ {w} : wk'[v] = wk[v]
      BY <1>0, <1>9, SlotEmpties DEF Running
    <2>3. PICK row \in JobRow(Workers) :
             /\ row.kind \in {"Succeeded", "Failed", "AwaitingRetry"}
             /\ UNCHANGED <<jobs, index>> \/ Rewrites(j, row)
      BY <1>0, <1>9, <2>1, ResultRewrites
    <2>4. CASE Rewrites(j, row)
      <3>1. /\ jobs'[j].kind \in {"Succeeded", "Failed", "AwaitingRetry"}
            /\ \A k \in Jobs \ {j} : jobs'[k] = jobs[k]
        BY <1>0, <2>3, <2>4, RewritesBlob
      <3>2. JobStatus(j) = "claimed" /\ w \in RunnersOf(j)
        BY <2>1, <2>4, Mapped DEF RunnersOf, ClaimInv, RunnerOwnsRow, Rewrites
      <3>3. JobStatus(j)' \in {"waiting", "succeeded", "failed"}
        BY <2>1, <3>1, Mapped
      <3>4. Promise!Becomes({j}, JobStatus(j)')
        BY <2>1, <3>1, MovesTo
      <3>5. \A k \in Jobs : RunnersOf(k)' = IF k = j THEN RunnersOf(k) \ {w} ELSE RunnersOf(k)
        BY <2>1, <2>2 DEF RunnersOf, Running
      <3>6. rn' = [rn EXCEPT ![j] = @ \ {w}]
        BY <2>1, <3>5
      <3>7. Promise!Settle(w, j)
        BY <2>1, <3>2, <3>3, <3>4, <3>6 DEF Promise!Settle
      <3>8. QED
        BY <2>1, <3>7 DEF Promise!Next
    <2>5. CASE UNCHANGED <<jobs, index>>
      <3>1. \A v \in Workers : IF v \in {w} THEN ~Running(v)' ELSE wk'[v] = wk[v]
        BY <2>2
      <3>2. QED
        BY <1>5, <2>1, <2>5, <3>1
    <2>6. QED
      BY <2>3, <2>4, <2>5
  <1>10. ASSUME NEW kind \in {"Scheduled", "AwaitingRetry"}, ClaimDue(kind)
         PROVE  UNCHANGED <<st, rn>>
    <2>1. PICK B \in DueBatches(kind) :
             jobs' = [j \in Jobs |-> IF j \in B THEN SetState(jobs[j], "Enqueued", 0)
                                     ELSE jobs[j]]
      BY <1>10 DEF ClaimDue
    <2>2. \A j \in B : j \in Jobs /\ jobs[j].kind = kind
      BY BatchDue
    <2>3. created' = created /\ wk' = wk
      BY <1>10 DEF ClaimDue, clients
    <2>4. ASSUME NEW j \in Jobs PROVE JobStatus(j)' = JobStatus(j)
      <3>1. CASE j \in B
        BY <1>0, <2>1, <2>2, <3>1, RowKinds, Mapped DEF StoreOK
      <3>2. CASE j \notin B
        BY <2>1, <2>3, <3>2, StatusKept
      <3>3. QED
        BY <3>1, <3>2
    <2>5. QED
      BY <1>w, <2>3, <2>4
  <1>11. ASSUME Tick PROVE UNCHANGED <<st, rn>>
    <2>1. \A j \in Jobs : jobs'[j].kind = jobs[j].kind
      BY <1>0, <1>11, AgedType DEF Tick, StoreOK
    <2>2. \A w \in Workers :
             (Running(w)' <=> Running(w)) /\ (Running(w) => wk'[w].id = wk[w].id)
      BY <1>0, <1>11, SlotTicks DEF Running
    <2>3. QED
      BY <1>11, <1>s, <1>r, <2>1, <2>2 DEF Tick
  <1>12. QED
    BY <1>1, <1>2, <1>3, <1>4, <1>6, <1>7, <1>8, <1>9, <1>10, <1>11, <1>u, PromiseActions

\* The keys shared by servers on different hosts implement the abstract job
\* queue, through crashes and failed commands: although an enqueue, a removal and
\* a recovery sweep are sequences of commands, each has one command with which
\* the promised step happens.  It needs what NoJobRunsTwice needs.
THEOREM RedisKeepsPromise ==
  ASSUME StaleOutlastsAttempt, SerialStarts
  PROVE  Spec => ImplementsJobQueue
  <1>1. Init => Promise!Init
    <2>1. ASSUME Init, NEW j \in Jobs PROVE JobStatus(j) = "new" /\ RunnersOf(j) = {}
      BY <2>1 DEF Init, JobStatus, StatusOf, RunnersOf, Running, Slot, NoRow
    <2>2. QED
      BY <2>1 DEF Promise!Init
  <1>2. ClaimInv /\ [Next]_vars =>
          [Promise!Next]_<<[j \in Jobs |-> JobStatus(j)], [j \in Jobs |-> RunnersOf(j)]>>
    BY StepRefines
  <1>3. QED
    BY <1>1, <1>2, ClaimHolds, PTL DEF Spec, ImplementsJobQueue, Promise!Spec

==============================================================================
