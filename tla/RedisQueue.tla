------------------------------ MODULE RedisQueue ------------------------------
(***************************************************************************)
(* Job processing over RedisStorage (storage/redis.rs).  A job is a blob   *)
(* and its entries in the index: the set of its state, the set of all ids, *)
(* the global and the per-queue ZSET of available jobs, and the counters.  *)
(* fetch_and_lock_job, claim_due_*_jobs, update and update_if_state are    *)
(* Lua scripts and one step each.  enqueue, delete, delete_expired_jobs    *)
(* and requeue_stranded_jobs are sequences of commands, one step each,     *)
(* and whoever runs them may fail or die between any two.                  *)
(*                                                                         *)
(* Hosts share one clock here; PostgresQueue is about clocks that differ.  *)
(* The explicit per-job lock is a key of its own that nothing here reads.  *)
(***************************************************************************)
EXTENDS JobProcessor, FiniteSets

CONSTANTS
    Servers, Workers,
    Home,              \* [Workers -> Servers]
    Dashboards,        \* concurrent dashboard requests
    Before,            \* SUBSET (Jobs \X Jobs): priority desc, created_at asc
    Above,             \* SUBSET (Jobs \X Jobs): the order of scores of one formula
    QueueOf,           \* [Jobs -> queue names]
    CleanupServers,    \* SUBSET Servers: those with enable_cleanup
    QueuesServed,      \* [Servers -> SUBSET queue names], {} = every queue
    StartDelays, ClaimLimit, JobTimeout, StaleAfter,
    MaxLag,            \* bound: delay of a worker task, duration of a recovery sweep
    SerialStarts,      \* whether servers are started one after the other
    QuickEnqueues,     \* whether the commands of an enqueue take less than a tick
    MaxDisruptions,    \* bound: crashes and failed commands
    MaxManualRetries   \* bound: dashboard retries

NoId == "no job"

ASSUME RedisAssumption ==
    /\ Home \in [Workers -> Servers]
    /\ Servers \cap Dashboards = {} /\ CleanupServers \subseteq Servers
    /\ IsFiniteSet(Jobs) /\ IsFiniteSet(Servers) /\ IsFiniteSet(Dashboards)
    /\ NoWorker \notin Workers
    /\ NoId \notin Jobs
    /\ StartDelays \subseteq Nat
    /\ JobTimeout \in Nat /\ StaleAfter \in Nat /\ MaxLag \in Nat
    /\ ClaimLimit \in Nat \ {0}
    /\ SerialStarts \in BOOLEAN /\ QuickEnqueues \in BOOLEAN
    /\ MaxDisruptions \in Nat /\ MaxManualRetries \in Nat

VARIABLES
    jobs,      \* the blobs
    sets,      \* [Jobs -> SUBSET Kinds]: the state sets that contain the id
    all,       \* the set of all ids
    avail,     \* [Jobs -> Scores]: the global ZSET of available jobs
    queue,     \* [Jobs -> Scores]: the ZSET of the job's queue
    counts,    \* [Kinds -> Int]: the counters
    created,   \* ids handed to enqueue: uuids, never used twice
    enq,       \* the enqueue of a job: the command that comes next, 0 = none
    rem,       \* dashboard request or cleanup worker: the removal it is at
    srv,       \* server: down, starting (its recovery sweep runs), or up
    sweep,     \* the recovery sweep of a starting server
    wk, dash, disruptions, manual,
    torn,      \* ids whose enqueue or removal was cut short
    drift      \* ids whose removal found another blob than it had read

vars == <<jobs, sets, all, avail, queue, counts, created, enq, rem, srv, sweep,
          wk, dash, disruptions, manual, torn, drift>>
index == <<sets, all, avail, queue, counts>>
clients == <<created, enq, rem, dash, manual, torn, drift>>

\* A score is priority + created_at ("full"), or the bare priority that
\* claim_due_jobs_lua writes.
NoScore == "none"
Scores == {NoScore, "bare", "full"}

NoEnqueue == [step |-> 0, row |-> NoRow, score |-> NoScore]
NoRemoval == [pc |-> "idle", todo |-> {}, id |-> NoId, kind |-> "None", step |-> 0]
NoSweep == [todo |-> {}, id |-> NoId, row |-> NoRow, age |-> 0]
NoRequest == [id |-> NoId, row |-> NoRow]
Slot(pc) == [pc |-> pc, id |-> NoId, row |-> NoRow, elapsed |-> 0]
Running(w) == wk[w].pc = "run"
Removers == Dashboards \cup Servers

TypeOK ==
    /\ jobs \in [Jobs -> JobRow(Workers)]
    /\ sets \in [Jobs -> SUBSET Kinds]
    /\ all \subseteq Jobs
    /\ avail \in [Jobs -> Scores] /\ queue \in [Jobs -> Scores]
    /\ counts \in [Kinds -> Int]
    /\ created \subseteq Jobs
    /\ enq \in [Jobs -> [step: 0..5, row: JobRow(Workers), score: Scores]]
    /\ rem \in [Removers -> [pc: {"idle", "list", "del", "index"}, todo: SUBSET Jobs,
                             id: Jobs \cup {NoId}, kind: Kinds \cup {"None"}, step: 0..5]]
    /\ srv \in [Servers -> {"down", "starting", "up"}]
    /\ sweep \in [Servers -> [todo: SUBSET Jobs, id: Jobs \cup {NoId},
                              row: JobRow(Workers), age: Nat]]
    /\ wk \in [Workers -> [pc: {"off", "idle", "run"}, id: Jobs \cup {NoId},
                           row: JobRow(Workers), elapsed: Nat]]
    /\ dash \in [Dashboards -> [id: Jobs \cup {NoId}, row: JobRow(Workers)]]
    /\ disruptions \in Nat /\ manual \in [Jobs -> Nat]
    /\ torn \subseteq Jobs /\ drift \subseteq Jobs

Init ==
    /\ jobs = [j \in Jobs |-> NoRow]
    /\ sets = [j \in Jobs |-> {}]
    /\ all = {}
    /\ avail = [j \in Jobs |-> NoScore] /\ queue = [j \in Jobs |-> NoScore]
    /\ counts = [k \in Kinds |-> 0]
    /\ created = {}
    /\ enq = [j \in Jobs |-> NoEnqueue]
    /\ rem = [a \in Removers |-> NoRemoval]
    /\ srv = [s \in Servers |-> "down"]
    /\ sweep = [s \in Servers |-> NoSweep]
    /\ wk = [w \in Workers |-> Slot("off")]
    /\ dash = [d \in Dashboards |-> NoRequest]
    /\ disruptions = 0 /\ manual = [j \in Jobs |-> 0]
    /\ torn = {} /\ drift = {}

------------------------------------------------------------------------------
(* Scripts.                                                                *)

Disrupted == disruptions < MaxDisruptions /\ disruptions' = disruptions + 1

\* is_job_available.
Available(row) ==
    \/ row.kind = "Enqueued"
    \/ row.kind \in {"Scheduled", "AwaitingRetry"} /\ row.timer = 0

ScoreOf(row) == IF Available(row) THEN "full" ELSE NoScore

\* The counters after the jobs of B have gone from one state to another.
Moved(B, from, to) ==
    IF from = to THEN counts
    ELSE [counts EXCEPT ![from] = @ - Cardinality(B), ![to] = @ + Cardinality(B)]

\* Mutant: the blob is written, the state sets and counters are not.
WriteBlobOnly(j, row) ==
    /\ jobs' = [jobs EXCEPT ![j] = row]
    /\ avail' = [avail EXCEPT ![j] = ScoreOf(row)]
    /\ queue' = [queue EXCEPT ![j] = ScoreOf(row)]
    /\ UNCHANGED <<sets, counts>>

\* Mutant: the old state's counter is not decremented.
WriteMiscounted(j, row) ==
    /\ jobs' = [jobs EXCEPT ![j] = row]
    /\ sets' = [sets EXCEPT ![j] = (@ \ {jobs[j].kind}) \cup {row.kind}]
    /\ counts' = [counts EXCEPT ![row.kind] = @ + 1]
    /\ avail' = [avail EXCEPT ![j] = ScoreOf(row)]
    /\ queue' = [queue EXCEPT ![j] = ScoreOf(row)]

\* What update and update_if_state do to the blob that is there and its index.
Write(j, row) ==
    LET old == jobs[j].kind IN
    /\ jobs' = [jobs EXCEPT ![j] = row]
    /\ sets' = IF old = row.kind THEN sets
               ELSE [sets EXCEPT ![j] = (@ \ {old}) \cup {row.kind}]
    /\ counts' = Moved({j}, old, row.kind)
    /\ avail' = [avail EXCEPT ![j] = ScoreOf(row)]
    /\ queue' = [queue EXCEPT ![j] = ScoreOf(row)]

\* update: "missing", or the write and SADD of the id.
Update(j, row) ==
    IF Present(jobs[j])
    THEN Write(j, row) /\ all' = all \cup {j}
    ELSE UNCHANGED <<jobs, index>>

\* update_if_state: the write, if the variant is the expected one.
UpdateIfState(j, row, expected) ==
    IF jobs[j].kind = expected
    THEN Write(j, row) /\ UNCHANGED all
    ELSE UNCHANGED <<jobs, index>>

\* The candidate ZSETs of fetch_and_lock_job and the entry with the top score.
Candidates(s) ==
    IF QueuesServed[s] = {} THEN {j \in Jobs : avail[j] # NoScore}
    ELSE {j \in Jobs : queue[j] # NoScore /\ QueueOf[j] \in QueuesServed[s]}

Score(j, s) == IF QueuesServed[s] = {} THEN avail[j] ELSE queue[j]

Higher(k, j, s) ==
    \/ Score(k, s) = "full" /\ Score(j, s) = "bare"
    \/ Score(k, s) = Score(j, s) /\ <<k, j>> \in Above

Top(j, s) ==
    j \in Candidates(s) /\ \A k \in Candidates(s) \ {j} : ~Higher(k, j, s)

\* Mutant: the script claims whatever the index offers.
ClaimableBlind(row) == Present(row)

Claimable(row) == row.kind \in {"Enqueued", "AwaitingRetry"}

DueBatches(kind) ==
    LET due == {j \in Jobs : kind \in sets[j] /\ jobs[j].kind = kind /\ jobs[j].timer = 0}
    IN  {B \in SUBSET due :
            /\ Cardinality(B) <= ClaimLimit
            /\ Cardinality(B) < ClaimLimit => B = due
            /\ \A j \in B, k \in due \ B : <<k, j>> \notin Before}

------------------------------------------------------------------------------
(* Clients: enqueue.                                                       *)

\* enqueue: SET of the blob ...
Enqueue(j) ==
    /\ j \notin created
    /\ created' = created \cup {j}
    /\ \E row \in {NewJob("Enqueued", 0)} \cup {NewJob("Scheduled", t) : t \in StartDelays} :
          /\ jobs' = [jobs EXCEPT ![j] = row]
          /\ enq' = [enq EXCEPT ![j] = [step |-> 1, row |-> row, score |-> NoScore]]
    /\ UNCHANGED <<index, rem, srv, sweep, wk, dash, disruptions, manual, torn, drift>>

\* ... and the five commands of update_job_indices; availability is decided
\* before the fourth.
UpdateJobIndices(j) ==
    LET e == enq[j] IN
    /\ e.step # 0
    /\ sets' = IF e.step = 1 THEN [sets EXCEPT ![j] = @ \cup {e.row.kind}] ELSE sets
    /\ all' = IF e.step = 2 THEN all \cup {j} ELSE all
    /\ counts' = IF e.step = 3 THEN [counts EXCEPT ![e.row.kind] = @ + 1] ELSE counts
    /\ avail' = IF e.step = 4 THEN [avail EXCEPT ![j] = e.score] ELSE avail
    /\ queue' = IF e.step = 5 THEN [queue EXCEPT ![j] = e.score] ELSE queue
    /\ enq' = [enq EXCEPT ![j] =
                 IF e.step = 5 THEN NoEnqueue
                 ELSE [e EXCEPT !.step = @ + 1,
                                !.score = IF e.step = 3 THEN ScoreOf(e.row) ELSE @]]
    /\ UNCHANGED <<jobs, created, rem, srv, sweep, wk, dash, disruptions, manual,
                   torn, drift>>

\* A command of the enqueue fails, or the client dies.
EnqueueFails(j) ==
    /\ enq[j].step # 0
    /\ Disrupted
    /\ enq' = [enq EXCEPT ![j] = NoEnqueue]
    /\ torn' = torn \cup {j}
    /\ UNCHANGED <<jobs, index, created, rem, srv, sweep, wk, dash, manual, drift>>

------------------------------------------------------------------------------
(* The dashboard and the cleanup workers.                                  *)

RetryJobRead(d, j) ==
    /\ dash[d].id = NoId /\ rem[d].pc = "idle"
    /\ manual[j] < MaxManualRetries
    /\ jobs[j].kind = "Failed"
    /\ dash' = [dash EXCEPT ![d] = [id |-> j, row |-> SetState(jobs[j], "Enqueued", 0)]]
    /\ UNCHANGED <<jobs, index, created, enq, rem, srv, sweep, wk, disruptions,
                   manual, torn, drift>>

RetryJobWrite(d) ==
    LET j == dash[d].id IN
    /\ j # NoId
    /\ UpdateIfState(j, dash[d].row, "Failed")
    /\ manual' = IF jobs[j].kind = "Failed" THEN [manual EXCEPT ![j] = @ + 1] ELSE manual
    /\ dash' = [dash EXCEPT ![d] = NoRequest]
    /\ UNCHANGED <<created, enq, rem, srv, sweep, wk, disruptions, torn, drift>>

\* delete: GET of the blob, for the state whose index entries will go ...
DeleteRead(d, j) ==
    /\ dash[d].id = NoId /\ rem[d].pc = "idle"
    /\ Present(jobs[j])
    /\ rem' = [rem EXCEPT ![d] = [NoRemoval EXCEPT !.pc = "del", !.id = j,
                                                   !.kind = jobs[j].kind]]
    /\ UNCHANGED <<jobs, index, created, enq, srv, sweep, wk, dash, disruptions,
                   manual, torn, drift>>

\* delete_expired_jobs: SMEMBERS of all ids.  The sweep's `now` is read here, so
\* only the jobs that have expired by now are of interest ...
CleanupList(s) ==
    /\ s \in CleanupServers /\ srv[s] = "up" /\ rem[s].pc = "idle"
    /\ LET expired == {j \in all : jobs[j].expires = 0} IN
       /\ expired # {}
       /\ rem' = [rem EXCEPT ![s] = [NoRemoval EXCEPT !.pc = "list", !.todo = expired]]
    /\ UNCHANGED <<jobs, index, created, enq, srv, sweep, wk, dash, disruptions,
                   manual, torn, drift>>

\* The next id of the list, or the end of the sweep.
Listing(r) == IF r.todo = {} THEN NoRemoval ELSE [NoRemoval EXCEPT !.pc = "list", !.todo = r.todo]

\* ... per id GET; if the blob is still an expired one its index entries go first ...
CleanupRead(s, j) ==
    /\ rem[s].pc = "list" /\ j \in rem[s].todo
    /\ LET rest == [rem[s] EXCEPT !.todo = @ \ {j}]
       IN  rem' = [rem EXCEPT ![s] =
                     IF Present(jobs[j]) /\ jobs[j].expires = 0
                     THEN [rest EXCEPT !.pc = "index", !.id = j, !.kind = jobs[j].kind, !.step = 1]
                     ELSE Listing(rest)]
    /\ UNCHANGED <<jobs, index, created, enq, srv, sweep, wk, dash, disruptions,
                   manual, torn, drift>>

\* The five commands of remove_job_indices.  For a dashboard the DEL was before
\* them, for a cleanup worker it comes next.
RemoveJobIndices(a) ==
    LET r == rem[a]  j == r.id IN
    /\ r.pc = "index"
    /\ sets' = IF r.step = 1 THEN [sets EXCEPT ![j] = @ \ {r.kind}] ELSE sets
    /\ all' = IF r.step = 2 THEN all \ {j} ELSE all
    /\ avail' = IF r.step = 3 THEN [avail EXCEPT ![j] = NoScore] ELSE avail
    /\ queue' = IF r.step = 4 THEN [queue EXCEPT ![j] = NoScore] ELSE queue
    /\ counts' = IF r.step = 5 THEN [counts EXCEPT ![r.kind] = @ - 1] ELSE counts
    /\ rem' = [rem EXCEPT ![a] =
                 IF r.step < 5 THEN [r EXCEPT !.step = @ + 1]
                 ELSE IF a \in Servers THEN [r EXCEPT !.pc = "del", !.step = 0]
                 ELSE NoRemoval]
    /\ UNCHANGED <<jobs, created, enq, srv, sweep, wk, dash, disruptions, manual,
                   torn, drift>>

\* DEL of the blob.  delete stops if it was gone, delete_expired_jobs does not look.
DeleteBlob(a) ==
    LET r == rem[a] IN
    /\ r.pc = "del"
    /\ jobs' = [jobs EXCEPT ![r.id] = NoRow]
    /\ drift' = IF jobs[r.id].kind # r.kind THEN drift \cup {r.id} ELSE drift
    /\ rem' = [rem EXCEPT ![a] =
                 IF a \in Servers THEN Listing(r)
                 ELSE IF Present(jobs[r.id]) THEN [r EXCEPT !.pc = "index", !.step = 1]
                 ELSE NoRemoval]
    /\ UNCHANGED <<index, created, enq, srv, sweep, wk, dash, disruptions, manual, torn>>

\* A command of a removal fails: the call returns the error.
RemovalFails(a) ==
    /\ rem[a].pc # "idle"
    /\ Disrupted
    /\ rem' = [rem EXCEPT ![a] = NoRemoval]
    /\ torn' = torn \cup ({rem[a].id} \ {NoId})
    /\ UNCHANGED <<jobs, index, created, enq, srv, sweep, wk, dash, manual, drift>>

------------------------------------------------------------------------------
(* Servers.                                                                *)

\* start: requeue_stranded_jobs lists the processing set ...
Start(s) ==
    /\ srv[s] = "down"
    /\ SerialStarts => \A t \in Servers : srv[t] # "starting"
    /\ srv' = [srv EXCEPT ![s] = "starting"]
    /\ sweep' = [sweep EXCEPT ![s] =
                   [NoSweep EXCEPT !.todo = {j \in Jobs : "Processing" \in sets[j]}]]
    /\ UNCHANGED <<jobs, index, clients, wk, disruptions>>

\* Mutant: every Processing job is taken for stranded.
StaleAlways(row, age) == row.kind = "Processing"

\* started_at < stale_before, which was read `age` ticks ago.
Stale(row, age) == row.kind = "Processing" /\ row.timer - age > StaleAfter

\* ... gets a job and sets its state on the copy if it is stale ...
RequeueRead(s, j) ==
    /\ j \in sweep[s].todo /\ sweep[s].id = NoId
    /\ sweep' = [sweep EXCEPT ![s].todo = @ \ {j},
                   ![s].id = IF Stale(jobs[j], sweep[s].age) THEN j ELSE NoId,
                   ![s].row = IF Stale(jobs[j], sweep[s].age)
                              THEN SetState(jobs[j], "Enqueued", 0) ELSE NoRow]
    /\ UNCHANGED <<jobs, index, clients, srv, wk, disruptions>>

\* ... and writes the copy with update, whatever is stored by then.  The job
\* may be gone: the sweep ends with an error that start only logs.
RequeueWrite(s) ==
    LET j == sweep[s].id IN
    /\ j # NoId
    /\ Update(j, sweep[s].row)
    /\ sweep' = [sweep EXCEPT ![s].id = NoId, ![s].row = NoRow,
                              ![s].todo = IF Present(jobs[j]) THEN @ ELSE {}]
    /\ UNCHANGED <<clients, srv, wk, disruptions>>

\* The sweep is over, or one of its commands fails: the workers start.
Started(s) ==
    /\ srv[s] = "starting"
    /\ IF sweep[s].todo = {} /\ sweep[s].id = NoId THEN UNCHANGED disruptions ELSE Disrupted
    /\ srv' = [srv EXCEPT ![s] = "up"]
    /\ sweep' = [sweep EXCEPT ![s] = NoSweep]
    /\ wk' = [w \in Workers |-> IF Home[w] = s THEN Slot("idle") ELSE wk[w]]
    /\ UNCHANGED <<jobs, index, clients>>

\* The process dies with its workers, its sweep and its cleanup.
Crash(s) ==
    /\ srv[s] # "down"
    /\ Disrupted
    /\ srv' = [srv EXCEPT ![s] = "down"]
    /\ sweep' = [sweep EXCEPT ![s] = NoSweep]
    /\ wk' = [w \in Workers |-> IF Home[w] = s THEN Slot("off") ELSE wk[w]]
    /\ rem' = [rem EXCEPT ![s] = NoRemoval]
    /\ torn' = torn \cup ({rem[s].id} \ {NoId})
    /\ UNCHANGED <<jobs, index, created, enq, dash, manual, drift>>

\* fetch_and_lock_job claims the top entry ...
Fetch(w, j) ==
    LET row == [jobs[j] EXCEPT !.kind = "Processing", !.timer = 0, !.worker = w] IN
    /\ wk[w].pc = "idle"
    /\ Top(j, Home[w]) /\ Claimable(jobs[j])
    /\ Write(j, row)
    /\ wk' = [wk EXCEPT ![w] = [pc |-> "run", id |-> j, row |-> CountAttempt(row),
                                elapsed |-> 0]]
    /\ UNCHANGED <<all, clients, srv, sweep, disruptions>>

\* ... or drops it from the ZSETs it looked at when the blob is gone or has
\* moved on.
FetchStale(w, j) ==
    /\ wk[w].pc = "idle"
    /\ Top(j, Home[w]) /\ ~Claimable(jobs[j])
    /\ avail' = [avail EXCEPT ![j] = NoScore]
    /\ queue' = IF QueuesServed[Home[w]] = {} THEN queue ELSE [queue EXCEPT ![j] = NoScore]
    /\ UNCHANGED <<jobs, sets, all, counts, clients, srv, sweep, wk, disruptions>>

Finish(w, outcome, delay) ==
    /\ Running(w)
    /\ outcome = "timeout" => wk[w].elapsed >= JobTimeout
    /\ Update(wk[w].id, ProcessJob(wk[w].id, wk[w].row, outcome, delay))
    /\ wk' = [wk EXCEPT ![w] = Slot("idle")]
    /\ UNCHANGED <<clients, srv, sweep, disruptions>>

\* The write of the result fails: logged, and the row stays Processing.
UpdateFails(w) ==
    /\ Running(w)
    /\ Disrupted
    /\ wk' = [wk EXCEPT ![w] = Slot("idle")]
    /\ UNCHANGED <<jobs, index, clients, srv, sweep>>

\* claim_due_jobs_lua: ids without a blob leave the state set, the first
\* ClaimLimit due jobs become Enqueued, with the bare score.
ClaimDue(kind) ==
    /\ \E s \in Servers : srv[s] = "up"
    /\ \E B \in DueBatches(kind) :
          /\ jobs' = [j \in Jobs |-> IF j \in B THEN SetState(jobs[j], "Enqueued", 0) ELSE jobs[j]]
          /\ sets' = [j \in Jobs |-> CASE j \in B -> (sets[j] \ {kind}) \cup {"Enqueued"}
                                       [] ~Present(jobs[j]) -> sets[j] \ {kind}
                                       [] OTHER -> sets[j]]
          /\ counts' = Moved(B, kind, "Enqueued")
          /\ avail' = [j \in Jobs |-> IF j \in B THEN "bare" ELSE avail[j]]
          /\ queue' = [j \in Jobs |-> IF j \in B THEN "bare" ELSE queue[j]]
    /\ UNCHANGED <<all, clients, srv, sweep, wk, disruptions>>

Limit == StaleAfter + MaxLag

Tick ==
    /\ \A w \in Workers : Running(w) => wk[w].elapsed < JobTimeout + MaxLag
    /\ \A s \in Servers : srv[s] = "starting" => sweep[s].age < MaxLag
    /\ QuickEnqueues => \A j \in Jobs : enq[j].step = 0
    /\ jobs' = [j \in Jobs |-> Aged(jobs[j], Limit)]
    /\ enq' = [j \in Jobs |-> [enq[j] EXCEPT !.row = Aged(@, Limit)]]
    /\ sweep' = [s \in Servers |->
                   IF srv[s] = "starting"
                   THEN [sweep[s] EXCEPT !.row = Aged(@, Limit), !.age = @ + 1]
                   ELSE sweep[s]]
    /\ wk' = [w \in Workers |->
                 IF Running(w)
                 THEN [wk[w] EXCEPT !.elapsed = @ + 1, !.row = Aged(@, Limit)]
                 ELSE wk[w]]
    /\ dash' = [d \in Dashboards |-> [dash[d] EXCEPT !.row = Aged(@, Limit)]]
    /\ UNCHANGED <<index, created, rem, srv, disruptions, manual, torn, drift>>

FinishSome(w) == \E o \in Outcomes, d \in RetryDelays : Finish(w, o, d)

Next ==
    \/ \E j \in Jobs : Enqueue(j) \/ UpdateJobIndices(j) \/ EnqueueFails(j)
    \/ \E d \in Dashboards :
          RetryJobWrite(d) \/ \E j \in Jobs : RetryJobRead(d, j) \/ DeleteRead(d, j)
    \/ \E a \in Removers : RemoveJobIndices(a) \/ DeleteBlob(a) \/ RemovalFails(a)
    \/ \E s \in Servers :
          \/ Start(s) \/ RequeueWrite(s) \/ Started(s) \/ Crash(s) \/ CleanupList(s)
          \/ \E j \in Jobs : RequeueRead(s, j) \/ CleanupRead(s, j)
    \/ \E w \in Workers :
          \/ FinishSome(w) \/ UpdateFails(w)
          \/ \E j \in Jobs : Fetch(w, j) \/ FetchStale(w, j)
    \/ \E kind \in {"Scheduled", "AwaitingRetry"} : ClaimDue(kind)
    \/ Tick

Spec == Init /\ [][Next]_vars

------------------------------------------------------------------------------
(* Properties.                                                             *)

\* Two workers never run the same job at the same time, although the recovery
\* sweep writes a copy it read earlier without a compare (requeue_stranded_jobs,
\* fetch_and_lock_job).  It needs StaleAfter >= JobTimeout + MaxLag and servers
\* that are started one after the other.
NoDoubleExecution ==
    \A v, w \in Workers :
        v # w /\ Running(v) /\ Running(w) => wk[v].id # wk[w].id

\* The result a worker writes replaces its own claim and nothing newer, unless
\* the job was removed (update).
RunnerOwnsRow ==
    \A w \in Workers :
        Running(w) /\ Present(jobs[wk[w].id]) =>
            /\ jobs[wk[w].id].kind = "Processing"
            /\ jobs[wk[w].id].worker = w

\* Nobody is half way through an enqueue or a removal of the job, or ever
\* stopped half way.
Quiet(j) ==
    /\ j \notin torn
    /\ enq[j].step = 0
    /\ \A a \in Removers : rem[a].id # j

\* Whatever scripts and command sequences have interleaved, a stored job that
\* nobody is half way through is where the claims look for it: in the state
\* set of its state and no other, among all ids, and, when it is Enqueued, in
\* both ZSETs, so that neither fetch_and_lock_job, the scheduler, the sweep of
\* expired jobs nor the recovery sweep misses it (update_job_indices,
\* remove_job_indices, update).  It needs enqueues that are done before the job
\* they schedule is due.
StoredIsFound ==
    \A j \in Jobs : Present(jobs[j]) /\ Quiet(j) =>
        /\ sets[j] = {jobs[j].kind}
        /\ j \in all
        /\ jobs[j].kind = "Enqueued" => avail[j] # NoScore /\ queue[j] # NoScore

\* The counters of the dashboard count what is stored, unless a removal crossed
\* another change of the job (update, claim_due_jobs_lua, remove_job_indices).
CountsExact ==
    (\A j \in Jobs : Quiet(j) /\ j \notin drift) =>
        \A k \in Kinds : counts[k] = Cardinality({j \in Jobs : jobs[j].kind = k})

\* A blob that was removed is never written again by a late worker, dashboard
\* or recovery sweep (update, update_if_state).
GoneForGood ==
    [][\A j \in Jobs : j \in created /\ ~Present(jobs[j]) => ~Present(jobs'[j])]_vars

------------------------------------------------------------------------------
(* What the storage promises.                                              *)

\* The status of a job, and the workers that are running it.
JobStatus(j) == StatusOf(jobs[j].kind, j \in created)
RunnersOf(j) == {w \in Workers : Running(w) /\ wk[w].id = j}

Promise == INSTANCE JobQueue WITH
              status <- [j \in Jobs |-> JobStatus(j)],
              runners <- [j \in Jobs |-> RunnersOf(j)]

\* Every behaviour of the servers that share the keys is one of the abstract
\* job queue: a job is handed to one worker at a time, settled by nobody else,
\* recovered only when its worker is lost, and not run again once it succeeded
\* or was removed (the Lua scripts and the command sequences around them).
ImplementsJobQueue == Promise!Spec
==============================================================================
