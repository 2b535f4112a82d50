------------------------------ MODULE Recurring -------------------------------
(***************************************************************************)
(* Cron templates: BackgroundJobServer::schedule_recurring and             *)
(* remove_recurring, the RecurringStore impls of the three backends, and   *)
(* the RecurringJobPollers (processing/recurring.rs) of several servers    *)
(* that fire the due templates.                                            *)
(*                                                                         *)
(* fetch_due_recurring_jobs is one critical section in MemoryStorage and   *)
(* one UPDATE in Postgres (backend = "atomic").  In Redis it is a listing  *)
(* of the index and, per id, SET NX of a claim key, a GET and a ZADD, each *)
(* a round trip of its own; so are the two writes of an upsert or a        *)
(* removal.  A poller reads the clock once per tick and works with that    *)
(* instant until the tick is over.                                         *)
(***************************************************************************)
EXTENDS ServerLoops, FiniteSets

CONSTANTS Pollers, Templates,
          Period,          \* the cron expression: every multiple of Period
          LastOccurrence,  \* the last instant of a cron expression with a year field
          BatchSize,       \* DEFAULT_RECURRING_BATCH_SIZE
          ParkFor,         \* the 3650 days a claimed template is put off
          ClaimTtl,        \* EX of the Redis claim key
          MaxTime,         \* bound: the last instant
          MaxEdits         \* bound: calls of schedule_recurring and remove_recurring

None == "none"

ASSUME RecurringAssumption ==
    /\ None \notin Templates
    /\ Period \in Nat \ {0}
    /\ LastOccurrence \in Nat /\ MaxTime \in Nat
    /\ BatchSize \in Nat \ {0}
    /\ ParkFor \in Nat /\ ParkFor > MaxTime + Period
    /\ ClaimTtl \in Nat \ {0}
    /\ MaxEdits \in Nat

VARIABLES
    now,
    row,      \* the template rows; version tells definitions of one id apart, 0 = no row
    index,    \* the instant the template is searched by: its column, or its ZSET score
    key,      \* what is left of the Redis claim key
    poll,     \* poller: where in tick_once it is and what it holds
    op,       \* the second half of the operator's Redis write still to come
    word,     \* the version the operator asked for last, 0 = removed
    edits,
    crossed,  \* the templates an edit of which overlapped a poller's work on them
    fired     \* how often each occurrence was enqueued

cronVars == <<backend, now, row, index, key, poll, op, word, edits, faults, crossed, fired>>

NoTemplate == [version |-> 0, enabled |-> FALSE, next |-> 0]
NoIndex == -1
NoOp == -2
Idle == [pc |-> "idle", at |-> 0, age |-> 0, todo |-> {}, held |-> {}, cur |-> None,
         copy |-> [t \in Templates |-> NoTemplate]]

Row == [version: Nat, enabled: BOOLEAN, next: Nat]

CronTypeOK ==
    /\ backend \in Backends
    /\ now \in Nat
    /\ row \in [Templates -> Row]
    /\ index \in [Templates -> Nat \cup {NoIndex}]
    /\ key \in [Templates -> Nat]
    /\ poll \in [Pollers -> [pc: {"idle", "fetch", "claim", "read", "park", "fire", "write", "index"},
                             at: Nat, age: Nat, todo: SUBSET Templates, held: SUBSET Templates,
                             cur: Templates \cup {None}, copy: [Templates -> Row]]]
    /\ op \in [Templates -> Nat \cup {NoIndex, NoOp}]
    /\ word \in [Templates -> Nat]
    /\ edits \in Nat /\ faults \in Nat
    /\ crossed \subseteq Templates
    /\ fired \in [Templates -> [0..(MaxTime + ParkFor) -> Nat]]
    /\ \A p \in Pollers : poll[p].pc \in {"read", "park", "write", "index"} => poll[p].cur # None

CronInit ==
    /\ backend \in Backends
    /\ now = 0
    /\ row = [t \in Templates |-> NoTemplate]
    /\ index = [t \in Templates |-> NoIndex]
    /\ key = [t \in Templates |-> 0]
    /\ poll = [p \in Pollers |-> Idle]
    /\ op = [t \in Templates |-> NoOp]
    /\ word = [t \in Templates |-> 0]
    /\ edits = 0 /\ faults = 0
    /\ crossed = {}
    /\ fired = [t \in Templates |-> [o \in 0..(MaxTime + ParkFor) |-> 0]]

------------------------------------------------------------------------------
(* The template.                                                           *)

\* next_after: the first occurrence strictly after `from`.
NextAfter(from) == ((from \div Period) + 1) * Period
HasNext(from) == NextAfter(from) <= LastOccurrence

\* Mutant: the next occurrence may be the one just fired.
AdvanceInclusive(r, from) == [r EXCEPT !.next = (from \div Period) * Period]

\* RecurringJob::advance, and what tick_once does when it fails.
Advance(r, from) ==
    IF HasNext(from) THEN [r EXCEPT !.next = NextAfter(from)] ELSE [r EXCEPT !.enabled = FALSE]

------------------------------------------------------------------------------
(* The operator.                                                           *)

MayEdit(t) == edits < MaxEdits /\ op[t] = NoOp

\* Some poller has t in its listing or its hands.
Busy(t) == \E p \in Pollers : t \in poll[p].todo \cup poll[p].held \cup {poll[p].cur}

Cross(t) == crossed' = IF Busy(t) THEN crossed \cup {t} ELSE crossed

\* Redis takes two writes, and a poller may come in between them.
TwoWrites == backend = "redis"

\* schedule_recurring: RecurringJob::new and the upsert.
ScheduleRecurring(t) ==
    /\ MayEdit(t)
    /\ HasNext(now)
    /\ edits' = edits + 1
    /\ Cross(t)
    /\ word' = [word EXCEPT ![t] = edits + 1]
    /\ row' = [row EXCEPT ![t] = [version |-> edits + 1, enabled |-> TRUE,
                                  next |-> NextAfter(now)]]
    /\ IF TwoWrites
       THEN op' = [op EXCEPT ![t] = NextAfter(now)] /\ UNCHANGED index
       ELSE index' = [index EXCEPT ![t] = NextAfter(now)] /\ UNCHANGED op
    /\ UNCHANGED <<backend, now, key, poll, faults, fired>>

\* remove_recurring: the row, and in Redis afterwards its index entry.
RemoveRecurring(t) ==
    /\ MayEdit(t)
    /\ edits' = edits + 1
    /\ Cross(t)
    /\ word' = [word EXCEPT ![t] = 0]
    /\ row' = [row EXCEPT ![t] = NoTemplate]
    /\ IF TwoWrites
       THEN op' = [op EXCEPT ![t] = NoIndex] /\ UNCHANGED index
       ELSE index' = [index EXCEPT ![t] = NoIndex] /\ UNCHANGED op
    /\ UNCHANGED <<backend, now, key, poll, faults, fired>>

\* The ZADD or ZREM of the operator's write, with the score of that call.
IndexWritten(t) ==
    /\ op[t] # NoOp
    /\ index' = [index EXCEPT ![t] = op[t]]
    /\ op' = [op EXCEPT ![t] = NoOp]
    /\ UNCHANGED <<backend, now, row, key, poll, word, edits, faults, fired, crossed>>

------------------------------------------------------------------------------
(* The poller: tick_once.                                                  *)

PollerAt(p, pc) == poll' = [poll EXCEPT ![p].pc = pc]

TickOnce(p) ==
    /\ poll[p].pc = "idle"
    /\ poll' = [poll EXCEPT ![p] = [Idle EXCEPT !.pc = "fetch", !.at = now]]
    /\ UNCHANGED <<backend, now, row, index, key, op, word, edits, faults, fired, crossed>>

\* The first BatchSize of a set of templates by the instant searched by.
FirstOf(due) ==
    {B \in SUBSET due :
        /\ Cardinality(B) <= BatchSize
        /\ Cardinality(B) < BatchSize => B = due
        /\ \A t \in B, u \in due \ B : index[t] <= index[u]}

\* Mutant: due means strictly before now.
ListedStrict(at) == {t \in Templates : index[t] \in 0..(at - 1)}

Listed(at) == {t \in Templates : index[t] \in 0..at}

\* The claimed rows are put off until the caller has advanced them.
Parked(B, at) ==
    /\ row' = [t \in Templates |-> IF t \in B THEN [row[t] EXCEPT !.next = at + ParkFor] ELSE row[t]]
    /\ index' = [t \in Templates |-> IF t \in B THEN at + ParkFor ELSE index[t]]

\* fetch_due_recurring_jobs of MemoryStorage and Postgres.  The copies keep
\* the occurrence that was due.
FetchDue(p) ==
    /\ backend = "atomic" /\ poll[p].pc = "fetch"
    /\ \E B \in FirstOf({t \in Listed(poll[p].at) : row[t].enabled}) :
          /\ poll' = [poll EXCEPT ![p].pc = IF B = {} THEN "idle" ELSE "fire",
                                  ![p].held = B,
                                  ![p].copy = [t \in Templates |-> IF t \in B THEN row[t] ELSE NoTemplate]]
          /\ Parked(B, poll[p].at)
    /\ UNCHANGED <<backend, now, key, op, word, edits, faults, fired, crossed>>

\* fetch_due_recurring_jobs of Redis: ZRANGEBYSCORE ...
ListDue(p) ==
    /\ backend = "redis" /\ poll[p].pc = "fetch"
    /\ \E B \in FirstOf(Listed(poll[p].at)) :
          /\ poll' = [poll EXCEPT ![p].pc = IF B = {} THEN "idle" ELSE "claim", ![p].todo = B]
          /\ crossed' = crossed \cup {t \in B : op[t] # NoOp}
    /\ UNCHANGED <<backend, now, row, index, key, op, word, edits, faults, fired>>

\* Mutant: SET without NX.
KeyFreeAlways(t) == TRUE

KeyFree(t) == key[t] = 0

\* ... per id SET NX EX of the claim key, which nobody deletes ...
ClaimKey(p, t) ==
    /\ poll[p].pc = "claim" /\ t \in poll[p].todo
    /\ IF KeyFree(t)
       THEN /\ key' = [key EXCEPT ![t] = ClaimTtl]
            /\ poll' = [poll EXCEPT ![p].pc = "read", ![p].todo = @ \ {t}, ![p].cur = t]
       ELSE /\ poll' = [poll EXCEPT ![p].todo = @ \ {t}]
            /\ UNCHANGED key
    /\ UNCHANGED <<backend, now, row, index, op, word, edits, faults, fired, crossed>>

\* ... GET of the row, dropped unless it is there, enabled and due ...
ReadRow(p) ==
    LET t == poll[p].cur IN
    /\ poll[p].pc = "read"
    /\ IF row[t].version # 0 /\ row[t].enabled /\ row[t].next <= poll[p].at
       THEN poll' = [poll EXCEPT ![p].pc = "park", ![p].copy[t] = row[t]]
       ELSE poll' = [poll EXCEPT ![p].pc = "claim", ![p].cur = None]
    /\ UNCHANGED <<backend, now, row, index, key, op, word, edits, faults, fired, crossed>>

\* ... and ZADD of the park sentinel.
ParkIndex(p) ==
    LET t == poll[p].cur IN
    /\ poll[p].pc = "park"
    /\ index' = [index EXCEPT ![t] = poll[p].at + ParkFor]
    /\ poll' = [poll EXCEPT ![p].pc = "claim", ![p].cur = None, ![p].held = @ \cup {t}]
    /\ UNCHANGED <<backend, now, row, key, op, word, edits, faults, fired, crossed>>

ListDone(p) ==
    /\ poll[p].pc = "claim" /\ poll[p].todo = {}
    /\ PollerAt(p, IF poll[p].held = {} THEN "idle" ELSE "fire")
    /\ UNCHANGED <<backend, now, row, index, key, op, word, edits, faults, fired, crossed>>

\* A claimed template is enqueued; a failure is logged and the tick goes on.
EnqueueFiring(p, t) ==
    /\ poll[p].pc = "fire" /\ t \in poll[p].held
    /\ \/ fired' = [fired EXCEPT ![t][poll[p].copy[t].next] = @ + 1] /\ UNCHANGED faults
       \/ faults < MaxFaults /\ faults' = faults + 1 /\ UNCHANGED fired
    /\ poll' = [poll EXCEPT ![p].pc = "write", ![p].cur = t,
                            ![p].copy[t] = Advance(@, poll[p].at)]
    /\ UNCHANGED <<backend, now, row, index, key, op, word, edits, crossed>>

\* What is left to do when a template is written back, or could not be.
NextHeld(p) ==
    LET rest == poll[p].held \ {poll[p].cur}
    IN  poll' = [poll EXCEPT ![p].pc = IF rest = {} THEN "idle" ELSE "fire",
                             ![p].held = rest, ![p].cur = None]

\* Mutant: the upsert leaves the instant searched by as it is.
UpsertRowOnly(p) ==
    /\ poll[p].pc = "write"
    /\ row' = [row EXCEPT ![poll[p].cur] = poll[p].copy[poll[p].cur]]
    /\ NextHeld(p)
    /\ UNCHANGED <<backend, now, index, key, op, word, edits, faults, fired, crossed>>

\* upsert_recurring_job of the advanced copy, whatever is stored by now.
UpsertAdvanced(p) ==
    LET t == poll[p].cur IN
    /\ poll[p].pc = "write"
    /\ row' = [row EXCEPT ![t] = poll[p].copy[t]]
    /\ IF backend = "redis"
       THEN PollerAt(p, "index") /\ UNCHANGED index
       ELSE NextHeld(p) /\ index' = [index EXCEPT ![t] = poll[p].copy[t].next]
    /\ UNCHANGED <<backend, now, key, op, word, edits, faults, fired, crossed>>

UpsertIndex(p) ==
    LET t == poll[p].cur IN
    /\ poll[p].pc = "index"
    /\ index' = [index EXCEPT ![t] = poll[p].copy[t].next]
    /\ NextHeld(p)
    /\ UNCHANGED <<backend, now, row, key, op, word, edits, faults, fired, crossed>>

\* The upsert fails: logged, and the tick goes on.
UpsertFails(p) ==
    /\ poll[p].pc \in {"write", "index"}
    /\ faults < MaxFaults /\ faults' = faults + 1
    /\ NextHeld(p)
    /\ UNCHANGED <<backend, now, row, index, key, op, word, edits, fired, crossed>>

\* A call of the fetch fails, the task is aborted at shutdown_timeout, or the
\* process dies: what the poller held is forgotten.
Abandon(p) ==
    /\ poll[p].pc # "idle"
    /\ faults < MaxFaults /\ faults' = faults + 1
    /\ poll' = [poll EXCEPT ![p] = Idle]
    /\ UNCHANGED <<backend, now, row, index, key, op, word, edits, fired, crossed>>

CronTick ==
    /\ now < MaxTime
    /\ \A p \in Pollers : poll[p].pc # "idle" => poll[p].age < MaxLag
    /\ now' = now + 1
    /\ key' = [t \in Templates |-> IF key[t] > 0 THEN key[t] - 1 ELSE 0]
    /\ poll' = [p \in Pollers |-> IF poll[p].pc = "idle" THEN poll[p]
                                  ELSE [poll[p] EXCEPT !.age = @ + 1]]
    /\ UNCHANGED <<backend, row, index, op, word, edits, faults, fired, crossed>>

PollerStep(p) ==
    \/ TickOnce(p) \/ FetchDue(p) \/ ListDue(p) \/ ReadRow(p) \/ ParkIndex(p) \/ ListDone(p)
    \/ \E t \in Templates : ClaimKey(p, t) \/ EnqueueFiring(p, t)
    \/ UpsertAdvanced(p) \/ UpsertIndex(p)

CronNext ==
    \/ \E t \in Templates : ScheduleRecurring(t) \/ RemoveRecurring(t) \/ IndexWritten(t)
    \/ \E p \in Pollers : PollerStep(p) \/ UpsertFails(p) \/ Abandon(p)
    \/ CronTick

CronSpec == CronInit /\ [][CronNext]_cronVars

\* Tokio keeps polling the poller tasks, calls return, and time passes.
CronFairSpec ==
    /\ CronSpec
    /\ WF_cronVars(CronTick)
    /\ \A p \in Pollers : WF_cronVars(PollerStep(p))
    /\ \A t \in Templates : WF_cronVars(IndexWritten(t))

------------------------------------------------------------------------------
(* Properties.                                                             *)

\* Holding a template: between its claim and the end of its upsert.
Holds(p, t) == t \in poll[p].held \/ (poll[p].pc = "park" /\ poll[p].cur = t)

\* However many pollers list, claim, fire and write back at once, however slow
\* they are and whatever fails on the way, no occurrence of a template is
\* enqueued twice, unless an edit overlapped the firing
\* (fetch_due_recurring_jobs, tick_once).  In Redis it needs a claim key that
\* outlives two ticks of a poller.
NoTickFiredTwice ==
    \A t \in Templates \ crossed : \A o \in DOMAIN fired[t] : fired[t][o] <= 1

\* A due template is in the hands of one poller at most, unless an edit made it
\* due again while it was being fired; in Redis the claim key excludes even
\* that (fetch_due_recurring_jobs).
OneHolder ==
    \A p, q \in Pollers, t \in Templates :
        /\ t \in crossed => backend = "redis"
        /\ Holds(p, t) /\ Holds(q, t)
        => p = q

\* A template that has been put off is in the hands of the poller that will
\* write it back: no interleaving of claims, removals and upserts leaves one
\* parked for ten years (README.md: templates "survive restarts").
ParkedIsHeld ==
    \A t \in Templates :
        row[t].version # 0 /\ row[t].enabled /\ index[t] >= ParkFor =>
            \E p \in Pollers : Holds(p, t)

\* Every occurrence that comes due is fired, unless the operator removes or
\* replaces the template first.
DueTemplateFires ==
    \A t \in Templates, o \in 0..MaxTime, v \in 1..MaxEdits :
        (row[t] = [version |-> v, enabled |-> TRUE, next |-> o] /\ o <= now)
            ~> (fired[t][o] > 0 \/ word[t] # v)

==============================================================================
