--------------------------- MODULE ServerLifecycle ----------------------------
(***************************************************************************)
(* BackgroundJobServer::start and stop (processing/server.rs), called by   *)
(* several tasks of the application, and the tasks a start spawns: the     *)
(* scheduler, the recurring poller, the cleanup worker, the heartbeat      *)
(* worker and the worker loops.  A run is what one start sets up: its      *)
(* shutdown token, its id in the server registry and its tasks carry the   *)
(* run's number, 0 standing for the token of new() and for no id.          *)
(*                                                                         *)
(* One action is a stretch of code between two await points.  What a tick  *)
(* of a task does to the storage is in the other modules; here a task is   *)
(* idle in its select!, or busy.                                           *)
(***************************************************************************)
EXTENDS Integers, Sequences, FiniteSets

CONSTANTS Callers,          \* tasks of the application that call start and stop
          Workers,          \* ServerConfig::worker_count
          Configs,          \* the configurations looked at
          OverlappingStart, \* whether start is called before a stop has returned
          MaxRuns,          \* bound: calls of start that get past the is_running check
          MaxFaults         \* bound: registry calls that fail, ticks that hang, panics

Background == {"scheduler", "recurring", "cleanup", "heartbeat"}

\* What Duration::to_std and tokio's interval make of a configured interval.
Intervals == {"negative", "zero", "positive"}

\* The configurations the builder methods can produce, of the fields that
\* decide which tasks there are and whether their loops begin.
ServerConfigs == [enabled: SUBSET Background, interval: [Background \cup {"worker"} -> Intervals]]

DefaultConfig == [enabled  |-> {"scheduler", "recurring", "cleanup"},
                  interval |-> [k \in Background \cup {"worker"} |-> "positive"]]

NoCaller == "no caller"  \* nobody holds the lock of is_running

ASSUME LifecycleAssumption ==
    /\ Workers \cap Background = {}
    /\ NoCaller \notin Callers
    /\ Configs \subseteq ServerConfigs
    /\ OverlappingStart \in BOOLEAN
    /\ MaxRuns \in Nat /\ MaxFaults \in Nat

VARIABLES
    config,
    is_running,       \* the flag ...
    lock,             \* ... and who holds its write lock
    shutdown_token,   \* the run whose token it is
    cancelled,        \* the runs whose token is cancelled
    worker_handles,   \* the tasks whose JoinHandle is in the list
    server_id,        \* the run whose id it is
    registered,       \* the runs with a row in the server registry
    call,             \* [Callers -> the call of start or stop in progress]
    task,             \* [Tasks -> where the task is]
    aborted,          \* the tasks abort() was called on
    died,             \* the tasks that ended by a panic or an invalid interval
    runs, faults,
    unsure            \* the runs whose register or deregister call failed

vars == <<config, is_running, lock, shutdown_token, cancelled, worker_handles, server_id,
          registered, call, task, aborted, died, runs, faults, unsure>>

Runs == 1..MaxRuns
Kinds == Workers \cup UNION {f.enabled : f \in Configs}
Tasks == Runs \X Kinds
NoCall == [pc |-> "none", run |-> 0, at |-> 0, mine |-> {}]

Live(t) == task[t] \in {"spawned", "idle", "busy", "hung"}
Cancelled(t) == t[1] \in cancelled

TypeOK ==
    /\ config \in Configs
    /\ is_running \in BOOLEAN
    /\ lock \in Callers \cup {NoCaller}
    /\ shutdown_token \in Runs \cup {0} /\ server_id \in Runs \cup {0}
    /\ cancelled \subseteq Runs /\ registered \subseteq Runs /\ unsure \subseteq Runs
    /\ worker_handles \subseteq Tasks /\ aborted \subseteq Tasks /\ died \subseteq Tasks
    /\ call \in [Callers -> [pc: {"none", "token", "register", "identify", "spawn", "push",
                                  "take_id", "deregister", "take_handles", "join"},
                             run: Runs \cup {0}, at: 0..5, mine: SUBSET Tasks]]
    /\ task \in [Tasks -> {"none", "spawned", "idle", "busy", "hung", "ended"}]
    /\ runs \in 0..MaxRuns /\ faults \in 0..MaxFaults

\* BackgroundJobServer::new.
Init ==
    /\ config \in Configs
    /\ is_running = FALSE /\ lock = NoCaller
    /\ shutdown_token = 0 /\ server_id = 0
    /\ cancelled = {} /\ registered = {} /\ unsure = {}
    /\ worker_handles = {} /\ aborted = {} /\ died = {}
    /\ call = [c \in Callers |-> NoCall]
    /\ task = [t \in Tasks |-> "none"]
    /\ runs = 0 /\ faults = 0

------------------------------------------------------------------------------
(* start.                                                                  *)

InStart == {"token", "register", "identify", "spawn", "push"}
InStop == {"take_id", "deregister", "take_handles", "join"}
Calling(pcs) == \E c \in Callers : call[c].pc \in pcs

To(c, pc) == call' = [call EXCEPT ![c].pc = pc]
Returns(c) == call' = [call EXCEPT ![c] = NoCall]

\* The write lock is taken and kept over the recovery sweep; a server that
\* runs is an error and nothing changes.
StartLock(c) ==
    /\ call[c].pc = "none" /\ lock = NoCaller /\ ~is_running
    /\ OverlappingStart \/ ~Calling(InStop)
    /\ runs < MaxRuns /\ runs' = runs + 1
    /\ lock' = c
    /\ call' = [call EXCEPT ![c] = [NoCall EXCEPT !.pc = "token", !.run = runs + 1]]
    /\ UNCHANGED <<config, is_running, shutdown_token, cancelled, worker_handles, server_id,
                   registered, task, aborted, died, faults, unsure>>

\* Mutant: the token of new() serves every run.
KeepToken(c) ==
    /\ call[c].pc = "token"
    /\ shutdown_token' = IF shutdown_token = 0 THEN call[c].run ELSE shutdown_token
    /\ call' = [call EXCEPT ![c].pc = IF "heartbeat" \in config.enabled THEN "register"
                                      ELSE "identify",
                            ![c].run = shutdown_token']
    /\ UNCHANGED <<config, is_running, lock, cancelled, worker_handles, server_id, registered,
                   task, aborted, died, runs, faults, unsure>>

\* The sweep over, a fresh token is installed.
InstallToken(c) ==
    /\ call[c].pc = "token"
    /\ shutdown_token' = call[c].run
    /\ To(c, IF "heartbeat" \in config.enabled THEN "register" ELSE "identify")
    /\ UNCHANGED <<config, is_running, lock, cancelled, worker_handles, server_id, registered,
                   task, aborted, died, runs, faults, unsure>>

\* register_server; when it fails start returns the error, and the server does
\* not run.  The row may have been written all the same.
RegisterServer(c) ==
    /\ call[c].pc = "register"
    /\ \/ /\ registered' = registered \cup {call[c].run}
          /\ To(c, "identify")
          /\ UNCHANGED <<lock, faults, unsure>>
       \/ /\ faults < MaxFaults /\ faults' = faults + 1
          /\ registered' \in {registered, registered \cup {call[c].run}}
          /\ unsure' = unsure \cup {call[c].run}
          /\ lock' = NoCaller
          /\ Returns(c)
    /\ UNCHANGED <<config, is_running, shutdown_token, cancelled, worker_handles, server_id,
                   task, aborted, died, runs>>

\* The id is kept for stop, is_running is set and its lock released: from here
\* on a stop may come in between.
Identify(c) ==
    /\ call[c].pc = "identify"
    /\ server_id' = IF "heartbeat" \in config.enabled THEN call[c].run ELSE 0
    /\ is_running' = TRUE
    /\ lock' = NoCaller
    /\ call' = [call EXCEPT ![c].pc = "spawn", ![c].at = 1]
    /\ UNCHANGED <<config, shutdown_token, cancelled, worker_handles, registered, task, aborted,
                   died, runs, faults, unsure>>

SpawnOrder == <<"scheduler", "recurring", "cleanup", "heartbeat">>

\* A background task is spawned, if it is enabled, with the token this start
\* has made ...
Spawn(c) ==
    LET k == SpawnOrder[call[c].at]
        on == k \in config.enabled
    IN  /\ call[c].pc = "spawn" /\ call[c].at <= 4
        /\ task' = IF on THEN [task EXCEPT ![<<call[c].run, k>>] = "spawned"] ELSE task
        /\ call' = [call EXCEPT ![c].pc = IF on THEN "push" ELSE "spawn",
                                ![c].at = IF on THEN @ ELSE @ + 1]
        /\ UNCHANGED <<config, is_running, lock, shutdown_token, cancelled, worker_handles,
                       server_id, registered, aborted, died, runs, faults, unsure>>

\* ... and, worker_handles locked, its handle is kept.
PushHandle(c) ==
    /\ call[c].pc = "push"
    /\ worker_handles' = worker_handles \cup {<<call[c].run, SpawnOrder[call[c].at]>>}
    /\ call' = [call EXCEPT ![c].pc = "spawn", ![c].at = @ + 1]
    /\ UNCHANGED <<config, is_running, lock, shutdown_token, cancelled, server_id, registered,
                   task, aborted, died, runs, faults, unsure>>

\* start_workers: all of them under the lock of worker_handles.  start returns.
StartWorkers(c) ==
    LET new == {call[c].run} \X Workers IN
    /\ call[c].pc = "spawn" /\ call[c].at = 5
    /\ task' = [t \in Tasks |-> IF t \in new THEN "spawned" ELSE task[t]]
    /\ worker_handles' = worker_handles \cup new
    /\ Returns(c)
    /\ UNCHANGED <<config, is_running, lock, shutdown_token, cancelled, server_id, registered,
                   aborted, died, runs, faults, unsure>>

------------------------------------------------------------------------------
(* stop.                                                                   *)

\* Under the write lock; a server that does not run is left alone.
StopCancel(c) ==
    /\ call[c].pc = "none" /\ lock = NoCaller /\ is_running
    /\ cancelled' = cancelled \cup {shutdown_token}
    /\ is_running' = FALSE
    /\ call' = [call EXCEPT ![c] = [NoCall EXCEPT !.pc = "take_id"]]
    /\ UNCHANGED <<config, lock, shutdown_token, worker_handles, server_id, registered, task,
                   aborted, died, runs, faults, unsure>>

\* server_id.take(), whichever id is there by now.
TakeServerId(c) ==
    /\ call[c].pc = "take_id"
    /\ server_id' = 0
    /\ call' = [call EXCEPT ![c].pc = IF server_id = 0 THEN "take_handles" ELSE "deregister",
                            ![c].run = server_id]
    /\ UNCHANGED <<config, is_running, lock, shutdown_token, cancelled, worker_handles,
                   registered, task, aborted, died, runs, faults, unsure>>

\* Mutant: stop leaves the row to the peers.
DeregisterNothing(c) ==
    /\ call[c].pc = "deregister"
    /\ To(c, "take_handles")
    /\ UNCHANGED <<config, is_running, lock, shutdown_token, cancelled, worker_handles,
                   server_id, registered, task, aborted, died, runs, faults, unsure>>

\* deregister_server; its failure is logged, the row may stay.
DeregisterServer(c) ==
    /\ call[c].pc = "deregister"
    /\ \/ /\ registered' = registered \ {call[c].run}
          /\ UNCHANGED <<faults, unsure>>
       \/ /\ faults < MaxFaults /\ faults' = faults + 1
          /\ registered' \in {registered, registered \ {call[c].run}}
          /\ unsure' = unsure \cup {call[c].run}
    /\ To(c, "take_handles")
    /\ UNCHANGED <<config, is_running, lock, shutdown_token, cancelled, worker_handles,
                   server_id, task, aborted, died, runs>>

\* The whole list is taken.
TakeHandles(c) ==
    /\ call[c].pc = "take_handles"
    /\ call' = [call EXCEPT ![c].pc = "join", ![c].mine = worker_handles]
    /\ worker_handles' = {}
    /\ UNCHANGED <<config, is_running, lock, shutdown_token, cancelled, server_id, registered,
                   task, aborted, died, runs, faults, unsure>>

\* Every task has ended: stopped cleanly.
StopJoined(c) ==
    /\ call[c].pc = "join"
    /\ \A t \in call[c].mine : ~Live(t)
    /\ Returns(c)
    /\ UNCHANGED <<config, is_running, lock, shutdown_token, cancelled, worker_handles,
                   server_id, registered, task, aborted, died, runs, faults, unsure>>

\* Mutant: the grace period ends without the aborts.
StopGivesUp(c) ==
    /\ call[c].pc = "join"
    /\ \E t \in call[c].mine : Live(t)
    /\ Returns(c)
    /\ UNCHANGED <<config, is_running, lock, shutdown_token, cancelled, worker_handles,
                   server_id, registered, task, aborted, died, runs, faults, unsure>>

\* shutdown_timeout elapses: what has not ended is aborted.
StopTimeout(c) ==
    /\ call[c].pc = "join"
    /\ \E t \in call[c].mine : Live(t)
    /\ aborted' = aborted \cup {t \in call[c].mine : Live(t)}
    /\ Returns(c)
    /\ UNCHANGED <<config, is_running, lock, shutdown_token, cancelled, worker_handles,
                   server_id, registered, task, died, runs, faults, unsure>>

------------------------------------------------------------------------------
(* The tasks.                                                              *)

TaskTo(t, where) ==
    /\ task' = [task EXCEPT ![t] = where]
    /\ UNCHANGED <<config, is_running, lock, shutdown_token, cancelled, worker_handles,
                   server_id, registered, call, aborted, runs, unsure>>

\* run_until_cancelled: an interval to_std refuses is an error, one of zero a
\* panic of tokio's interval; both end the task and nobody hears of it.
BackgroundBegins(t) ==
    /\ t[2] \in Background /\ task[t] = "spawned"
    /\ IF config.interval[t[2]] = "positive"
       THEN TaskTo(t, "idle") /\ UNCHANGED died
       ELSE TaskTo(t, "ended") /\ died' = died \cup {t}
    /\ UNCHANGED faults

\* worker_loop falls back to a second for what to_std refuses.
WorkerBegins(t) ==
    /\ t[2] \in Workers /\ task[t] = "spawned"
    /\ IF config.interval["worker"] # "zero"
       THEN TaskTo(t, "idle") /\ UNCHANGED died
       ELSE TaskTo(t, "ended") /\ died' = died \cup {t}
    /\ UNCHANGED faults

\* The select! is biased: a cancelled token wins over a tick that is due.
Tick(t) ==
    /\ task[t] = "idle" /\ ~Cancelled(t)
    /\ TaskTo(t, "busy") /\ UNCHANGED <<died, faults>>

\* Mutant: the loop does not look at the token.
ExitNever(t) == FALSE /\ TaskTo(t, "ended") /\ UNCHANGED <<died, faults>>

Exit(t) ==
    /\ task[t] = "idle" /\ Cancelled(t)
    /\ TaskTo(t, "ended") /\ UNCHANGED <<died, faults>>

\* The tick is over, or the fetch failed and the worker naps, to be cancelled
\* as in the select!.
TickDone(t) ==
    /\ task[t] = "busy"
    /\ TaskTo(t, "idle") /\ UNCHANGED <<died, faults>>

\* A storage call of the tick does not return (they have no timeout).
Hang(t) ==
    /\ task[t] = "busy"
    /\ faults < MaxFaults /\ faults' = faults + 1
    /\ TaskTo(t, "hung") /\ UNCHANGED died

\* A job panics: its worker loop is gone.
Panic(t) ==
    /\ t[2] \in Workers /\ task[t] = "busy"
    /\ faults < MaxFaults /\ faults' = faults + 1
    /\ TaskTo(t, "ended") /\ died' = died \cup {t}

\* An abort takes effect where the task awaits.
AbortTakesEffect(t) ==
    /\ t \in aborted /\ Live(t)
    /\ TaskTo(t, "ended") /\ UNCHANGED <<died, faults>>

------------------------------------------------------------------------------

StartStep(c) == \/ StartLock(c) \/ InstallToken(c) \/ RegisterServer(c) \/ Identify(c)
                \/ Spawn(c) \/ PushHandle(c) \/ StartWorkers(c)
StopStep(c) == \/ StopCancel(c) \/ TakeServerId(c) \/ DeregisterServer(c) \/ TakeHandles(c)
               \/ StopJoined(c) \/ StopTimeout(c)
TaskStep(t) == \/ BackgroundBegins(t) \/ WorkerBegins(t) \/ Tick(t) \/ Exit(t) \/ TickDone(t)
               \/ AbortTakesEffect(t)

Next ==
    \/ \E c \in Callers : StartStep(c) \/ StopStep(c)
    \/ \E t \in Tasks : TaskStep(t) \/ Hang(t) \/ Panic(t)

Spec == Init /\ [][Next]_vars

\* Tokio polls every task that can make progress: a call that has begun goes
\* on, and so does a task, its ticks being over one day unless they hang.
Fairness ==
    /\ \A c \in Callers : WF_vars(call[c].pc # "none" /\ (StartStep(c) \/ StopStep(c)))
    /\ \A t \in Tasks : WF_vars(TaskStep(t))

FairSpec == Spec /\ Fairness

------------------------------------------------------------------------------
(* Properties.                                                             *)

\* The tasks a run has when its start has returned.
TasksOf(r) == {r} \X (config.enabled \cup Workers)

\* A server that says it runs is served: once start has returned, its token is
\* not cancelled, no task of it was aborted or has ended other than by a panic
\* or an invalid interval, the next stop finds every handle, and with
\* heartbeats its id (start, stop).  It needs starts that do not overlap a stop.
RunningIsServed ==
    (is_running /\ ~Calling(InStart)) =>
        /\ shutdown_token \notin cancelled
        /\ \A t \in TasksOf(shutdown_token) :
              t \in worker_handles /\ t \notin aborted /\ (Live(t) \/ t \in died)
        /\ ("heartbeat" \in config.enabled) => server_id = shutdown_token

\* No task is lost: whoever runs is in the list for a stop to come, held by a
\* stop that waits, about to be put in the list, or aborted, however starts
\* and stops overlap (PushHandle after the list was taken, TakeHandles).
NoTaskLost ==
    \A t \in Tasks : Live(t) =>
        \/ t \in worker_handles \cup aborted
        \/ \E c \in Callers : \/ t \in call[c].mine
                              \/ call[c].pc = "push" /\ t = <<call[c].run, SpawnOrder[call[c].at]>>

\* Between runs the registry has no row of this server but for a call that
\* failed: neither a stop that overlaps a start nor a start that fails leaves
\* one (start, stop).
NoStaleRegistration ==
    (~is_running /\ ~Calling(InStart \cup InStop)) => registered \subseteq unsure

\* A stop ends its run for good: every task of a cancelled run ends, those a
\* concurrent start spawns after the cancellation too.  One that hangs is
\* aborted, unless its handle came too late for the stop and waits in the list
\* (worker_loop, the run_until_cancelled loops, stop).
CancelledRunEnds ==
    \A r \in Runs :
        (r \in cancelled) ~>
            [](\A t \in {r} \X Kinds :
                  Live(t) => task[t] = "hung" /\ t \in worker_handles \ aborted)

------------------------------------------------------------------------------
(* What the documentation says and the code does not do.                   *)

\* server.rs, of server_id: "`None` when heartbeats are off or between start
\* cycles."
IdWhileRunning ==
    (is_running /\ "heartbeat" \in config.enabled) => server_id # 0

==============================================================================
