------------------------ MODULE ServerLifecycle_proofs ------------------------
(***************************************************************************)
(* Proofs about ServerLifecycle, for any number of callers, workers, runs  *)
(* and faults and any configuration: no task is lost however starts and    *)
(* stops overlap; and when no start overlaps a stop, a server that says it *)
(* runs is served and leaves no row in the registry.                       *)
(***************************************************************************)
EXTENDS ServerLifecycle, TLAPS

CallSet == [pc: {"none", "token", "register", "identify", "spawn", "push",
                 "take_id", "deregister", "take_handles", "join"},
            run: Runs \cup {0}, at: 0..5, mine: SUBSET Tasks]

(***************************************************************************)
(* What a step does to the calls in progress.                              *)
(***************************************************************************)

\* Caller c is now at pc with these locals; the other calls are where they were.
Moved(c, pc, run, at, mine) ==
    /\ call' = [d \in Callers |-> IF d = c THEN call'[c] ELSE call[d]]
    /\ call'[c] \in [pc: {pc}, run: {run}, at: {at}, mine: {mine}]

\* Where each step of start leaves its call.
LEMMA StartMoves ==
  ASSUME TypeOK, NEW c \in Callers
  PROVE  /\ StartLock(c) => Moved(c, "token", runs + 1, 0, {})
         /\ InstallToken(c) =>
              Moved(c, IF "heartbeat" \in config.enabled THEN "register" ELSE "identify",
                    call[c].run, call[c].at, call[c].mine)
         /\ RegisterServer(c) =>
              \/ Moved(c, "identify", call[c].run, call[c].at, call[c].mine)
                 /\ registered' = registered \cup {call[c].run}
                 /\ UNCHANGED <<lock, unsure>>
              \/ Moved(c, "none", 0, 0, {})
                 /\ registered' \in {registered, registered \cup {call[c].run}}
                 /\ unsure' = unsure \cup {call[c].run} /\ lock' = NoCaller
         /\ Identify(c) => Moved(c, "spawn", call[c].run, 1, call[c].mine)
         /\ Spawn(c) =>
              Moved(c, IF SpawnOrder[call[c].at] \in config.enabled THEN "push" ELSE "spawn",
                    call[c].run,
                    IF SpawnOrder[call[c].at] \in config.enabled THEN call[c].at
                    ELSE call[c].at + 1, call[c].mine)
         /\ PushHandle(c) => Moved(c, "spawn", call[c].run, call[c].at + 1, call[c].mine)
         /\ StartWorkers(c) => Moved(c, "none", 0, 0, {})
  <1>0. call \in [Callers -> CallSet] /\ call[c] \in CallSet
    BY DEF TypeOK, CallSet
  <1>1. ASSUME StartLock(c) PROVE Moved(c, "token", runs + 1, 0, {})
    BY <1>0, <1>1 DEF StartLock, NoCall, Moved, CallSet
  <1>2. ASSUME NEW pc, To(c, pc) PROVE Moved(c, pc, call[c].run, call[c].at, call[c].mine)
    BY <1>0, <1>2 DEF To, Moved, CallSet
  <1>3. ASSUME Returns(c) PROVE Moved(c, "none", 0, 0, {})
    BY <1>0, <1>3 DEF Returns, NoCall, Moved, CallSet
  <1>4. ASSUME Identify(c) PROVE Moved(c, "spawn", call[c].run, 1, call[c].mine)
    BY <1>0, <1>4 DEF Identify, Moved, CallSet
  <1>5. ASSUME Spawn(c)
        PROVE  Moved(c, IF SpawnOrder[call[c].at] \in config.enabled THEN "push" ELSE "spawn",
                     call[c].run,
                     IF SpawnOrder[call[c].at] \in config.enabled THEN call[c].at
                     ELSE call[c].at + 1, call[c].mine)
    BY <1>0, <1>5 DEF Spawn, Moved, CallSet
  <1>6. ASSUME PushHandle(c)
        PROVE  Moved(c, "spawn", call[c].run, call[c].at + 1, call[c].mine)
    BY <1>0, <1>6 DEF PushHandle, Moved, CallSet
  <1>7. QED
    BY <1>1, <1>2, <1>3, <1>4, <1>5, <1>6
       DEF InstallToken, RegisterServer, StartWorkers

\* Where each step of stop leaves its call.
LEMMA StopMoves ==
  ASSUME TypeOK, NEW c \in Callers
  PROVE  /\ StopCancel(c) => Moved(c, "take_id", 0, 0, {})
         /\ TakeServerId(c) =>
              Moved(c, IF server_id = 0 THEN "take_handles" ELSE "deregister",
                    server_id, call[c].at, call[c].mine)
         /\ DeregisterServer(c) =>
              Moved(c, "take_handles", call[c].run, call[c].at, call[c].mine)
         /\ TakeHandles(c) => Moved(c, "join", call[c].run, call[c].at, worker_handles)
         /\ StopJoined(c) => Moved(c, "none", 0, 0, {})
         /\ StopTimeout(c) => Moved(c, "none", 0, 0, {})
  <1>0. call \in [Callers -> CallSet] /\ call[c] \in CallSet
    BY DEF TypeOK, CallSet
  <1>1. ASSUME StopCancel(c) PROVE Moved(c, "take_id", 0, 0, {})
    BY <1>0, <1>1 DEF StopCancel, NoCall, Moved, CallSet
  <1>2. ASSUME TakeServerId(c)
        PROVE  Moved(c, IF server_id = 0 THEN "take_handles" ELSE "deregister",
                     server_id, call[c].at, call[c].mine)
    BY <1>0, <1>2 DEF TakeServerId, Moved, CallSet
  <1>3. ASSUME DeregisterServer(c)
        PROVE  Moved(c, "take_handles", call[c].run, call[c].at, call[c].mine)
    BY <1>0, <1>3 DEF DeregisterServer, To, Moved, CallSet
  <1>4. ASSUME TakeHandles(c)
        PROVE  Moved(c, "join", call[c].run, call[c].at, worker_handles)
    BY <1>0, <1>4 DEF TakeHandles, Moved, CallSet
  <1>5. ASSUME Returns(c) PROVE Moved(c, "none", 0, 0, {})
    BY <1>0, <1>5 DEF Returns, NoCall, Moved, CallSet
  <1>6. QED
    BY <1>1, <1>2, <1>3, <1>4, <1>5 DEF StopJoined, StopTimeout

\* The locals of the moved call, and the other calls.
LEMMA MovedFields ==
  ASSUME TypeOK, NEW c \in Callers, NEW pc, NEW run, NEW at, NEW mine,
         Moved(c, pc, run, at, mine)
  PROVE  /\ call'[c].pc = pc /\ call'[c].run = run /\ call'[c].at = at /\ call'[c].mine = mine
         /\ \A d \in Callers \ {c} : call'[d] = call[d]
  BY DEF Moved, TypeOK

\* A step of a task is one of a live task.  It ends by a panic, an invalid
\* interval, a cancelled token or an abort, and by nothing else.
LEMMA TaskMoves ==
  ASSUME TypeOK, NEW t \in Tasks, TaskStep(t) \/ Hang(t) \/ Panic(t)
  PROVE  /\ Live(t)
         /\ task' = [task EXCEPT ![t] = task'[t]]
         /\ task'[t] \in {"idle", "busy", "hung", "ended"}
         /\ task'[t] = "ended" => t \in died' \/ Cancelled(t) \/ t \in aborted
         /\ died' = died \/ died' = died \cup {t}
         /\ faults' = faults \/ (faults < MaxFaults /\ faults' = faults + 1)
         /\ UNCHANGED <<config, is_running, lock, shutdown_token, cancelled, worker_handles,
                        server_id, registered, call, aborted, runs, unsure>>
  <1>0. task \in [Tasks -> {"none", "spawned", "idle", "busy", "hung", "ended"}]
    BY DEF TypeOK
  <1>1. CASE BackgroundBegins(t)
    BY <1>0, <1>1 DEF BackgroundBegins, TaskTo, Live
  <1>2. CASE WorkerBegins(t)
    BY <1>0, <1>2 DEF WorkerBegins, TaskTo, Live
  <1>3. CASE Tick(t)
    BY <1>0, <1>3 DEF Tick, TaskTo, Live
  <1>4. CASE Exit(t)
    BY <1>0, <1>4 DEF Exit, TaskTo, Live
  <1>5. CASE TickDone(t)
    BY <1>0, <1>5 DEF TickDone, TaskTo, Live
  <1>6. CASE AbortTakesEffect(t)
    BY <1>0, <1>6 DEF AbortTakesEffect, TaskTo, Live
  <1>7. CASE Hang(t)
    BY <1>0, <1>7 DEF Hang, TaskTo, Live
  <1>8. CASE Panic(t)
    BY <1>0, <1>8 DEF Panic, TaskTo, Live
  <1>9. QED
    BY <1>1, <1>2, <1>3, <1>4, <1>5, <1>6, <1>7, <1>8 DEF TaskStep

(***************************************************************************)
(* The shape of the state.                                                 *)
(***************************************************************************)

\* A call in start or at its deregistration knows its run, a start knows which
\* task comes next, and only a stop that waits holds handles.
CallOK ==
    \A c \in Callers :
        /\ call[c].pc \in InStart \cup {"deregister"} => call[c].run \in Runs
        /\ call[c].pc = "spawn" => call[c].at \in 1..5
        /\ call[c].pc = "push" => /\ call[c].at \in 1..4
                                  /\ SpawnOrder[call[c].at] \in config.enabled
        /\ call[c].pc # "join" => call[c].mine = {}

\* A server that runs, or is past the installation of its token, has one.
TokenSet == (is_running \/ Calling({"register", "identify"})) => shutdown_token \in Runs

Shape == TypeOK /\ CallOK /\ TokenSet

\* The enabled background tasks and the workers have a place in task.
LEMMA KindsCover ==
  ASSUME TypeOK
  PROVE  config.enabled \cup Workers \subseteq Kinds
  BY DEF TypeOK, Kinds

\* The calls keep their shape when one of them moves to a well shaped place.
LEMMA ShapeMoved ==
  ASSUME Shape, config' = config, NEW c \in Callers, NEW pc, NEW run, NEW at, NEW mine,
         Moved(c, pc, run, at, mine),
         [pc |-> pc, run |-> run, at |-> at, mine |-> mine] \in CallSet,
         pc \in InStart \cup {"deregister"} => run \in Runs,
         pc = "spawn" => at \in 1..5,
         pc = "push" => at \in 1..4 /\ SpawnOrder[at] \in config.enabled,
         pc # "join" => mine = {}
  PROVE  call' \in [Callers -> CallSet] /\ CallOK'
  <1>1. call \in [Callers -> CallSet]
    BY DEF Shape, TypeOK, CallSet
  <1>2. call' \in [Callers -> CallSet]
    BY <1>1 DEF Moved
  <1>3. CallOK'
    BY MovedFields DEF Shape, CallOK
  <1>4. QED
    BY <1>2, <1>3

\* The initial state is well shaped.
LEMMA ShapeInit == Init => Shape
  <1> SUFFICES ASSUME Init PROVE Shape
    OBVIOUS
  <1>1. NoCall \in CallSet
    BY DEF NoCall, CallSet
  <1>2. TypeOK
    <2>1. call \in [Callers -> CallSet]
      BY <1>1 DEF Init
    <2>2. task \in [Tasks -> {"none", "spawned", "idle", "busy", "hung", "ended"}]
      BY DEF Init
    <2>3. runs \in 0..MaxRuns /\ faults \in 0..MaxFaults
      BY LifecycleAssumption DEF Init
    <2>4. QED
      BY <2>1, <2>2, <2>3 DEF Init, TypeOK, CallSet
  <1>3. CallOK
    BY DEF Init, CallOK, NoCall, InStart
  <1>4. TokenSet
    BY DEF Init, TokenSet, Calling, NoCall
  <1>5. QED
    BY <1>2, <1>3, <1>4 DEF Shape

\* Every step of start, stop and the tasks keeps the state well shaped.
LEMMA ShapeNext == Shape /\ [Next]_vars => Shape'
  <1> SUFFICES ASSUME Shape, [Next]_vars PROVE Shape'
    OBVIOUS
  <1>0. TypeOK /\ CallOK /\ TokenSet
    BY DEF Shape
  <1>c. ASSUME NEW c \in Callers
        PROVE  /\ call[c] \in CallSet /\ call \in [Callers -> CallSet]
               /\ call[c].run \in Runs \cup {0} /\ call[c].at \in 0..5 /\ call[c].mine \subseteq Tasks
    BY <1>0 DEF TypeOK, CallSet
  <1>1. ASSUME NEW c \in Callers, StartLock(c) PROVE TypeOK' /\ CallOK'
    <2>1. Moved(c, "token", runs + 1, 0, {}) /\ config' = config
      BY <1>0, <1>1, StartMoves DEF StartLock
    <2>2. runs + 1 \in Runs /\ runs' \in 0..MaxRuns
      BY <1>0, <1>1, LifecycleAssumption DEF StartLock, TypeOK, Runs
    <2>3. [pc |-> "token", run |-> runs + 1, at |-> 0, mine |-> {}] \in CallSet
      BY <2>2 DEF CallSet
    <2>4. call' \in [Callers -> CallSet] /\ CallOK'
      BY <2>1, <2>2, <2>3, ShapeMoved
    <2>5. QED
      BY <1>0, <1>1, <2>2, <2>4 DEF StartLock, TypeOK, CallSet
  <1>2. ASSUME NEW c \in Callers, InstallToken(c) PROVE TypeOK' /\ CallOK'
    <2>1. call[c].run \in Runs /\ call[c].mine = {}
      BY <1>0, <1>2 DEF InstallToken, CallOK, InStart
    <2>2. PICK pc \in {"register", "identify"} : Moved(c, pc, call[c].run, call[c].at, call[c].mine)
      BY <1>0, <1>2, StartMoves
    <2>3. [pc |-> pc, run |-> call[c].run, at |-> call[c].at, mine |-> call[c].mine] \in CallSet
      BY <1>c DEF CallSet
    <2>4. call' \in [Callers -> CallSet] /\ CallOK'
      BY <1>2, <2>1, <2>2, <2>3, ShapeMoved DEF InstallToken
    <2>5. QED
      BY <1>0, <1>2, <2>1, <2>4 DEF InstallToken, TypeOK, CallSet
  <1>3. ASSUME NEW c \in Callers, RegisterServer(c) PROVE TypeOK' /\ CallOK'
    <2>1. call[c].run \in Runs /\ call[c].mine = {}
      BY <1>0, <1>3 DEF RegisterServer, CallOK, InStart
    <2>2. \/ Moved(c, "identify", call[c].run, call[c].at, call[c].mine)
          \/ Moved(c, "none", 0, 0, {})
      BY <1>0, <1>3, StartMoves
    <2>3. /\ [pc |-> "identify", run |-> call[c].run, at |-> call[c].at,
              mine |-> call[c].mine] \in CallSet
          /\ [pc |-> "none", run |-> 0, at |-> 0, mine |-> {}] \in CallSet
      BY <1>c DEF CallSet
    <2>4. call' \in [Callers -> CallSet] /\ CallOK'
      BY <1>3, <2>1, <2>2, <2>3, ShapeMoved DEF RegisterServer, InStart
    <2>5. /\ registered' \subseteq Runs /\ unsure' \subseteq Runs /\ faults' \in 0..MaxFaults
          /\ lock' \in Callers \cup {NoCaller}
      BY <1>0, <1>3, <2>1, LifecycleAssumption DEF RegisterServer, TypeOK
    <2>6. QED
      BY <1>0, <1>3, <2>4, <2>5 DEF RegisterServer, TypeOK, CallSet
  <1>4. ASSUME NEW c \in Callers, Identify(c) PROVE TypeOK' /\ CallOK'
    <2>1. call[c].run \in Runs /\ call[c].mine = {}
      BY <1>0, <1>4 DEF Identify, CallOK, InStart
    <2>2. Moved(c, "spawn", call[c].run, 1, call[c].mine)
      BY <1>0, <1>4, StartMoves
    <2>3. [pc |-> "spawn", run |-> call[c].run, at |-> 1, mine |-> call[c].mine] \in CallSet
      BY <1>c DEF CallSet
    <2>4. call' \in [Callers -> CallSet] /\ CallOK'
      <3>1. 1 \in 1..5
        OBVIOUS
      <3>2. QED
        BY <1>4, <2>1, <2>2, <2>3, <3>1, ShapeMoved DEF Identify
    <2>5. QED
      BY <1>0, <1>4, <2>1, <2>4 DEF Identify, TypeOK, CallSet
  <1>5. ASSUME NEW c \in Callers, Spawn(c) PROVE TypeOK' /\ CallOK'
    <2> DEFINE k == SpawnOrder[call[c].at]
    <2>1. call[c].run \in Runs /\ call[c].mine = {} /\ call[c].at \in 1..4
      BY <1>0, <1>5 DEF Spawn, CallOK, InStart
    <2>2. CASE k \in config.enabled
      <3>1. Moved(c, "push", call[c].run, call[c].at, call[c].mine)
        BY <1>0, <1>5, <2>2, StartMoves
      <3>2. [pc |-> "push", run |-> call[c].run, at |-> call[c].at, mine |-> call[c].mine]
              \in CallSet
        BY <1>c DEF CallSet
      <3>3. QED
        BY <1>5, <2>1, <2>2, <3>1, <3>2, ShapeMoved, <1>0 DEF Spawn, TypeOK, CallSet
    <2>3. CASE k \notin config.enabled
      <3>1. Moved(c, "spawn", call[c].run, call[c].at + 1, call[c].mine)
        BY <1>0, <1>5, <2>3, StartMoves
      <3>2. call[c].at + 1 \in 1..5 /\ call[c].at + 1 \in 0..5
        BY <2>1
      <3>3. [pc |-> "spawn", run |-> call[c].run, at |-> call[c].at + 1, mine |-> call[c].mine]
              \in CallSet
        BY <1>c, <3>2 DEF CallSet
      <3>4. QED
        BY <1>5, <2>1, <2>3, <3>1, <3>2, <3>3, ShapeMoved, <1>0 DEF Spawn, TypeOK, CallSet
    <2>4. QED
      BY <2>2, <2>3
  <1>6. ASSUME NEW c \in Callers, PushHandle(c) PROVE TypeOK' /\ CallOK'
    <2>1. /\ call[c].run \in Runs /\ call[c].mine = {} /\ call[c].at \in 1..4
          /\ SpawnOrder[call[c].at] \in config.enabled
      BY <1>0, <1>6 DEF PushHandle, CallOK, InStart
    <2>2. Moved(c, "spawn", call[c].run, call[c].at + 1, call[c].mine)
      BY <1>0, <1>6, StartMoves
    <2>3. call[c].at + 1 \in 1..5 /\ call[c].at + 1 \in 0..5
      BY <2>1
    <2>4. [pc |-> "spawn", run |-> call[c].run, at |-> call[c].at + 1, mine |-> call[c].mine]
            \in CallSet
      BY <1>c, <2>3 DEF CallSet
    <2>5. call' \in [Callers -> CallSet] /\ CallOK'
      BY <1>6, <2>1, <2>2, <2>3, <2>4, ShapeMoved DEF PushHandle
    <2>6. <<call[c].run, SpawnOrder[call[c].at]>> \in Tasks
      BY <1>0, <2>1, KindsCover DEF Tasks
    <2>7. QED
      BY <1>0, <1>6, <2>5, <2>6 DEF PushHandle, TypeOK, CallSet
  <1>7. ASSUME NEW c \in Callers, StartWorkers(c) PROVE TypeOK' /\ CallOK'
    <2>1. call[c].run \in Runs
      BY <1>0, <1>7 DEF StartWorkers, CallOK, InStart
    <2>2. {call[c].run} \X Workers \subseteq Tasks
      BY <1>0, <2>1, KindsCover DEF Tasks
    <2>3. [pc |-> "none", run |-> 0, at |-> 0, mine |-> {}] \in CallSet
      BY DEF CallSet
    <2>4. call' \in [Callers -> CallSet] /\ CallOK'
      BY <1>0, <1>7, <2>3, StartMoves, ShapeMoved DEF StartWorkers, InStart
    <2>5. task' \in [Tasks -> {"none", "spawned", "idle", "busy", "hung", "ended"}]
      BY <1>0, <1>7 DEF StartWorkers, TypeOK
    <2>6. worker_handles' \subseteq Tasks
      BY <1>0, <1>7, <2>2 DEF StartWorkers, TypeOK
    <2>7. QED
      BY <1>0, <1>7, <2>4, <2>5, <2>6 DEF StartWorkers, TypeOK, CallSet
  <1>8. ASSUME NEW c \in Callers, StopCancel(c) PROVE TypeOK' /\ CallOK'
    <2>1. [pc |-> "take_id", run |-> 0, at |-> 0, mine |-> {}] \in CallSet
      BY DEF CallSet
    <2>2. call' \in [Callers -> CallSet] /\ CallOK'
      BY <1>0, <1>8, <2>1, StopMoves, ShapeMoved DEF StopCancel, InStart
    <2>3. shutdown_token \in Runs
      BY <1>0, <1>8 DEF StopCancel, TokenSet
    <2>4. QED
      BY <1>0, <1>8, <2>2, <2>3 DEF StopCancel, TypeOK, CallSet
  <1>9. ASSUME NEW c \in Callers, TakeServerId(c) PROVE TypeOK' /\ CallOK'
    <2>1. call[c].mine = {} /\ server_id \in Runs \cup {0}
      BY <1>0, <1>9 DEF TakeServerId, CallOK, TypeOK
    <2>2. PICK pc \in {"take_handles", "deregister"} :
            /\ Moved(c, pc, server_id, call[c].at, call[c].mine)
            /\ pc = "deregister" => server_id # 0
      BY <1>0, <1>9, StopMoves
    <2>3. [pc |-> pc, run |-> server_id, at |-> call[c].at, mine |-> call[c].mine] \in CallSet
      BY <1>c, <2>1 DEF CallSet
    <2>4. call' \in [Callers -> CallSet] /\ CallOK'
      BY <1>9, <2>1, <2>2, <2>3, ShapeMoved DEF TakeServerId, InStart
    <2>5. QED
      BY <1>0, <1>9, <2>4 DEF TakeServerId, TypeOK, CallSet
  <1>10. ASSUME NEW c \in Callers, DeregisterServer(c) PROVE TypeOK' /\ CallOK'
    <2>1. call[c].mine = {} /\ call[c].run \in Runs
      BY <1>0, <1>10 DEF DeregisterServer, CallOK
    <2>2. [pc |-> "take_handles", run |-> call[c].run, at |-> call[c].at, mine |-> call[c].mine]
            \in CallSet
      BY <1>c DEF CallSet
    <2>3. call' \in [Callers -> CallSet] /\ CallOK'
      BY <1>0, <1>10, <2>1, <2>2, StopMoves, ShapeMoved DEF DeregisterServer, InStart
    <2>4. registered' \subseteq Runs /\ unsure' \subseteq Runs /\ faults' \in 0..MaxFaults
      BY <1>0, <1>10, <2>1, LifecycleAssumption DEF DeregisterServer, TypeOK
    <2>5. QED
      BY <1>0, <1>10, <2>3, <2>4 DEF DeregisterServer, TypeOK, CallSet
  <1>11. ASSUME NEW c \in Callers, TakeHandles(c) PROVE TypeOK' /\ CallOK'
    <2>1. [pc |-> "join", run |-> call[c].run, at |-> call[c].at, mine |-> worker_handles]
            \in CallSet
      BY <1>0, <1>c DEF CallSet, TypeOK
    <2>2. call' \in [Callers -> CallSet] /\ CallOK'
      BY <1>0, <1>11, <2>1, StopMoves, ShapeMoved DEF TakeHandles, InStart
    <2>3. QED
      BY <1>0, <1>11, <2>2 DEF TakeHandles, TypeOK, CallSet
  <1>12. ASSUME NEW c \in Callers, StopJoined(c) \/ StopTimeout(c) PROVE TypeOK' /\ CallOK'
    <2>1. [pc |-> "none", run |-> 0, at |-> 0, mine |-> {}] \in CallSet
      BY DEF CallSet
    <2>2. call' \in [Callers -> CallSet] /\ CallOK'
      BY <1>0, <1>12, <2>1, StopMoves, ShapeMoved DEF StopJoined, StopTimeout, InStart
    <2>3. aborted' \subseteq Tasks
      BY <1>0, <1>12, <1>c DEF StopJoined, StopTimeout, TypeOK
    <2>4. QED
      BY <1>0, <1>12, <2>2, <2>3 DEF StopJoined, StopTimeout, TypeOK, CallSet
  <1>13. ASSUME NEW t \in Tasks, TaskStep(t) \/ Hang(t) \/ Panic(t) PROVE TypeOK' /\ CallOK'
    <2>1. task' \in [Tasks -> {"none", "spawned", "idle", "busy", "hung", "ended"}]
      BY <1>0, <1>13, TaskMoves DEF TypeOK
    <2>2. died' \subseteq Tasks /\ faults' \in 0..MaxFaults
      BY <1>0, <1>13, TaskMoves, LifecycleAssumption DEF TypeOK
    <2>3. CallOK'
      BY <1>0, <1>13, TaskMoves DEF CallOK
    <2>4. QED
      BY <1>0, <1>13, <2>1, <2>2, <2>3, TaskMoves DEF TypeOK
  <1>14. CASE UNCHANGED vars
    BY <1>0, <1>14 DEF vars, TypeOK, CallOK, TokenSet, Shape, Calling
  <1>15. TypeOK' /\ CallOK'
    BY <1>1, <1>2, <1>3, <1>4, <1>5, <1>6, <1>7, <1>8, <1>9, <1>10, <1>11, <1>12, <1>13, <1>14
       DEF Next, StartStep, StopStep, Shape
  <1>16. TokenSet'
    <2>1. ASSUME NEW c \in Callers, InstallToken(c) PROVE TokenSet'
      BY <1>0, <2>1 DEF InstallToken, CallOK, InStart, TokenSet
    <2>2. ASSUME UNCHANGED <<shutdown_token>>, is_running' => is_running \/ Calling({"identify"}),
                 \A c \in Callers : call'[c].pc \in {"register", "identify"} =>
                                      call[c].pc \in {"register", "identify"}
          PROVE  TokenSet'
      BY <1>0, <2>2 DEF TokenSet, Calling
    <2>3. ASSUME NEW c \in Callers, NEW pc, NEW run, NEW at, NEW mine,
                 Moved(c, pc, run, at, mine),
                 pc \notin {"register", "identify"} \/ call[c].pc = "register",
                 UNCHANGED shutdown_token, is_running' => is_running \/ call[c].pc = "identify"
          PROVE  TokenSet'
      <3>1. call'[c].pc = pc /\ \A d \in Callers \ {c} : call'[d] = call[d]
        BY <1>0, <2>3, MovedFields
      <3>2. QED
        BY <2>2, <2>3, <3>1 DEF Calling
    <2>4. ASSUME NEW c \in Callers, StartStep(c) PROVE TokenSet'
      <3>1. CASE StartLock(c)
        BY <1>0, <2>3, <3>1, StartMoves DEF StartLock
      <3>2. CASE RegisterServer(c)
        BY <1>0, <2>3, <3>2, StartMoves DEF RegisterServer
      <3>3. CASE Identify(c)
        BY <1>0, <2>3, <3>3, StartMoves DEF Identify
      <3>4. CASE Spawn(c)
        BY <1>0, <2>3, <3>4, StartMoves DEF Spawn
      <3>5. CASE PushHandle(c)
        BY <1>0, <2>3, <3>5, StartMoves DEF PushHandle
      <3>6. CASE StartWorkers(c)
        BY <1>0, <2>3, <3>6, StartMoves DEF StartWorkers
      <3>7. QED
        BY <2>1, <2>4, <3>1, <3>2, <3>3, <3>4, <3>5, <3>6 DEF StartStep
    <2>5. ASSUME NEW c \in Callers, StopStep(c) PROVE TokenSet'
      <3>1. CASE StopCancel(c)
        BY <1>0, <2>3, <3>1, StopMoves DEF StopCancel
      <3>2. CASE TakeServerId(c)
        BY <1>0, <2>3, <3>2, StopMoves DEF TakeServerId
      <3>3. CASE DeregisterServer(c)
        BY <1>0, <2>3, <3>3, StopMoves DEF DeregisterServer
      <3>4. CASE TakeHandles(c)
        BY <1>0, <2>3, <3>4, StopMoves DEF TakeHandles
      <3>5. CASE StopJoined(c) \/ StopTimeout(c)
        BY <1>0, <2>3, <3>5, StopMoves DEF StopJoined, StopTimeout
      <3>6. QED
        BY <2>5, <3>1, <3>2, <3>3, <3>4, <3>5 DEF StopStep
    <2>6. ASSUME NEW t \in Tasks, TaskStep(t) \/ Hang(t) \/ Panic(t) PROVE TokenSet'
      BY <1>0, <2>6, TaskMoves DEF TokenSet, Calling
    <2>7. CASE UNCHANGED vars
      BY <1>0, <2>7 DEF vars, TokenSet, Calling
    <2>8. QED
      BY <2>4, <2>5, <2>6, <2>7 DEF Next
  <1>17. QED
    BY <1>15, <1>16 DEF Shape

\* The flag, the tokens, the handles, the calls and the tasks keep their shape
\* however starts and stops interleave.
THEOREM TypeCorrect == Spec => []TypeOK
  <1>1. Shape => TypeOK
    BY DEF Shape
  <1>2. QED
    BY <1>1, ShapeInit, ShapeNext, PTL DEF Spec

(***************************************************************************)
(* No task is lost.                                                        *)
(***************************************************************************)

\* Somebody will come back to task t: it is in the list or aborted, a stop
\* waits for it, or the start that has spawned it is about to list it.
Kept(t) ==
    \/ t \in worker_handles \cup aborted
    \/ \E c \in Callers : \/ t \in call[c].mine
                          \/ call[c].pc = "push" /\ t = <<call[c].run, SpawnOrder[call[c].at]>>

\* A call that neither waits nor has a task to list keeps none, so its steps
\* lose none.
LEMMA KeptByOthers ==
  ASSUME Shape, NEW c \in Callers, call[c].pc \notin {"push", "join"},
         \A d \in Callers \ {c} : call'[d] = call[d],
         worker_handles \subseteq worker_handles', aborted \subseteq aborted',
         NEW t, Kept(t)
  PROVE  Kept(t)'
  <1>1. call[c].mine = {}
    BY DEF Shape, CallOK
  <1>2. CASE t \in worker_handles \cup aborted
    BY <1>2 DEF Kept
  <1>3. CASE t \notin worker_handles \cup aborted
    <2>1. PICK d \in Callers :
            \/ t \in call[d].mine
            \/ call[d].pc = "push" /\ t = <<call[d].run, SpawnOrder[call[d].at]>>
      BY <1>3 DEF Kept
    <2>2. call'[d] = call[d]
      BY <1>1, <2>1
    <2>3. QED
      BY <2>1, <2>2 DEF Kept
  <1>4. QED
    BY <1>2, <1>3

\* No step of start, stop or a task lets go of a live task.
LEMMA LostNext == Shape /\ NoTaskLost /\ [Next]_vars => NoTaskLost'
  <1> SUFFICES ASSUME Shape, NoTaskLost, [Next]_vars, NEW t \in Tasks, Live(t)'
               PROVE  Kept(t)'
    BY DEF NoTaskLost, Kept
  <1>0. TypeOK /\ CallOK
    BY DEF Shape
  <1>k. Live(t) => Kept(t)
    BY DEF NoTaskLost, Kept
  <1>1. ASSUME NEW c \in Callers, NEW pc, NEW run, NEW at, NEW mine,
               Moved(c, pc, run, at, mine), call[c].pc \notin {"push", "join"},
               UNCHANGED <<task, worker_handles, aborted>>
        PROVE  Kept(t)'
    BY <1>0, <1>1, <1>k, MovedFields, KeptByOthers DEF Live
  <1>2. ASSUME NEW c \in Callers, Spawn(c) PROVE Kept(t)'
    <2> DEFINE k == SpawnOrder[call[c].at]
    <2>1. \A d \in Callers \ {c} : call'[d] = call[d]
      BY <1>0, <1>2, StartMoves, MovedFields
    <2>2. CASE Live(t)
      BY <1>2, <1>k, <2>1, <2>2, KeptByOthers DEF Spawn
    <2>3. CASE ~Live(t)
      <3>1. k \in config.enabled /\ t = <<call[c].run, k>>
        BY <1>0, <1>2, <2>3 DEF Spawn, Live, TypeOK
      <3>2. Moved(c, "push", call[c].run, call[c].at, call[c].mine)
        BY <1>0, <1>2, <3>1, StartMoves
      <3>3. call'[c].pc = "push" /\ call'[c].run = call[c].run /\ call'[c].at = call[c].at
        BY <1>0, <3>2, MovedFields
      <3>4. QED
        BY <3>1, <3>3 DEF Kept
    <2>4. QED
      BY <2>2, <2>3
  <1>3. ASSUME NEW c \in Callers, PushHandle(c) PROVE Kept(t)'
    <2>1. Kept(t)
      BY <1>3, <1>k DEF PushHandle, Live
    <2>2. /\ \A d \in Callers \ {c} : call'[d] = call[d]
          /\ aborted' = aborted
          /\ worker_handles' = worker_handles \cup {<<call[c].run, SpawnOrder[call[c].at]>>}
          /\ call[c].mine = {}
      BY <1>0, <1>3, StartMoves, MovedFields DEF PushHandle, CallOK
    <2>3. CASE t \in worker_handles'
      BY <2>3 DEF Kept
    <2>4. CASE t \notin worker_handles'
      <3>1. CASE t \in aborted
        BY <2>2, <3>1 DEF Kept
      <3>2. CASE t \notin aborted
        <4>1. PICK d \in Callers :
                \/ t \in call[d].mine
                \/ call[d].pc = "push" /\ t = <<call[d].run, SpawnOrder[call[d].at]>>
          BY <2>1, <2>2, <2>4, <3>2 DEF Kept
        <4>2. d # c
          BY <2>2, <2>4, <4>1
        <4>3. QED
          BY <2>2, <4>1, <4>2 DEF Kept
      <3>3. QED
        BY <3>1, <3>2
    <2>5. QED
      BY <2>3, <2>4
  <1>4. ASSUME NEW c \in Callers, StartWorkers(c) PROVE Kept(t)'
    <2>1. \A d \in Callers \ {c} : call'[d] = call[d]
      BY <1>0, <1>4, StartMoves, MovedFields
    <2>2. CASE t \in {call[c].run} \X Workers
      BY <1>4, <2>2 DEF StartWorkers, Kept
    <2>3. CASE t \notin {call[c].run} \X Workers
      <3>1. Live(t)
        BY <1>4, <2>3 DEF StartWorkers, Live
      <3>2. QED
        BY <1>4, <1>k, <2>1, <3>1, KeptByOthers DEF StartWorkers
    <2>4. QED
      BY <2>2, <2>3
  <1>5. ASSUME NEW c \in Callers, TakeHandles(c) PROVE Kept(t)'
    <2>1. Kept(t) /\ aborted' = aborted
      BY <1>5, <1>k DEF TakeHandles, Live
    <2>2. /\ \A d \in Callers \ {c} : call'[d] = call[d]
          /\ call'[c].mine = worker_handles /\ call[c].mine = {} /\ call[c].pc # "push"
      <3>1. Moved(c, "join", call[c].run, call[c].at, worker_handles)
        BY <1>0, <1>5, StopMoves
      <3>2. call[c].pc = "take_handles"
        BY <1>5 DEF TakeHandles
      <3>3. call[c].mine = {}
        BY <1>0, <3>2 DEF CallOK
      <3>4. QED
        BY <1>0, <3>1, <3>2, <3>3, MovedFields
    <2>3. CASE t \in worker_handles
      BY <2>2, <2>3 DEF Kept
    <2>4. CASE t \notin worker_handles
      <3>1. CASE t \in aborted
        BY <2>1, <3>1 DEF Kept
      <3>2. CASE t \notin aborted
        <4>1. PICK d \in Callers :
                \/ t \in call[d].mine
                \/ call[d].pc = "push" /\ t = <<call[d].run, SpawnOrder[call[d].at]>>
          BY <2>1, <2>4, <3>2 DEF Kept
        <4>2. call'[d] = call[d]
          BY <2>2, <4>1
        <4>3. QED
          BY <4>1, <4>2 DEF Kept
      <3>3. QED
        BY <3>1, <3>2
    <2>5. QED
      BY <2>3, <2>4
  <1>6. ASSUME NEW c \in Callers, StopJoined(c) \/ StopTimeout(c) PROVE Kept(t)'
    <2>1. Live(t) /\ Kept(t) /\ worker_handles' = worker_handles
      BY <1>6, <1>k DEF StopJoined, StopTimeout, Live
    <2>2. /\ \A d \in Callers \ {c} : call'[d] = call[d]
          /\ call[c].pc = "join" /\ aborted \subseteq aborted'
          /\ t \in call[c].mine => t \in aborted'
      BY <1>0, <1>6, <2>1, StopMoves, MovedFields DEF StopJoined, StopTimeout
    <2>3. CASE t \in worker_handles \cup aborted'
      BY <2>1, <2>3 DEF Kept
    <2>4. CASE t \notin worker_handles \cup aborted'
      <3>1. PICK d \in Callers :
              \/ t \in call[d].mine
              \/ call[d].pc = "push" /\ t = <<call[d].run, SpawnOrder[call[d].at]>>
        BY <2>1, <2>2, <2>4 DEF Kept
      <3>2. call'[d] = call[d]
        BY <2>2, <2>4, <3>1
      <3>3. QED
        BY <3>1, <3>2 DEF Kept
    <2>5. QED
      BY <2>3, <2>4
  <1>7. ASSUME NEW u \in Tasks, TaskStep(u) \/ Hang(u) \/ Panic(u) PROVE Kept(t)'
    <2>1. Live(t)
      BY <1>0, <1>7, TaskMoves DEF Live, TypeOK
    <2>2. QED
      BY <1>0, <1>7, <1>k, <2>1, TaskMoves DEF Kept
  <1>8. CASE UNCHANGED vars
    BY <1>8, <1>k DEF vars, Live, Kept
  <1>9. ASSUME NEW c \in Callers, StartStep(c) PROVE Kept(t)'
    <2>1. CASE StartLock(c)
      BY <1>0, <1>1, <2>1, StartMoves DEF StartLock
    <2>2. CASE InstallToken(c)
      BY <1>0, <1>1, <2>2, StartMoves DEF InstallToken
    <2>3. CASE RegisterServer(c)
      <3>1. \/ Moved(c, "identify", call[c].run, call[c].at, call[c].mine)
            \/ Moved(c, "none", 0, 0, {})
        BY <1>0, <2>3, StartMoves
      <3>2. QED
        BY <1>1, <2>3, <3>1 DEF RegisterServer
    <2>4. CASE Identify(c)
      BY <1>0, <1>1, <2>4, StartMoves DEF Identify
    <2>5. QED
      BY <1>2, <1>3, <1>4, <1>9, <2>1, <2>2, <2>3, <2>4 DEF StartStep
  <1>10. ASSUME NEW c \in Callers, StopStep(c) PROVE Kept(t)'
    <2>1. CASE StopCancel(c)
      BY <1>0, <1>1, <2>1, StopMoves DEF StopCancel
    <2>2. CASE TakeServerId(c)
      BY <1>0, <1>1, <2>2, StopMoves DEF TakeServerId
    <2>3. CASE DeregisterServer(c)
      BY <1>0, <1>1, <2>3, StopMoves DEF DeregisterServer
    <2>4. QED
      BY <1>5, <1>6, <1>10, <2>1, <2>2, <2>3 DEF StopStep
  <1>11. QED
    BY <1>7, <1>8, <1>9, <1>10 DEF Next

\* However starts and stops overlap, a live task is listed, waited for, about
\* to be listed, or aborted.
THEOREM TasksKept == Spec => []NoTaskLost
  <1>1. Init => NoTaskLost
    BY DEF Init, NoTaskLost, Live
  <1>2. QED
    BY <1>1, ShapeInit, ShapeNext, LostNext, PTL DEF Spec

(***************************************************************************)
(* Starts that do not overlap a stop.                                      *)
(***************************************************************************)

Locked == {"token", "register", "identify"}

\* Whoever holds the lock of is_running is alone: the server does not run, no
\* stop is in progress, and its token is the one that will be cancelled.
LockOK ==
    \A c \in Callers : call[c].pc \in Locked =>
        /\ lock = c /\ ~is_running /\ ~Calling(InStop)
        /\ call[c].run \notin cancelled
        /\ call[c].pc # "token" => shutdown_token = call[c].run
        /\ call[c].pc = "register" => "heartbeat" \in config.enabled

\* Run numbers are used once, and a server that runs has a token of its own
\* that nobody has cancelled, and no stop in progress.
RunOK ==
    /\ \A r \in cancelled : r <= runs
    /\ \A c \in Callers : call[c].pc \in InStart => call[c].run <= runs
    /\ is_running => /\ shutdown_token \notin cancelled /\ shutdown_token <= runs
                     /\ ~Calling(InStop)
                     /\ "heartbeat" \in config.enabled => server_id = shutdown_token

Serial == Shape /\ LockOK /\ RunOK

\* Nobody is in the locked part of start while the lock is free, and at most
\* one caller otherwise.
LEMMA LockHolder ==
  ASSUME LockOK
  PROVE  /\ lock = NoCaller => \A c \in Callers : call[c].pc \notin Locked
         /\ \A c, d \in Callers : call[c].pc \in Locked /\ call[d].pc \in Locked => c = d
  BY LifecycleAssumption DEF LockOK

\* A move of one call outside the lock that touches neither the flag nor the
\* tokens.
LEMMA SerialMove ==
  ASSUME Serial, NEW c \in Callers, NEW pc, NEW run, NEW at, NEW mine,
         Moved(c, pc, run, at, mine),
         UNCHANGED <<config, is_running, lock, shutdown_token, cancelled, runs>>,
         is_running => server_id' = server_id,
         call[c].pc \notin Locked, pc \notin Locked,
         pc \in InStop => call[c].pc \in InStop,
         pc \in InStart => call[c].pc \in InStart /\ run = call[c].run
  PROVE  LockOK' /\ RunOK'
  <1>1. /\ call'[c].pc = pc /\ call'[c].run = run
        /\ \A d \in Callers \ {c} : call'[d] = call[d]
    BY MovedFields DEF Serial, Shape
  <1>2. Calling(InStop)' => Calling(InStop)
    BY <1>1 DEF Calling
  <1>3. LockOK'
    BY <1>1, <1>2 DEF Serial, LockOK
  <1>4. RunOK'
    BY <1>1, <1>2 DEF Serial, RunOK
  <1>5. QED
    BY <1>3, <1>4

\* The initial state.
LEMMA SerialInit == Init => Serial
  BY ShapeInit DEF Init, Serial, LockOK, RunOK, Locked, InStart, NoCall

\* Every step keeps starts and stops apart.
LEMMA SerialNext ==
  ASSUME ~OverlappingStart, Serial, [Next]_vars
  PROVE  Serial'
  <1>0. Shape /\ Shape' /\ TypeOK /\ CallOK /\ LockOK /\ RunOK
    BY ShapeNext DEF Serial, Shape
  <1>r. runs \in Nat /\ cancelled \subseteq Runs /\ \A r \in Runs : r \in Nat
    BY <1>0, LifecycleAssumption DEF TypeOK, Runs
  <1> SUFFICES LockOK' /\ RunOK'
    BY <1>0 DEF Serial
  <1>1. ASSUME NEW c \in Callers, StartLock(c) PROVE LockOK' /\ RunOK'
    <2>1. /\ call'[c].pc = "token" /\ call'[c].run = runs + 1
          /\ \A d \in Callers \ {c} : call'[d] = call[d]
      BY <1>0, <1>1, StartMoves, MovedFields
    <2>2. /\ lock = NoCaller /\ lock' = c /\ ~is_running /\ ~is_running' /\ ~Calling(InStop)
          /\ cancelled' = cancelled /\ runs' = runs + 1
      BY <1>1 DEF StartLock
    <2>3. ~Calling(InStop)'
      BY <2>1, <2>2 DEF Calling, InStop
    <2>4. \A d \in Callers : call[d].pc \notin Locked
      BY <1>0, <2>2, LockHolder
    <2>5. runs + 1 \notin cancelled
      BY <1>0, <1>r DEF RunOK
    <2>6. LockOK'
      BY <2>1, <2>2, <2>3, <2>4, <2>5 DEF LockOK
    <2>7. \A d \in Callers : call[d].pc \in InStart => call[d].run \in Nat
      BY <1>0, <1>r DEF CallOK
    <2>8. RunOK'
      BY <1>0, <1>r, <2>1, <2>2, <2>7 DEF RunOK
    <2>9. QED
      BY <2>6, <2>8
  <1>2. ASSUME NEW c \in Callers, InstallToken(c) PROVE LockOK' /\ RunOK'
    <2>1. /\ call'[c].pc = IF "heartbeat" \in config.enabled THEN "register" ELSE "identify"
          /\ call'[c].run = call[c].run
          /\ \A d \in Callers \ {c} : call'[d] = call[d]
      BY <1>0, <1>2, StartMoves, MovedFields
    <2>2. /\ call[c].pc = "token" /\ shutdown_token' = call[c].run
          /\ UNCHANGED <<config, is_running, lock, cancelled, runs, server_id>>
      BY <1>2 DEF InstallToken
    <2>3. \A d \in Callers \ {c} : call[d].pc \notin Locked
      BY <1>0, <2>2, LockHolder DEF Locked
    <2>4. lock = c /\ ~is_running /\ ~Calling(InStop) /\ call[c].run \notin cancelled
      BY <1>0, <2>2 DEF LockOK, Locked
    <2>5. ~Calling(InStop)'
      BY <2>1, <2>4 DEF Calling, InStop
    <2>6. LockOK'
      BY <2>1, <2>2, <2>3, <2>4, <2>5 DEF LockOK
    <2>7. RunOK'
      BY <1>0, <2>1, <2>2, <2>4 DEF RunOK, InStart
    <2>8. QED
      BY <2>6, <2>7
  <1>3. ASSUME NEW c \in Callers, RegisterServer(c) PROVE LockOK' /\ RunOK'
    <2>1. /\ call[c].pc = "register"
          /\ UNCHANGED <<config, is_running, shutdown_token, cancelled, runs, server_id>>
      BY <1>3 DEF RegisterServer
    <2>2. \A d \in Callers \ {c} : call[d].pc \notin Locked
      BY <1>0, <2>1, LockHolder DEF Locked
    <2>3. /\ lock = c /\ ~is_running /\ ~Calling(InStop) /\ call[c].run \notin cancelled
          /\ shutdown_token = call[c].run
      BY <1>0, <2>1 DEF LockOK, Locked
    <2>4. CASE Moved(c, "identify", call[c].run, call[c].at, call[c].mine) /\ lock' = lock
      <3>1. /\ call'[c].pc = "identify" /\ call'[c].run = call[c].run
            /\ \A d \in Callers \ {c} : call'[d] = call[d]
        BY <1>0, <2>4, MovedFields
      <3>2. ~Calling(InStop)'
        BY <2>3, <3>1 DEF Calling, InStop
      <3>3. LockOK'
        BY <2>1, <2>2, <2>3, <2>4, <3>1, <3>2 DEF LockOK
      <3>4. RunOK'
        BY <1>0, <2>1, <2>3, <3>1 DEF RunOK, InStart
      <3>5. QED
        BY <3>3, <3>4
    <2>5. CASE Moved(c, "none", 0, 0, {})
      <3>1. call'[c].pc = "none" /\ \A d \in Callers \ {c} : call'[d] = call[d]
        BY <1>0, <2>5, MovedFields
      <3>2. LockOK'
        BY <2>2, <3>1 DEF LockOK, Locked
      <3>3. RunOK'
        BY <1>0, <2>1, <2>3, <3>1 DEF RunOK, InStart
      <3>4. QED
        BY <3>2, <3>3
    <2>6. QED
      BY <1>0, <1>3, <2>4, <2>5, StartMoves
  <1>4. ASSUME NEW c \in Callers, Identify(c) PROVE LockOK' /\ RunOK'
    <2>1. /\ call'[c].pc = "spawn" /\ call'[c].run = call[c].run
          /\ \A d \in Callers \ {c} : call'[d] = call[d]
      BY <1>0, <1>4, StartMoves, MovedFields
    <2>2. /\ call[c].pc = "identify"
          /\ UNCHANGED <<config, shutdown_token, cancelled, runs>>
          /\ "heartbeat" \in config.enabled => server_id' = call[c].run
      BY <1>4 DEF Identify
    <2>3. \A d \in Callers \ {c} : call[d].pc \notin Locked
      BY <1>0, <2>2, LockHolder DEF Locked
    <2>4. ~Calling(InStop) /\ call[c].run \notin cancelled /\ shutdown_token = call[c].run
      BY <1>0, <2>2 DEF LockOK, Locked
    <2>5. ~Calling(InStop)'
      BY <2>1, <2>4 DEF Calling, InStop
    <2>6. LockOK'
      BY <2>1, <2>3 DEF LockOK, Locked
    <2>7. call[c].run <= runs
      BY <1>0, <2>2 DEF RunOK, InStart
    <2>8. RunOK'
      BY <1>0, <2>1, <2>2, <2>4, <2>5, <2>7 DEF RunOK, InStart
    <2>9. QED
      BY <2>6, <2>8
  <1>5. ASSUME NEW c \in Callers, Spawn(c) \/ PushHandle(c) \/ StartWorkers(c)
        PROVE  LockOK' /\ RunOK'
    <2>1. \E pc, at, mine :
             /\ \E run : /\ Moved(c, pc, run, at, mine)
                         /\ pc \in InStart => run = call[c].run
             /\ pc \notin Locked \cup InStop
      BY <1>0, <1>5, StartMoves DEF Locked, InStop, InStart
    <2>2. /\ call[c].pc \in InStart /\ call[c].pc \notin Locked
          /\ UNCHANGED <<config, is_running, lock, shutdown_token, cancelled, runs, server_id>>
      BY <1>5 DEF Spawn, PushHandle, StartWorkers, InStart, Locked
    <2>3. QED
      BY <2>1, <2>2, SerialMove
  <1>6. ASSUME NEW c \in Callers, StopCancel(c) PROVE LockOK' /\ RunOK'
    <2>1. /\ call'[c].pc = "take_id" /\ \A d \in Callers \ {c} : call'[d] = call[d]
      BY <1>0, <1>6, StopMoves, MovedFields
    <2>2. /\ lock = NoCaller /\ is_running /\ ~is_running' /\ runs' = runs
          /\ cancelled' = cancelled \cup {shutdown_token}
      BY <1>6 DEF StopCancel
    <2>3. \A d \in Callers : call[d].pc \notin Locked
      BY <1>0, <2>2, LockHolder
    <2>4. LockOK'
      BY <2>1, <2>3 DEF LockOK, Locked
    <2>5. shutdown_token <= runs
      BY <1>0, <2>2 DEF RunOK
    <2>6. RunOK'
      BY <1>0, <2>1, <2>2, <2>5 DEF RunOK, InStart
    <2>7. QED
      BY <2>4, <2>6
  <1>7. ASSUME NEW c \in Callers,
               \/ TakeServerId(c) \/ DeregisterServer(c) \/ TakeHandles(c)
               \/ StopJoined(c) \/ StopTimeout(c)
        PROVE  LockOK' /\ RunOK'
    <2>1. \E pc, run, at, mine :
             Moved(c, pc, run, at, mine) /\ pc \notin Locked \cup InStart
      BY <1>0, <1>7, StopMoves DEF Locked, InStart
    <2>2. /\ call[c].pc \in InStop /\ call[c].pc \notin Locked
          /\ UNCHANGED <<config, is_running, lock, shutdown_token, cancelled, runs>>
      BY <1>7 DEF TakeServerId, DeregisterServer, TakeHandles, StopJoined, StopTimeout,
         InStop, Locked
    <2>3. ~is_running
      BY <1>0, <2>2 DEF RunOK, Calling
    <2>4. QED
      BY <2>1, <2>2, <2>3, SerialMove
  <1>8. ASSUME NEW t \in Tasks, TaskStep(t) \/ Hang(t) \/ Panic(t) PROVE LockOK' /\ RunOK'
    BY <1>0, <1>8, TaskMoves DEF LockOK, RunOK, Calling
  <1>9. CASE UNCHANGED vars
    BY <1>0, <1>9 DEF vars, LockOK, RunOK, Calling
  <1>10. QED
    BY <1>1, <1>2, <1>3, <1>4, <1>5, <1>6, <1>7, <1>8, <1>9 DEF Next, StartStep, StopStep

(***************************************************************************)
(* The registry.                                                           *)
(***************************************************************************)

\* Row r is somebody's business: the server runs or is being stopped under
\* that id, or a call is between the row and the id.
RowCared(r) ==
    \/ server_id = r /\ (is_running \/ Calling({"take_id"}))
    \/ \E c \in Callers : call[c].pc \in {"identify", "deregister"} /\ call[c].run = r

RowOwned ==
    /\ registered # {} => "heartbeat" \in config.enabled
    /\ \A r \in registered \ unsure : RowCared(r)

\* A step of c that changes neither flag, id nor registry, and before which c
\* was not between the row and the id.
LEMMA RowUntouched ==
  ASSUME RowOwned, NEW c \in Callers, \A d \in Callers \ {c} : call'[d] = call[d],
         call[c].pc \notin {"take_id", "identify", "deregister"},
         UNCHANGED <<config, is_running, server_id, registered, unsure>>
  PROVE  RowOwned'
  BY DEF RowOwned, RowCared, Calling

\* Every step keeps the rows cared for.
LEMMA RowNext ==
  ASSUME Serial, RowOwned, [Next]_vars
  PROVE  RowOwned'
  <1>0. TypeOK /\ CallOK /\ LockOK /\ RunOK
    BY DEF Serial, Shape
  <1>1. ASSUME NEW c \in Callers,
               \/ StartLock(c) \/ InstallToken(c) \/ Spawn(c) \/ PushHandle(c) \/ StartWorkers(c)
        PROVE  RowOwned'
    <2>1. \A d \in Callers \ {c} : call'[d] = call[d]
      BY <1>0, <1>1, StartMoves, MovedFields
    <2>2. QED
      BY <1>1, <2>1, RowUntouched
         DEF StartLock, InstallToken, Spawn, PushHandle, StartWorkers
  <1>2. ASSUME NEW c \in Callers, TakeHandles(c) \/ StopJoined(c) \/ StopTimeout(c)
        PROVE  RowOwned'
    <2>1. \A d \in Callers \ {c} : call'[d] = call[d]
      BY <1>0, <1>2, StopMoves, MovedFields
    <2>2. QED
      BY <1>2, <2>1, RowUntouched DEF TakeHandles, StopJoined, StopTimeout
  <1>3. ASSUME NEW c \in Callers, RegisterServer(c) PROVE RowOwned'
    <2>1. /\ call[c].pc = "register" /\ "heartbeat" \in config.enabled
          /\ UNCHANGED <<config, is_running, server_id>>
      BY <1>0, <1>3 DEF RegisterServer, LockOK, Locked
    <2>2. CASE /\ Moved(c, "identify", call[c].run, call[c].at, call[c].mine)
               /\ registered' = registered \cup {call[c].run} /\ unsure' = unsure
      <3>1. /\ call'[c].pc = "identify" /\ call'[c].run = call[c].run
            /\ \A d \in Callers \ {c} : call'[d] = call[d]
        BY <1>0, <2>2, MovedFields
      <3>2. QED
        BY <2>1, <2>2, <3>1 DEF RowOwned, RowCared, Calling
    <2>3. CASE /\ Moved(c, "none", 0, 0, {})
               /\ registered' \in {registered, registered \cup {call[c].run}}
               /\ unsure' = unsure \cup {call[c].run}
      <3>1. \A d \in Callers \ {c} : call'[d] = call[d]
        BY <1>0, <2>3, MovedFields
      <3>2. QED
        BY <2>1, <2>3, <3>1 DEF RowOwned, RowCared, Calling
    <2>4. QED
      BY <1>0, <1>3, <2>2, <2>3, StartMoves
  <1>4. ASSUME NEW c \in Callers, Identify(c) PROVE RowOwned'
    <2>1. /\ call[c].pc = "identify" /\ is_running'
          /\ UNCHANGED <<config, registered, unsure>>
          /\ "heartbeat" \in config.enabled => server_id' = call[c].run
      BY <1>4 DEF Identify
    <2>2. ~is_running /\ ~Calling(InStop)
      BY <1>0, <2>1 DEF LockOK, Locked
    <2>3. ASSUME NEW r \in registered \ unsure PROVE server_id' = r
      <3>1. RowCared(r) /\ "heartbeat" \in config.enabled
        BY DEF RowOwned
      <3>2. PICK d \in Callers : call[d].pc \in {"identify", "deregister"} /\ call[d].run = r
        BY <2>2, <3>1 DEF RowCared, Calling, InStop
      <3>3. call[d].pc = "identify"
        BY <2>2, <3>2 DEF Calling, InStop
      <3>4. d = c
        BY <1>0, <2>1, <3>3, LockHolder DEF Locked
      <3>5. QED
        BY <2>1, <3>1, <3>2, <3>4
    <2>4. QED
      BY <2>1, <2>3 DEF RowOwned, RowCared
  <1>5. ASSUME NEW c \in Callers, StopCancel(c) PROVE RowOwned'
    <2>1. call'[c].pc = "take_id" /\ \A d \in Callers \ {c} : call'[d] = call[d]
      BY <1>0, <1>5, StopMoves, MovedFields
    <2>2. call[c].pc = "none" /\ UNCHANGED <<config, server_id, registered, unsure>>
      BY <1>5 DEF StopCancel
    <2>3. Calling({"take_id"})'
      BY <2>1 DEF Calling
    <2>4. QED
      BY <2>1, <2>2, <2>3 DEF RowOwned, RowCared
  <1>6. ASSUME NEW c \in Callers, TakeServerId(c) PROVE RowOwned'
    <2>1. /\ call[c].pc = "take_id" /\ UNCHANGED <<config, is_running, registered, unsure>>
      BY <1>6 DEF TakeServerId
    <2>2. /\ call'[c].pc = IF server_id = 0 THEN "take_handles" ELSE "deregister"
          /\ call'[c].run = server_id /\ \A d \in Callers \ {c} : call'[d] = call[d]
      BY <1>0, <1>6, StopMoves, MovedFields
    <2>3. ASSUME NEW r \in registered \ unsure PROVE RowCared(r)'
      <3>1. RowCared(r) /\ r # 0
        BY <1>0, LifecycleAssumption DEF RowOwned, TypeOK, Runs
      <3>2. CASE server_id = r
        BY <2>2, <3>1, <3>2 DEF RowCared
      <3>3. CASE server_id # r
        BY <2>1, <2>2, <3>1, <3>3 DEF RowCared
      <3>4. QED
        BY <3>2, <3>3
    <2>4. QED
      BY <2>1, <2>3 DEF RowOwned
  <1>7. ASSUME NEW c \in Callers, DeregisterServer(c) PROVE RowOwned'
    <2>1. /\ call[c].pc = "deregister" /\ UNCHANGED <<config, is_running, server_id>>
          /\ registered' \ unsure' \subseteq (registered \ unsure) \ {call[c].run}
          /\ registered' \subseteq registered
      BY <1>7 DEF DeregisterServer
    <2>2. \A d \in Callers \ {c} : call'[d] = call[d]
      BY <1>0, <1>7, StopMoves, MovedFields
    <2>3. ASSUME NEW r \in registered' \ unsure' PROVE RowCared(r)'
      <3>1. RowCared(r) /\ r # call[c].run
        BY <2>1 DEF RowOwned
      <3>2. QED
        BY <2>1, <2>2, <3>1 DEF RowCared, Calling
    <2>4. QED
      BY <2>1, <2>3 DEF RowOwned
  <1>8. ASSUME NEW t \in Tasks, TaskStep(t) \/ Hang(t) \/ Panic(t) PROVE RowOwned'
    BY <1>0, <1>8, TaskMoves DEF RowOwned, RowCared, Calling
  <1>9. CASE UNCHANGED vars
    BY <1>9 DEF vars, RowOwned, RowCared, Calling
  <1>10. QED
    BY <1>1, <1>2, <1>3, <1>4, <1>5, <1>6, <1>7, <1>8, <1>9 DEF Next, StartStep, StopStep

\* When no start overlaps a stop, a server that is down with no call in progress
\* has no row in the registry except for a registry call that failed.
THEOREM RegistryLeftClean ==
  ASSUME ~OverlappingStart
  PROVE  Spec => []NoStaleRegistration
  <1>1. Serial /\ [Next]_vars => Serial'
    BY SerialNext
  <1>2. Serial /\ RowOwned /\ [Next]_vars => RowOwned'
    BY RowNext
  <1>3. Init => RowOwned
    BY DEF Init, RowOwned
  <1>4. RowOwned => NoStaleRegistration
    BY DEF RowOwned, RowCared, NoStaleRegistration, Calling, InStart, InStop
  <1>5. QED
    BY <1>1, <1>2, <1>3, <1>4, SerialInit, PTL DEF Spec

(***************************************************************************)
(* A server that says it runs is served.                                   *)
(***************************************************************************)

Current(r) == r \in cancelled \/ (is_running /\ r = shutdown_token)

\* Handles and unfinished starts belong to the current or a cancelled run; what
\* a stop waits for or has aborted, to a cancelled one.
OldOK ==
    /\ \A t \in worker_handles : Current(t[1])
    /\ \A c \in Callers : /\ call[c].pc \in {"spawn", "push"} => Current(call[c].run)
                          /\ \A t \in call[c].mine : t[1] \in cancelled
    /\ \A t \in aborted : t[1] \in cancelled

\* A task that works, or has failed on its own.
Tended(t) == Live(t) \/ t \in died

\* Some start of the current run has yet to list its task of kind k.
Pending(k) ==
    \E c \in Callers :
        /\ call[c].pc \in {"spawn", "push"} /\ call[c].run = shutdown_token
        /\ k \in Workers \/ \E i \in 1..4 : i >= call[c].at /\ k = SpawnOrder[i]

\* Each task of the current run is listed, or a start will list it, and the one
\* it is about to list has been spawned.
ServeOK ==
    /\ is_running =>
          \A k \in config.enabled \cup Workers :
              \/ <<shutdown_token, k>> \in worker_handles /\ Tended(<<shutdown_token, k>>)
              \/ Pending(k)
    /\ \A c \in Callers :
          call[c].pc = "push" /\ call[c].run \notin cancelled =>
              Tended(<<call[c].run, SpawnOrder[call[c].at]>>)

Serving == Serial /\ OldOK /\ ServeOK

\* start goes through all background tasks.
LEMMA SpawnOrderCovers == \A k \in Background : \E i \in 1..4 : k = SpawnOrder[i]
  <1>1. /\ SpawnOrder[1] = "scheduler" /\ SpawnOrder[2] = "recurring"
        /\ SpawnOrder[3] = "cleanup" /\ SpawnOrder[4] = "heartbeat"
    BY DEF SpawnOrder
  <1>2. QED
    BY <1>1 DEF Background

\* A step of one call that changes no handles, aborts, flag, token or tasks.
LEMMA OldMove ==
  ASSUME OldOK, NEW c \in Callers, \A d \in Callers \ {c} : call'[d] = call[d],
         \A t \in call'[c].mine : t[1] \in cancelled,
         (call[c].pc \in {"spawn", "push"} => Current(call[c].run))',
         UNCHANGED <<worker_handles, aborted>>, cancelled \subseteq cancelled',
         \A r : Current(r) => Current(r)'
  PROVE  OldOK'
  BY DEF OldOK

\* Each step keeps handles and aborts apart from the current run.
LEMMA OldNext ==
  ASSUME Serial, OldOK, [Next]_vars
  PROVE  OldOK'
  <1>0. TypeOK /\ CallOK /\ LockOK /\ RunOK
    BY DEF Serial, Shape
  <1>1. ASSUME NEW c \in Callers, StartLock(c) \/ InstallToken(c) \/ RegisterServer(c)
        PROVE  OldOK'
    <2>1. /\ \A d \in Callers \ {c} : call'[d] = call[d]
          /\ call'[c].pc \notin {"spawn", "push"}
          /\ call'[c].mine = {} \/ call'[c].mine = call[c].mine
      BY <1>0, <1>1, StartMoves, MovedFields
    <2>2. ~is_running /\ ~is_running' /\ UNCHANGED <<worker_handles, aborted, cancelled>>
      BY <1>0, <1>1 DEF StartLock, InstallToken, RegisterServer, LockOK, Locked
    <2>3. QED
      BY <2>1, <2>2, OldMove DEF OldOK, Current
  <1>2. ASSUME NEW c \in Callers, Identify(c) PROVE OldOK'
    <2>1. /\ \A d \in Callers \ {c} : call'[d] = call[d]
          /\ call'[c].run = call[c].run /\ call'[c].mine = call[c].mine
      BY <1>0, <1>2, StartMoves, MovedFields
    <2>2. /\ call[c].pc = "identify" /\ is_running'
          /\ UNCHANGED <<worker_handles, aborted, cancelled, shutdown_token>>
      BY <1>2 DEF Identify
    <2>3. shutdown_token = call[c].run
      BY <1>0, <2>2 DEF LockOK, Locked
    <2>4. QED
      BY <2>1, <2>2, <2>3, OldMove DEF OldOK, Current
  <1>3. ASSUME NEW c \in Callers, Spawn(c) PROVE OldOK'
    <2>1. /\ \A d \in Callers \ {c} : call'[d] = call[d]
          /\ call'[c].run = call[c].run /\ call'[c].mine = call[c].mine
      BY <1>0, <1>3, StartMoves, MovedFields
    <2>2. /\ call[c].pc = "spawn"
          /\ UNCHANGED <<worker_handles, aborted, cancelled, shutdown_token, is_running>>
      BY <1>3 DEF Spawn
    <2>3. QED
      BY <2>1, <2>2, OldMove DEF OldOK, Current
  <1>4. ASSUME NEW c \in Callers, PushHandle(c) \/ StartWorkers(c) PROVE OldOK'
    <2>1. /\ \A d \in Callers \ {c} : call'[d] = call[d]
          /\ call'[c].pc = "spawn" => call'[c].run = call[c].run
          /\ call'[c].pc \in {"spawn", "none"}
          /\ call'[c].mine = {} \/ call'[c].mine = call[c].mine
      BY <1>0, <1>4, StartMoves, MovedFields
    <2>2. /\ call[c].pc \in {"spawn", "push"}
          /\ UNCHANGED <<aborted, cancelled, shutdown_token, is_running>>
          /\ \A t \in worker_handles' : t \in worker_handles \/ t[1] = call[c].run
      BY <1>4 DEF PushHandle, StartWorkers
    <2>3. QED
      BY <2>1, <2>2 DEF OldOK, Current
  <1>5. ASSUME NEW c \in Callers, StopCancel(c) PROVE OldOK'
    <2>1. /\ \A d \in Callers \ {c} : call'[d] = call[d]
          /\ call'[c].pc = "take_id" /\ call'[c].mine = {}
      BY <1>0, <1>5, StopMoves, MovedFields
    <2>2. /\ cancelled' = cancelled \cup {shutdown_token}
          /\ UNCHANGED <<worker_handles, aborted>>
      BY <1>5 DEF StopCancel
    <2>3. \A r : Current(r) => Current(r)'
      BY <2>2 DEF Current
    <2>4. QED
      BY <2>1, <2>2, <2>3, OldMove
  <1>6. ASSUME NEW c \in Callers, TakeServerId(c) \/ DeregisterServer(c) PROVE OldOK'
    <2>1. /\ \A d \in Callers \ {c} : call'[d] = call[d]
          /\ call'[c].pc \notin {"spawn", "push"} /\ call'[c].mine = call[c].mine
      BY <1>0, <1>6, StopMoves, MovedFields
    <2>2. UNCHANGED <<worker_handles, aborted, cancelled, shutdown_token, is_running>>
      BY <1>6 DEF TakeServerId, DeregisterServer
    <2>3. QED
      BY <2>1, <2>2, OldMove DEF OldOK, Current
  <1>7. ASSUME NEW c \in Callers, TakeHandles(c) \/ StopJoined(c) \/ StopTimeout(c)
        PROVE  OldOK'
    <2>1. /\ \A d \in Callers \ {c} : call'[d] = call[d]
          /\ call'[c].pc \in {"join", "none"}
          /\ call'[c].mine = {} \/ call'[c].mine = worker_handles
      BY <1>0, <1>7, StopMoves, MovedFields
    <2>2. /\ call[c].pc \in InStop
          /\ UNCHANGED <<cancelled, shutdown_token, is_running>>
          /\ worker_handles' \subseteq worker_handles
          /\ aborted' \subseteq aborted \cup call[c].mine
      BY <1>7 DEF TakeHandles, StopJoined, StopTimeout, InStop
    <2>3. ~is_running
      BY <1>0, <2>2 DEF RunOK, Calling
    <2>4. \A t \in worker_handles : t[1] \in cancelled
      BY <2>3 DEF OldOK, Current
    <2>5. QED
      BY <2>1, <2>2, <2>4 DEF OldOK, Current
  <1>8. ASSUME NEW t \in Tasks, TaskStep(t) \/ Hang(t) \/ Panic(t) PROVE OldOK'
    BY <1>0, <1>8, TaskMoves DEF OldOK, Current
  <1>9. CASE UNCHANGED vars
    BY <1>9 DEF vars, OldOK, Current
  <1>10. QED
    BY <1>1, <1>2, <1>3, <1>4, <1>5, <1>6, <1>7, <1>8, <1>9 DEF Next, StartStep, StopStep

\* Each step keeps the current run served.
LEMMA ServeNext ==
  ASSUME Serving, Serial', [Next]_vars
  PROVE  ServeOK'
  <1>0. TypeOK /\ CallOK /\ LockOK /\ RunOK /\ OldOK /\ ServeOK
    BY DEF Serving, Serial, Shape
  <1>t. task \in [Tasks -> {"none", "spawned", "idle", "busy", "hung", "ended"}]
    BY <1>0 DEF TypeOK
  <1>m. ASSUME NEW k \in config.enabled \cup Workers, is_running
        PROVE  <<shutdown_token, k>> \in Tasks
    BY <1>0, <1>m, KindsCover DEF Tasks, Serving, Serial, Shape, TokenSet
  <1>n. \A d \in Callers : call[d].pc = "push" => <<call[d].run, SpawnOrder[call[d].at]>> \in Tasks
    BY <1>0, KindsCover DEF Tasks, CallOK, InStart
  <1>1. ASSUME NEW c \in Callers, ~is_running', UNCHANGED <<task, died>>,
               cancelled \subseteq cancelled', call'[c].pc # "push",
               \A d \in Callers \ {c} : call'[d] = call[d]
        PROVE  ServeOK'
    BY <1>0, <1>1 DEF ServeOK, Tended, Live
  <1>2. ASSUME NEW c \in Callers, StartLock(c) \/ InstallToken(c) \/ RegisterServer(c)
        PROVE  ServeOK'
    <2>1. call'[c].pc # "push" /\ \A d \in Callers \ {c} : call'[d] = call[d]
      BY <1>0, <1>2, StartMoves, MovedFields
    <2>2. ~is_running' /\ UNCHANGED <<task, died, cancelled>>
      BY <1>0, <1>2 DEF StartLock, InstallToken, RegisterServer, LockOK, Locked
    <2>3. QED
      BY <1>1, <2>1, <2>2
  <1>3. ASSUME NEW c \in Callers, StopStep(c) PROVE ServeOK'
    <2>1. call'[c].pc # "push" /\ \A d \in Callers \ {c} : call'[d] = call[d]
      BY <1>0, <1>3, StopMoves, MovedFields DEF StopStep
    <2>2. cancelled \subseteq cancelled' /\ UNCHANGED <<task, died>>
      BY <1>3 DEF StopStep, StopCancel, TakeServerId, DeregisterServer, TakeHandles,
         StopJoined, StopTimeout
    <2>3. ~is_running'
      <3>1. CASE StopCancel(c)
        BY <3>1 DEF StopCancel
      <3>2. CASE ~StopCancel(c)
        <4>1. call[c].pc \in InStop /\ is_running' = is_running
          BY <1>3, <3>2 DEF StopStep, TakeServerId, DeregisterServer, TakeHandles,
             StopJoined, StopTimeout, InStop
        <4>2. QED
          BY <1>0, <4>1 DEF RunOK, Calling
      <3>3. QED
        BY <3>1, <3>2
    <2>4. QED
      BY <1>1, <2>1, <2>2, <2>3
  <1>4. ASSUME NEW c \in Callers, Identify(c) PROVE ServeOK'
    <2>1. /\ call'[c].pc = "spawn" /\ call'[c].run = call[c].run /\ call'[c].at = 1
          /\ \A d \in Callers \ {c} : call'[d] = call[d]
      BY <1>0, <1>4, StartMoves, MovedFields
    <2>2. /\ call[c].pc = "identify" /\ UNCHANGED <<task, died, cancelled, shutdown_token, config>>
      BY <1>4 DEF Identify
    <2>3. shutdown_token' = call'[c].run
      BY <1>0, <2>1, <2>2 DEF LockOK, Locked
    <2>4. config.enabled \subseteq Background
      BY <1>0, LifecycleAssumption DEF TypeOK, ServerConfigs
    <2>5. \A i \in 1..4 : i >= call'[c].at
      BY <2>1
    <2>6. ASSUME NEW k \in config.enabled \cup Workers PROVE Pending(k)'
      BY <2>1, <2>3, <2>4, <2>5, SpawnOrderCovers DEF Pending
    <2>7. QED
      BY <1>0, <2>1, <2>2, <2>6 DEF ServeOK, Tended, Live
  <1>5. ASSUME NEW c \in Callers, Spawn(c) PROVE ServeOK'
    <2> DEFINE b == SpawnOrder[call[c].at]
    <2>1. /\ call[c].pc = "spawn" /\ call[c].at \in 1..4 /\ call[c].run \in Runs
          /\ UNCHANGED <<config, is_running, died, cancelled, shutdown_token, worker_handles>>
          /\ task' = IF b \in config.enabled THEN [task EXCEPT ![<<call[c].run, b>>] = "spawned"]
                     ELSE task
      BY <1>0, <1>5 DEF Spawn, CallOK, InStart
    <2>2. /\ call'[c].pc = (IF b \in config.enabled THEN "push" ELSE "spawn")
          /\ call'[c].run = call[c].run
          /\ call'[c].at = (IF b \in config.enabled THEN call[c].at ELSE call[c].at + 1)
          /\ \A d \in Callers \ {c} : call'[d] = call[d]
      BY <1>0, <1>5, StartMoves, MovedFields
    <2>3. \A t \in Tasks : Tended(t) => Tended(t)'
      <3>1. ASSUME NEW t \in Tasks, Tended(t) PROVE Tended(t)'
        <4>1. CASE task'[t] = task[t]
          BY <2>1, <3>1, <4>1 DEF Tended, Live
        <4>2. CASE task'[t] # task[t]
          BY <1>t, <2>1, <4>2 DEF Tended, Live
        <4>3. QED
          BY <4>1, <4>2
      <3>2. QED
        BY <3>1
    <2>4. b \in config.enabled => Tended(<<call[c].run, b>>)'
      <3>1. b \in config.enabled => <<call[c].run, b>> \in Tasks
        BY <1>0, <2>1, KindsCover DEF Tasks
      <3>2. CASE b \in config.enabled
        <4>1. PICK u \in Tasks : u = <<call[c].run, b>>
          BY <3>1, <3>2
        <4>2. task' = [task EXCEPT ![u] = "spawned"]
          BY <2>1, <3>2, <4>1
        <4>3. Live(u)'
          <5>1. task'[u] = "spawned"
            BY <1>t, <4>2
          <5>2. QED
            BY <5>1 DEF Live
        <4>4. u = <<call[c].run, SpawnOrder[call[c].at]>>'
          BY <2>2, <3>2, <4>1
        <4>5. QED
          BY <4>3, <4>4 DEF Tended
      <3>3. QED
        BY <3>2
    <2>5. ASSUME NEW k \in config.enabled \cup Workers, Pending(k) PROVE Pending(k)'
      <3>1. PICK d \in Callers :
              /\ call[d].pc \in {"spawn", "push"} /\ call[d].run = shutdown_token
              /\ k \in Workers \/ \E i \in 1..4 : i >= call[d].at /\ k = SpawnOrder[i]
        BY <2>5 DEF Pending
      <3>2. /\ call'[d].pc \in {"spawn", "push"} /\ call'[d].run = shutdown_token'
        BY <2>1, <2>2, <3>1
      <3>3. k \in Workers \/ \E i \in 1..4 : i >= call'[d].at /\ k = SpawnOrder[i]
        <4>1. CASE d # c \/ k \in Workers
          BY <2>2, <3>1, <4>1
        <4>2. CASE d = c /\ k \notin Workers
          <5>1. PICK i \in 1..4 : i >= call[c].at /\ k = SpawnOrder[i]
            BY <3>1, <4>2
          <5>2. k \in config.enabled
            BY <2>5, <4>2
          <5>3. i >= call'[c].at
            BY <2>1, <2>2, <5>1, <5>2
          <5>4. QED
            BY <4>2, <5>1, <5>3
        <4>3. QED
          BY <4>1, <4>2
      <3>4. QED
        BY <3>2, <3>3 DEF Pending
    <2>6. QED
      BY <1>0, <1>m, <1>n, <2>1, <2>2, <2>3, <2>4, <2>5 DEF ServeOK
  <1>6. ASSUME NEW c \in Callers, PushHandle(c) PROVE ServeOK'
    <2> DEFINE b == SpawnOrder[call[c].at]
    <2>1. /\ call[c].pc = "push" /\ call[c].at \in 1..4 /\ b \in config.enabled
          /\ UNCHANGED <<config, is_running, died, cancelled, shutdown_token, task>>
          /\ worker_handles' = worker_handles \cup {<<call[c].run, b>>}
      BY <1>0, <1>6 DEF PushHandle, CallOK
    <2>2. /\ call'[c].pc = "spawn" /\ call'[c].run = call[c].run
          /\ call'[c].at = call[c].at + 1
          /\ \A d \in Callers \ {c} : call'[d] = call[d]
      BY <1>0, <1>6, StartMoves, MovedFields
    <2>3. \A t : Tended(t) <=> Tended(t)'
      BY <2>1 DEF Tended, Live
    <2>4. ASSUME is_running, NEW k \in config.enabled \cup Workers, Pending(k)
          PROVE  \/ Pending(k)'
                 \/ <<shutdown_token, k>> \in worker_handles' /\ Tended(<<shutdown_token, k>>)
      <3>1. PICK d \in Callers :
              /\ call[d].pc \in {"spawn", "push"} /\ call[d].run = shutdown_token
              /\ k \in Workers \/ \E i \in 1..4 : i >= call[d].at /\ k = SpawnOrder[i]
        BY <2>4 DEF Pending
      <3>2. /\ call'[d].pc \in {"spawn", "push"} /\ call'[d].run = shutdown_token'
        BY <2>1, <2>2, <3>1
      <3>3. CASE d # c \/ k \in Workers
        BY <2>2, <3>1, <3>2, <3>3 DEF Pending
      <3>4. CASE d = c /\ k \notin Workers
        <4>1. PICK i \in 1..4 : i >= call[c].at /\ k = SpawnOrder[i]
          BY <3>1, <3>4
        <4>2. CASE i = call[c].at
          <5>1. shutdown_token \notin cancelled
            BY <1>0, <2>4 DEF RunOK
          <5>2. Tended(<<call[c].run, b>>)
            BY <1>0, <2>1, <3>1, <3>4, <5>1 DEF ServeOK
          <5>3. QED
            BY <2>1, <3>1, <3>4, <4>1, <4>2, <5>2
        <4>3. CASE i # call[c].at
          <5>1. i >= call'[c].at
            BY <2>1, <2>2, <4>1, <4>3
          <5>2. QED
            BY <3>2, <3>4, <4>1, <5>1 DEF Pending
        <4>4. QED
          BY <4>2, <4>3
      <3>5. QED
        BY <3>3, <3>4
    <2>5. QED
      BY <1>0, <2>1, <2>2, <2>3, <2>4 DEF ServeOK
  <1>7. ASSUME NEW c \in Callers, StartWorkers(c) PROVE ServeOK'
    <2>1. /\ call[c].pc = "spawn" /\ call[c].at = 5 /\ call[c].run \in Runs
          /\ UNCHANGED <<config, is_running, died, cancelled, shutdown_token>>
          /\ worker_handles' = worker_handles \cup ({call[c].run} \X Workers)
          /\ task' = [t \in Tasks |-> IF t \in {call[c].run} \X Workers THEN "spawned"
                                      ELSE task[t]]
      BY <1>0, <1>7 DEF StartWorkers, CallOK, InStart
    <2>2. /\ call'[c].pc = "none" /\ \A d \in Callers \ {c} : call'[d] = call[d]
      BY <1>0, <1>7, StartMoves, MovedFields
    <2>3. \A t \in Tasks : Tended(t) => Tended(t)'
      BY <2>1 DEF Tended, Live
    <2>4. {call[c].run} \X Workers \subseteq Tasks
      BY <1>0, <2>1, KindsCover DEF Tasks
    <2>5. \A t \in {call[c].run} \X Workers : Tended(t)'
      BY <2>1, <2>4 DEF Tended, Live
    <2>6. ASSUME NEW k \in config.enabled \cup Workers, Pending(k)
          PROVE  \/ Pending(k)'
                 \/ <<shutdown_token, k>> \in worker_handles' /\ Tended(<<shutdown_token, k>>)'
      <3>1. PICK d \in Callers :
              /\ call[d].pc \in {"spawn", "push"} /\ call[d].run = shutdown_token
              /\ k \in Workers \/ \E i \in 1..4 : i >= call[d].at /\ k = SpawnOrder[i]
        BY <2>6 DEF Pending
      <3>2. CASE d # c
        BY <2>1, <2>2, <3>1, <3>2 DEF Pending
      <3>3. CASE d = c
        <4>1. k \in Workers
          BY <2>1, <3>1, <3>3
        <4>2. <<shutdown_token, k>> \in {call[c].run} \X Workers
          BY <3>1, <3>3, <4>1
        <4>3. QED
          BY <2>1, <2>5, <4>2
      <3>4. QED
        BY <3>2, <3>3
    <2>7. QED
      BY <1>0, <1>m, <1>n, <2>1, <2>2, <2>3, <2>6 DEF ServeOK
  <1>8. ASSUME NEW u \in Tasks, TaskStep(u) \/ Hang(u) \/ Panic(u) PROVE ServeOK'
    <2>1. ASSUME NEW t \in Tasks, t[1] \notin cancelled, Tended(t) PROVE Tended(t)'
      <3>1. t \notin aborted /\ ~Cancelled(t)
        BY <1>0, <2>1 DEF OldOK, Cancelled
      <3>2. CASE t = u
        BY <1>0, <1>8, <2>1, <3>1, <3>2, TaskMoves DEF Tended, Live
      <3>3. CASE t # u
        BY <1>0, <1>t, <1>8, <2>1, <3>3, TaskMoves DEF Tended, Live
      <3>4. QED
        BY <3>2, <3>3
    <2>2. /\ UNCHANGED <<config, is_running, cancelled, shutdown_token, worker_handles, call>>
      BY <1>0, <1>8, TaskMoves
    <2>3. \A r, k : <<r, k>> \in Tasks /\ r \notin cancelled /\ Tended(<<r, k>>) => Tended(<<r, k>>)'
      BY <2>1
    <2>4. is_running => shutdown_token \notin cancelled
      BY <1>0 DEF RunOK
    <2>5. \A k : Pending(k) => Pending(k)'
      BY <2>2 DEF Pending
    <2>6. QED
      BY <1>0, <1>m, <1>n, <2>2, <2>3, <2>4, <2>5 DEF ServeOK
  <1>9. CASE UNCHANGED vars
    BY <1>0, <1>9 DEF vars, ServeOK, Tended, Live, Pending
  <1>10. QED
    BY <1>2, <1>3, <1>4, <1>5, <1>6, <1>7, <1>8, <1>9 DEF Next, StartStep

\* When no start overlaps a stop, a server that says it runs, its start over,
\* has an uncancelled token, all its tasks listed, alive or dead on their own,
\* none aborted, and with heartbeats the id the next stop needs.
THEOREM RunningServed ==
  ASSUME ~OverlappingStart
  PROVE  Spec => []RunningIsServed
  <1>1. Serving /\ [Next]_vars => Serving'
    BY SerialNext, OldNext, ServeNext DEF Serving
  <1>2. Init => Serving
    <2>1. Init => OldOK
      BY DEF Init, OldOK, NoCall
    <2>2. Init => ServeOK
      BY DEF Init, ServeOK, NoCall
    <2>3. QED
      BY <2>1, <2>2, SerialInit DEF Serving
  <1>3. Serving => RunningIsServed
    <2> SUFFICES ASSUME Serving, is_running, ~Calling(InStart)
                 PROVE  /\ shutdown_token \notin cancelled
                        /\ \A t \in TasksOf(shutdown_token) :
                              t \in worker_handles /\ t \notin aborted /\ (Live(t) \/ t \in died)
                        /\ ("heartbeat" \in config.enabled) => server_id = shutdown_token
      BY DEF RunningIsServed
    <2>1. shutdown_token \notin cancelled
      BY DEF Serving, Serial, RunOK
    <2>2. ("heartbeat" \in config.enabled) => server_id = shutdown_token
      BY DEF Serving, Serial, RunOK
    <2>3. ASSUME NEW t \in TasksOf(shutdown_token)
          PROVE  t \in worker_handles /\ t \notin aborted /\ (Live(t) \/ t \in died)
      <3>1. PICK k \in config.enabled \cup Workers : t = <<shutdown_token, k>>
        BY <2>3 DEF TasksOf
      <3>2. ~Pending(k)
        BY DEF Pending, Calling, InStart
      <3>3. t \in worker_handles /\ Tended(t)
        BY <3>1, <3>2 DEF Serving, ServeOK
      <3>4. t \notin aborted
        BY <2>1, <3>1 DEF Serving, OldOK
      <3>5. QED
        BY <3>3, <3>4 DEF Tended
    <2>4. QED
      BY <2>1, <2>2, <2>3
  <1>4. QED
    BY <1>1, <1>2, <1>3, PTL DEF Spec

==============================================================================
