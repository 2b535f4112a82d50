--------------------------- MODULE Dashboard_proofs ---------------------------
(***************************************************************************)
(* Theorems about Dashboard, for every set of calls, of tokens and of      *)
(* configurations, any number of sockets, any capacity of the broadcast    *)
(* channel and any number of changes and failures.                         *)
(***************************************************************************)
EXTENDS Dashboard, TLAPS

CallSet == [pc: {"idle", "bind", "serve", "join", "returned"},
            token: Tokens \cup {NoToken}, unbound: BOOLEAN]
PeriodicSet == [pc: {"none", "wait", "counts", "lists"}, got: Versions \cup {Nothing}]
ConnSet == [pc: {"none", "counts", "lists", "loop", "gone"}, got: Versions \cup {Nothing},
            buffer: Seq(Versions), lagged: BOOLEAN, sent: Versions \cup {Nothing}]

------------------------------------------------------------------------------
(* The calls, their tasks and their tokens.                                *)

\* A call that began has a token of its caller, statistics about to be broadcast
\* have been read, and none are newer than the jobs.
CallsOK ==
    /\ call \in [Calls -> CallSet] /\ cancelled \subseteq Tokens
    /\ \A r \in Calls : call[r].pc # "idle" => call[r].token \in Tokens

PeriodicOK ==
    /\ version \in Versions /\ broadcasted \in Versions \cup {Nothing}
    /\ periodic \in [Calls -> PeriodicSet]
    /\ \A r \in Calls : periodic[r].pc = "lists" => periodic[r].got \in 0..version
    /\ broadcasted <= version

\* A task runs only for a call that passed its checks and has not ended it.
TasksOK ==
    \A r \in Calls : periodic[r].pc # "none" =>
        call[r].pc # "idle" /\ (call[r].pc = "returned" => call[r].unbound)

\* Only a configuration that the refusals let through is served.
GuardsOK ==
    /\ config \in RunConfigs
    /\ \A r \in Calls : call[r].pc \in {"bind", "serve", "join"} => MayStart(config)
    /\ request \in [route: Routes \cup {"none"}, anonymous: BOOLEAN, foreign: BOOLEAN]

\* The page: before it is loaded nothing of it is there, and its timer is never
\* a handle that was cleared and kept.
PageOK ==
    /\ loaded \in BOOLEAN /\ connected \in BOOLEAN
    /\ sock \in [Sockets -> {"free", "connecting", "open"}]
    /\ reconnectInterval \in {"null", "live"}
    /\ ~loaded => reconnectInterval = "null" /\ \A s \in Sockets : sock[s] = "free"

\* What a receiver holds ends with what was broadcast last; where it holds
\* nothing, the statistics read for the connection, or sent to it, are as new.
ConnOK(c) ==
    /\ c \in ConnSet
    /\ c.pc \notin {"none", "gone"} /\ ~c.lagged =>
          /\ c.buffer # <<>> => c.buffer[Len(c.buffer)] = broadcasted
          /\ c.buffer = <<>> => /\ c.pc = "lists" => c.got >= broadcasted
                                /\ c.pc = "loop" /\ c.sent # Nothing => c.sent >= broadcasted
    /\ c.pc \in {"counts", "lists"} => c.sent = Nothing
    /\ c.pc = "lists" => c.got \in Versions

ConnsOK ==
    /\ conn \in [Sockets -> ConnSet]
    /\ grid \in Versions \cup {Nothing}
    /\ \A s \in Sockets : ConnOK(conn[s])

DashInv ==
    /\ CallsOK /\ PeriodicOK /\ TasksOK /\ GuardsOK /\ OnlyGuardedHandled
    /\ PageOK /\ PageKeepsTrying /\ ConnsOK
    /\ wedged \in BOOLEAN /\ faults \in 0..MaxFaults

------------------------------------------------------------------------------
(* Steps, by what they leave alone.                                        *)

\* The steps other than those of a call and of a cancellation.
LEMMA CallFrame ==
    ASSUME [Next]_vars
    PROVE  \/ UNCHANGED <<call, cancelled>>
           \/ \E r \in Calls : \/ \E token \in Tokens : Start(r, token)
                               \/ Bind(r) \/ BindFails(r) \/ ServeEnds(r) \/ Join(r)
           \/ \E token \in Tokens : Cancel(token)
<1>1. CASE JobsChange \/ Wedge \/ Recover \/ RequestDone \/ Load
  BY <1>1 DEF JobsChange, Wedge, Recover, RequestDone, Load, serverVars
<1>2. CASE \E req \in RunRequests : Request(req)
  BY <1>2 DEF Request
<1>3. CASE \E r \in Calls : PeriodicStep(r) \/ PeriodicFails(r)
  BY <1>3 DEF PeriodicStep, PeriodicTick, PeriodicCounts, PeriodicBroadcast, PeriodicFails
<1>4. CASE \E s \in Sockets : ConnStep(s) \/ ConnFails(s) \/ PageEvent(s) \/ IntervalFires(s)
  BY <1>4 DEF ConnStep, Upgrade, ConnCounts, SendInitial, SendNext, ConnEnds, ConnFails, PageEvent,
              OnOpen, OnClose, IntervalFires, serverVars
<1>5. CASE UNCHANGED vars
  BY <1>5 DEF vars, serverVars
<1> QED BY <1>1, <1>2, <1>3, <1>4, <1>5 DEF Next, CallStep

\* Starting a call, its end and its task are what changes the tasks.
LEMMA PeriodicFrame ==
    ASSUME [Next]_vars
    PROVE  \/ UNCHANGED periodic
           \/ \E r \in Calls : \/ \E token \in Tokens : Start(r, token)
                               \/ Join(r) \/ PeriodicTick(r) \/ PeriodicCounts(r)
                               \/ PeriodicBroadcast(r) \/ PeriodicFails(r)
<1>1. CASE JobsChange \/ Wedge \/ Recover \/ RequestDone \/ Load
  BY <1>1 DEF JobsChange, Wedge, Recover, RequestDone, Load, serverVars
<1>2. CASE \/ \E req \in RunRequests : Request(req)
           \/ \E token \in Tokens : Cancel(token)
  BY <1>2 DEF Request, Cancel
<1>3. CASE \E r \in Calls : Bind(r) \/ BindFails(r) \/ ServeEnds(r)
  BY <1>3 DEF Bind, BindFails, ServeEnds
<1>4. CASE \E s \in Sockets : ConnStep(s) \/ ConnFails(s) \/ PageEvent(s) \/ IntervalFires(s)
  BY <1>4 DEF ConnStep, Upgrade, ConnCounts, SendInitial, SendNext, ConnEnds, ConnFails, PageEvent,
              OnOpen, OnClose, IntervalFires, serverVars
<1>5. CASE UNCHANGED vars
  BY <1>5 DEF vars, serverVars
<1> QED BY <1>1, <1>2, <1>3, <1>4, <1>5 DEF Next, CallStep, PeriodicStep

\* The jobs change by one version at a time.
LEMMA VersionFrame ==
    ASSUME [Next]_vars
    PROVE  UNCHANGED version \/ (version < MaxChanges /\ version' = version + 1)
<1>1. CASE JobsChange \/ Wedge \/ Recover \/ RequestDone \/ Load
  BY <1>1 DEF JobsChange, Wedge, Recover, RequestDone, Load
<1>2. CASE \/ \E req \in RunRequests : Request(req)
           \/ \E token \in Tokens : Cancel(token)
  BY <1>2 DEF Request, Cancel
<1>3. CASE \E r \in Calls : \/ \E token \in Tokens : Start(r, token)
                            \/ CallStep(r) \/ PeriodicStep(r) \/ PeriodicFails(r)
  BY <1>3 DEF Start, CallStep, Bind, BindFails, ServeEnds, Join, PeriodicStep, PeriodicTick,
              PeriodicCounts, PeriodicBroadcast, PeriodicFails
<1>4. CASE \E s \in Sockets : ConnStep(s) \/ ConnFails(s) \/ PageEvent(s) \/ IntervalFires(s)
  BY <1>4 DEF ConnStep, Upgrade, ConnCounts, SendInitial, SendNext, ConnEnds, ConnFails, PageEvent,
              OnOpen, OnClose, IntervalFires
<1>5. CASE UNCHANGED vars
  BY <1>5 DEF vars
<1> QED BY <1>1, <1>2, <1>3, <1>4, <1>5 DEF Next

\* Only the task's broadcast changes what was broadcast last.
LEMMA BroadcastFrame ==
    ASSUME [Next]_vars
    PROVE  UNCHANGED broadcasted \/ \E r \in Calls : PeriodicBroadcast(r)
<1>1. CASE JobsChange \/ Wedge \/ Recover \/ RequestDone \/ Load
  BY <1>1 DEF JobsChange, Wedge, Recover, RequestDone, Load, serverVars
<1>2. CASE \/ \E req \in RunRequests : Request(req)
           \/ \E token \in Tokens : Cancel(token)
  BY <1>2 DEF Request, Cancel
<1>3. CASE \E r \in Calls : \/ \E token \in Tokens : Start(r, token)
                            \/ CallStep(r) \/ PeriodicTick(r) \/ PeriodicCounts(r)
                            \/ PeriodicFails(r)
  BY <1>3 DEF Start, CallStep, Bind, BindFails, ServeEnds, Join, PeriodicTick,
              PeriodicCounts, PeriodicFails
<1>4. CASE \E s \in Sockets : ConnStep(s) \/ ConnFails(s) \/ PageEvent(s) \/ IntervalFires(s)
  BY <1>4 DEF ConnStep, Upgrade, ConnCounts, SendInitial, SendNext, ConnEnds, ConnFails, PageEvent,
              OnOpen, OnClose, IntervalFires, serverVars
<1>5. CASE UNCHANGED vars
  BY <1>5 DEF vars, serverVars
<1> QED BY <1>1, <1>2, <1>3, <1>4, <1>5 DEF Next, PeriodicStep

------------------------------------------------------------------------------
(* The calls and their tasks.                                              *)

LEMMA CallsStep ==
    ASSUME CallsOK, [Next]_vars
    PROVE  CallsOK'
<1> USE DEF CallsOK
<1>0. ASSUME NEW r \in Calls
      PROVE  call[r] \in CallSet
  BY <1>0
<1>1. CASE UNCHANGED <<call, cancelled>>
  BY <1>1
<1>2. ASSUME NEW r \in Calls, NEW token \in Tokens, Start(r, token)
      PROVE  CallsOK'
  <2> DEFINE new(pc) == [call[r] EXCEPT !.pc = pc, !.token = token]
  <2>1. \A pc \in {"bind", "returned"} :
            new(pc) \in CallSet /\ new(pc).token \in Tokens
    BY <1>0 DEF CallSet
  <2>2. PICK pc \in {"bind", "returned"} : call' = [call EXCEPT ![r] = new(pc)]
    BY <1>2 DEF Start
  <2>3. cancelled' = cancelled
    BY <1>2 DEF Start
  <2> HIDE DEF new
  <2> QED BY <2>1, <2>2, <2>3
<1>3. ASSUME NEW r \in Calls, Bind(r) \/ Join(r)
      PROVE  CallsOK'
  <2> DEFINE new(pc) == [call[r] EXCEPT !.pc = pc]
  <2>1. call[r].token \in Tokens
    BY <1>3 DEF Bind, Join
  <2>2. \A pc \in {"serve", "returned"} : new(pc) \in CallSet /\ new(pc).token \in Tokens
    BY <1>0, <2>1 DEF CallSet
  <2>3. PICK pc \in {"serve", "returned"} : call' = [call EXCEPT ![r] = new(pc)]
    BY <1>3 DEF Bind, Join
  <2>4. cancelled' = cancelled
    BY <1>3 DEF Bind, Join
  <2> HIDE DEF new
  <2> QED BY <2>2, <2>3, <2>4
<1>4. ASSUME NEW r \in Calls, BindFails(r)
      PROVE  CallsOK'
  <2> DEFINE new == [call[r] EXCEPT !.pc = "returned", !.unbound = TRUE]
  <2>1. call[r].token \in Tokens
    BY <1>4 DEF BindFails
  <2>2. new \in CallSet /\ new.token \in Tokens
    BY <1>0, <2>1 DEF CallSet
  <2>3. call' = [call EXCEPT ![r] = new] /\ cancelled' = cancelled
    BY <1>4 DEF BindFails
  <2> HIDE DEF new
  <2> QED BY <2>2, <2>3
<1>5. ASSUME NEW r \in Calls, ServeEnds(r)
      PROVE  CallsOK'
  <2> DEFINE new == [call[r] EXCEPT !.pc = "join"]
  <2>1. call[r].token \in Tokens
    BY <1>5 DEF ServeEnds
  <2>2. new \in CallSet /\ new.token \in Tokens
    BY <1>0, <2>1 DEF CallSet
  <2>3. call' = [call EXCEPT ![r] = new] /\ cancelled' = cancelled \cup {call[r].token}
    BY <1>5 DEF ServeEnds
  <2> HIDE DEF new
  <2> QED BY <2>1, <2>2, <2>3
<1>6. ASSUME NEW token \in Tokens, Cancel(token)
      PROVE  CallsOK'
  BY <1>6 DEF Cancel
<1> QED BY <1>1, <1>2, <1>3, <1>4, <1>5, <1>6, CallFrame

LEMMA PeriodicsStep ==
    ASSUME PeriodicOK, [Next]_vars
    PROVE  PeriodicOK'
<1> USE DEF PeriodicOK
<1>0. ASSUME NEW r \in Calls
      PROVE  periodic[r] \in PeriodicSet
  BY <1>0
<1>v. version' \in Versions /\ version <= version' /\ version \in Nat /\ version' \in Nat
  BY VersionFrame, DashboardAssumption DEF Versions
<1>b. broadcasted' \in Versions \cup {Nothing} /\ broadcasted' <= version'
  <2>1. CASE UNCHANGED broadcasted
    BY <2>1, <1>v, DashboardAssumption DEF Versions, Nothing
  <2>2. ASSUME NEW r \in Calls, PeriodicBroadcast(r)
        PROVE  broadcasted' \in Versions \cup {Nothing} /\ broadcasted' <= version'
    BY <2>2, <1>v, DashboardAssumption DEF PeriodicBroadcast, Versions
  <2> QED BY <2>1, <2>2, BroadcastFrame
<1>n. ASSUME NEW r \in Calls, NEW new \in PeriodicSet, periodic' = [periodic EXCEPT ![r] = new],
             new.pc = "lists" => new.got \in 0..version'
      PROVE  PeriodicOK'
  BY <1>n, <1>v, <1>b
<1>1. CASE UNCHANGED periodic
  BY <1>1, <1>v, <1>b
<1>2. ASSUME NEW r \in Calls,
             \/ \E token \in Tokens : Start(r, token)
             \/ Join(r) \/ PeriodicTick(r)
      PROVE  PeriodicOK'
  <2>1. CASE periodic' = periodic
    BY <2>1, <1>v, <1>b
  <2>2. ASSUME NEW pc \in {"wait", "none", "counts"}, periodic' = [periodic EXCEPT ![r].pc = pc]
        PROVE  PeriodicOK'
    <3> DEFINE new == [periodic[r] EXCEPT !.pc = pc]
    <3>1. new \in PeriodicSet /\ new.pc # "lists"
      BY <1>0 DEF PeriodicSet
    <3>2. periodic' = [periodic EXCEPT ![r] = new]
      BY <2>2
    <3> HIDE DEF new
    <3> QED BY <3>1, <3>2, <1>n
  <2> QED BY <1>2, <2>1, <2>2 DEF Start, Join, PeriodicTick
<1>3. ASSUME NEW r \in Calls, PeriodicCounts(r)
      PROVE  PeriodicOK'
  <2> DEFINE new == [periodic[r] EXCEPT !.pc = "lists", !.got = version]
  <2>1. new \in PeriodicSet /\ new.got = version
    BY <1>0 DEF PeriodicSet
  <2>2. periodic' = [periodic EXCEPT ![r] = new]
    BY <1>3 DEF PeriodicCounts
  <2>3. new.got \in 0..version'
    BY <2>1, <1>v
  <2> HIDE DEF new
  <2> QED BY <2>1, <2>2, <2>3, <1>n
<1>4. ASSUME NEW r \in Calls, PeriodicBroadcast(r) \/ PeriodicFails(r)
      PROVE  PeriodicOK'
  <2> DEFINE new == [pc |-> "wait", got |-> Nothing]
  <2>1. new \in PeriodicSet /\ new.pc # "lists"
    BY DEF PeriodicSet
  <2>2. periodic' = [periodic EXCEPT ![r] = new]
    BY <1>4 DEF PeriodicBroadcast, PeriodicFails
  <2> HIDE DEF new
  <2> QED BY <2>1, <2>2, <1>n
<1> QED BY <1>1, <1>2, <1>3, <1>4, PeriodicFrame

LEMMA TasksStep ==
    ASSUME CallsOK, PeriodicOK, TasksOK, [Next]_vars
    PROVE  TasksOK'
<1>0. /\ \A r \in Calls : call[r] \in CallSet /\ periodic[r] \in PeriodicSet
      /\ call \in [Calls -> CallSet] /\ periodic \in [Calls -> PeriodicSet]
  BY DEF CallsOK, PeriodicOK
<1>1. ASSUME NEW r \in Calls, NEW token \in Tokens, Start(r, token)
      PROVE  TasksOK'
  <2>1. CASE call' = [call EXCEPT ![r].pc = "bind", ![r].token = token]
    <3>1. call'[r].pc = "bind" /\ \A q \in Calls \ {r} : call'[q] = call[q]
      BY <2>1, <1>0 DEF CallSet
    <3>2. \A q \in Calls \ {r} : periodic'[q] = periodic[q]
      BY <1>1, <1>0 DEF Start
    <3> QED BY <3>1, <3>2 DEF TasksOK
  <2>2. CASE call' = [call EXCEPT ![r].pc = "returned", ![r].token = token] /\ periodic' = periodic
    <3>1. periodic'[r].pc = "none"
      BY <1>1, <2>2 DEF Start, TasksOK
    <3>2. \A q \in Calls \ {r} : call'[q] = call[q] /\ periodic'[q] = periodic[q]
      BY <2>2, <1>0
    <3> QED BY <3>1, <3>2 DEF TasksOK
  <2> QED BY <1>1, <2>1, <2>2 DEF Start
<1>2. ASSUME NEW r \in Calls, Join(r)
      PROVE  TasksOK'
  <2>1. periodic'[r].pc = "none"
    BY <1>2, <1>0 DEF Join, PeriodicSet
  <2>2. \A q \in Calls \ {r} : call'[q] = call[q] /\ periodic'[q] = periodic[q]
    BY <1>2, <1>0 DEF Join
  <2> QED BY <2>1, <2>2 DEF TasksOK
<1>3. ASSUME NEW r \in Calls, Bind(r) \/ ServeEnds(r) \/ BindFails(r)
      PROVE  TasksOK'
  <2>1. \/ call'[r].pc \in {"serve", "join"}
        \/ call'[r].pc = "returned" /\ call'[r].unbound
    BY <1>3, <1>0 DEF Bind, ServeEnds, BindFails, CallSet
  <2>2. \A q \in Calls \ {r} : call'[q] = call[q]
    BY <1>3, <1>0 DEF Bind, ServeEnds, BindFails
  <2>3. periodic' = periodic
    BY <1>3 DEF Bind, ServeEnds, BindFails
  <2> QED BY <2>1, <2>2, <2>3 DEF TasksOK
<1>4. ASSUME NEW r \in Calls,
             PeriodicTick(r) \/ PeriodicCounts(r) \/ PeriodicBroadcast(r) \/ PeriodicFails(r)
      PROVE  TasksOK'
  <2>1. call' = call /\ periodic[r].pc # "none"
    BY <1>4 DEF PeriodicTick, PeriodicCounts, PeriodicBroadcast, PeriodicFails
  <2>2. \A q \in Calls \ {r} : periodic'[q] = periodic[q]
    BY <1>4, <1>0 DEF PeriodicTick, PeriodicCounts, PeriodicBroadcast, PeriodicFails
  <2> QED BY <2>1, <2>2 DEF TasksOK
<1>5. ASSUME NEW token \in Tokens, Cancel(token)
      PROVE  TasksOK'
  BY <1>5 DEF Cancel, TasksOK
<1>6. CASE UNCHANGED <<call, periodic>>
  BY <1>6 DEF TasksOK
<1> QED BY <1>1, <1>2, <1>3, <1>4, <1>5, <1>6, CallFrame, PeriodicFrame

------------------------------------------------------------------------------
(* The guards.                                                             *)

\* A request that reaches a handler passed both guards of its route.
LEMMA HandledPassed ==
    ASSUME NEW c \in Configs, NEW req \in Requests,
           req.route \in {"read", "retry", "delete"}, Respond(c, req) = "handled"
    PROVE  /\ c.auth # Absent => RequireAuth(c, req)
           /\ CsrfGuard(req)
<1> DEFINE layers == Layers(c, req.route)
           kept == {i \in 1..Len(layers) : ~Passes(layers[i], c, req)}
<1>1. CASE c.auth = Absent
  <2>1. layers = <<"csrf_guard">>
    BY <1>1 DEF Layers
  <2>2. kept = {}
    <3>1. ASSUME kept # {}
          PROVE  Respond(c, req) = "csrf_guard"
      <4>1. kept = {1}
        BY <2>1, <3>1
      <4>2. (CHOOSE i \in kept : \A k \in kept : i <= k) = 1
        BY <4>1
      <4> QED BY <4>1, <4>2, <2>1 DEF Respond
    <3> QED BY <3>1
  <2>3. Passes(layers[1], c, req)
    BY <2>1, <2>2
  <2> QED BY <1>1, <2>1, <2>3 DEF Passes
<1>2. CASE c.auth # Absent
  <2>1. /\ layers = <<"require_auth">> \o <<"csrf_guard">>
        /\ Len(layers) = 2 /\ layers[1] = "require_auth" /\ layers[2] = "csrf_guard"
    BY <1>2 DEF Layers
  <2>2. kept = {}
    <3>1. ASSUME kept # {}
          PROVE  Respond(c, req) \in {"require_auth", "csrf_guard"}
      <4>1. kept \subseteq {1, 2}
        BY <2>1
      <4>2. \E i \in kept : \A k \in kept : i <= k
        BY <4>1, <3>1
      <4>3. (CHOOSE i \in kept : \A k \in kept : i <= k) \in {1, 2}
        BY <4>1, <4>2
      <4> QED BY <3>1, <4>3, <2>1 DEF Respond
    <3> QED BY <3>1
  <2>3. Passes(layers[1], c, req) /\ Passes(layers[2], c, req)
    BY <2>1, <2>2
  <2> QED BY <2>1, <2>3 DEF Passes
<1> QED BY <1>1, <1>2

LEMMA GuardsStep ==
    ASSUME CallsOK, GuardsOK, OnlyGuardedHandled, [Next]_vars
    PROVE  GuardsOK' /\ OnlyGuardedHandled'
<1>c. config' = config
  <2>1. CASE JobsChange \/ Wedge \/ Recover \/ RequestDone \/ Load
    BY <2>1 DEF JobsChange, Wedge, Recover, RequestDone, Load, serverVars
  <2>2. CASE \/ \E req \in RunRequests : Request(req)
             \/ \E token \in Tokens : Cancel(token)
    BY <2>2 DEF Request, Cancel
  <2>3. CASE \E r \in Calls : \/ \E token \in Tokens : Start(r, token)
                              \/ CallStep(r) \/ PeriodicStep(r) \/ PeriodicFails(r)
    BY <2>3 DEF Start, CallStep, Bind, BindFails, ServeEnds, Join, PeriodicStep, PeriodicTick,
                PeriodicCounts, PeriodicBroadcast, PeriodicFails
  <2>4. CASE \E s \in Sockets : ConnStep(s) \/ ConnFails(s) \/ PageEvent(s) \/ IntervalFires(s)
    BY <2>4 DEF ConnStep, Upgrade, ConnCounts, SendInitial, SendNext, ConnEnds, ConnFails, PageEvent,
                OnOpen, OnClose, IntervalFires, serverVars
  <2>5. CASE UNCHANGED vars
    BY <2>5 DEF vars, serverVars
  <2> QED BY <2>1, <2>2, <2>3, <2>4, <2>5 DEF Next
<1>r. \/ request' \in {request, NoRequest}
      \/ \E req \in RunRequests : Request(req)
  <2>1. CASE JobsChange \/ Wedge \/ Recover \/ RequestDone \/ Load
    BY <2>1 DEF JobsChange, Wedge, Recover, RequestDone, Load, serverVars
  <2>2. CASE \E token \in Tokens : Cancel(token)
    BY <2>2 DEF Cancel
  <2>3. CASE \E r \in Calls : \/ \E token \in Tokens : Start(r, token)
                              \/ CallStep(r) \/ PeriodicStep(r) \/ PeriodicFails(r)
    BY <2>3 DEF Start, CallStep, Bind, BindFails, ServeEnds, Join, PeriodicStep, PeriodicTick,
                PeriodicCounts, PeriodicBroadcast, PeriodicFails
  <2>4. CASE \E s \in Sockets : ConnStep(s) \/ ConnFails(s) \/ PageEvent(s) \/ IntervalFires(s)
    BY <2>4 DEF ConnStep, Upgrade, ConnCounts, SendInitial, SendNext, ConnEnds, ConnFails, PageEvent,
                OnOpen, OnClose, IntervalFires, serverVars
  <2>5. CASE UNCHANGED vars
    BY <2>5 DEF vars, serverVars
  <2> QED BY <2>1, <2>2, <2>3, <2>4, <2>5 DEF Next
<1>q. ASSUME NEW req \in RunRequests, Request(req)
      PROVE  /\ request' \in [route: Routes \cup {"none"}, anonymous: BOOLEAN, foreign: BOOLEAN]
             /\ request'.anonymous => config.auth = Absent /\ config.host # "public address"
             /\ request'.route \in {"retry", "delete"} => ~request'.foreign
  <2>1. config \in Configs /\ req \in Requests
    BY DashboardAssumption DEF GuardsOK
  <2>2. request' = [route |-> req.route, anonymous |-> Anonymous(config, req), foreign |-> Foreign(req)]
    BY <1>q DEF Request
  <2>3. /\ config.auth # Absent => RequireAuth(config, req)
        /\ CsrfGuard(req)
    BY <1>q, <2>1, HandledPassed DEF Request
  <2>4. MayStart(config)
    BY <1>q DEF Request, Accepting, GuardsOK
  <2>5. Anonymous(config, req) => config.auth = Absent
    BY <2>1, <2>3 DEF RequireAuth, Anonymous, Requests, Authorizations
  <2>6. config.auth = Absent => config.host # "public address"
    BY <2>4 DEF MayStart, IsLoopbackHost
  <2>7. req.route \in {"retry", "delete"} => ~Foreign(req)
    BY <2>3 DEF CsrfGuard, MethodOf, Foreign
  <2>8. req.route \in Routes /\ Anonymous(config, req) \in BOOLEAN /\ Foreign(req) \in BOOLEAN
    BY <2>1 DEF Requests, Anonymous, Foreign
  <2> QED BY <2>2, <2>5, <2>6, <2>7, <2>8
<1>1. OnlyGuardedHandled'
  BY <1>c, <1>r, <1>q DEF OnlyGuardedHandled
<1>2. request' \in [route: Routes \cup {"none"}, anonymous: BOOLEAN, foreign: BOOLEAN]
  <2>1. NoRequest \in [route: Routes \cup {"none"}, anonymous: BOOLEAN, foreign: BOOLEAN]
    BY DEF NoRequest
  <2> QED BY <2>1, <1>r, <1>q DEF GuardsOK
<1>3. \A r \in Calls : call'[r].pc \in {"bind", "serve", "join"} => MayStart(config)
  <2>0. call \in [Calls -> CallSet]
    BY DEF CallsOK
  <2>1. CASE UNCHANGED <<call, cancelled>>
    BY <2>1 DEF GuardsOK
  <2>2. ASSUME NEW r \in Calls,
               \/ \E token \in Tokens : Start(r, token)
               \/ Bind(r) \/ BindFails(r) \/ ServeEnds(r) \/ Join(r)
        PROVE  \A q \in Calls : call'[q].pc \in {"bind", "serve", "join"} => MayStart(config)
    <3>1. \A q \in Calls \ {r} : call'[q] = call[q]
      BY <2>2, <2>0 DEF Start, Bind, BindFails, ServeEnds, Join
    <3>2. call'[r].pc \in {"bind", "serve", "join"} => MayStart(config)
      BY <2>2, <2>0 DEF Start, Bind, BindFails, ServeEnds, Join, GuardsOK, CallSet
    <3> QED BY <3>1, <3>2 DEF GuardsOK
  <2>3. CASE \E token \in Tokens : Cancel(token)
    BY <2>3 DEF Cancel, GuardsOK
  <2> QED BY <2>1, <2>2, <2>3, CallFrame
<1> QED BY <1>1, <1>2, <1>3, <1>c DEF GuardsOK

------------------------------------------------------------------------------
(* The page.                                                               *)

LEMMA PageStep ==
    ASSUME PageOK, PageKeepsTrying, [Next]_vars
    PROVE  PageOK' /\ PageKeepsTrying'
<1>s. 1 \in Sockets
  BY DashboardAssumption DEF Sockets
<1>f. \/ UNCHANGED <<loaded, sock, reconnectInterval, connected>>
      \/ Load
      \/ \E s \in Sockets : OnOpen(s) \/ OnClose(s) \/ IntervalFires(s)
  <2>1. CASE JobsChange \/ Wedge \/ Recover \/ RequestDone
    BY <2>1 DEF JobsChange, Wedge, Recover, RequestDone, pageVars
  <2>2. CASE \/ \E req \in RunRequests : Request(req)
             \/ \E token \in Tokens : Cancel(token)
    BY <2>2 DEF Request, Cancel, pageVars
  <2>3. CASE \E r \in Calls : \/ \E token \in Tokens : Start(r, token)
                              \/ CallStep(r) \/ PeriodicStep(r) \/ PeriodicFails(r)
    BY <2>3 DEF Start, CallStep, Bind, BindFails, ServeEnds, Join, PeriodicStep, PeriodicTick,
                PeriodicCounts, PeriodicBroadcast, PeriodicFails, pageVars
  <2>4. CASE \E s \in Sockets : ConnStep(s) \/ ConnFails(s)
    BY <2>4 DEF ConnStep, Upgrade, ConnCounts, SendInitial, SendNext, ConnEnds, ConnFails, OnMessage,
                pageVars
  <2>5. CASE UNCHANGED vars
    BY <2>5 DEF vars, pageVars
  <2> QED BY <2>1, <2>2, <2>3, <2>4, <2>5 DEF Next, PageEvent
<1>1. CASE UNCHANGED <<loaded, sock, reconnectInterval, connected>>
  BY <1>1 DEF PageOK, PageKeepsTrying
<1>2. CASE Load
  <2>1. /\ sock' = [sock EXCEPT ![1] = "connecting"] /\ loaded' = TRUE
        /\ reconnectInterval' = reconnectInterval /\ connected' = connected
        /\ \A s \in Sockets : sock[s] = "free"
    BY <1>2 DEF Load, PageOK
  <2>2. ~connected
    BY <2>1 DEF PageKeepsTrying
  <2>3. sock'[1] = "connecting"
    BY <2>1, <1>s DEF PageOK
  <2> QED BY <1>s, <2>1, <2>2, <2>3 DEF PageOK, PageKeepsTrying
<1>3. ASSUME NEW s \in Sockets, OnOpen(s)
      PROVE  PageOK' /\ PageKeepsTrying'
  <2>1. /\ sock' = [sock EXCEPT ![s] = "open"] /\ loaded' = loaded
        /\ reconnectInterval' = "null" /\ connected' = TRUE /\ loaded
    BY <1>3 DEF OnOpen, UpdateConnectionStatus, PageOK
  <2>2. sock'[s] = "open"
    BY <2>1 DEF PageOK
  <2> QED BY <2>1, <2>2 DEF PageOK, PageKeepsTrying
<1>4. ASSUME NEW s \in Sockets, OnClose(s)
      PROVE  PageOK' /\ PageKeepsTrying'
  <2>1. /\ sock' = [sock EXCEPT ![s] = "free"] /\ loaded' = loaded
        /\ reconnectInterval' = "live" /\ connected' = FALSE /\ loaded
    BY <1>4 DEF OnClose, UpdateConnectionStatus, PageOK
  <2> QED BY <2>1 DEF PageOK, PageKeepsTrying
<1>5. ASSUME NEW s \in Sockets, IntervalFires(s)
      PROVE  PageOK' /\ PageKeepsTrying'
  <2>1. /\ sock' = [sock EXCEPT ![s] = "connecting"] /\ loaded' = loaded
        /\ reconnectInterval' = reconnectInterval /\ connected' = connected
        /\ reconnectInterval = "live" /\ sock[s] = "free" /\ loaded
    BY <1>5 DEF IntervalFires, PageOK
  <2>2. \A t \in Sockets : sock[t] = "open" => sock'[t] = "open"
    BY <2>1 DEF PageOK
  <2> QED BY <2>1, <2>2 DEF PageOK, PageKeepsTrying
<1> QED BY <1>f, <1>1, <1>2, <1>3, <1>4, <1>5

------------------------------------------------------------------------------
(* The connections.                                                        *)

\* A broadcast ends in the buffer of every receiver, or makes it lag.
LEMMA ReceiveOK ==
    ASSUME NEW c \in ConnSet, NEW m \in Versions
    PROVE  /\ Receive(c, m) \in ConnSet
           /\ Receive(c, m).pc = c.pc /\ Receive(c, m).got = c.got /\ Receive(c, m).sent = c.sent
           /\ ~Receive(c, m).lagged =>
                  LET b == Receive(c, m).buffer IN b # <<>> /\ b[Len(b)] = m
<1>1. CASE ~c.lagged /\ Len(c.buffer) < BroadcastCapacity
  <2> DEFINE b == Append(c.buffer, m)
  <2>1. c.buffer \in Seq(Versions)
    BY DEF ConnSet
  <2>2. b \in Seq(Versions) /\ b # <<>> /\ b[Len(b)] = m
    BY <2>1
  <2>3. Receive(c, m) = [c EXCEPT !.buffer = b]
    BY <1>1 DEF Receive
  <2> HIDE DEF b
  <2> QED BY <2>2, <2>3 DEF ConnSet
<1>2. CASE ~(~c.lagged /\ Len(c.buffer) < BroadcastCapacity)
  <2>1. Receive(c, m) = [c EXCEPT !.buffer = <<>>, !.lagged = TRUE]
    BY <1>2 DEF Receive
  <2>2. <<>> \in Seq(Versions)
    OBVIOUS
  <2> QED BY <2>1, <2>2 DEF ConnSet
<1> QED BY <1>1, <1>2

\* Taking the first message leaves the last one last.
LEMMA TailEnds ==
    ASSUME NEW S, NEW b \in Seq(S), b # <<>>
    PROVE  /\ Tail(b) \in Seq(S) /\ Head(b) \in S
           /\ Tail(b) # <<>> => Tail(b)[Len(Tail(b))] = b[Len(b)]
           /\ Tail(b) = <<>> => Head(b) = b[Len(b)]
<1>1. Tail(b) \in Seq(S) /\ Head(b) \in S /\ Len(Tail(b)) = Len(b) - 1 /\ Len(b) \in Nat \ {0}
  OBVIOUS
<1>2. \A i \in 1..Len(Tail(b)) : Tail(b)[i] = b[i + 1]
  OBVIOUS
<1>3. Tail(b) # <<>> => Len(Tail(b)) \in 1..Len(Tail(b))
  BY <1>1
<1>4. Tail(b) = <<>> => Len(b) = 1
  BY <1>1
<1> QED BY <1>1, <1>2, <1>3, <1>4

LEMMA ConnsStep ==
    ASSUME PeriodicOK, ConnsOK, PageOK, [Next]_vars
    PROVE  ConnsOK'
<1>0. /\ conn \in [Sockets -> ConnSet] /\ grid \in Versions \cup {Nothing}
      /\ \A s \in Sockets : conn[s] \in ConnSet /\ ConnOK(conn[s])
      /\ version \in Versions /\ broadcasted \in Versions \cup {Nothing} /\ broadcasted <= version
      /\ version \in Int /\ broadcasted \in Int
  BY DashboardAssumption DEF ConnsOK, PeriodicOK, Versions, Nothing
<1>e. <<>> \in Seq(Versions) /\ Nothing \in Versions \cup {Nothing}
  OBVIOUS
<1>n. ASSUME NEW s \in Sockets, NEW new \in ConnSet, conn' = [conn EXCEPT ![s] = new],
             broadcasted' = broadcasted, grid' \in Versions \cup {Nothing}, ConnOK(new)
      PROVE  ConnsOK'
  <2>1. conn' \in [Sockets -> ConnSet]
    BY <1>n, <1>0
  <2>2. \A t \in Sockets : conn'[t] = new \/ conn'[t] = conn[t]
    BY <1>n, <1>0
  <2> QED BY <2>1, <2>2, <1>n, <1>0 DEF ConnsOK, ConnOK
<1>1. CASE UNCHANGED <<conn, grid, broadcasted>>
  BY <1>1, <1>0 DEF ConnsOK, ConnOK
<1>2. ASSUME NEW r \in Calls, PeriodicBroadcast(r)
      PROVE  ConnsOK'
  <2>1. PICK m \in Versions : m = periodic[r].got
    BY <1>2, DashboardAssumption DEF PeriodicBroadcast, PeriodicOK, Versions
  <2>2. /\ conn' = [s \in Sockets |-> IF Subscribed(s) THEN Receive(conn[s], m) ELSE conn[s]]
        /\ broadcasted' = m /\ grid' = grid
    BY <1>2, <2>1 DEF PeriodicBroadcast, Broadcast, pageVars
  <2>3. ASSUME NEW s \in Sockets
        PROVE  conn'[s] \in ConnSet /\ ConnOK(conn[s])'
    <3>1. CASE Subscribed(s)
      <4>1. conn'[s] = Receive(conn[s], m)
        BY <2>2, <3>1
      <4>2. /\ conn'[s] \in ConnSet
            /\ conn'[s].pc = conn[s].pc /\ conn'[s].got = conn[s].got /\ conn'[s].sent = conn[s].sent
            /\ ~conn'[s].lagged =>
                   conn'[s].buffer # <<>> /\ conn'[s].buffer[Len(conn'[s].buffer)] = m
        <5>1. PICK c \in ConnSet : c = conn[s]
          BY <1>0
        <5>2. /\ Receive(c, m) \in ConnSet
              /\ Receive(c, m).pc = c.pc /\ Receive(c, m).got = c.got /\ Receive(c, m).sent = c.sent
              /\ ~Receive(c, m).lagged =>
                     LET b == Receive(c, m).buffer IN b # <<>> /\ b[Len(b)] = m
          BY ReceiveOK
        <5> QED BY <4>1, <5>1, <5>2
      <4> QED BY <4>2, <2>2, <1>0 DEF ConnOK
    <3>2. CASE ~Subscribed(s)
      <4>1. conn'[s] = conn[s]
        BY <2>2, <3>2
      <4> QED BY <4>1, <3>2, <1>0 DEF ConnOK, Subscribed
    <3> QED BY <3>1, <3>2
  <2> QED BY <2>2, <2>3, <1>0 DEF ConnsOK
<1>3. ASSUME NEW s \in Sockets, Upgrade(s)
      PROVE  ConnsOK'
  <2> DEFINE new == [NoConn EXCEPT !.pc = "counts"]
  <2>1. new \in ConnSet /\ ConnOK(new)
    BY <1>e DEF NoConn, ConnSet, ConnOK
  <2>2. conn' = [conn EXCEPT ![s] = new] /\ broadcasted' = broadcasted /\ grid' = grid
    BY <1>3 DEF Upgrade, SetConn, serverVars, pageVars
  <2> HIDE DEF new
  <2> QED BY <2>1, <2>2, <1>n, <1>0
<1>4. ASSUME NEW s \in Sockets, ConnCounts(s)
      PROVE  ConnsOK'
  <2> DEFINE new == [conn[s] EXCEPT !.pc = "lists", !.got = version]
  <2>1. new \in ConnSet /\ new.pc = "lists" /\ new.got = version /\ new.sent = conn[s].sent
                        /\ new.buffer = conn[s].buffer /\ new.lagged = conn[s].lagged
    BY <1>0 DEF ConnSet
  <2>2. /\ conn' = [conn EXCEPT ![s] = new] /\ broadcasted' = broadcasted /\ grid' = grid
        /\ conn[s].pc = "counts"
    BY <1>4 DEF ConnCounts, SetConn, serverVars, pageVars
  <2> HIDE DEF new
  <2>3. ConnOK(new)
    BY <2>1, <2>2, <1>0 DEF ConnOK
  <2> QED BY <2>1, <2>2, <2>3, <1>n, <1>0
<1>5. ASSUME NEW s \in Sockets, ConnFails(s)
      PROVE  ConnsOK'
  <2> DEFINE new == [conn[s] EXCEPT !.pc = "loop", !.got = Nothing]
  <2>1. new \in ConnSet /\ new.pc = "loop" /\ new.sent = conn[s].sent
                        /\ new.buffer = conn[s].buffer /\ new.lagged = conn[s].lagged
    BY <1>0 DEF ConnSet
  <2>2. /\ conn' = [conn EXCEPT ![s] = new] /\ broadcasted' = broadcasted /\ grid' = grid
        /\ conn[s].pc \in {"counts", "lists"}
    BY <1>5 DEF ConnFails, SetConn, serverVars, pageVars
  <2> HIDE DEF new
  <2>3. ConnOK(new)
    BY <2>1, <2>2, <1>0 DEF ConnOK
  <2> QED BY <2>1, <2>2, <2>3, <1>n, <1>0
<1>6. ASSUME NEW s \in Sockets, SendInitial(s)
      PROVE  ConnsOK'
  <2> DEFINE new == [conn[s] EXCEPT !.pc = "loop", !.got = Nothing, !.sent = conn[s].got]
  <2>1. new \in ConnSet /\ new.pc = "loop" /\ new.sent = conn[s].got
                        /\ new.buffer = conn[s].buffer /\ new.lagged = conn[s].lagged
    BY <1>0 DEF ConnSet
  <2>2. /\ conn' = [conn EXCEPT ![s] = new] /\ broadcasted' = broadcasted /\ grid' = conn[s].got
        /\ conn[s].pc = "lists"
    BY <1>6 DEF SendInitial, SetConn, serverVars, OnMessage, UpdateStatistics
  <2> HIDE DEF new
  <2>3. ConnOK(new) /\ conn[s].got \in Versions
    BY <2>1, <2>2, <1>0 DEF ConnOK
  <2> QED BY <2>1, <2>2, <2>3, <1>n
<1>7. ASSUME NEW s \in Sockets, SendNext(s)
      PROVE  ConnsOK'
  <2> DEFINE b == conn[s].buffer
             new == [conn[s] EXCEPT !.buffer = Tail(b), !.sent = Head(b)]
  <2>1. /\ conn' = [conn EXCEPT ![s] = new] /\ broadcasted' = broadcasted /\ grid' = Head(b)
        /\ conn[s].pc = "loop" /\ ~conn[s].lagged /\ b # <<>>
    BY <1>7 DEF SendNext, SetConn, serverVars, OnMessage, UpdateStatistics
  <2>2. b \in Seq(Versions) /\ b[Len(b)] = broadcasted
    BY <2>1, <1>0 DEF ConnSet, ConnOK
  <2>3. /\ Tail(b) \in Seq(Versions) /\ Head(b) \in Versions
        /\ Tail(b) # <<>> => Tail(b)[Len(Tail(b))] = b[Len(b)]
        /\ Tail(b) = <<>> => Head(b) = b[Len(b)]
    BY <2>1, <2>2, TailEnds
  <2>4. new \in ConnSet /\ new.pc = "loop" /\ new.sent = Head(b) /\ new.buffer = Tail(b)
    BY <1>0, <2>1, <2>3 DEF ConnSet
  <2> HIDE DEF b, new
  <2>5. ConnOK(new)
    BY <2>2, <2>3, <2>4, <1>0 DEF ConnOK
  <2> QED BY <2>1, <2>3, <2>4, <2>5, <1>n
<1>8. ASSUME NEW s \in Sockets, ConnEnds(s)
      PROVE  ConnsOK'
  <2> DEFINE new == [NoConn EXCEPT !.pc = "gone"]
  <2>1. new \in ConnSet /\ ConnOK(new)
    BY <1>e DEF NoConn, ConnSet, ConnOK
  <2>2. conn' = [conn EXCEPT ![s] = new] /\ broadcasted' = broadcasted /\ grid' = grid
    BY <1>8 DEF ConnEnds, SetConn, serverVars, pageVars
  <2> HIDE DEF new
  <2> QED BY <2>1, <2>2, <1>n, <1>0
<1>9. ASSUME NEW s \in Sockets, OnClose(s)
      PROVE  ConnsOK'
  <2>1. NoConn \in ConnSet /\ ConnOK(NoConn)
    BY <1>e DEF NoConn, ConnSet, ConnOK
  <2>2. conn' = [conn EXCEPT ![s] = NoConn] /\ broadcasted' = broadcasted /\ grid' = grid
    BY <1>9 DEF OnClose, SetConn, serverVars
  <2> QED BY <2>1, <2>2, <1>n, <1>0
<1>f. \/ UNCHANGED <<conn, grid, broadcasted>>
      \/ \E r \in Calls : PeriodicBroadcast(r)
      \/ \E s \in Sockets : \/ Upgrade(s) \/ ConnCounts(s) \/ ConnFails(s) \/ SendInitial(s)
                            \/ SendNext(s) \/ ConnEnds(s) \/ OnClose(s)
  <2>1. CASE JobsChange \/ Wedge \/ Recover \/ RequestDone \/ Load
    BY <2>1 DEF JobsChange, Wedge, Recover, RequestDone, Load, serverVars, pageVars
  <2>2. CASE \/ \E req \in RunRequests : Request(req)
             \/ \E token \in Tokens : Cancel(token)
    BY <2>2 DEF Request, Cancel, pageVars
  <2>3. CASE \E r \in Calls : \/ \E token \in Tokens : Start(r, token)
                              \/ CallStep(r) \/ PeriodicTick(r) \/ PeriodicCounts(r)
                              \/ PeriodicFails(r)
    BY <2>3 DEF Start, CallStep, Bind, BindFails, ServeEnds, Join, PeriodicTick,
                PeriodicCounts, PeriodicFails, pageVars
  <2>4. CASE \E s \in Sockets : OnOpen(s) \/ IntervalFires(s)
    BY <2>4 DEF OnOpen, IntervalFires, serverVars
  <2>5. CASE UNCHANGED vars
    BY <2>5 DEF vars, serverVars, pageVars
  <2> QED BY <2>1, <2>2, <2>3, <2>4, <2>5 DEF Next, PeriodicStep, ConnStep, PageEvent
<1> QED BY <1>1, <1>2, <1>3, <1>4, <1>5, <1>6, <1>7, <1>8, <1>9, <1>f

------------------------------------------------------------------------------
(* The theorems.                                                           *)

LEMMA FaultsStep ==
    ASSUME wedged \in BOOLEAN, faults \in 0..MaxFaults, [Next]_vars
    PROVE  wedged' \in BOOLEAN /\ faults' \in 0..MaxFaults
<1> SUFFICES /\ UNCHANGED wedged \/ wedged' \in BOOLEAN
             /\ UNCHANGED faults \/ (faults < MaxFaults /\ faults' = faults + 1)
  BY DashboardAssumption
<1>1. CASE JobsChange \/ Wedge \/ Recover \/ RequestDone \/ Load
  BY <1>1 DEF JobsChange, Wedge, Recover, RequestDone, Load, Fault
<1>2. CASE \/ \E req \in RunRequests : Request(req)
           \/ \E token \in Tokens : Cancel(token)
  BY <1>2 DEF Request, Cancel
<1>3. CASE \E r \in Calls : \/ \E token \in Tokens : Start(r, token)
                            \/ CallStep(r) \/ PeriodicStep(r) \/ PeriodicFails(r)
  BY <1>3 DEF Start, CallStep, Bind, BindFails, ServeEnds, Join, PeriodicStep, PeriodicTick,
              PeriodicCounts, PeriodicBroadcast, PeriodicFails, Fault
<1>4. CASE \E s \in Sockets : ConnStep(s) \/ ConnFails(s) \/ PageEvent(s) \/ IntervalFires(s)
  BY <1>4 DEF ConnStep, Upgrade, ConnCounts, SendInitial, SendNext, ConnEnds, ConnFails, PageEvent,
              OnOpen, OnClose, IntervalFires, Fault
<1>5. CASE UNCHANGED vars
  BY <1>5 DEF vars
<1> QED BY <1>1, <1>2, <1>3, <1>4, <1>5 DEF Next

LEMMA DashInit ==
    ASSUME Init
    PROVE  DashInv
<1> USE DashboardAssumption DEF Init
<1>1. CallsOK
  BY DEF CallsOK, CallSet
<1>2. PeriodicOK /\ TasksOK
  BY DEF PeriodicOK, PeriodicSet, Versions, Nothing, TasksOK
<1>3. GuardsOK /\ OnlyGuardedHandled
  <2>1. NoRequest \in [route: Routes \cup {"none"}, anonymous: BOOLEAN, foreign: BOOLEAN]
    BY DEF NoRequest
  <2> QED BY <2>1 DEF GuardsOK, OnlyGuardedHandled
<1>4. PageOK /\ PageKeepsTrying
  BY DEF PageOK, PageKeepsTrying
<1>5. ConnsOK
  <2>1. <<>> \in Seq(Versions) /\ Nothing \in Versions \cup {Nothing}
    OBVIOUS
  <2>2. NoConn \in ConnSet /\ ConnOK(NoConn)
    BY <2>1 DEF NoConn, ConnSet, ConnOK
  <2> QED BY <2>1, <2>2 DEF ConnsOK
<1>6. wedged \in BOOLEAN
  BY Zenon
<1>7. faults \in 0..MaxFaults
  BY SMT
<1> QED BY <1>1, <1>2, <1>3, <1>4, <1>5, <1>6, <1>7 DEF DashInv

LEMMA DashInductive == Spec => []DashInv
<1>1. Init => DashInv
  BY DashInit
<1>2. ASSUME DashInv, [Next]_vars
      PROVE  DashInv'
  <2>1. CallsOK' /\ PeriodicOK' /\ TasksOK'
    BY <1>2, CallsStep, PeriodicsStep, TasksStep DEF DashInv
  <2>2. GuardsOK' /\ OnlyGuardedHandled'
    BY <1>2, GuardsStep DEF DashInv
  <2>3. PageOK' /\ PageKeepsTrying'
    BY <1>2, PageStep DEF DashInv
  <2>4. ConnsOK'
    BY <1>2, ConnsStep DEF DashInv
  <2>5. wedged' \in BOOLEAN /\ faults' \in 0..MaxFaults
    BY <1>2, FaultsStep DEF DashInv
  <2> QED BY <2>1, <2>2, <2>3, <2>4, <2>5 DEF DashInv
<1> QED BY <1>1, <1>2, PTL DEF Spec

\* Every variable keeps its type: statistics are a version the jobs have had,
\* and the page's timer is null or live.
THEOREM TypeCorrect == Spec => []TypeOK
<1>1. DashInv => TypeOK
  BY DEF DashInv, CallsOK, CallSet, PeriodicOK, PeriodicSet, GuardsOK, PageOK, ConnsOK, ConnSet, TypeOK
<1> QED BY <1>1, DashInductive, PTL

\* Whatever the configurations, the requests and the number of calls, a request
\* that reaches the storage carried the credentials, or the dashboard has no
\* guard and listens on loopback, and one that changes a job came from the
\* dashboard's own pages (run_until_cancelled, create_app, csrf_guard).
THEOREM RequestsAreGuarded == Spec => []OnlyGuardedHandled
<1>1. DashInv => OnlyGuardedHandled
  BY DEF DashInv
<1> QED BY <1>1, DashInductive, PTL

\* No call that bound its port leaves its periodic task behind, at whatever
\* point its token fires or its serving fails (run_until_cancelled).
THEOREM TaskEndsWithCall == Spec => []PeriodicEndsWithCall
<1>1. DashInv => PeriodicEndsWithCall
  BY DEF DashInv, TasksOK, PeriodicEndsWithCall
<1> QED BY <1>1, DashInductive, PTL

\* No connection misses the last update, for every capacity of the channel and
\* any number of periodic tasks broadcasting out of order (handle_socket,
\* start_periodic_updates).
THEOREM UpdatesArrive == Spec => []NoUpdateMissed
<1>1. DashInv => NoUpdateMissed
  BY DEF DashInv, ConnsOK, ConnOK, NoUpdateMissed, Last
<1> QED BY <1>1, DashInductive, PTL

\* The page never waits for nothing, with any number of sockets opening, open
\* and closing at once (connectWebSocket).
THEOREM PageNeverGivesUp == Spec => []PageKeepsTrying
<1>1. DashInv => PageKeepsTrying
  BY DEF DashInv
<1> QED BY <1>1, DashInductive, PTL
===============================================================================
