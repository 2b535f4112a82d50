-------------------------- MODULE ServerLoops_proofs --------------------------
(***************************************************************************)
(* Proofs about the two loops of a BackgroundJobServer that work against   *)
(* the storage together with those of other servers, for any number of     *)
(* servers and either kind of backend.                                     *)
(*                                                                         *)
(* ServerRegistry, the heartbeat: type correctness, and that a running     *)
(* server whose heartbeats come in time is never deregistered when         *)
(* dead_server_timeout covers the bumps that fail.                         *)
(*                                                                         *)
(* Recurring, the poller of cron templates: type correctness, that no      *)
(* occurrence is fired twice and no template in two hands when a Redis     *)
(* claim key outlives two ticks, and that without faults no template stays *)
(* parked.                                                                 *)
(***************************************************************************)
EXTENDS ServerRegistry, Recurring, TLAPS

(***************************************************************************)
(* Type correctness.                                                       *)
(***************************************************************************)

HbSet == [pc: {"wait", "bump", "set", "list", "reclaim", "deregister"},
          age: Nat, since: Nat, dead: SUBSET Servers, peer: Servers \cup {NoServer}]
JobSet == [state: {"Enqueued", "Processing", "Done"},
           stamp: Servers \cup {StorageName, NoServer}, by: Servers \cup {NoServer}]

\* No worker is about to deregister its own server.
Others(s) == s \notin hb[s].dead /\ hb[s].peer # s

\* A waiting worker is well typed and has no peer in its hands.
LEMMA WaitingType ==
  ASSUME NEW n \in Nat
  PROVE  /\ Waiting(n) \in HbSet /\ [Waiting(n) EXCEPT !.pc = "bump"] \in HbSet
         /\ Waiting(n).pc = "wait" /\ Waiting(n).since = n /\ Waiting(n).age = 0
         /\ Waiting(n).dead = {} /\ Waiting(n).peer = NoServer
         /\ [Waiting(n) EXCEPT !.pc = "bump"].pc = "bump"
         /\ [Waiting(n) EXCEPT !.pc = "bump"].since = n
         /\ [Waiting(n) EXCEPT !.pc = "bump"].age = 0
         /\ [Waiting(n) EXCEPT !.pc = "bump"].dead = {}
         /\ [Waiting(n) EXCEPT !.pc = "bump"].peer = NoServer
  BY DEF Waiting, HbSet

\* The rows of jobs the model starts with and ends with.
LEMMA FreeType == Free \in JobSet /\ [Free EXCEPT !.state = "Done"] \in JobSet
  BY DEF Free, JobSet

\* What a step does to the heartbeat worker of one server.
HbStep(s, pcs, dead, peer) ==
    /\ hb' \in [Servers -> HbSet]
    /\ \A t \in Servers : t # s => hb'[t] = hb[t]
    /\ hb'[s].pc \in pcs
    /\ hb'[s].age = hb[s].age /\ hb'[s].since = hb[s].since
    /\ hb'[s].dead = dead
    /\ hb'[s].peer = peer

\* A change of the place in bump_and_scan only.
LEMMA ToStep ==
  ASSUME hb \in [Servers -> HbSet], NEW s \in Servers,
         NEW pc \in {"wait", "set", "list"}, To(s, pc)
  PROVE  HbStep(s, {pc}, hb[s].dead, hb[s].peer)
  <1> DEFINE new == [hb[s] EXCEPT !.pc = pc]
  <1>1. /\ new \in HbSet /\ new.pc = pc /\ new.age = hb[s].age /\ new.since = hb[s].since
        /\ new.dead = hb[s].dead /\ new.peer = hb[s].peer
    BY DEF HbSet
  <1>2. hb' = [hb EXCEPT ![s] = new]
    BY DEF To
  <1> HIDE DEF new
  <1>3. QED
    BY <1>1, <1>2 DEF HbStep

\* A change of the place, the list or the peer, for the whole of hb.
LEMMA ChangeStep ==
  ASSUME hb \in [Servers -> HbSet], NEW s \in Servers, NEW pc \in {"wait", "reclaim", "deregister"},
         NEW dead \in SUBSET Servers, NEW peer \in Servers \cup {NoServer},
         hb' = [hb EXCEPT ![s] = [hb[s] EXCEPT !.pc = pc, !.dead = dead, !.peer = peer]]
  PROVE  HbStep(s, {pc}, dead, peer)
  <1> DEFINE new == [hb[s] EXCEPT !.pc = pc, !.dead = dead, !.peer = peer]
  <1>1. hb[s] \in HbSet
    OBVIOUS
  <1>2. /\ new \in HbSet /\ new.pc = pc /\ new.age = hb[s].age /\ new.since = hb[s].since
        /\ new.dead = dead /\ new.peer = peer
    BY <1>1 DEF HbSet
  <1>3. hb' = [hb EXCEPT ![s] = new]
    OBVIOUS
  <1> HIDE DEF new
  <1>4. QED
    BY <1>2, <1>3 DEF HbStep

\* Ages stay numbers.
LEMMA OlderType ==
  ASSUME NEW t \in Nat
  PROVE  Older(t) \in Nat /\ Older(t) <= t + 1 /\ (t < MaxAge => Older(t) = t + 1)
  BY RegistryAssumption, LoopsAssumption DEF Older, MaxAge

\* A heartbeat worker, one tick later.
LEMMA OlderHb ==
  ASSUME NEW h \in HbSet
  PROVE  LET new == [h EXCEPT !.since = Older(@), !.age = IF h.pc = "wait" THEN 0 ELSE Older(@)]
         IN  /\ new \in HbSet /\ new.pc = h.pc /\ new.dead = h.dead /\ new.peer = h.peer
             /\ new.since = Older(h.since)
             /\ new.age = IF h.pc = "wait" THEN 0 ELSE Older(h.age)
  <1>1. h.since \in Nat /\ h.age \in Nat
    BY DEF HbSet
  <1>2. Older(h.since) \in Nat /\ Older(h.age) \in Nat
    BY <1>1, OlderType
  <1>3. QED
    BY <1>2 DEF HbSet

\* The initial state is well typed.
LEMMA InitType == Init => TypeOK
  BY WaitingType, FreeType, RegistryAssumption, LoopsAssumption DEF Init, TypeOK, HbSet, JobSet, NoRow, Waiting

\* The worker's part in ListDeadServers, ReclaimJobsFromServer, DeregisterPeer
\* and CallFails: what it lists are other servers, and it works off its list.
LEMMA ScanSteps ==
  ASSUME TypeOK, NEW s \in Servers
  PROVE  /\ ListDeadServers(s) => \E pc \in {"wait", "reclaim"} :
               HbStep(s, {pc}, {p \in listed \ {s} : Registered(p) /\ Dead(s, p)}, hb[s].peer)
         /\ \A p \in Servers : ReclaimJobsFromServer(s, p) =>
               p \in hb[s].dead /\ HbStep(s, {"deregister"}, hb[s].dead \ {p}, p)
         /\ DeregisterPeer(s) => \E pc \in {"wait", "reclaim"} :
               HbStep(s, {pc}, hb[s].dead, NoServer)
         /\ CallFails(s) => \E pc \in {"wait", "reclaim"}, dead \in SUBSET hb[s].dead,
                               peer \in {hb[s].peer, NoServer} : HbStep(s, {pc}, dead, peer)
  <1>a. hb \in [Servers -> HbSet] /\ hb[s] \in HbSet
    BY DEF TypeOK, HbSet
  <1>b. hb[s].dead \in SUBSET Servers /\ hb[s].peer \in Servers \cup {NoServer}
        /\ hb[s] = [hb[s] EXCEPT !.dead = hb[s].dead, !.peer = hb[s].peer]
    BY <1>a DEF HbSet
  <1>1. ASSUME ListDeadServers(s)
        PROVE  \E pc \in {"wait", "reclaim"} :
                 HbStep(s, {pc}, {p \in listed \ {s} : Registered(p) /\ Dead(s, p)}, hb[s].peer)
    <2> DEFINE dead == {p \in listed \ {s} : Registered(p) /\ Dead(s, p)}
               place == IF dead = {} THEN "wait" ELSE "reclaim"
    <2>1. dead \in SUBSET Servers /\ place \in {"wait", "reclaim"}
      BY DEF TypeOK
    <2>2. hb' = [hb EXCEPT ![s].pc = place, ![s].dead = dead]
      BY <1>1 DEF ListDeadServers
    <2> HIDE DEF dead, place
    <2>3. hb' = [hb EXCEPT ![s] = [hb[s] EXCEPT !.pc = place, !.dead = dead, !.peer = hb[s].peer]]
      BY <1>a, <2>2 DEF HbSet
    <2>4. HbStep(s, {place}, dead, hb[s].peer)
      BY <1>a, <1>b, <2>1, <2>3, ChangeStep
    <2>5. QED
      BY <2>1, <2>4 DEF dead
  <1>2. ASSUME NEW p \in Servers, ReclaimJobsFromServer(s, p)
        PROVE  p \in hb[s].dead /\ HbStep(s, {"deregister"}, hb[s].dead \ {p}, p)
    <2> DEFINE dead == hb[s].dead \ {p}
    <2>1. hb' = [hb EXCEPT ![s] = [hb[s] EXCEPT !.pc = "deregister", !.dead = dead, !.peer = p]]
      BY <1>2, <1>a DEF ReclaimJobsFromServer, HbSet
    <2>2. dead \in SUBSET Servers /\ p \in hb[s].dead
      BY <1>2, <1>b DEF ReclaimJobsFromServer
    <2> HIDE DEF dead
    <2>3. HbStep(s, {"deregister"}, dead, p)
      BY <1>a, <2>1, <2>2, ChangeStep
    <2>4. QED
      BY <2>2, <2>3 DEF dead
  <1>c. ASSUME hb' = [hb EXCEPT ![s] = NextPeer(s)]
        PROVE  \E pc \in {"wait", "reclaim"} : HbStep(s, {pc}, hb[s].dead, NoServer)
    <2> DEFINE place == IF hb[s].dead = {} THEN "wait" ELSE "reclaim"
    <2>1. place \in {"wait", "reclaim"}
      OBVIOUS
    <2>2. NextPeer(s) = [hb[s] EXCEPT !.pc = place, !.dead = hb[s].dead, !.peer = NoServer]
      BY <1>a DEF NextPeer, HbSet
    <2> HIDE DEF place
    <2>3. HbStep(s, {place}, hb[s].dead, NoServer)
      BY <1>a, <1>b, <1>c, <2>1, <2>2, ChangeStep
    <2>4. QED
      BY <2>1, <2>3
  <1>3. DeregisterPeer(s) => \E pc \in {"wait", "reclaim"} : HbStep(s, {pc}, hb[s].dead, NoServer)
    BY <1>c DEF DeregisterPeer
  <1>4. ASSUME CallFails(s)
        PROVE  \E pc \in {"wait", "reclaim"}, dead \in SUBSET hb[s].dead,
                  peer \in {hb[s].peer, NoServer} : HbStep(s, {pc}, dead, peer)
    <2>1. CASE To(s, "wait")
      <3>1. HbStep(s, {"wait"}, hb[s].dead, hb[s].peer)
        BY <1>a, <2>1, ToStep
      <3>2. QED
        BY <3>1
    <2>2. ASSUME NEW p \in hb[s].dead,
                 hb' = [hb EXCEPT ![s].dead = @ \ {p},
                                  ![s].pc = IF hb[s].dead = {p} THEN "wait" ELSE "reclaim"]
          PROVE  \E pc \in {"wait", "reclaim"}, dead \in SUBSET hb[s].dead :
                    HbStep(s, {pc}, dead, hb[s].peer)
      <3> DEFINE dead == hb[s].dead \ {p}
                 place == IF hb[s].dead = {p} THEN "wait" ELSE "reclaim"
      <3>1. hb' = [hb EXCEPT ![s] = [hb[s] EXCEPT !.pc = place, !.dead = dead, !.peer = hb[s].peer]]
        BY <1>a, <2>2 DEF HbSet
      <3>2. place \in {"wait", "reclaim"} /\ dead \in SUBSET Servers /\ dead \in SUBSET hb[s].dead
        BY <1>b
      <3> HIDE DEF dead, place
      <3>3. HbStep(s, {place}, dead, hb[s].peer)
        BY <1>a, <1>b, <3>1, <3>2, ChangeStep
      <3>4. QED
        BY <3>2, <3>3
    <2>3. CASE hb' = [hb EXCEPT ![s] = NextPeer(s)]
      <3>1. hb[s].dead \in SUBSET hb[s].dead
        OBVIOUS
      <3>2. QED
        BY <1>c, <2>3, <3>1
    <2>4. QED
      BY <1>4, <2>1, <2>2, <2>3 DEF CallFails
  <1>5. QED
    BY <1>1, <1>2, <1>3, <1>4

\* A step of one worker that works off its list keeps the workers typed.
LEMMA HbStepType ==
  ASSUME TypeOK, NEW s \in Servers, NEW pcs, NEW dead, NEW peer, HbStep(s, pcs, dead, peer),
         s \notin dead, peer # s
  PROVE  hb' \in [Servers -> HbSet] /\ \A t \in Servers : Others(t)'
  BY DEF TypeOK, HbStep, Others

\* Every step keeps the state well typed.
LEMMA NextType == TypeOK /\ [Next]_vars => TypeOK'
  <1> SUFFICES ASSUME TypeOK, [Next]_vars PROVE TypeOK'
    OBVIOUS
  <1>a. /\ backend \in Backends
        /\ life \in [Servers -> {"new", "up", "stopping", "down", "crashed"}]
        /\ beat \in [Servers -> Nat \cup {NoRow}] /\ listed \subseteq Servers
        /\ hb \in [Servers -> HbSet] /\ job \in [Jobs -> JobSet]
        /\ crashes \in Nat /\ faults \in Nat
        /\ \A s \in Servers : Others(s) /\ hb[s] \in HbSet /\ hb[s].age \in Nat
    BY DEF TypeOK, HbSet, JobSet, Others
  <1>b. ASSUME /\ backend' \in Backends
               /\ life' \in [Servers -> {"new", "up", "stopping", "down", "crashed"}]
               /\ beat' \in [Servers -> Nat \cup {NoRow}] /\ listed' \subseteq Servers
               /\ job' \in [Jobs -> JobSet] /\ crashes' \in Nat /\ faults' \in Nat
               /\ hb' \in [Servers -> HbSet] /\ \A s \in Servers : Others(s)'
        PROVE  TypeOK'
    BY <1>b DEF TypeOK, HbSet, JobSet, Others
  <1>c. ASSUME NEW s \in Servers, NEW new \in HbSet, hb' = [hb EXCEPT ![s] = new],
               new.dead = {}, new.peer = NoServer
        PROVE  hb' \in [Servers -> HbSet] /\ \A t \in Servers : Others(t)'
    BY <1>a, <1>c, RegistryAssumption, LoopsAssumption DEF Others
  <1>d. Interval \in Nat /\ 0 \in Nat
    BY RegistryAssumption, LoopsAssumption
  <1>1. ASSUME NEW s \in Servers, Start(s) PROVE TypeOK'
    <2>1. hb' \in [Servers -> HbSet] /\ \A t \in Servers : Others(t)'
      <3>1. hb' = [hb EXCEPT ![s] = Waiting(Interval)]
        BY <1>1 DEF Start
      <3>2. /\ Waiting(Interval) \in HbSet /\ Waiting(Interval).dead = {}
            /\ Waiting(Interval).peer = NoServer
        BY <1>d, WaitingType
      <3>3. QED
        BY <1>c, <3>1, <3>2
    <2>2. /\ beat' \in [Servers -> Nat \cup {NoRow}] /\ listed' \subseteq Servers
          /\ life' \in [Servers -> {"new", "up", "stopping", "down", "crashed"}]
      BY <1>1, <1>a, <1>d DEF Start
    <2>3. QED
      BY <1>1, <1>a, <1>b, <2>1, <2>2 DEF Start
  <1>2. ASSUME NEW s \in Servers, Stop(s) PROVE TypeOK'
    BY <1>2, <1>a, <1>b DEF Stop, Others
  <1>3. ASSUME NEW s \in Servers, Stopped(s) \/ Crash(s) PROVE TypeOK'
    <2>1. hb' \in [Servers -> HbSet] /\ \A t \in Servers : Others(t)'
      BY <1>3, <1>c, <1>d, WaitingType DEF Stopped, Crash
    <2>2. QED
      BY <1>3, <1>a, <1>b, <2>1 DEF Stopped, Crash
  <1>4. ASSUME NEW s \in Servers, NEW j \in Jobs, Claim(s, j) PROVE TypeOK'
    <2>1. [state |-> "Processing", stamp |-> StorageName, by |-> s] \in JobSet
      BY DEF JobSet
    <2>2. job' \in [Jobs -> JobSet]
      BY <1>4, <1>a, <2>1 DEF Claim
    <2>3. QED
      BY <1>4, <1>a, <1>b, <2>2 DEF Claim, Others
  <1>5. ASSUME NEW j \in Jobs, Finish(j) PROVE TypeOK'
    <2>1. job' \in [Jobs -> JobSet]
      BY <1>5, <1>a, FreeType DEF Finish
    <2>2. QED
      BY <1>5, <1>a, <1>b, <2>1 DEF Finish, Others
  <1>6. ASSUME NEW s \in Servers, HeartbeatTick(s) PROVE TypeOK'
    <2>1. hb' \in [Servers -> HbSet] /\ \A t \in Servers : Others(t)'
      BY <1>6, <1>c, <1>d, WaitingType DEF HeartbeatTick
    <2>2. QED
      BY <1>6, <1>a, <1>b, <2>1 DEF HeartbeatTick
  <1>7. ASSUME NEW s \in Servers, HeartbeatServer(s) PROVE TypeOK'
    <2>1. PICK pc \in {"set", "list"} : To(s, pc)
      BY <1>7 DEF HeartbeatServer
    <2>2. hb' \in [Servers -> HbSet] /\ \A t \in Servers : Others(t)'
      <3>1. HbStep(s, {pc}, hb[s].dead, hb[s].peer)
        BY <1>a, <2>1, ToStep
      <3>2. QED
        BY <1>a, <3>1, HbStepType DEF Others
    <2>3. beat' \in [Servers -> Nat \cup {NoRow}]
      BY <1>7, <1>a DEF HeartbeatServer
    <2>4. QED
      BY <1>7, <1>a, <1>b, <2>2, <2>3 DEF HeartbeatServer
  <1>8. ASSUME NEW s \in Servers, HeartbeatSet(s) PROVE TypeOK'
    <2>1. To(s, "list")
      BY <1>8 DEF HeartbeatSet
    <2>2. hb' \in [Servers -> HbSet] /\ \A t \in Servers : Others(t)'
      <3>1. HbStep(s, {"list"}, hb[s].dead, hb[s].peer)
        BY <1>a, <2>1, ToStep
      <3>2. QED
        BY <1>a, <3>1, HbStepType DEF Others
    <2>3. beat' \in [Servers -> Nat \cup {NoRow}]
      BY <1>8, <1>a DEF HeartbeatSet
    <2>4. QED
      BY <1>8, <1>a, <1>b, <2>2, <2>3 DEF HeartbeatSet
  <1>9. ASSUME NEW s \in Servers, ListDeadServers(s) PROVE TypeOK'
    <2>1. hb' \in [Servers -> HbSet] /\ \A t \in Servers : Others(t)'
      <3> DEFINE dead == {p \in listed \ {s} : Registered(p) /\ Dead(s, p)}
      <3>1. PICK pc \in {"wait", "reclaim"} : HbStep(s, {pc}, dead, hb[s].peer)
        BY <1>9, ScanSteps
      <3>2. s \notin dead /\ hb[s].peer # s
        BY <1>a DEF Others
      <3> HIDE DEF dead
      <3>3. QED
        BY <3>1, <3>2, HbStepType
    <2>2. QED
      BY <1>9, <1>a, <1>b, <2>1 DEF ListDeadServers
  <1>10. ASSUME NEW s \in Servers, NEW p \in Servers, ReclaimJobsFromServer(s, p) PROVE TypeOK'
    <2>1. hb' \in [Servers -> HbSet] /\ \A t \in Servers : Others(t)'
      <3>1. p \in hb[s].dead /\ HbStep(s, {"deregister"}, hb[s].dead \ {p}, p)
        BY <1>10, ScanSteps
      <3>2. s \notin hb[s].dead \ {p} /\ p # s
        BY <1>a, <3>1 DEF Others
      <3>3. QED
        BY <3>1, <3>2, HbStepType
    <2>2. job' \in [Jobs -> JobSet]
      BY <1>10, <1>a, FreeType DEF ReclaimJobsFromServer
    <2>3. QED
      BY <1>10, <1>a, <1>b, <2>1, <2>2 DEF ReclaimJobsFromServer
  <1>11. ASSUME NEW s \in Servers, DeregisterPeer(s) PROVE TypeOK'
    <2>1. hb' \in [Servers -> HbSet] /\ \A t \in Servers : Others(t)'
      <3>1. PICK pc \in {"wait", "reclaim"} : HbStep(s, {pc}, hb[s].dead, NoServer)
        BY <1>11, ScanSteps
      <3>2. s \notin hb[s].dead /\ NoServer # s
        BY <1>a, RegistryAssumption, LoopsAssumption DEF Others
      <3>3. QED
        BY <3>1, <3>2, HbStepType
    <2>2. beat' \in [Servers -> Nat \cup {NoRow}]
      BY <1>11, <1>a DEF DeregisterPeer
    <2>3. QED
      BY <1>11, <1>a, <1>b, <2>1, <2>2 DEF DeregisterPeer
  <1>12. ASSUME NEW s \in Servers, CallFails(s) PROVE TypeOK'
    <2>1. PICK pc \in {"wait", "reclaim"}, dead \in SUBSET hb[s].dead,
               peer \in {hb[s].peer, NoServer} : HbStep(s, {pc}, dead, peer)
      BY <1>12, ScanSteps
    <2>2. hb' \in [Servers -> HbSet] /\ \A t \in Servers : Others(t)'
      <3>1. s \notin dead /\ peer # s
        BY <1>a, RegistryAssumption, LoopsAssumption DEF Others
      <3>2. QED
        BY <2>1, <3>1, HbStepType
    <2>3. QED
      BY <1>12, <1>a, <1>b, <2>2 DEF CallFails
  <1>13. CASE Tick
    <2>1. hb' \in [Servers -> HbSet]
      BY <1>13, <1>a, OlderHb DEF Tick
    <2>2. \A t \in Servers : Others(t)'
      BY <1>13, <1>a, OlderHb DEF Tick, Others
    <2>3. \A s \in Servers : beat[s] # NoRow => Older(beat[s]) \in Nat
      BY <1>a, OlderType
    <2>4. beat' \in [Servers -> Nat \cup {NoRow}]
      BY <1>13, <2>3 DEF Tick, Registered
    <2>5. QED
      BY <1>13, <1>a, <1>b, <2>1, <2>2, <2>4 DEF Tick
  <1>14. CASE UNCHANGED vars
    BY <1>14, <1>a, <1>b DEF vars, Others
  <1>15. QED
    BY <1>1, <1>2, <1>3, <1>4, <1>5, <1>6, <1>7, <1>8, <1>9, <1>10, <1>11, <1>12, <1>13, <1>14
       DEF Next, HeartbeatStep

\* Every variable keeps its type, and no heartbeat worker ever lists or
\* deregisters its own server.
THEOREM TypeCorrect == Spec => []TypeOK
  BY InitType, NextType, PTL DEF Spec

(***************************************************************************)
(* A prompt server stays registered.                                       *)
(***************************************************************************)

\* The longest a worker that comes in time goes without reading the clock.
Cycle == Interval + MaxLag

\* How long ago the row of s was last dated, at the most, when the worker's
\* last tick was hb[s].since ago and every failed bump cost a cycle.
Allowance(s) ==
    hb[s].since + faults * Cycle + (IF hb[s].pc \in {"bump", "set"} THEN Cycle ELSE 0)

\* A running server is registered, its worker is in time, and its row is no
\* older than that.
OnTime(s) ==
    life[s] = "up" =>
        /\ Registered(s)
        /\ hb[s].pc # "wait" => hb[s].age = hb[s].since /\ hb[s].age <= MaxLag
        /\ hb[s].pc = "wait" => hb[s].since <= Cycle
        /\ beat[s] <= Allowance(s)

\* Whom a worker takes for dead has stopped or crashed, for good.
DeadAreOver ==
    \A s, p \in Servers :
        p \in hb[s].dead \cup {hb[s].peer} => life[p] \notin {"new", "up"}

PromptInv ==
    /\ TypeOK
    /\ faults <= MaxFaults
    /\ \A s \in Servers : life[s] = "new" => ~Registered(s)
    /\ \A s \in Servers : OnTime(s)
    /\ DeadAreOver

\* A cycle more for a fault more.
LEMMA CycleType ==
  /\ Cycle \in Nat
  /\ \A f \in Nat : f * Cycle \in Nat /\ (f + 1) * Cycle = f * Cycle + Cycle
  BY RegistryAssumption, LoopsAssumption DEF Cycle

\* Fewer faults, fewer cycles.
LEMMA CycleMonotone ==
  ASSUME NEW f \in Nat, f <= MaxFaults
  PROVE  f * Cycle <= MaxFaults * Cycle
  <1>1. MaxFaults - f \in Nat /\ MaxFaults \in Nat
    BY RegistryAssumption, LoopsAssumption
  <1>2. (MaxFaults - f) * Cycle \in Nat
    BY <1>1, CycleType
  <1>3. MaxFaults * Cycle = f * Cycle + (MaxFaults - f) * Cycle
    BY <1>1, CycleType
  <1>4. QED
    BY <1>2, <1>3, CycleType

\* The row of a server on time is never older than dead_server_timeout.
LEMMA NeverTooOld ==
  ASSUME TimeoutExceedsInterval, TypeOK, faults <= MaxFaults,
         NEW p \in Servers, OnTime(p), life[p] = "up"
  PROVE  beat[p] \in Nat /\ beat[p] <= DeadTimeout
  <1>1. /\ hb[p].age \in Nat /\ hb[p].since \in Nat /\ faults \in Nat
        /\ beat[p] \in Nat
    BY DEF TypeOK, OnTime, Registered
  <1>2. /\ faults * Cycle <= MaxFaults * Cycle /\ faults * Cycle \in Nat
        /\ MaxFaults * Cycle \in Nat /\ Cycle \in Nat
        /\ (1 + MaxFaults) * Cycle = MaxFaults * Cycle + Cycle
        /\ MaxLag \in Nat /\ MaxLag <= Cycle /\ DeadTimeout \in Nat
    BY <1>1, CycleType, CycleMonotone, RegistryAssumption, LoopsAssumption DEF Cycle
  <1>3. DeadTimeout >= MaxFaults * Cycle + Cycle + MaxLag
    BY <1>2 DEF TimeoutExceedsInterval, Cycle
  <1>4. Allowance(p) <= MaxFaults * Cycle + Cycle + MaxLag
    BY <1>1, <1>2 DEF OnTime, Allowance
  <1>5. Allowance(p) \in Nat
    BY <1>1, <1>2 DEF Allowance
  <1>6. QED
    BY <1>1, <1>2, <1>3, <1>4, <1>5 DEF OnTime

\* A step that leaves a server, its row and its worker alone.
LEMMA OnTimeKept ==
  ASSUME TypeOK, NEW s \in Servers, OnTime(s),
         life'[s] = life[s], beat'[s] = beat[s], hb'[s] = hb[s],
         faults' \in {faults, faults + 1}
  PROVE  OnTime(s)'
  <1>1. faults \in Nat /\ Cycle \in Nat /\ hb[s].since \in Nat
    BY CycleType DEF TypeOK
  <1>2. faults * Cycle \in Nat /\ faults' * Cycle \in Nat /\ faults * Cycle <= faults' * Cycle
    <2>1. faults * Cycle \in Nat /\ (faults + 1) * Cycle = faults * Cycle + Cycle
      BY <1>1, CycleType
    <2>2. CASE faults' = faults
      BY <2>1, <2>2
    <2>3. CASE faults' = faults + 1
      BY <1>1, <2>1, <2>3
    <2>4. QED
      BY <2>2, <2>3
  <1>3. life[s] = "up" => beat[s] \in Nat
    BY DEF OnTime, TypeOK, Registered
  <1>4. QED
    BY <1>1, <1>2, <1>3 DEF OnTime, Allowance, Registered

\* A step of the worker of s that ends in another place, outside of the bump.
LEMMA OnTimeMoved ==
  ASSUME TypeOK, NEW s \in Servers, OnTime(s), NEW pc, NEW dead, NEW peer,
         HbStep(s, {pc}, dead, peer), hb[s].pc # "wait",
         life'[s] = life[s],
         \/ beat'[s] = beat[s] /\ hb[s].pc \notin {"bump", "set"} /\ faults' \in {faults, faults + 1}
         \/ beat'[s] = beat[s] /\ pc = "set" /\ hb[s].pc = "bump" /\ faults' = faults
         \/ beat'[s] = beat[s] /\ faults' = faults + 1
         \/ beat'[s] = hb[s].age /\ faults' = faults,
         pc # "bump", pc = "set" => hb[s].pc \in {"bump", "set"}
  PROVE  OnTime(s)'
  <1>1. /\ faults \in Nat /\ Cycle \in Nat /\ MaxLag \in Nat /\ MaxLag <= Cycle
        /\ hb[s].since \in Nat /\ hb[s].age \in Nat
    BY CycleType, RegistryAssumption, LoopsAssumption DEF TypeOK, Cycle
  <1>2. /\ faults * Cycle \in Nat /\ faults' * Cycle \in Nat
        /\ faults' = faults + 1 => faults' * Cycle = faults * Cycle + Cycle
    BY <1>1, CycleType
  <1>3. life[s] = "up" => beat[s] \in Nat /\ beat[s] # NoRow /\ hb[s].age # NoRow
    BY <1>1 DEF OnTime, TypeOK, Registered, NoRow
  <1>4. hb'[s].pc = pc /\ hb'[s].since = hb[s].since /\ hb'[s].age = hb[s].age
    BY DEF HbStep
  <1>5. QED
    BY <1>1, <1>2, <1>3, <1>4 DEF OnTime, Allowance, Registered

\* The initial state satisfies the invariant.
LEMMA InitPrompt == Init => PromptInv
  <1> SUFFICES ASSUME Init PROVE PromptInv
    OBVIOUS
  <1>1. TypeOK
    BY InitType
  <1>2. DeadAreOver
    BY RegistryAssumption, LoopsAssumption DEF Init, DeadAreOver, Waiting
  <1>3. QED
    BY <1>1, <1>2, RegistryAssumption, LoopsAssumption DEF Init, PromptInv, OnTime, Registered

\* A worker that works off its list, as long as no server starts.
LEMMA DeadKept ==
  ASSUME TypeOK, DeadAreOver, NEW s \in Servers, NEW pcs, NEW dead, NEW peer,
         HbStep(s, pcs, dead, peer), UNCHANGED life,
         \A p \in Servers : p \in dead \cup {peer} => life[p] \notin {"new", "up"}
  PROVE  DeadAreOver'
  BY DEF DeadAreOver, HbStep

\* Every step keeps a prompt server registered.
LEMMA NextPrompt ==
  ASSUME TimeoutExceedsInterval
  PROVE  PromptInv /\ [Next]_vars => PromptInv'
  <1> SUFFICES ASSUME PromptInv, [Next]_vars PROVE PromptInv'
    OBVIOUS
  <1>a. TypeOK /\ TypeOK' /\ faults <= MaxFaults /\ DeadAreOver
    BY NextType DEF PromptInv
  <1>b. \A s \in Servers : OnTime(s) /\ (life[s] = "new" => ~Registered(s))
    BY DEF PromptInv
  <1>c. /\ hb \in [Servers -> HbSet] /\ faults \in Nat
        /\ beat \in [Servers -> Nat \cup {NoRow}]
        /\ life \in [Servers -> {"new", "up", "stopping", "down", "crashed"}]
        /\ \A s \in Servers : /\ hb[s] \in HbSet /\ hb[s].age \in Nat /\ hb[s].since \in Nat
                              /\ s \notin hb[s].dead /\ hb[s].peer # s
    BY <1>a DEF TypeOK, HbSet
  <1>d. /\ faults * Cycle \in Nat /\ Cycle \in Nat /\ Interval \in Nat /\ MaxLag \in Nat
        /\ Interval <= Cycle /\ MaxLag <= Cycle /\ Cycle = Interval + MaxLag
    <2>1. faults * Cycle \in Nat /\ Cycle \in Nat
      BY <1>c, CycleType
    <2>2. /\ Interval \in Nat /\ MaxLag \in Nat
          /\ Interval <= Cycle /\ MaxLag <= Cycle /\ Cycle = Interval + MaxLag
      BY RegistryAssumption, LoopsAssumption DEF Cycle
    <2>3. QED
      BY <2>1, <2>2
  <1>1. ASSUME NEW s \in Servers, Start(s) PROVE PromptInv'
    <2>1. /\ life[s] = "new" /\ life' = [life EXCEPT ![s] = "up"] /\ UNCHANGED faults
          /\ beat' = [beat EXCEPT ![s] = 0] /\ hb' = [hb EXCEPT ![s] = Waiting(Interval)]
      BY <1>1 DEF Start
    <2>2. /\ Waiting(Interval).pc = "wait" /\ Waiting(Interval).since = Interval
          /\ Waiting(Interval).dead = {} /\ Waiting(Interval).peer = NoServer
      BY <1>d, WaitingType
    <2>3. ASSUME NEW t \in Servers PROVE OnTime(t)' /\ (life'[t] = "new" => ~Registered(t)')
      <3>1. CASE t = s
        <4>1. /\ life'[s] = "up" /\ beat'[s] = 0 /\ hb'[s] = Waiting(Interval)
          BY <1>c, <2>1
        <4>2. beat'[s] <= Allowance(s)'
          BY <1>d, <2>1, <2>2, <4>1 DEF Allowance
        <4>3. QED
          BY <3>1, <1>d, <2>2, <4>1, <4>2 DEF OnTime, Registered, NoRow
      <3>2. CASE t # s
        <4>1. life'[t] = life[t] /\ beat'[t] = beat[t] /\ hb'[t] = hb[t]
          BY <1>c, <2>1, <3>2
        <4>2. QED
          BY <1>a, <1>b, <2>1, <4>1, OnTimeKept DEF Registered
      <3>3. QED
        BY <3>1, <3>2
    <2>4. DeadAreOver'
      BY <1>a, <1>c, <2>1, <2>2, RegistryAssumption, LoopsAssumption DEF DeadAreOver
    <2>5. QED
      BY <1>a, <2>1, <2>3, <2>4 DEF PromptInv
  <1>e. ASSUME NEW s \in Servers, life'[s] \notin {"new", "up"}, life[s] # "new",
               \A t \in Servers : t # s => /\ life'[t] = life[t] /\ beat'[t] = beat[t]
                                          /\ hb'[t] = hb[t],
               hb'[s] = hb[s] \/ hb'[s] = Waiting(0), UNCHANGED faults
        PROVE  PromptInv'
    <2>1. ASSUME NEW t \in Servers PROVE OnTime(t)' /\ (life'[t] = "new" => ~Registered(t)')
      <3>1. CASE t = s
        BY <3>1, <1>e DEF OnTime
      <3>2. CASE t # s
        BY <3>2, <1>a, <1>b, <1>e, OnTimeKept DEF Registered
      <3>3. QED
        BY <3>1, <3>2
    <2>2. Waiting(0).dead = {} /\ Waiting(0).peer = NoServer
      BY WaitingType
    <2>3. DeadAreOver'
      BY <1>a, <1>e, <2>2, RegistryAssumption, LoopsAssumption DEF DeadAreOver
    <2>4. QED
      BY <1>a, <1>e, <2>1, <2>3 DEF PromptInv
  <1>2. ASSUME NEW s \in Servers, Stop(s) PROVE PromptInv'
    <2>1. /\ life[s] # "new" /\ life'[s] = "stopping"
          /\ \A t \in Servers : t # s => life'[t] = life[t] /\ beat'[t] = beat[t] /\ hb'[t] = hb[t]
          /\ hb'[s] = hb[s] /\ UNCHANGED faults
      BY <1>2, <1>c DEF Stop
    <2>2. QED
      BY <1>e, <2>1
  <1>3. ASSUME NEW s \in Servers, Stopped(s) \/ Crash(s) PROVE PromptInv'
    <2>1. /\ life[s] # "new" /\ life'[s] \in {"down", "crashed"}
          /\ \A t \in Servers : t # s => life'[t] = life[t] /\ beat'[t] = beat[t] /\ hb'[t] = hb[t]
          /\ hb'[s] = Waiting(0) /\ UNCHANGED faults
      BY <1>3, <1>c DEF Stopped, Crash
    <2>2. QED
      BY <1>e, <2>1
  <1>f. ASSUME UNCHANGED <<life, beat, hb, faults>> PROVE PromptInv'
    <2>1. ASSUME NEW t \in Servers PROVE OnTime(t)' /\ (life'[t] = "new" => ~Registered(t)')
      BY <1>a, <1>b, <1>f, OnTimeKept DEF Registered
    <2>2. QED
      BY <1>a, <1>f, <2>1 DEF PromptInv, DeadAreOver
  <1>4. ASSUME NEW j \in Jobs, Finish(j) \/ \E s \in Servers : Claim(s, j) PROVE PromptInv'
    BY <1>4, <1>f DEF Finish, Claim
  <1>6. ASSUME NEW s \in Servers, HeartbeatTick(s) PROVE PromptInv'
    <2> DEFINE new == [Waiting(0) EXCEPT !.pc = "bump"]
    <2>1. /\ life[s] = "up" /\ hb[s].pc = "wait" /\ UNCHANGED <<life, beat, faults>>
          /\ hb' = [hb EXCEPT ![s] = new]
      BY <1>6 DEF HeartbeatTick
    <2>2. /\ new.pc = "bump" /\ new.since = 0 /\ new.age = 0 /\ new.dead = {}
          /\ new.peer = NoServer
      BY WaitingType
    <2> HIDE DEF new
    <2>3. hb'[s] = new /\ \A t \in Servers : t # s => hb'[t] = hb[t]
      BY <1>c, <2>1
    <2>4. OnTime(s)'
      <3>1. /\ Registered(s) /\ hb[s].since <= Cycle /\ beat[s] <= hb[s].since + faults * Cycle
            /\ beat[s] \in Nat
        BY <1>b, <1>c, <1>d, <2>1 DEF OnTime, Allowance, Registered
      <3>2. beat[s] <= 0 + faults * Cycle + Cycle
        BY <3>1, <1>c, <1>d
      <3>3. Allowance(s)' = 0 + faults * Cycle + Cycle
        BY <2>1, <2>2, <2>3 DEF Allowance
      <3>4. QED
        BY <3>1, <3>2, <3>3, <1>d, <2>1, <2>2, <2>3 DEF OnTime, Registered
    <2>5. ASSUME NEW t \in Servers PROVE OnTime(t)' /\ (life'[t] = "new" => ~Registered(t)')
      <3>1. CASE t = s
        BY <3>1, <2>1, <2>4
      <3>2. CASE t # s
        BY <3>2, <1>a, <1>b, <2>1, <2>3, OnTimeKept DEF Registered
      <3>3. QED
        BY <3>1, <3>2
    <2>6. DeadAreOver'
      BY <1>a, <2>1, <2>2, <2>3, RegistryAssumption, LoopsAssumption DEF DeadAreOver
    <2>7. QED
      BY <1>a, <2>1, <2>5, <2>6 DEF PromptInv
  <1>g. ASSUME NEW s \in Servers, Alive(s), NEW pc, NEW dead, NEW peer,
               HbStep(s, {pc}, dead, peer), UNCHANGED life, OnTime(s)',
               faults' \in {faults, faults + 1}, faults' <= MaxFaults,
               \A t \in Servers : t # s =>
                   beat'[t] = beat[t] \/ life[t] \notin {"new", "up"},
               \A p \in Servers : p \in dead \cup {peer} => life[p] \notin {"new", "up"}
        PROVE  PromptInv'
    <2>1. ASSUME NEW t \in Servers PROVE OnTime(t)' /\ (life'[t] = "new" => ~Registered(t)')
      <3>1. CASE t = s
        BY <3>1, <1>g DEF Alive
      <3>2. CASE t # s /\ life[t] \notin {"new", "up"}
        BY <3>2, <1>g DEF OnTime
      <3>3. CASE t # s /\ beat'[t] = beat[t]
        <4>1. hb'[t] = hb[t] /\ life'[t] = life[t]
          BY <3>3, <1>g DEF HbStep
        <4>2. QED
          BY <3>3, <4>1, <1>a, <1>b, <1>g, OnTimeKept DEF Registered
      <3>4. QED
        BY <3>1, <3>2, <3>3, <1>g
    <2>2. DeadAreOver'
      BY <1>a, <1>g, DeadKept
    <2>3. QED
      BY <1>a, <1>g, <2>1, <2>2 DEF PromptInv
  <1>h. \A s, p \in Servers : p \in hb[s].dead \cup {hb[s].peer} => life[p] \notin {"new", "up"}
    BY <1>a DEF DeadAreOver
  <1>7. ASSUME NEW s \in Servers, HeartbeatServer(s) PROVE PromptInv'
    <2>1. Alive(s) /\ hb[s].pc = "bump" /\ UNCHANGED <<life, faults>>
      BY <1>7 DEF HeartbeatServer
    <2>2. PICK pc \in {"set", "list"} :
              /\ To(s, pc)
              /\ \/ pc = "set" /\ UNCHANGED beat
                 \/ pc = "list" /\ ~Registered(s) /\ UNCHANGED beat
                 \/ pc = "list" /\ beat' = [beat EXCEPT ![s] = hb[s].age]
      BY <1>7 DEF HeartbeatServer
    <2>3. HbStep(s, {pc}, hb[s].dead, hb[s].peer)
      BY <1>c, <2>2, ToStep
    <2>4. \A t \in Servers : t # s => beat'[t] = beat[t]
      BY <1>c, <2>2
    <2>5. OnTime(s)'
      <3>1. CASE ~Registered(s)
        BY <3>1, <1>b, <2>1 DEF OnTime
      <3>2. CASE Registered(s)
        <4>1. \/ pc = "set" /\ beat'[s] = beat[s]
              \/ beat'[s] = hb[s].age
          BY <3>2, <1>c, <2>2
        <4>2. QED
          BY <4>1, <1>a, <1>b, <2>1, <2>3, OnTimeMoved
      <3>3. QED
        BY <3>1, <3>2
    <2>6. QED
      BY <1>a, <1>g, <1>h, <2>1, <2>3, <2>4, <2>5
  <1>8. ASSUME NEW s \in Servers, HeartbeatSet(s) PROVE PromptInv'
    <2>1. /\ Alive(s) /\ hb[s].pc = "set" /\ UNCHANGED <<life, faults>>
          /\ beat' = [beat EXCEPT ![s] = hb[s].age] /\ To(s, "list")
      BY <1>8 DEF HeartbeatSet
    <2>2. HbStep(s, {"list"}, hb[s].dead, hb[s].peer)
      BY <1>c, <2>1, ToStep
    <2>3. beat'[s] = hb[s].age /\ \A t \in Servers : t # s => beat'[t] = beat[t]
      BY <1>c, <2>1
    <2>4. OnTime(s)'
      BY <1>a, <1>b, <2>1, <2>2, <2>3, OnTimeMoved
    <2>5. QED
      BY <1>a, <1>g, <1>h, <2>1, <2>2, <2>3, <2>4
  <1>9. ASSUME NEW s \in Servers, ListDeadServers(s) PROVE PromptInv'
    <2> DEFINE dead == {p \in listed \ {s} : Registered(p) /\ Dead(s, p)}
    <2>1. Alive(s) /\ hb[s].pc = "list" /\ UNCHANGED <<life, beat, faults>>
      BY <1>9 DEF ListDeadServers
    <2>2. PICK pc \in {"wait", "reclaim"} : HbStep(s, {pc}, dead, hb[s].peer)
      BY <1>9, <1>a, ScanSteps
    <2>3. ASSUME NEW p \in Servers, p \in dead PROVE life[p] \notin {"new", "up"}
      <3>1. Registered(p) /\ beat[p] > hb[s].age + DeadTimeout
        BY <2>3 DEF Dead
      <3>2. life[p] # "new"
        BY <3>1, <1>b
      <3>3. ASSUME life[p] = "up" PROVE FALSE
        <4>1. beat[p] \in Nat /\ beat[p] <= DeadTimeout
          BY <3>3, <1>a, <1>b, NeverTooOld
        <4>2. QED
          BY <3>1, <4>1, <1>c, RegistryAssumption, LoopsAssumption
      <3>4. QED
        BY <3>2, <3>3
    <2> HIDE DEF dead
    <2>4. OnTime(s)'
      BY <1>a, <1>b, <2>1, <2>2, OnTimeMoved
    <2>5. QED
      BY <1>a, <1>g, <1>h, <2>1, <2>2, <2>3, <2>4
  <1>10. ASSUME NEW s \in Servers, NEW p \in Servers, ReclaimJobsFromServer(s, p) PROVE PromptInv'
    <2>1. Alive(s) /\ hb[s].pc = "reclaim" /\ UNCHANGED <<life, beat, faults>>
      BY <1>10 DEF ReclaimJobsFromServer
    <2>2. p \in hb[s].dead /\ HbStep(s, {"deregister"}, hb[s].dead \ {p}, p)
      BY <1>10, <1>a, ScanSteps
    <2>3. OnTime(s)'
      BY <1>a, <1>b, <2>1, <2>2, OnTimeMoved
    <2>4. \A q \in Servers : q \in (hb[s].dead \ {p}) \cup {p} => life[q] \notin {"new", "up"}
      BY <1>h, <2>2
    <2>5. QED
      BY <1>a, <1>g, <2>1, <2>2, <2>3, <2>4
  <1>11. ASSUME NEW s \in Servers, DeregisterPeer(s) PROVE PromptInv'
    <2>1. /\ Alive(s) /\ hb[s].pc = "deregister" /\ UNCHANGED <<life, faults>>
          /\ beat' = [beat EXCEPT ![hb[s].peer] = NoRow]
      BY <1>11 DEF DeregisterPeer
    <2>2. PICK pc \in {"wait", "reclaim"} : HbStep(s, {pc}, hb[s].dead, NoServer)
      BY <1>11, <1>a, ScanSteps
    <2>3. \A t \in Servers : beat'[t] = beat[t] \/ t = hb[s].peer
      BY <1>c, <2>1
    <2>4. beat'[s] = beat[s]
      BY <1>c, <2>3
    <2>5. OnTime(s)'
      BY <1>a, <1>b, <2>1, <2>2, <2>4, OnTimeMoved
    <2>6. \A q \in Servers : q \in hb[s].dead \cup {NoServer} => life[q] \notin {"new", "up"}
      BY <1>h, RegistryAssumption, LoopsAssumption
    <2>7. \A t \in Servers : beat'[t] = beat[t] \/ life[t] \notin {"new", "up"}
      BY <1>h, <2>3
    <2>8. QED
      BY <1>a, <1>g, <2>1, <2>2, <2>5, <2>6, <2>7
  <1>12. ASSUME NEW s \in Servers, CallFails(s) PROVE PromptInv'
    <2>1. /\ Alive(s) /\ hb[s].pc # "wait" /\ UNCHANGED <<life, beat>>
          /\ faults < MaxFaults /\ faults' = faults + 1
      BY <1>12 DEF CallFails
    <2>2. PICK pc \in {"wait", "reclaim"}, dead \in SUBSET hb[s].dead,
               peer \in {hb[s].peer, NoServer} : HbStep(s, {pc}, dead, peer)
      BY <1>12, <1>a, ScanSteps
    <2>3. OnTime(s)'
      BY <1>a, <1>b, <2>1, <2>2, OnTimeMoved
    <2>4. \A q \in Servers : q \in dead \cup {peer} => life[q] \notin {"new", "up"}
      BY <1>h, RegistryAssumption, LoopsAssumption
    <2>5. faults' <= MaxFaults
      BY <1>c, <2>1, RegistryAssumption, LoopsAssumption
    <2>6. QED
      BY <1>g, <2>1, <2>2, <2>3, <2>4, <2>5
  <1>13. CASE Tick
    <2>1. ASSUME NEW s \in Servers, life[s] = "up" PROVE OnTime(s)'
      <3>1. /\ hb[s].pc = "wait" => hb[s].since < Cycle
            /\ hb[s].pc # "wait" => hb[s].age < MaxLag
        BY <1>13, <2>1 DEF Tick, Cycle
      <3>2. /\ Registered(s) /\ beat[s] \in Nat /\ beat[s] <= Allowance(s)
            /\ hb[s].pc # "wait" => hb[s].age = hb[s].since
        BY <1>b, <1>c, <2>1 DEF OnTime, Registered
      <3>3. Cycle < MaxAge /\ MaxAge \in Nat
        <4>1. MaxFaults * Cycle \in Nat /\ (1 + MaxFaults) * Cycle = MaxFaults * Cycle + Cycle
          BY CycleType, RegistryAssumption, LoopsAssumption
        <4>2. DeadTimeout >= MaxFaults * Cycle + Cycle + MaxLag
          BY <4>1 DEF TimeoutExceedsInterval, Cycle
        <4>3. QED
          BY <4>1, <4>2, <1>d, RegistryAssumption, LoopsAssumption DEF MaxAge
      <3>4. /\ life'[s] = "up" /\ beat'[s] = Older(beat[s])
            /\ hb'[s].pc = hb[s].pc /\ hb'[s].since = Older(hb[s].since)
            /\ hb'[s].age = (IF hb[s].pc = "wait" THEN 0 ELSE Older(hb[s].age))
            /\ faults' = faults
        <4>1. hb'[s] = [hb[s] EXCEPT !.since = Older(@), !.age = IF hb[s].pc = "wait" THEN 0 ELSE Older(@)]
          BY <1>13, <2>1 DEF Tick, Alive
        <4>2. /\ hb'[s].pc = hb[s].pc /\ hb'[s].since = Older(hb[s].since)
              /\ hb'[s].age = (IF hb[s].pc = "wait" THEN 0 ELSE Older(hb[s].age))
          BY <1>c, <4>1, OlderHb
        <4>3. QED
          BY <1>13, <2>1, <3>2, <4>2 DEF Tick
      <3>5. hb[s].since < MaxAge
        BY <1>c, <1>d, <3>1, <3>2, <3>3
      <3>6. Older(hb[s].since) = hb[s].since + 1 /\ Older(beat[s]) \in Nat
            /\ Older(beat[s]) <= beat[s] + 1
        BY <1>c, <3>2, <3>5, OlderType
      <3>7. Allowance(s)' = Allowance(s) + 1 /\ Allowance(s) \in Nat
        BY <1>c, <1>d, <3>4, <3>6 DEF Allowance
      <3>8. hb[s].pc # "wait" => hb'[s].age = hb'[s].since /\ hb'[s].age <= MaxLag
        BY <1>c, <1>d, <3>1, <3>2, <3>4, <3>6
      <3>9. hb[s].pc = "wait" => hb'[s].since <= Cycle
        BY <1>c, <1>d, <3>1, <3>4, <3>6
      <3>10. beat'[s] <= Allowance(s)' /\ beat'[s] # NoRow
        BY <3>2, <3>4, <3>6, <3>7 DEF NoRow
      <3>11. QED
        BY <3>4, <3>8, <3>9, <3>10 DEF OnTime, Registered
    <2>2. ASSUME NEW s \in Servers PROVE OnTime(s)' /\ (life'[s] = "new" => ~Registered(s)')
      <3>1. life'[s] = life[s] /\ (~Registered(s) => ~Registered(s)')
        BY <1>13 DEF Tick, Registered
      <3>2. life[s] # "up" => OnTime(s)'
        BY <3>1 DEF OnTime
      <3>3. QED
        BY <1>b, <2>1, <3>1, <3>2
    <2>3. DeadAreOver'
      <3>1. ASSUME NEW s \in Servers PROVE hb'[s].dead = hb[s].dead /\ hb'[s].peer = hb[s].peer
        <4>1. CASE Alive(s)
          <5>1. hb'[s] = [hb[s] EXCEPT !.since = Older(@),
                                       !.age = IF hb[s].pc = "wait" THEN 0 ELSE Older(@)]
            BY <1>13, <4>1 DEF Tick
          <5>2. QED
            BY <1>c, <5>1, OlderHb
        <4>2. CASE ~Alive(s)
          BY <1>13, <4>2 DEF Tick
        <4>3. QED
          BY <4>1, <4>2
      <3>2. UNCHANGED life
        BY <1>13 DEF Tick
      <3>3. QED
        BY <1>a, <3>1, <3>2 DEF DeadAreOver
    <2>4. UNCHANGED faults
      BY <1>13 DEF Tick
    <2>5. QED
      BY <1>a, <2>2, <2>3, <2>4 DEF PromptInv
  <1>14. CASE UNCHANGED vars
    BY <1>14, <1>f DEF vars
  <1>15. QED
    BY <1>1, <1>2, <1>3, <1>4, <1>6, <1>7, <1>8, <1>9, <1>10, <1>11, <1>12, <1>13, <1>14
       DEF Next, HeartbeatStep

\* When dead_server_timeout covers the cycles that failing bumps cost, a
\* running server whose heartbeats come in time is never taken for dead.
THEOREM PromptServerKept ==
  ASSUME TimeoutExceedsInterval
  PROVE  Spec => []PromptServerStaysRegistered
  <1>1. PromptInv => PromptServerStaysRegistered
    BY DEF PromptInv, OnTime, PromptServerStaysRegistered
  <1>2. QED
    BY <1>1, InitPrompt, NextPrompt, PTL DEF Spec

(***************************************************************************)
(* The recurring-job pollers.                                              *)
(***************************************************************************)

\* A claim key outlives two ticks of a poller.
KeyOutlives == "redis" \in Backends => ClaimTtl > 2 * MaxLag

PollSet == [pc: {"idle", "fetch", "claim", "read", "park", "fire", "write", "index"},
            at: Nat, age: Nat, todo: SUBSET Templates, held: SUBSET Templates,
            cur: Templates \cup {None}, copy: [Templates -> Row]]

\* Where tick_once is tells what it holds: a listing until all is claimed, the
\* claimed templates until they are written back, and one in hand in between.
PollOK(p) ==
    /\ poll[p].pc \in {"claim", "read", "park", "index"} => backend = "redis"
    /\ poll[p].pc \in {"write", "index"} => poll[p].cur \in poll[p].held
    /\ poll[p].pc \in {"read", "park"} => poll[p].cur \in Templates \ (poll[p].held \cup poll[p].todo)
    /\ poll[p].pc \in {"idle", "fetch", "claim", "fire"} => poll[p].cur = None
    /\ poll[p].pc \notin {"claim", "read", "park"} => poll[p].todo = {}
    /\ poll[p].pc \in {"idle", "fetch"} => poll[p].held = {}
    /\ poll[p].todo \cap poll[p].held = {}
    /\ poll[p].at <= now /\ poll[p].age <= MaxLag

\* One write changes row and index in MemoryStorage and Postgres.
RowOK(t) ==
    backend = "atomic" => op[t] = NoOp /\ (row[t].enabled => index[t] = row[t].next)

RecShape ==
    /\ CronTypeOK /\ now <= MaxTime
    /\ \A p \in Pollers : PollOK(p)
    /\ \A t \in Templates : RowOK(t)

\* An occurrence follows, by at most a period.
LEMMA NextAfterBounds ==
  ASSUME NEW n \in Nat
  PROVE  NextAfter(n) \in Nat /\ NextAfter(n) > n /\ NextAfter(n) <= n + Period
  <1>1. /\ n \div Period \in Int /\ n % Period \in 0..(Period - 1)
        /\ n = Period * (n \div Period) + (n % Period)
    BY RecurringAssumption, LoopsAssumption
  <1>2. NextAfter(n) = Period * (n \div Period) + Period
    BY <1>1, RecurringAssumption, LoopsAssumption DEF NextAfter
  <1>3. QED
    BY <1>1, <1>2, RecurringAssumption, LoopsAssumption

\* Advancing keeps a row a row, and an enabled one is put beyond the instant.
LEMMA AdvanceBounds ==
  ASSUME NEW r \in Row, NEW n \in Nat
  PROVE  /\ Advance(r, n) \in Row
         /\ Advance(r, n).next <= r.next \/ Advance(r, n).next <= n + Period
         /\ Advance(r, n).enabled => Advance(r, n).next > n
  <1>1. CASE HasNext(n)
    <2>1. Advance(r, n) = [r EXCEPT !.next = NextAfter(n)]
      BY <1>1 DEF Advance
    <2>2. NextAfter(n) \in Nat /\ NextAfter(n) > n /\ NextAfter(n) <= n + Period
      BY NextAfterBounds
    <2>3. QED
      BY <2>1, <2>2 DEF Row
  <1>2. CASE ~HasNext(n)
    <2>1. Advance(r, n) = [r EXCEPT !.enabled = FALSE]
      BY <1>2 DEF Advance
    <2>2. /\ Advance(r, n).next = r.next /\ Advance(r, n).enabled = FALSE
          /\ Advance(r, n) \in Row
      BY <2>1 DEF Row
    <2>3. r.next \in Nat
      BY DEF Row
    <2>4. QED
      BY <2>2, <2>3
  <1>3. QED
    BY <1>1, <1>2

\* A poller between two ticks is well typed.
LEMMA IdleType == NoTemplate \in Row /\ Idle \in PollSet
  BY DEF NoTemplate, Row, Idle, PollSet

\* The state starts in shape: nothing stored, nobody polling.
LEMMA InitShape == CronInit => RecShape
  <1> SUFFICES ASSUME CronInit PROVE RecShape
    OBVIOUS
  <1>1. CronTypeOK
    BY IdleType, RecurringAssumption, LoopsAssumption
       DEF CronInit, CronTypeOK, PollSet, NoOp, NoIndex, Idle
  <1>2. \A p \in Pollers : PollOK(p)
    BY RecurringAssumption, LoopsAssumption DEF CronInit, PollOK, Idle
  <1>3. \A t \in Templates : RowOK(t)
    BY DEF CronInit, RowOK, NoTemplate
  <1>4. QED
    BY <1>1, <1>2, <1>3, RecurringAssumption, LoopsAssumption DEF RecShape, CronInit

\* A step of p that leaves clock and backend alone keeps the other pollers.
LEMMA PollStep ==
  ASSUME RecShape, NEW p \in Pollers, UNCHANGED <<backend, now>>,
         poll' = [poll EXCEPT ![p] = poll'[p]], poll'[p] \in PollSet, PollOK(p)'
  PROVE  poll' \in [Pollers -> PollSet] /\ \A q \in Pollers : PollOK(q)'
  <1>1. poll \in [Pollers -> PollSet]
    BY DEF RecShape, CronTypeOK, PollSet
  <1>2. poll' \in [Pollers -> PollSet]
    BY <1>1
  <1>3. ASSUME NEW q \in Pollers, q # p PROVE PollOK(q)'
    <2>1. poll'[q] = poll[q] /\ PollOK(q)
      BY <1>1, <1>3 DEF RecShape
    <2>2. QED
      BY <2>1 DEF PollOK
  <1>4. QED
    BY <1>2, <1>3

(***************************************************************************)
(* What the steps of a poller do to it.                                    *)
(***************************************************************************)

\* A step of p: no other poller moves.
Only(p) == poll' = [poll EXCEPT ![p] = poll'[p]] /\ poll'[p] \in PollSet

\* A step that overwrites fields of one poller by values of their types.
LEMMA OnlyFields ==
  ASSUME CronTypeOK, NEW p \in Pollers, NEW r \in PollSet, poll' = [poll EXCEPT ![p] = r]
  PROVE  Only(p) /\ poll'[p] = r /\ \A q \in Pollers \ {p} : poll'[q] = poll[q]
  <1>1. poll \in [Pollers -> PollSet]
    BY DEF CronTypeOK, PollSet
  <1>2. poll'[p] = r
    BY <1>1
  <1>3. QED
    BY <1>1, <1>2 DEF Only

\* TickOnce: the clock is read, and nothing is held.
LEMMA TickOncePoll ==
  ASSUME RecShape, NEW p \in Pollers, TickOnce(p)
  PROVE  /\ Only(p) /\ \A q \in Pollers \ {p} : poll'[q] = poll[q]
         /\ poll[p].pc = "idle"
         /\ poll'[p].pc = "fetch" /\ poll'[p].at = now /\ poll'[p].age = 0
         /\ poll'[p].todo = {} /\ poll'[p].held = {} /\ poll'[p].cur = None
  <1> DEFINE r == [Idle EXCEPT !.pc = "fetch", !.at = now]
  <1>1. r \in PollSet /\ r.pc = "fetch" /\ r.at = now /\ r.age = 0 /\ r.todo = {} /\ r.held = {} /\ r.cur = None
    BY IdleType DEF Idle, PollSet, RecShape, CronTypeOK
  <1>2. poll' = [poll EXCEPT ![p] = r] /\ poll[p].pc = "idle"
    BY DEF TickOnce
  <1> HIDE DEF r
  <1>3. QED
    BY <1>1, <1>2, OnlyFields DEF RecShape

\* The claimed templates are parked, and the poller has the copies.
LEMMA FetchDuePoll ==
  ASSUME RecShape, NEW p \in Pollers, FetchDue(p)
  PROVE  \E B \in SUBSET Templates :
         /\ \A t \in B : row[t].enabled /\ index[t] \in 0..poll[p].at
         /\ Only(p) /\ \A q \in Pollers \ {p} : poll'[q] = poll[q]
         /\ poll[p].pc = "fetch" /\ backend = "atomic"
         /\ poll'[p].pc = (IF B = {} THEN "idle" ELSE "fire")
         /\ poll'[p].at = poll[p].at /\ poll'[p].age = poll[p].age
         /\ poll'[p].todo = poll[p].todo /\ poll'[p].cur = poll[p].cur
         /\ poll'[p].held = B
         /\ \A t \in B : poll'[p].copy[t] = row[t]
         /\ row' \in [Templates -> Row] /\ index' \in [Templates -> Nat \cup {NoIndex}]
         /\ \A t \in B : /\ index'[t] = poll[p].at + ParkFor
                         /\ row'[t] = [row[t] EXCEPT !.next = poll[p].at + ParkFor]
         /\ \A t \in Templates \ B : index'[t] = index[t] /\ row'[t] = row[t]
  <1>1. PICK B \in FirstOf({t \in Listed(poll[p].at) : row[t].enabled}) :
          /\ poll' = [poll EXCEPT ![p].pc = IF B = {} THEN "idle" ELSE "fire",
                                  ![p].held = B,
                                  ![p].copy = [t \in Templates |-> IF t \in B THEN row[t] ELSE NoTemplate]]
          /\ Parked(B, poll[p].at)
    BY DEF FetchDue
  <1>2. /\ B \in SUBSET Templates
        /\ \A t \in B : row[t].enabled /\ index[t] \in 0..poll[p].at
    BY DEF FirstOf, Listed
  <1>3. /\ poll[p].pc = "fetch" /\ backend = "atomic" /\ poll[p] \in PollSet
        /\ row \in [Templates -> Row] /\ index \in [Templates -> Nat \cup {NoIndex}]
    BY DEF FetchDue, RecShape, CronTypeOK, PollSet
  <1>4. poll[p].at + ParkFor \in Nat
    BY <1>3, RecurringAssumption, LoopsAssumption DEF PollSet
  <1> DEFINE c == [t \in Templates |-> IF t \in B THEN row[t] ELSE NoTemplate]
             r == [poll[p] EXCEPT !.pc = IF B = {} THEN "idle" ELSE "fire", !.held = B, !.copy = c]
  <1>5. c \in [Templates -> Row] /\ \A t \in B : c[t] = row[t]
    BY <1>2, <1>3, IdleType
  <1>6. poll' = [poll EXCEPT ![p] = r]
    BY <1>1 DEF RecShape, CronTypeOK
  <1> HIDE DEF c
  <1>7. /\ r \in PollSet /\ r.pc = (IF B = {} THEN "idle" ELSE "fire") /\ r.held = B /\ r.copy = c
        /\ r.at = poll[p].at /\ r.age = poll[p].age /\ r.todo = poll[p].todo /\ r.cur = poll[p].cur
    BY <1>2, <1>3, <1>5 DEF PollSet
  <1> HIDE DEF r
  <1>8. /\ row' \in [Templates -> Row] /\ index' \in [Templates -> Nat \cup {NoIndex}]
        /\ \A t \in B : /\ index'[t] = poll[p].at + ParkFor
                        /\ row'[t] = [row[t] EXCEPT !.next = poll[p].at + ParkFor]
        /\ \A t \in Templates \ B : index'[t] = index[t] /\ row'[t] = row[t]
    <2>1. \A t \in Templates : [row[t] EXCEPT !.next = poll[p].at + ParkFor] \in Row
      BY <1>3, <1>4 DEF Row
    <2>2. QED
      BY <1>1, <1>2, <1>3, <1>4, <2>1 DEF Parked
  <1>9. Only(p) /\ poll'[p] = r /\ \A q \in Pollers \ {p} : poll'[q] = poll[q]
    BY <1>6, <1>7, OnlyFields DEF RecShape
  <1>10. QED
    BY <1>2, <1>3, <1>5, <1>7, <1>8, <1>9

\* ListDue: the listing is all the poller gets.
LEMMA ListDuePoll ==
  ASSUME RecShape, NEW p \in Pollers, ListDue(p)
  PROVE  \E B \in SUBSET Templates :
         /\ \A t \in B : index[t] \in 0..poll[p].at
         /\ Only(p) /\ \A q \in Pollers \ {p} : poll'[q] = poll[q]
         /\ poll[p].pc = "fetch" /\ backend = "redis"
         /\ poll'[p].pc = (IF B = {} THEN "idle" ELSE "claim")
         /\ poll'[p].at = poll[p].at /\ poll'[p].age = poll[p].age
         /\ poll'[p].held = poll[p].held /\ poll'[p].cur = poll[p].cur
         /\ poll'[p].todo = B
         /\ crossed' = crossed \cup {t \in B : op[t] # NoOp}
  <1>1. PICK B \in FirstOf(Listed(poll[p].at)) :
          /\ poll' = [poll EXCEPT ![p].pc = IF B = {} THEN "idle" ELSE "claim", ![p].todo = B]
          /\ crossed' = crossed \cup {t \in B : op[t] # NoOp}
    BY DEF ListDue
  <1>2. /\ B \in SUBSET Templates
        /\ \A t \in B : index[t] \in 0..poll[p].at
    BY DEF FirstOf, Listed
  <1>3. poll[p].pc = "fetch" /\ backend = "redis" /\ poll[p] \in PollSet
    BY DEF ListDue, RecShape, CronTypeOK, PollSet
  <1> DEFINE r == [poll[p] EXCEPT !.pc = IF B = {} THEN "idle" ELSE "claim", !.todo = B]
  <1>4. poll' = [poll EXCEPT ![p] = r]
    BY <1>1 DEF RecShape, CronTypeOK
  <1>5. /\ r \in PollSet /\ r.pc = (IF B = {} THEN "idle" ELSE "claim") /\ r.todo = B
        /\ r.at = poll[p].at /\ r.age = poll[p].age /\ r.held = poll[p].held /\ r.cur = poll[p].cur
    BY <1>2, <1>3 DEF PollSet
  <1> HIDE DEF r
  <1>6. Only(p) /\ poll'[p] = r /\ \A q \in Pollers \ {p} : poll'[q] = poll[q]
    BY <1>4, <1>5, OnlyFields DEF RecShape
  <1>7. QED
    BY <1>1, <1>2, <1>3, <1>5, <1>6

\* ClaimKey: the template leaves the listing, with its key or without.
LEMMA ClaimKeyPoll ==
  ASSUME RecShape, NEW p \in Pollers, NEW t \in Templates, ClaimKey(p, t)
  PROVE  /\ Only(p) /\ \A q \in Pollers \ {p} : poll'[q] = poll[q]
         /\ poll[p].pc = "claim" /\ t \in poll[p].todo
         /\ poll'[p].at = poll[p].at /\ poll'[p].age = poll[p].age
         /\ poll'[p].held = poll[p].held /\ poll'[p].todo = poll[p].todo \ {t}
         /\ poll'[p].copy = poll[p].copy
         /\ \/ /\ key[t] = 0 /\ key' = [key EXCEPT ![t] = ClaimTtl]
               /\ poll'[p].pc = "read" /\ poll'[p].cur = t
            \/ /\ key' = key
               /\ poll'[p].pc = "claim" /\ poll'[p].cur = poll[p].cur
  <1>1. poll[p].pc = "claim" /\ t \in poll[p].todo /\ poll[p] \in PollSet
    BY DEF ClaimKey, RecShape, CronTypeOK, PollSet
  <1>2. CASE KeyFree(t)
    <2> DEFINE r == [poll[p] EXCEPT !.pc = "read", !.todo = @ \ {t}, !.cur = t]
    <2>1. poll' = [poll EXCEPT ![p] = r] /\ key' = [key EXCEPT ![t] = ClaimTtl] /\ key[t] = 0
      BY <1>2 DEF ClaimKey, RecShape, CronTypeOK, KeyFree
    <2>2. /\ r \in PollSet /\ r.pc = "read" /\ r.cur = t /\ r.todo = poll[p].todo \ {t}
          /\ r.at = poll[p].at /\ r.age = poll[p].age /\ r.held = poll[p].held /\ r.copy = poll[p].copy
      BY <1>1 DEF PollSet
    <2> HIDE DEF r
    <2>3. QED
      BY <1>1, <2>1, <2>2, OnlyFields DEF RecShape
  <1>3. CASE ~KeyFree(t)
    <2> DEFINE r == [poll[p] EXCEPT !.todo = @ \ {t}]
    <2>1. poll' = [poll EXCEPT ![p] = r] /\ key' = key
      BY <1>3 DEF ClaimKey, RecShape, CronTypeOK
    <2>2. /\ r \in PollSet /\ r.pc = "claim" /\ r.cur = poll[p].cur /\ r.todo = poll[p].todo \ {t}
          /\ r.at = poll[p].at /\ r.age = poll[p].age /\ r.held = poll[p].held /\ r.copy = poll[p].copy
      BY <1>1 DEF PollSet
    <2> HIDE DEF r
    <2>3. QED
      BY <1>1, <2>1, <2>2, OnlyFields DEF RecShape
  <1>4. QED
    BY <1>2, <1>3

\* ReadRow: the copy is the row just read, or the template is dropped.
LEMMA ReadRowPoll ==
  ASSUME RecShape, NEW p \in Pollers, ReadRow(p), NEW t \in Templates, t = poll[p].cur
  PROVE  /\ Only(p) /\ \A q \in Pollers \ {p} : poll'[q] = poll[q]
         /\ poll[p].pc = "read"
         /\ poll'[p].at = poll[p].at /\ poll'[p].age = poll[p].age
         /\ poll'[p].held = poll[p].held /\ poll'[p].todo = poll[p].todo
         /\ \A u \in Templates \ {t} : poll'[p].copy[u] = poll[p].copy[u]
         /\ \/ /\ row[t].enabled /\ row[t].next <= poll[p].at
               /\ poll'[p].pc = "park" /\ poll'[p].cur = t /\ poll'[p].copy[t] = row[t]
            \/ poll'[p].pc = "claim" /\ poll'[p].cur = None
  <1>1. /\ poll[p].pc = "read" /\ poll[p] \in PollSet /\ row[t] \in Row
    BY DEF ReadRow, RecShape, CronTypeOK, PollSet, PollOK
  <1>0. IF row[t].version # 0 /\ row[t].enabled /\ row[t].next <= poll[p].at
        THEN poll' = [poll EXCEPT ![p].pc = "park", ![p].copy[t] = row[t]]
        ELSE poll' = [poll EXCEPT ![p].pc = "claim", ![p].cur = None]
    BY Zenon DEF ReadRow
  <1>2. CASE row[t].version # 0 /\ row[t].enabled /\ row[t].next <= poll[p].at
    <2> DEFINE c == [poll[p].copy EXCEPT ![t] = row[t]]
               r == [poll[p] EXCEPT !.pc = "park", !.copy = c]
    <2>0. poll' = [poll EXCEPT ![p].pc = "park", ![p].copy[t] = row[t]]
      BY <1>0, <1>2, Zenon
    <2>1. poll' = [poll EXCEPT ![p] = r]
      BY <2>0 DEF RecShape, CronTypeOK
    <2>2. /\ c \in [Templates -> Row] /\ c[t] = row[t]
          /\ \A u \in Templates \ {t} : c[u] = poll[p].copy[u]
      BY <1>1 DEF PollSet
    <2> HIDE DEF c
    <2>3. /\ r \in PollSet /\ r.pc = "park" /\ r.cur = t /\ r.todo = poll[p].todo /\ r.copy = c
          /\ r.at = poll[p].at /\ r.age = poll[p].age /\ r.held = poll[p].held
      BY <1>1, <2>2 DEF PollSet
    <2> HIDE DEF r
    <2>4. Only(p) /\ poll'[p] = r /\ \A q \in Pollers \ {p} : poll'[q] = poll[q]
      BY <2>1, <2>3, OnlyFields DEF RecShape
    <2>5. QED
      BY <1>1, <1>2, <2>2, <2>3, <2>4, Zenon
  <1>3. CASE ~(row[t].version # 0 /\ row[t].enabled /\ row[t].next <= poll[p].at)
    <2> DEFINE r == [poll[p] EXCEPT !.pc = "claim", !.cur = None]
    <2>1. poll' = [poll EXCEPT ![p] = r]
      BY <1>0, <1>3 DEF RecShape, CronTypeOK
    <2>2. /\ r \in PollSet /\ r.pc = "claim" /\ r.cur = None /\ r.todo = poll[p].todo
          /\ r.copy = poll[p].copy
          /\ r.at = poll[p].at /\ r.age = poll[p].age /\ r.held = poll[p].held
      BY <1>1 DEF PollSet
    <2> HIDE DEF r
    <2>3. QED
      BY <1>1, <2>1, <2>2, OnlyFields DEF RecShape
  <1>4. QED
    BY <1>2, <1>3

\* ParkIndex: the template in hand joins the ones held.
LEMMA ParkIndexPoll ==
  ASSUME RecShape, NEW p \in Pollers, ParkIndex(p), NEW t \in Templates, t = poll[p].cur
  PROVE  /\ Only(p) /\ \A q \in Pollers \ {p} : poll'[q] = poll[q]
         /\ poll[p].pc = "park" /\ poll'[p].pc = "claim" /\ poll'[p].cur = None
         /\ poll'[p].at = poll[p].at /\ poll'[p].age = poll[p].age
         /\ poll'[p].held = poll[p].held \cup {t} /\ poll'[p].todo = poll[p].todo
         /\ poll'[p].copy = poll[p].copy
         /\ index' = [index EXCEPT ![t] = poll[p].at + ParkFor]
  <1>1. poll[p].pc = "park" /\ poll[p] \in PollSet
    BY DEF ParkIndex, RecShape, CronTypeOK, PollSet
  <1> DEFINE r == [poll[p] EXCEPT !.pc = "claim", !.cur = None, !.held = @ \cup {t}]
  <1>2. poll' = [poll EXCEPT ![p] = r] /\ index' = [index EXCEPT ![t] = poll[p].at + ParkFor]
    BY DEF ParkIndex, RecShape, CronTypeOK
  <1>3. /\ r \in PollSet /\ r.pc = "claim" /\ r.cur = None /\ r.todo = poll[p].todo
        /\ r.copy = poll[p].copy
        /\ r.at = poll[p].at /\ r.age = poll[p].age /\ r.held = poll[p].held \cup {t}
    BY <1>1 DEF PollSet
  <1> HIDE DEF r
  <1>4. QED
    BY <1>1, <1>2, <1>3, OnlyFields DEF RecShape

\* ListDone: only the place in tick_once changes.
LEMMA ListDonePoll ==
  ASSUME RecShape, NEW p \in Pollers, ListDone(p)
  PROVE  /\ Only(p) /\ \A q \in Pollers \ {p} : poll'[q] = poll[q]
         /\ poll[p].pc = "claim" /\ poll[p].todo = {}
         /\ poll'[p].pc = (IF poll[p].held = {} THEN "idle" ELSE "fire")
         /\ poll'[p].at = poll[p].at /\ poll'[p].age = poll[p].age /\ poll'[p].cur = poll[p].cur
         /\ poll'[p].held = poll[p].held /\ poll'[p].todo = poll[p].todo
         /\ poll'[p].copy = poll[p].copy
  <1>1. poll[p].pc = "claim" /\ poll[p].todo = {} /\ poll[p] \in PollSet
    BY DEF ListDone, RecShape, CronTypeOK, PollSet
  <1> DEFINE r == [poll[p] EXCEPT !.pc = IF poll[p].held = {} THEN "idle" ELSE "fire"]
  <1>2. poll' = [poll EXCEPT ![p] = r]
    BY DEF ListDone, PollerAt, RecShape, CronTypeOK
  <1>3. /\ r \in PollSet /\ r.pc = (IF poll[p].held = {} THEN "idle" ELSE "fire")
        /\ r.cur = poll[p].cur /\ r.todo = poll[p].todo /\ r.copy = poll[p].copy
        /\ r.at = poll[p].at /\ r.age = poll[p].age /\ r.held = poll[p].held
    BY <1>1 DEF PollSet
  <1> HIDE DEF r
  <1>4. QED
    BY <1>1, <1>2, <1>3, OnlyFields DEF RecShape

\* EnqueueFiring: the copy of the template fired is advanced.
LEMMA EnqueueFiringPoll ==
  ASSUME RecShape, NEW p \in Pollers, NEW t \in Templates, EnqueueFiring(p, t)
  PROVE  /\ Only(p) /\ \A q \in Pollers \ {p} : poll'[q] = poll[q]
         /\ poll[p].pc = "fire" /\ t \in poll[p].held
         /\ poll'[p].pc = "write" /\ poll'[p].cur = t
         /\ poll'[p].at = poll[p].at /\ poll'[p].age = poll[p].age
         /\ poll'[p].held = poll[p].held /\ poll'[p].todo = poll[p].todo
         /\ poll'[p].copy[t] = Advance(poll[p].copy[t], poll[p].at)
         /\ \A u \in Templates \ {t} : poll'[p].copy[u] = poll[p].copy[u]
  <1>1. poll[p].pc = "fire" /\ t \in poll[p].held /\ poll[p] \in PollSet
    BY DEF EnqueueFiring, RecShape, CronTypeOK, PollSet
  <1>2. Advance(poll[p].copy[t], poll[p].at) \in Row
    BY <1>1, AdvanceBounds DEF PollSet
  <1> DEFINE c == [poll[p].copy EXCEPT ![t] = Advance(poll[p].copy[t], poll[p].at)]
             r == [poll[p] EXCEPT !.pc = "write", !.cur = t, !.copy = c]
  <1>3. poll' = [poll EXCEPT ![p] = r]
    BY DEF EnqueueFiring, RecShape, CronTypeOK
  <1>4. /\ c \in [Templates -> Row] /\ c[t] = Advance(poll[p].copy[t], poll[p].at)
        /\ \A u \in Templates \ {t} : c[u] = poll[p].copy[u]
    BY <1>1, <1>2 DEF PollSet
  <1> HIDE DEF c
  <1>5. /\ r \in PollSet /\ r.pc = "write" /\ r.cur = t /\ r.todo = poll[p].todo /\ r.copy = c
        /\ r.at = poll[p].at /\ r.age = poll[p].age /\ r.held = poll[p].held
    BY <1>1, <1>4 DEF PollSet
  <1> HIDE DEF r
  <1>6. QED
    BY <1>1, <1>3, <1>4, <1>5, OnlyFields DEF RecShape

\* NextHeld: the template in hand is let go.
LEMMA NextHeldPoll ==
  ASSUME RecShape, NEW p \in Pollers, NextHeld(p)
  PROVE  /\ Only(p) /\ \A q \in Pollers \ {p} : poll'[q] = poll[q]
         /\ poll'[p].pc = (IF poll[p].held \ {poll[p].cur} = {} THEN "idle" ELSE "fire")
         /\ poll'[p].cur = None
         /\ poll'[p].at = poll[p].at /\ poll'[p].age = poll[p].age
         /\ poll'[p].held = poll[p].held \ {poll[p].cur} /\ poll'[p].todo = poll[p].todo
         /\ poll'[p].copy = poll[p].copy
  <1>1. poll[p] \in PollSet
    BY DEF RecShape, CronTypeOK, PollSet
  <1> DEFINE rest == poll[p].held \ {poll[p].cur}
             r == [poll[p] EXCEPT !.pc = IF rest = {} THEN "idle" ELSE "fire",
                                  !.held = rest, !.cur = None]
  <1>2. poll' = [poll EXCEPT ![p] = r]
    BY DEF NextHeld, RecShape, CronTypeOK
  <1>3. /\ r \in PollSet /\ r.pc = (IF rest = {} THEN "idle" ELSE "fire")
        /\ r.cur = None /\ r.todo = poll[p].todo /\ r.copy = poll[p].copy
        /\ r.at = poll[p].at /\ r.age = poll[p].age /\ r.held = rest
    BY <1>1 DEF PollSet
  <1> HIDE DEF r
  <1>4. QED
    BY <1>1, <1>2, <1>3, OnlyFields DEF RecShape

\* UpsertAdvanced over Redis.
LEMMA UpsertRowPoll ==
  ASSUME RecShape, NEW p \in Pollers, poll[p].pc = "write", PollerAt(p, "index")
  PROVE  /\ Only(p) /\ \A q \in Pollers \ {p} : poll'[q] = poll[q]
         /\ poll'[p].pc = "index" /\ poll'[p].cur = poll[p].cur
         /\ poll'[p].at = poll[p].at /\ poll'[p].age = poll[p].age
         /\ poll'[p].held = poll[p].held /\ poll'[p].todo = poll[p].todo
         /\ poll'[p].copy = poll[p].copy
  <1>1. poll[p] \in PollSet
    BY DEF RecShape, CronTypeOK, PollSet
  <1> DEFINE r == [poll[p] EXCEPT !.pc = "index"]
  <1>2. poll' = [poll EXCEPT ![p] = r]
    BY DEF PollerAt, RecShape, CronTypeOK
  <1>3. /\ r \in PollSet /\ r.pc = "index"
        /\ r.cur = poll[p].cur /\ r.todo = poll[p].todo /\ r.copy = poll[p].copy
        /\ r.at = poll[p].at /\ r.age = poll[p].age /\ r.held = poll[p].held
    BY <1>1 DEF PollSet
  <1> HIDE DEF r
  <1>4. QED
    BY <1>1, <1>2, <1>3, OnlyFields DEF RecShape

\* Abandon: all is forgotten.
LEMMA AbandonPoll ==
  ASSUME RecShape, NEW p \in Pollers, Abandon(p)
  PROVE  /\ Only(p) /\ \A q \in Pollers \ {p} : poll'[q] = poll[q]
         /\ poll'[p].pc = "idle" /\ poll'[p].cur = None
         /\ poll'[p].at = 0 /\ poll'[p].age = 0
         /\ poll'[p].held = {} /\ poll'[p].todo = {}
  <1>1. poll' = [poll EXCEPT ![p] = Idle]
    BY DEF Abandon
  <1>2. Only(p) /\ poll'[p] = Idle /\ \A q \in Pollers \ {p} : poll'[q] = poll[q]
    BY <1>1, IdleType, OnlyFields DEF RecShape
  <1>3. QED
    BY <1>2 DEF Idle

\* Tick: a poller at work gets older, within MaxLag.
LEMMA TickPoll ==
  ASSUME RecShape, CronTick, NEW p \in Pollers
  PROVE  /\ poll' \in [Pollers -> PollSet]
         /\ poll'[p].pc = poll[p].pc /\ poll'[p].cur = poll[p].cur /\ poll'[p].at = poll[p].at
         /\ poll'[p].held = poll[p].held /\ poll'[p].todo = poll[p].todo
         /\ poll'[p].copy = poll[p].copy
         /\ poll[p].pc = "idle" => poll'[p].age = poll[p].age
         /\ poll[p].pc # "idle" => poll'[p].age = poll[p].age + 1 /\ poll[p].age < MaxLag
  <1>1. poll \in [Pollers -> PollSet]
    BY DEF RecShape, CronTypeOK, PollSet
  <1>2. ASSUME NEW q \in Pollers
        PROVE  LET r == [poll[q] EXCEPT !.age = poll[q].age + 1]
               IN  /\ r \in PollSet /\ r.pc = poll[q].pc /\ r.cur = poll[q].cur /\ r.at = poll[q].at
                   /\ r.held = poll[q].held /\ r.todo = poll[q].todo /\ r.copy = poll[q].copy
                   /\ r.age = poll[q].age + 1
    <2>1. PICK r \in PollSet : r = poll[q]
      BY <1>1
    <2>2. PICK n \in Nat : n = r.age + 1
      BY DEF PollSet
    <2>3. QED
      BY <2>1, <2>2 DEF PollSet
  <1>3. \A q \in Pollers : poll'[q] = IF poll[q].pc = "idle" THEN poll[q]
                                      ELSE [poll[q] EXCEPT !.age = poll[q].age + 1]
    BY DEF CronTick
  <1>4. poll' \in [Pollers -> PollSet]
    BY <1>1, <1>2 DEF CronTick
  <1>5. QED
    BY <1>2, <1>3, <1>4 DEF CronTick

(***************************************************************************)
(* Types.                                                                  *)
(***************************************************************************)

StoreType ==
    /\ row \in [Templates -> Row]
    /\ index \in [Templates -> Nat \cup {NoIndex}]
    /\ key \in [Templates -> Nat]
    /\ op \in [Templates -> Nat \cup {NoIndex, NoOp}]

TallyType ==
    /\ backend \in Backends
    /\ now \in Nat /\ now <= MaxTime
    /\ word \in [Templates -> Nat]
    /\ edits \in Nat /\ faults \in Nat
    /\ crossed \subseteq Templates
    /\ fired \in [Templates -> [0..(MaxTime + ParkFor) -> Nat]]

\* RecShape, split into what the actions change separately.
LEMMA ShapeParts ==
  RecShape <=> /\ StoreType /\ TallyType
               /\ poll \in [Pollers -> PollSet]
               /\ \A p \in Pollers : PollOK(p)
               /\ \A t \in Templates : RowOK(t)
  <1>1. RecShape => /\ StoreType /\ TallyType
                    /\ poll \in [Pollers -> PollSet]
                    /\ \A p \in Pollers : PollOK(p)
                    /\ \A t \in Templates : RowOK(t)
    BY DEF RecShape, CronTypeOK, StoreType, TallyType, PollSet
  <1>2. ASSUME StoreType, TallyType, poll \in [Pollers -> PollSet], \A p \in Pollers : PollOK(p),
               \A t \in Templates : RowOK(t)
        PROVE  RecShape
    <2>1. ASSUME NEW p \in Pollers, poll[p].pc \in {"read", "park", "write", "index"}
          PROVE  poll[p].cur # None
      <3>1. poll[p] \in PollSet /\ PollOK(p)
        BY <1>2
      <3>2. poll[p].cur \in Templates
        BY <2>1, <3>1 DEF PollOK, PollSet
      <3>3. QED
        BY <3>2, RecurringAssumption, LoopsAssumption
    <2>2. QED
      BY <1>2, <2>1 DEF RecShape, CronTypeOK, StoreType, TallyType, PollSet
  <1>3. QED
    BY <1>1, <1>2

\* The steps that change rows, index, keys and pending writes by a value each.
LEMMA StoreNext ==
  ASSUME RecShape, CronNext
  PROVE  StoreType'
  <1>1. StoreType /\ now \in Nat /\ edits \in Nat /\ poll \in [Pollers -> PollSet]
    BY ShapeParts DEF TallyType
  <1>2. NextAfter(now) \in Nat
    BY <1>1, NextAfterBounds
  <1>3. ASSUME NEW t \in Templates, ScheduleRecurring(t) PROVE StoreType'
    <2>1. [version |-> edits + 1, enabled |-> TRUE, next |-> NextAfter(now)] \in Row
      BY <1>1, <1>2 DEF Row
    <2>2. QED
      BY <1>1, <1>2, <1>3, <2>1 DEF ScheduleRecurring, StoreType
  <1>4. ASSUME NEW t \in Templates, RemoveRecurring(t) PROVE StoreType'
    BY <1>1, <1>4, IdleType DEF RemoveRecurring, StoreType
  <1>5. ASSUME NEW t \in Templates, IndexWritten(t) PROVE StoreType'
    BY <1>1, <1>5 DEF IndexWritten, StoreType, NoOp, NoIndex
  <1>6. ASSUME NEW p \in Pollers, FetchDue(p) PROVE StoreType'
    <2>1. row' \in [Templates -> Row] /\ index' \in [Templates -> Nat \cup {NoIndex}]
      BY <1>6, FetchDuePoll
    <2>2. QED
      BY <1>1, <1>6, <2>1 DEF FetchDue, StoreType
  <1>7. ASSUME NEW p \in Pollers, NEW t \in Templates, ClaimKey(p, t) PROVE StoreType'
    <2>1. key' = key \/ key' = [key EXCEPT ![t] = ClaimTtl]
      BY <1>7, ClaimKeyPoll
    <2>2. key' \in [Templates -> Nat]
      BY <1>1, <2>1, RecurringAssumption, LoopsAssumption DEF StoreType
    <2>3. QED
      BY <1>1, <1>7, <2>2 DEF ClaimKey, StoreType
  <1>8. ASSUME NEW p \in Pollers, ParkIndex(p) \/ UpsertAdvanced(p) \/ UpsertIndex(p)
        PROVE  StoreType'
    <2>1. poll[p] \in PollSet /\ poll[p].at + ParkFor \in Nat
      BY <1>1, RecurringAssumption, LoopsAssumption DEF PollSet
    <2>2. poll[p].cur \in Templates
      BY <1>8, <2>1 DEF ParkIndex, UpsertAdvanced, UpsertIndex, RecShape, CronTypeOK, PollSet
    <2>3. poll[p].copy[poll[p].cur] \in Row /\ poll[p].copy[poll[p].cur].next \in Nat
      BY <2>1, <2>2 DEF PollSet, Row
    <2>4. QED
      BY <1>1, <1>8, <2>1, <2>3 DEF ParkIndex, UpsertAdvanced, UpsertIndex, StoreType
  <1>9. ASSUME CronTick PROVE StoreType'
    <2>1. key' \in [Templates -> Nat]
      BY <1>1, <1>9 DEF CronTick, StoreType
    <2>2. QED
      BY <1>1, <1>9, <2>1 DEF CronTick, StoreType
  <1>10. ASSUME UNCHANGED <<row, index, key, op>> PROVE StoreType'
    BY <1>1, <1>10 DEF StoreType
  <1>11. ASSUME NEW p \in Pollers,
                \/ TickOnce(p) \/ ListDue(p) \/ ReadRow(p) \/ ListDone(p) \/ UpsertFails(p) \/ Abandon(p)
                \/ \E t \in Templates : EnqueueFiring(p, t)
         PROVE  UNCHANGED <<row, index, key, op>>
    BY <1>11 DEF TickOnce, ListDue, ReadRow, ListDone, UpsertFails, Abandon, EnqueueFiring
  <1>12. QED
    BY <1>3, <1>4, <1>5, <1>6, <1>7, <1>8, <1>9, <1>10, <1>11 DEF CronNext, PollerStep

\* Counting an occurrence once more.
LEMMA CountedOnce ==
  ASSUME NEW D, NEW g \in [D -> Nat], NEW o
  PROVE  [g EXCEPT ![o] = g[o] + 1] \in [D -> Nat]
  <1>1. CASE o \in D
    BY <1>1
  <1>2. CASE o \notin D
    BY <1>2
  <1>3. QED
    BY <1>1, <1>2

\* The clock, the counters and the tally of firings keep their types.
LEMMA TallyNext ==
  ASSUME RecShape, CronNext
  PROVE  TallyType'
  <1>1. TallyType
    BY ShapeParts
  <1>2. ASSUME NEW t \in Templates, ScheduleRecurring(t) \/ RemoveRecurring(t) PROVE TallyType'
    <2>1. crossed' \subseteq Templates
      BY <1>1, <1>2 DEF ScheduleRecurring, RemoveRecurring, Cross, TallyType
    <2>2. /\ edits' = edits + 1 /\ UNCHANGED <<backend, now, faults, fired>>
          /\ \/ word' = [word EXCEPT ![t] = edits + 1]
             \/ word' = [word EXCEPT ![t] = 0]
      BY <1>2 DEF ScheduleRecurring, RemoveRecurring
    <2>3. QED
      BY <1>1, <2>1, <2>2 DEF TallyType
  <1>3. ASSUME NEW p \in Pollers, ListDue(p) PROVE TallyType'
    <2>1. crossed' \subseteq Templates
      BY <1>1, <1>3, ListDuePoll DEF TallyType
    <2>2. QED
      BY <1>1, <1>3, <2>1 DEF ListDue, TallyType
  <1>4. ASSUME NEW p \in Pollers, NEW t \in Templates, EnqueueFiring(p, t) PROVE TallyType'
    <2>1. CASE UNCHANGED fired
      BY <1>1, <1>4, <2>1 DEF EnqueueFiring, TallyType
    <2>2. CASE fired' = [fired EXCEPT ![t][poll[p].copy[t].next] = @ + 1] /\ UNCHANGED faults
      <3>1. fired' \in [Templates -> [0..(MaxTime + ParkFor) -> Nat]]
        <4> DEFINE o == poll[p].copy[t].next
                   D == 0..(MaxTime + ParkFor)
        <4>1. fired \in [Templates -> [D -> Nat]]
          BY <1>1 DEF TallyType
        <4>2. fired' = [fired EXCEPT ![t] = [fired[t] EXCEPT ![o] = fired[t][o] + 1]]
          BY <2>2
        <4> HIDE DEF o, D
        <4>3. [fired[t] EXCEPT ![o] = fired[t][o] + 1] \in [D -> Nat]
          <5>1. fired[t] \in [D -> Nat]
            BY <4>1
          <5>2. QED
            BY <5>1, CountedOnce
        <4>4. QED
          BY <4>1, <4>2, <4>3 DEF D
      <3>2. QED
        BY <1>1, <1>4, <2>2, <3>1 DEF EnqueueFiring, TallyType
    <2>3. QED
      BY <1>4, <2>1, <2>2 DEF EnqueueFiring
  <1>5. ASSUME CronTick PROVE TallyType'
    BY <1>1, <1>5, RecurringAssumption, LoopsAssumption DEF CronTick, TallyType
  <1>6. ASSUME UNCHANGED <<backend, now, word, edits, crossed, fired>>, faults' \in {faults, faults + 1}
        PROVE  TallyType'
    BY <1>1, <1>6 DEF TallyType
  <1>7. ASSUME NEW p \in Pollers,
               \/ TickOnce(p) \/ FetchDue(p) \/ ReadRow(p) \/ ParkIndex(p) \/ ListDone(p)
               \/ UpsertAdvanced(p) \/ UpsertIndex(p) \/ UpsertFails(p) \/ Abandon(p)
               \/ \E t \in Templates : ClaimKey(p, t)
        PROVE  UNCHANGED <<backend, now, word, edits, crossed, fired>> /\ faults' \in {faults, faults + 1}
    BY <1>7 DEF TickOnce, FetchDue, ReadRow, ParkIndex, ListDone, UpsertAdvanced, UpsertIndex,
                UpsertFails, Abandon, ClaimKey
  <1>8. ASSUME NEW t \in Templates, IndexWritten(t)
        PROVE  UNCHANGED <<backend, now, word, edits, crossed, fired>> /\ faults' = faults
    BY <1>8 DEF IndexWritten
  <1>9. QED
    BY <1>2, <1>3, <1>4, <1>5, <1>6, <1>7, <1>8 DEF CronNext, PollerStep

\* Every step keeps what a poller holds in line with where it is.
LEMMA PollNext ==
  ASSUME RecShape, CronNext
  PROVE  poll' \in [Pollers -> PollSet] /\ \A q \in Pollers : PollOK(q)'
  <1> DEFINE Goal == poll' \in [Pollers -> PollSet] /\ \A q \in Pollers : PollOK(q)'
  <1>0. /\ poll \in [Pollers -> PollSet] /\ \A p \in Pollers : PollOK(p)
        /\ now \in Nat /\ MaxLag \in Nat /\ None \notin Templates
    BY ShapeParts, RecurringAssumption, LoopsAssumption DEF TallyType
  <1>1. ASSUME NEW p \in Pollers, UNCHANGED <<backend, now>>, Only(p), PollOK(p)' PROVE Goal
    BY <1>1, PollStep DEF Only
  <1>2. ASSUME UNCHANGED <<backend, now, poll>> PROVE Goal
    BY <1>0, <1>2 DEF PollOK
  <1>3. ASSUME NEW t \in Templates, ScheduleRecurring(t) \/ RemoveRecurring(t) \/ IndexWritten(t)
        PROVE  Goal
    BY <1>2, <1>3 DEF ScheduleRecurring, RemoveRecurring, IndexWritten
  <1> HIDE DEF Goal
  <1>4. ASSUME NEW p \in Pollers, PollerStep(p) \/ UpsertFails(p) \/ Abandon(p) PROVE Goal
    <2>1. UNCHANGED <<backend, now>>
      BY <1>4 DEF PollerStep, TickOnce, FetchDue, ListDue, ReadRow, ParkIndex, ListDone, ClaimKey,
                  EnqueueFiring, UpsertAdvanced, UpsertIndex, UpsertFails, Abandon
    <2>2. /\ PollOK(p) /\ poll[p] \in PollSet
          /\ poll[p].at \in Nat /\ poll[p].age \in Nat /\ poll[p].held \subseteq Templates
          /\ poll[p].todo \subseteq Templates
      BY <1>0 DEF PollSet
    <2>3. CASE TickOnce(p)
      <3>1. PollOK(p)'
        BY <1>0, <2>1, <2>3, TickOncePoll DEF PollOK
      <3>2. QED
        BY <1>1, <2>1, <2>3, <3>1, TickOncePoll
    <2>4. CASE FetchDue(p)
      <3>1. PollOK(p)' /\ Only(p)
        BY <1>0, <2>1, <2>2, <2>4, FetchDuePoll DEF PollOK
      <3>2. QED
        BY <1>1, <2>1, <3>1
    <2>5. CASE ListDue(p)
      <3>1. PollOK(p)' /\ Only(p)
        BY <1>0, <2>1, <2>2, <2>5, ListDuePoll DEF PollOK
      <3>2. QED
        BY <1>1, <2>1, <3>1
    <2>6. ASSUME NEW t \in Templates, ClaimKey(p, t) PROVE Goal
      <3>1. PollOK(p)' /\ Only(p)
        BY <1>0, <2>1, <2>2, <2>6, ClaimKeyPoll DEF PollOK
      <3>2. QED
        BY <1>1, <2>1, <3>1
    <2>7. CASE ReadRow(p)
      <3>1. poll[p].cur \in Templates
        BY <2>2, <2>7 DEF PollOK, ReadRow
      <3>2. PollOK(p)' /\ Only(p)
        BY <1>0, <2>1, <2>2, <2>7, <3>1, ReadRowPoll DEF PollOK
      <3>3. QED
        BY <1>1, <2>1, <3>2
    <2>8. CASE ParkIndex(p)
      <3>1. poll[p].cur \in Templates
        BY <2>2, <2>8 DEF PollOK, ParkIndex
      <3>2. PollOK(p)' /\ Only(p)
        BY <1>0, <2>1, <2>2, <2>8, <3>1, ParkIndexPoll DEF PollOK
      <3>3. QED
        BY <1>1, <2>1, <3>2
    <2>9. CASE ListDone(p)
      <3>1. PollOK(p)' /\ Only(p)
        BY <1>0, <2>1, <2>2, <2>9, ListDonePoll DEF PollOK
      <3>2. QED
        BY <1>1, <2>1, <3>1
    <2>10. ASSUME NEW t \in Templates, EnqueueFiring(p, t) PROVE Goal
      <3>1. PollOK(p)' /\ Only(p)
        BY <1>0, <2>1, <2>2, <2>10, EnqueueFiringPoll DEF PollOK
      <3>2. QED
        BY <1>1, <2>1, <3>1
    <2>11. ASSUME poll[p].pc \in {"write", "index"}, NextHeld(p) PROVE Goal
      <3>1. PollOK(p)' /\ Only(p)
        BY <1>0, <2>1, <2>2, <2>11, NextHeldPoll DEF PollOK
      <3>2. QED
        BY <1>1, <2>1, <3>1
    <2>12. CASE UpsertAdvanced(p)
      <3>1. ASSUME backend = "redis", PollerAt(p, "index"), poll[p].pc = "write" PROVE Goal
        <4>1. PollOK(p)' /\ Only(p)
          BY <1>0, <2>1, <2>2, <3>1, UpsertRowPoll DEF PollOK
        <4>2. QED
          BY <1>1, <2>1, <4>1
      <3>2. QED
        BY <2>11, <2>12, <3>1 DEF UpsertAdvanced
    <2>13. CASE UpsertIndex(p) \/ UpsertFails(p)
      BY <2>11, <2>13 DEF UpsertIndex, UpsertFails
    <2>14. CASE Abandon(p)
      <3>1. PollOK(p)' /\ Only(p)
        BY <1>0, <2>1, <2>2, <2>14, AbandonPoll DEF PollOK
      <3>2. QED
        BY <1>1, <2>1, <3>1
    <2>15. QED
      BY <1>4, <2>3, <2>4, <2>5, <2>6, <2>7, <2>8, <2>9, <2>10, <2>12, <2>13, <2>14 DEF PollerStep
  <1>5. CASE CronTick
    <2>1. now' = now + 1 /\ backend' = backend
      BY <1>5 DEF CronTick
    <2>2. ASSUME NEW q \in Pollers PROVE PollOK(q)' /\ poll' \in [Pollers -> PollSet]
      <3>1. PollOK(q) /\ poll[q].at \in Nat /\ poll[q].age \in Nat
        BY <1>0 DEF PollSet
      <3>2. QED
        BY <1>0, <1>5, <2>1, <3>1, TickPoll DEF PollOK
    <2>3. poll' \in [Pollers -> PollSet]
      <3>1. CASE Pollers = {}
        BY <1>5, <3>1 DEF CronTick
      <3>2. QED
        BY <2>2, <3>1
    <2>4. QED
      BY <2>2, <2>3 DEF Goal
  <1>6. QED
    BY <1>3, <1>4, <1>5 DEF CronNext, Goal

\* Row and index are written together where that is one write.
LEMMA RowNext ==
  ASSUME RecShape, CronNext, NEW t \in Templates
  PROVE  RowOK(t)'
  <1>0. /\ StoreType /\ poll \in [Pollers -> PollSet] /\ RowOK(t)
        /\ \A p \in Pollers : PollOK(p)
    BY ShapeParts
  <1>1. ASSUME UNCHANGED <<backend, op, row, index>> PROVE RowOK(t)'
    BY <1>0, <1>1 DEF RowOK
  <1>2. ASSUME backend' = backend, backend # "atomic" PROVE RowOK(t)'
    BY <1>2 DEF RowOK
  <1>3. ASSUME NEW u \in Templates, ScheduleRecurring(u) PROVE RowOK(t)'
    <2>1. CASE TwoWrites
      BY <1>2, <1>3, <2>1 DEF ScheduleRecurring, TwoWrites
    <2>2. CASE ~TwoWrites
      BY <1>0, <1>3, <2>2 DEF ScheduleRecurring, StoreType, RowOK
    <2>3. QED
      BY <2>1, <2>2
  <1>4. ASSUME NEW u \in Templates, RemoveRecurring(u) PROVE RowOK(t)'
    <2>1. CASE TwoWrites
      BY <1>2, <1>4, <2>1 DEF RemoveRecurring, TwoWrites
    <2>2. CASE ~TwoWrites
      BY <1>0, <1>4, <2>2 DEF RemoveRecurring, StoreType, RowOK, NoTemplate
    <2>3. QED
      BY <2>1, <2>2
  <1>5. ASSUME NEW u \in Templates, IndexWritten(u) PROVE RowOK(t)'
    <2>1. RowOK(u)
      BY ShapeParts
    <2>2. backend # "atomic" /\ backend' = backend
      BY <1>5, <2>1 DEF IndexWritten, RowOK
    <2>3. QED
      BY <1>2, <2>2
  <1>6. ASSUME NEW p \in Pollers, FetchDue(p) PROVE RowOK(t)'
    <2>1. PICK B \in SUBSET Templates :
            /\ \A u \in B : /\ index'[u] = poll[p].at + ParkFor
                            /\ row'[u] = [row[u] EXCEPT !.next = poll[p].at + ParkFor]
            /\ \A u \in Templates \ B : index'[u] = index[u] /\ row'[u] = row[u]
      BY <1>6, FetchDuePoll
    <2>2. row[t] \in Row /\ backend' = backend /\ op' = op
      BY <1>0, <1>6 DEF StoreType, FetchDue
    <2>3. CASE t \in B
      <3>1. row'[t].next = index'[t]
        BY <2>1, <2>2, <2>3 DEF Row
      <3>2. QED
        BY <1>0, <2>2, <3>1 DEF RowOK
    <2>4. CASE t \notin B
      BY <1>0, <2>1, <2>2, <2>4 DEF RowOK
    <2>5. QED
      BY <2>3, <2>4
  <1>7. ASSUME NEW p \in Pollers, ParkIndex(p) \/ UpsertIndex(p) PROVE RowOK(t)'
    <2>1. backend = "redis" /\ backend' = backend
      BY <1>0, <1>7 DEF PollOK, ParkIndex, UpsertIndex
    <2>2. QED
      BY <1>2, <2>1
  <1>8. ASSUME NEW p \in Pollers, UpsertAdvanced(p) PROVE RowOK(t)'
    <2>1. CASE backend = "redis"
      BY <1>2, <1>8, <2>1 DEF UpsertAdvanced
    <2>2. CASE backend # "redis"
      BY <1>0, <1>8, <2>2 DEF UpsertAdvanced, StoreType, RowOK
    <2>3. QED
      BY <2>1, <2>2
  <1>9. ASSUME \/ CronTick
               \/ \E p \in Pollers :
                    \/ TickOnce(p) \/ ListDue(p) \/ ReadRow(p) \/ ListDone(p) \/ UpsertFails(p) \/ Abandon(p)
                    \/ \E u \in Templates : ClaimKey(p, u) \/ EnqueueFiring(p, u)
        PROVE  UNCHANGED <<backend, op, row, index>>
    BY <1>9 DEF CronTick, TickOnce, ListDue, ReadRow, ListDone, UpsertFails, Abandon, ClaimKey, EnqueueFiring
  <1>10. QED
    BY <1>1, <1>3, <1>4, <1>5, <1>6, <1>7, <1>8, <1>9 DEF CronNext, PollerStep

\* The parts make up the shape in the next state as well.
LEMMA ShapePartsNext ==
  (/\ StoreType /\ TallyType
   /\ poll \in [Pollers -> PollSet]
   /\ \A p \in Pollers : PollOK(p)
   /\ \A t \in Templates : RowOK(t))' => RecShape'
  <1>1. (/\ StoreType /\ TallyType
         /\ poll \in [Pollers -> PollSet]
         /\ \A p \in Pollers : PollOK(p)
         /\ \A t \in Templates : RowOK(t)) => RecShape
    BY ShapeParts
  <1>2. QED
    BY <1>1, PTL

\* Every step keeps the shape.
LEMMA ShapeNext ==
  ASSUME RecShape, [CronNext]_cronVars
  PROVE  RecShape'
  <1>1. CASE CronNext
    <2>1. /\ StoreType' /\ TallyType' /\ poll' \in [Pollers -> PollSet]
          /\ \A p \in Pollers : PollOK(p)'
          /\ \A t \in Templates : RowOK(t)'
      BY <1>1, StoreNext, TallyNext, PollNext, RowNext
    <2>2. QED
      BY <2>1, ShapePartsNext
  <1>2. CASE UNCHANGED cronVars
    BY <1>2 DEF cronVars, RecShape, CronTypeOK, PollOK, RowOK
  <1>3. QED
    BY <1>1, <1>2

\* The recurring-job store and its pollers keep their types, on either
\* backend.
THEOREM RecurringTypes == CronSpec => []CronTypeOK
  <1>1. RecShape => CronTypeOK
    BY DEF RecShape
  <1>2. CronInit => RecShape
    BY InitShape
  <1>3. RecShape /\ [CronNext]_cronVars => RecShape'
    BY ShapeNext
  <1>4. QED
    BY <1>1, <1>2, <1>3, PTL DEF CronSpec

(***************************************************************************)
(* No occurrence is fired twice.                                           *)
(***************************************************************************)

\* p has set the claim key of t, or has t among those to fire.
Claimed(p, t) == t \in poll[p].held \/ (poll[p].pc \in {"read", "park"} /\ poll[p].cur = t)

\* p has fired t and is writing it back.
Writing(p, t) == poll[p].pc \in {"write", "index"} /\ poll[p].cur = t

\* The claim key of a template that somebody has claimed is as old as the
\* claim, so that nobody else claims it.
KeyInv ==
    backend = "redis" =>
        \A p \in Pollers, t \in Templates :
            Claimed(p, t) => /\ key[t] + poll[p].age >= ClaimTtl
                             /\ \A q \in Pollers : Claimed(q, t) => p = q

\* The occurrences of t that were fired come before o.
FiredBefore(t, o) == \A f \in 0..(MaxTime + ParkFor) : fired[t][f] > 0 => f < o

\* An occurrence that was fired was so once, and is over.  While a poller has
\* to do with t no write of the operator is pending.  The row of a template
\* that can be listed is ahead of all that was fired.
TemplateOK(t) ==
    /\ \A f \in 0..(MaxTime + ParkFor) : fired[t][f] <= 1 /\ (fired[t][f] > 0 => f <= now)
    /\ Busy(t) => op[t] = NoOp
    /\ row[t].enabled /\ (index[t] < ParkFor \/ op[t] # NoOp) => FiredBefore(t, row[t].next)

\* A listed template is still due, or the key that was set for it since is
\* there for the rest of the tick; what is about to be fired has not been, and
\* what is written back is ahead of what was.
PairOK(p, t) ==
    /\ t \in poll[p].todo => index[t] \in 0..poll[p].at \/ key[t] + poll[p].age > MaxLag
    /\ poll[p].pc \in {"read", "park"} /\ poll[p].cur = t => index[t] \in 0..poll[p].at
    /\ Holds(p, t) /\ ~Writing(p, t) =>
          poll[p].copy[t].next <= poll[p].at /\ FiredBefore(t, poll[p].copy[t].next)
    /\ t \in poll[p].held => index[t] >= ParkFor
    /\ Writing(p, t) /\ poll[p].copy[t].enabled => FiredBefore(t, poll[p].copy[t].next)
    /\ Writing(p, t) /\ poll[p].pc = "index" => row[t] = poll[p].copy[t]

AloneWith(t) == \A p, q \in Pollers : Claimed(p, t) /\ Claimed(q, t) => p = q

Fresh(t) == TemplateOK(t) /\ (\A p \in Pollers : PairOK(p, t)) /\ AloneWith(t)

FiringInv == RecShape /\ KeyInv /\ \A t \in Templates \ crossed : Fresh(t)

\* At the start nothing was fired and nobody has claimed anything.
LEMMA InitFiring == CronInit => FiringInv
  <1> SUFFICES ASSUME CronInit PROVE FiringInv
    OBVIOUS
  <1>1. RecShape
    BY InitShape
  <1>2. \A p \in Pollers : /\ poll[p].pc = "idle" /\ poll[p].todo = {} /\ poll[p].held = {}
                           /\ poll[p].cur = None
    BY DEF CronInit, Idle
  <1>3. KeyInv
    BY <1>2 DEF KeyInv, Claimed
  <1>4. ASSUME NEW t \in Templates PROVE Fresh(t)
    <2>1. TemplateOK(t)
      BY RecurringAssumption, LoopsAssumption DEF CronInit, TemplateOK, FiredBefore
    <2>2. \A p \in Pollers : PairOK(p, t)
      BY <1>2 DEF PairOK, Holds, Writing
    <2>3. QED
      BY <1>2, <2>1, <2>2 DEF Fresh, AloneWith, Claimed
  <1>5. QED
    BY <1>1, <1>3, <1>4 DEF FiringInv

\* Only a fetch or a claim gives a poller a template.
LEMMA ClaimsShrink ==
  ASSUME RecShape, CronNext, ~CronTick, \A p \in Pollers : ~FetchDue(p),
         \A p \in Pollers, t \in Templates : ~ClaimKey(p, t)
  PROVE  /\ UNCHANGED <<backend, key>>
         /\ \A q \in Pollers, t \in Templates :
               Claimed(q, t)' => Claimed(q, t) /\ poll'[q].age = poll[q].age
  <1>0. /\ poll \in [Pollers -> PollSet] /\ \A p \in Pollers : PollOK(p)
        /\ None \notin Templates
    BY ShapeParts, RecurringAssumption, LoopsAssumption
  <1> DEFINE Goal == \A q \in Pollers, t \in Templates :
                        Claimed(q, t)' => Claimed(q, t) /\ poll'[q].age = poll[q].age
  <1>1. UNCHANGED <<backend, key>>
    BY DEF CronNext, PollerStep, ScheduleRecurring, RemoveRecurring, IndexWritten, TickOnce, ListDue,
           ReadRow, ParkIndex, ListDone, EnqueueFiring, UpsertAdvanced, UpsertIndex, UpsertFails, Abandon
  <1>2. ASSUME NEW t \in Templates, ScheduleRecurring(t) \/ RemoveRecurring(t) \/ IndexWritten(t)
        PROVE  Goal
    <2>1. poll' = poll
      BY <1>2 DEF ScheduleRecurring, RemoveRecurring, IndexWritten
    <2>2. QED
      BY <2>1 DEF Claimed
  <1>3. ASSUME NEW p \in Pollers, TickOnce(p) PROVE Goal
    BY <1>0, <1>3, TickOncePoll DEF Claimed
  <1>4. ASSUME NEW p \in Pollers, ListDue(p) PROVE Goal
    BY <1>0, <1>4, ListDuePoll DEF Claimed
  <1>5. ASSUME NEW p \in Pollers, ReadRow(p) PROVE Goal
    <2>1. poll[p].cur \in Templates
      BY <1>0, <1>5 DEF PollOK, ReadRow
    <2>2. QED
      BY <1>0, <1>5, <2>1, ReadRowPoll DEF Claimed
  <1>6. ASSUME NEW p \in Pollers, ParkIndex(p) PROVE Goal
    <2>1. poll[p].cur \in Templates
      BY <1>0, <1>6 DEF PollOK, ParkIndex
    <2>2. QED
      BY <1>0, <1>6, <2>1, ParkIndexPoll DEF Claimed
  <1>7. ASSUME NEW p \in Pollers, ListDone(p) PROVE Goal
    BY <1>0, <1>7, ListDonePoll DEF Claimed
  <1>8. ASSUME NEW p \in Pollers, NEW t \in Templates, EnqueueFiring(p, t) PROVE Goal
    BY <1>0, <1>8, EnqueueFiringPoll DEF Claimed
  <1>9. ASSUME NEW p \in Pollers, NextHeld(p) PROVE Goal
    BY <1>0, <1>9, NextHeldPoll DEF Claimed
  <1>10. ASSUME NEW p \in Pollers, UpsertAdvanced(p) PROVE Goal
    <2>1. CASE backend = "redis"
      BY <1>0, <1>10, <2>1, UpsertRowPoll DEF Claimed, UpsertAdvanced
    <2>2. CASE backend # "redis"
      BY <1>9, <1>10, <2>2 DEF UpsertAdvanced
    <2>3. QED
      BY <2>1, <2>2
  <1>11. ASSUME NEW p \in Pollers, UpsertIndex(p) \/ UpsertFails(p) PROVE Goal
    BY <1>9, <1>11 DEF UpsertIndex, UpsertFails
  <1>12. ASSUME NEW p \in Pollers, Abandon(p) PROVE Goal
    BY <1>0, <1>12, AbandonPoll DEF Claimed
  <1>13. QED
    BY <1>1, <1>2, <1>3, <1>4, <1>5, <1>6, <1>7, <1>8, <1>10, <1>11, <1>12 DEF CronNext, PollerStep

\* Who has claimed a template is in time, and so is the key.
LEMMA ClaimTimes ==
  ASSUME KeyOutlives, RecShape, KeyInv, backend = "redis",
         NEW p \in Pollers, NEW t \in Templates, Claimed(p, t)
  PROVE  poll[p].pc # "idle" /\ key[t] \in Nat /\ key[t] > MaxLag
  <1>1. /\ PollOK(p) /\ poll[p].age \in Nat /\ poll[p].pc # "idle" /\ key[t] \in Nat
        /\ backend \in Backends /\ poll[p].age <= MaxLag
    BY ShapeParts DEF StoreType, TallyType, PollSet, PollOK, Claimed
  <1>2. key[t] + poll[p].age >= ClaimTtl /\ ClaimTtl > 2 * MaxLag
    BY <1>1 DEF KeyInv, KeyOutlives
  <1>3. QED
    BY <1>1, <1>2, RecurringAssumption, LoopsAssumption

\* A claim key is never outlived by the claim it stands for.
LEMMA KeyNext ==
  ASSUME KeyOutlives, RecShape, KeyInv, CronNext
  PROVE  KeyInv'
  <1>0. /\ poll \in [Pollers -> PollSet] /\ \A p \in Pollers : PollOK(p) /\ poll[p].age \in Nat
        /\ key \in [Templates -> Nat] /\ MaxLag \in Nat /\ ClaimTtl \in Nat
        /\ None \notin Templates
    BY ShapeParts, RecurringAssumption, LoopsAssumption DEF StoreType, PollSet
  <1>1. CASE /\ ~CronTick /\ \A p \in Pollers : ~FetchDue(p)
             /\ \A p \in Pollers, t \in Templates : ~ClaimKey(p, t)
    BY <1>1, ClaimsShrink DEF KeyInv
  <1>2. ASSUME NEW p \in Pollers, FetchDue(p) PROVE KeyInv'
    BY <1>2 DEF FetchDue, KeyInv
  <1>3. ASSUME NEW p \in Pollers, NEW t \in Templates, ClaimKey(p, t), backend = "redis" PROVE KeyInv'
    <2>1. CASE key' = key /\ poll'[p].pc = "claim" /\ poll'[p].cur = poll[p].cur
      <3>1. \A q \in Pollers, u \in Templates :
               Claimed(q, u)' => Claimed(q, u) /\ poll'[q].age = poll[q].age
        BY <1>0, <1>3, <2>1, ClaimKeyPoll DEF Claimed
      <3>2. QED
        BY <1>3, <2>1, <3>1 DEF KeyInv, ClaimKey
    <2>2. CASE key[t] = 0 /\ key' = [key EXCEPT ![t] = ClaimTtl]
      <3>1. \A q \in Pollers : ~Claimed(q, t)
        BY <1>0, <1>3, <2>2, ClaimTimes
      <3>2. ASSUME NEW q \in Pollers, NEW u \in Templates, Claimed(q, u)'
            PROVE  /\ poll'[q].age = poll[q].age
                   /\ u # t => Claimed(q, u)
                   /\ u = t => q = p
        BY <1>0, <1>3, <3>1, <3>2, ClaimKeyPoll DEF Claimed
      <3>3. \A u \in Templates : key'[u] = IF u = t THEN ClaimTtl ELSE key[u]
        BY <1>0, <2>2
      <3>4. QED
        BY <1>0, <1>3, <3>2, <3>3 DEF KeyInv, ClaimKey
    <2>3. QED
      BY <1>3, <2>1, <2>2, ClaimKeyPoll
  <1>4. CASE CronTick /\ backend = "redis"
    <2>1. \A q \in Pollers, t \in Templates : Claimed(q, t)' <=> Claimed(q, t)
      BY <1>4, TickPoll DEF Claimed
    <2>2. ASSUME NEW q \in Pollers, NEW t \in Templates, Claimed(q, t)
          PROVE  key'[t] + poll'[q].age = key[t] + poll[q].age
      <3>1. key[t] > 0 /\ poll[q].pc # "idle" /\ key[t] \in Nat
        BY <1>0, <1>4, <2>2, ClaimTimes
      <3>2. key'[t] = key[t] - 1 /\ poll'[q].age = poll[q].age + 1
        BY <1>4, <3>1, TickPoll DEF CronTick
      <3>3. QED
        BY <1>0, <3>1, <3>2
    <2>3. QED
      BY <1>4, <2>1, <2>2 DEF KeyInv
  <1>5. CASE backend # "redis"
    <2>1. backend' = backend
      <3>1. \A p \in Pollers : FetchDue(p) => backend' = backend
        BY DEF FetchDue
      <3>2. \A p \in Pollers, t \in Templates : ClaimKey(p, t) => backend' = backend
        BY DEF ClaimKey
      <3>3. QED
        BY <3>1, <3>2, ClaimsShrink DEF CronTick
    <2>2. QED
      BY <1>5, <2>1 DEF KeyInv
  <1>6. QED
    BY <1>1, <1>2, <1>3, <1>4, <1>5

\* p has to do with t.
Mine(p, t) == t \in poll[p].todo \cup poll[p].held \cup {poll[p].cur}

\* The step leaves what q has to do with t as it was, or ends it.
Calm(q, t) ==
    Mine(q, t)' =>
        /\ Mine(q, t) /\ poll'[q].at = poll[q].at /\ poll'[q].copy[t] = poll[q].copy[t]
        /\ key'[t] + poll'[q].age >= key[t] + poll[q].age
        /\ t \in poll'[q].todo => t \in poll[q].todo
        /\ t \in poll'[q].held => t \in poll[q].held
        /\ poll'[q].cur = t => poll[q].cur = t /\ poll'[q].pc = poll[q].pc
        /\ t \in poll'[q].held /\ Writing(q, t) => poll'[q].cur = t

SameStore(t) ==
    /\ row'[t] = row[t] /\ index'[t] = index[t] /\ op'[t] = op[t] /\ fired'[t] = fired[t]
    /\ now' \in Nat /\ now' >= now

\* The facts on one template and one poller that the cases below keep using.
LEMMA PairFacts ==
  ASSUME RecShape, NEW q \in Pollers, NEW t \in Templates
  PROVE  /\ PollOK(q) /\ poll[q] \in PollSet /\ poll[q].at \in Nat /\ poll[q].age \in Nat
         /\ poll[q].copy[t] \in Row /\ poll[q].copy[t].next \in Nat
         /\ row[t] \in Row /\ row[t].next \in Nat /\ index[t] \in Nat \cup {NoIndex}
         /\ key[t] \in Nat /\ now \in Nat /\ fired[t] \in [0..(MaxTime + ParkFor) -> Nat]
         /\ t # None /\ poll[q].at <= now /\ poll[q].age <= MaxLag
         /\ poll[q].at < ParkFor /\ poll[q].at <= MaxTime
         /\ Busy(t) <=> \E p \in Pollers : Mine(p, t)
  <1>1. /\ PollOK(q) /\ poll[q] \in PollSet /\ row[t] \in Row /\ index[t] \in Nat \cup {NoIndex}
        /\ key[t] \in Nat /\ now \in Nat /\ fired[t] \in [0..(MaxTime + ParkFor) -> Nat]
        /\ now <= MaxTime /\ t # None
    BY ShapeParts, RecurringAssumption, LoopsAssumption DEF StoreType, TallyType
  <1>2. poll[q].at \in Nat /\ poll[q].age \in Nat /\ poll[q].copy[t] \in Row
    BY <1>1 DEF PollSet
  <1>3. poll[q].copy[t].next \in Nat /\ row[t].next \in Nat
    BY <1>1, <1>2 DEF Row
  <1>4. poll[q].at <= now /\ poll[q].age <= MaxLag
    BY <1>1 DEF PollOK
  <1>5. poll[q].at < ParkFor /\ poll[q].at <= MaxTime
    BY <1>1, <1>2, <1>4, RecurringAssumption, LoopsAssumption
  <1>6. Busy(t) <=> \E p \in Pollers : Mine(p, t)
    BY DEF Busy, Mine
  <1>7. QED
    BY <1>1, <1>2, <1>3, <1>4, <1>5, <1>6

\* The same in the next state.
LEMMA PairFactsNext ==
  ASSUME NEW q \in Pollers, NEW t \in Templates
  PROVE  RecShape' =>
         (/\ PollOK(q) /\ poll[q] \in PollSet /\ poll[q].at \in Nat /\ poll[q].age \in Nat
          /\ row[t].next \in Nat /\ index[t] \in Nat \cup {NoIndex}
          /\ key[t] \in Nat /\ now \in Nat /\ fired[t] \in [0..(MaxTime + ParkFor) -> Nat]
          /\ Busy(t) <=> \E p \in Pollers : Mine(p, t))'
  <1>1. RecShape =>
         (/\ PollOK(q) /\ poll[q] \in PollSet /\ poll[q].at \in Nat /\ poll[q].age \in Nat
          /\ row[t].next \in Nat /\ index[t] \in Nat \cup {NoIndex}
          /\ key[t] \in Nat /\ now \in Nat /\ fired[t] \in [0..(MaxTime + ParkFor) -> Nat]
          /\ Busy(t) <=> \E p \in Pollers : Mine(p, t))
    BY PairFacts
  <1>2. QED
    BY <1>1, PTL

\* A poller the step does not touch.
LEMMA CalmSame ==
  ASSUME RecShape, RecShape', NEW q \in Pollers, NEW t \in Templates,
         poll'[q] = poll[q], key'[t] >= key[t]
  PROVE  Calm(q, t)
  <1>1. key[t] \in Nat /\ key'[t] \in Nat /\ poll[q].age \in Nat
    BY PairFacts, PairFactsNext
  <1>2. key'[t] + poll'[q].age >= key[t] + poll[q].age
    BY <1>1
  <1>3. QED
    BY <1>2 DEF Calm, Mine, Writing

\* What has nothing to do with t is sound for it.
LEMMA PairIdle ==
  ASSUME RecShape, NEW q \in Pollers, NEW t \in Templates, ~Claimed(q, t),
         t \in poll[q].todo => index[t] \in 0..poll[q].at \/ key[t] + poll[q].age > MaxLag
  PROVE  PairOK(q, t)
  <1>1. PollOK(q) /\ t # None
    BY PairFacts
  <1>2. t \notin poll[q].held /\ ~Holds(q, t) /\ ~Writing(q, t)
    BY <1>1 DEF Claimed, Holds, Writing, PollOK
  <1>3. ~(poll[q].pc \in {"read", "park"} /\ poll[q].cur = t)
    BY DEF Claimed
  <1>4. QED
    BY <1>2, <1>3 DEF PairOK

\* The same in the next state.
LEMMA PairIdleNext ==
  ASSUME NEW q \in Pollers, NEW t \in Templates
  PROVE  /\ RecShape' /\ ~Claimed(q, t)'
         /\ (t \in poll[q].todo => index[t] \in 0..poll[q].at \/ key[t] + poll[q].age > MaxLag)'
         => PairOK(q, t)'
  <1>1. /\ RecShape /\ ~Claimed(q, t)
        /\ (t \in poll[q].todo => index[t] \in 0..poll[q].at \/ key[t] + poll[q].age > MaxLag)
        => PairOK(q, t)
    BY PairIdle
  <1>2. QED
    BY <1>1, PTL

\* A pair of poller and template whose stored state the step leaves alone.
LEMMA PairKept ==
  ASSUME RecShape, RecShape', NEW q \in Pollers, NEW t \in Templates,
         PairOK(q, t), SameStore(t), Calm(q, t)
  PROVE  PairOK(q, t)' /\ (Claimed(q, t)' => Claimed(q, t))
  <1>1. /\ PollOK(q) /\ PollOK(q)' /\ t # None /\ key[t] \in Nat /\ key'[t] \in Nat
        /\ poll[q].age \in Nat /\ poll'[q].age \in Nat /\ MaxLag \in Nat
    BY PairFacts, PairFactsNext, RecurringAssumption, LoopsAssumption
  <1>2. CASE ~Mine(q, t)'
    <2>1. ~Claimed(q, t)' /\ t \notin poll'[q].todo
      BY <1>2 DEF Mine, Claimed
    <2>2. QED
      BY <2>1, PairIdleNext
  <1>3. CASE Mine(q, t)'
    <2>1. /\ poll'[q].at = poll[q].at /\ poll'[q].copy[t] = poll[q].copy[t]
          /\ key'[t] + poll'[q].age >= key[t] + poll[q].age
          /\ t \in poll'[q].todo => t \in poll[q].todo
          /\ t \in poll'[q].held => t \in poll[q].held
          /\ poll'[q].cur = t => poll[q].cur = t /\ poll'[q].pc = poll[q].pc
          /\ t \in poll'[q].held /\ Writing(q, t) => poll'[q].cur = t
      BY <1>3 DEF Calm
    <2>2. Claimed(q, t)' => Claimed(q, t)
      BY <2>1 DEF Claimed
    <2>3. \A o : FiredBefore(t, o) => FiredBefore(t, o)'
      BY DEF SameStore, FiredBefore
    <2>4. /\ Writing(q, t)' => Writing(q, t) /\ poll'[q].pc = poll[q].pc
          /\ Holds(q, t)' /\ ~Writing(q, t)' => Holds(q, t) /\ ~Writing(q, t)
      BY <1>1, <2>1 DEF Writing, Holds, PollOK
    <2>5. t \in poll'[q].todo => index'[t] \in 0..poll'[q].at \/ key'[t] + poll'[q].age > MaxLag
      BY <1>1, <2>1 DEF PairOK, SameStore
    <2>6. poll'[q].pc \in {"read", "park"} /\ poll'[q].cur = t => index'[t] \in 0..poll'[q].at
      BY <2>1 DEF PairOK, SameStore
    <2>7. /\ Holds(q, t)' /\ ~Writing(q, t)' =>
             poll'[q].copy[t].next <= poll'[q].at /\ FiredBefore(t, poll[q].copy[t].next)'
      <3>1. Holds(q, t)' /\ ~Writing(q, t)' =>
               poll[q].copy[t].next <= poll[q].at /\ FiredBefore(t, poll[q].copy[t].next)
        BY <2>4 DEF PairOK
      <3>2. FiredBefore(t, poll[q].copy[t].next) => FiredBefore(t, poll[q].copy[t].next)'
        BY <2>1 DEF FiredBefore, SameStore
      <3>3. QED
        BY <2>1, <3>1, <3>2
    <2>8. t \in poll'[q].held => index'[t] >= ParkFor
      BY <2>1 DEF PairOK, SameStore
    <2>9. Writing(q, t)' /\ poll'[q].copy[t].enabled => FiredBefore(t, poll[q].copy[t].next)'
      <3>1. Writing(q, t)' /\ poll'[q].copy[t].enabled => FiredBefore(t, poll[q].copy[t].next)
        BY <2>1, <2>4, Zenon DEF PairOK
      <3>2. FiredBefore(t, poll[q].copy[t].next) => FiredBefore(t, poll[q].copy[t].next)'
        BY <2>1 DEF FiredBefore, SameStore
      <3>3. QED
        BY <3>1, <3>2
    <2>10. Writing(q, t)' /\ poll'[q].pc = "index" => row'[t] = poll'[q].copy[t]
      BY <2>1, <2>4 DEF PairOK, SameStore
    <2>11. QED
      BY <2>2, <2>5, <2>6, <2>7, <2>8, <2>9, <2>10 DEF PairOK
  <1>4. QED
    BY <1>2, <1>3

\* A template whose row, index and firings the step leaves alone.
LEMMA FreshKept ==
  ASSUME RecShape, RecShape', NEW t \in Templates, Fresh(t),
         SameStore(t), \A q \in Pollers : Calm(q, t)
  PROVE  Fresh(t)'
  <1>1. \A q \in Pollers : PairOK(q, t)' /\ (Claimed(q, t)' => Claimed(q, t))
    BY PairKept DEF Fresh
  <1>2. AloneWith(t)'
    BY <1>1 DEF Fresh, AloneWith
  <1>3. TemplateOK(t)'
    <2>1. Busy(t)' => Busy(t)
      BY DEF Busy, Calm, Mine
    <2>2. now \in Nat /\ fired[t] \in [0..(MaxTime + ParkFor) -> Nat]
      BY ShapeParts DEF TallyType
    <2>3. \A f \in 0..(MaxTime + ParkFor) : fired'[t][f] <= 1 /\ (fired'[t][f] > 0 => f <= now')
      BY <2>2 DEF Fresh, TemplateOK, SameStore
    <2>4. FiredBefore(t, row[t].next) => FiredBefore(t, row[t].next)'
      BY DEF FiredBefore, SameStore
    <2>5. row'[t].enabled /\ (index'[t] < ParkFor \/ op'[t] # NoOp) => FiredBefore(t, row[t].next)
      BY Zenon DEF Fresh, TemplateOK, SameStore
    <2>6. QED
      BY <2>1, <2>3, <2>4, <2>5 DEF Fresh, TemplateOK, SameStore
  <1>4. QED
    BY <1>1, <1>2, <1>3 DEF Fresh

\* A template no poller has to do with.
LEMMA FreshUnlisted ==
  ASSUME NEW t \in Templates
  PROVE  RecShape' /\ ~Busy(t)' /\ TemplateOK(t)' => Fresh(t)'
  <1>1. RecShape /\ ~Busy(t) /\ TemplateOK(t) => Fresh(t)
    <2> SUFFICES ASSUME RecShape, ~Busy(t), TemplateOK(t) PROVE Fresh(t)
      OBVIOUS
    <2>1. \A q \in Pollers : ~Claimed(q, t) /\ t \notin poll[q].todo
      BY DEF Busy, Claimed
    <2>2. \A q \in Pollers : PairOK(q, t)
      BY <2>1, PairIdle
    <2>3. QED
      BY <2>1, <2>2 DEF Fresh, AloneWith
  <1>2. QED
    BY <1>1, PTL

\* Whoever else lists a template that p has claimed will find its key.
LEMMA OthersKept ==
  ASSUME KeyOutlives, RecShape, RecShape', KeyInv,
         NEW p \in Pollers, NEW q \in Pollers \ {p}, NEW t \in Templates, Claimed(p, t), AloneWith(t),
         backend' = backend, poll'[q] = poll[q], key'[t] = key[t]
  PROVE  PairOK(q, t)' /\ ~Claimed(q, t)'
  <1>1. ~Claimed(q, t)
    BY DEF AloneWith
  <1>2. ~Claimed(q, t)'
    BY <1>1 DEF Claimed
  <1>3. CASE backend = "redis"
    <2>1. key[t] \in Nat /\ key[t] > MaxLag
      BY <1>3, ClaimTimes
    <2>2. poll[q].age \in Nat
      BY PairFacts
    <2>3. key'[t] + poll'[q].age > MaxLag
      BY <2>1, <2>2, RecurringAssumption, LoopsAssumption
    <2>4. QED
      BY <1>2, <2>3, PairIdleNext
  <1>4. CASE backend # "redis"
    <2>1. PollOK(q)
      BY PairFacts
    <2>2. t \notin poll'[q].todo
      BY <1>4, <2>1 DEF PollOK
    <2>3. QED
      BY <1>2, <2>2, PairIdleNext
  <1>5. QED
    BY <1>3, <1>4

\* A step of p on the template it has claimed.
LEMMA FreshWork ==
  ASSUME KeyOutlives, RecShape, RecShape', KeyInv,
         NEW p \in Pollers, NEW t \in Templates, Fresh(t), Claimed(p, t),
         backend' = backend, key'[t] = key[t], \A q \in Pollers \ {p} : poll'[q] = poll[q],
         TemplateOK(t)', PairOK(p, t)'
  PROVE  Fresh(t)'
  <1>1. \A q \in Pollers \ {p} : PairOK(q, t)' /\ ~Claimed(q, t)'
    BY OthersKept DEF Fresh
  <1>2. QED
    BY <1>1 DEF Fresh, AloneWith

\* An edit of the operator that no poller is in the way of sets the template
\* ahead of all that was fired.
LEMMA FreshSchedule ==
  ASSUME RecShape, RecShape', NEW u \in Templates, NEW t \in Templates \ crossed',
         ScheduleRecurring(u) \/ RemoveRecurring(u), Fresh(t)
  PROVE  Fresh(t)'
  <1>0. /\ StoreType /\ now \in Nat /\ poll' = poll /\ now' = now /\ key' = key /\ fired' = fired
        /\ NextAfter(now) \in Nat /\ NextAfter(now) > now
    BY ShapeParts, NextAfterBounds DEF TallyType, ScheduleRecurring, RemoveRecurring
  <1>1. CASE t # u
    <2>1. SameStore(t)
      BY <1>0, <1>1 DEF SameStore, ScheduleRecurring, RemoveRecurring, StoreType
    <2>2. \A q \in Pollers : Calm(q, t)
      BY <1>0, CalmSame DEF StoreType
    <2>3. QED
      BY <2>1, <2>2, FreshKept
  <1>2. CASE t = u
    <2>1. ~Busy(t)
      BY <1>2 DEF ScheduleRecurring, RemoveRecurring, Cross
    <2>2. ~Busy(t)'
      BY <1>0, <2>1 DEF Busy
    <2>3. /\ \A f \in 0..(MaxTime + ParkFor) : fired'[t][f] <= 1 /\ (fired'[t][f] > 0 => f <= now')
          /\ \A f \in 0..(MaxTime + ParkFor) : fired'[t][f] > 0 => f <= now
      BY <1>0 DEF Fresh, TemplateOK
    <2>4. CASE ScheduleRecurring(u)
      <3>1. row'[t].next = NextAfter(now)
        BY <1>0, <1>2, <2>4 DEF ScheduleRecurring, StoreType
      <3>2. FiredBefore(t, row[t].next)'
        BY <1>0, <2>3, <3>1, RecurringAssumption, LoopsAssumption DEF FiredBefore
      <3>3. QED
        BY <2>2, <2>3, <3>2, FreshUnlisted DEF TemplateOK
    <2>5. CASE RemoveRecurring(u)
      <3>1. row'[t] = NoTemplate
        BY <1>0, <1>2, <2>5 DEF RemoveRecurring, StoreType
      <3>2. row'[t].enabled = FALSE
        BY <3>1 DEF NoTemplate
      <3>3. QED
        BY <2>2, <2>3, <3>2, FreshUnlisted DEF TemplateOK
    <2>6. QED
      BY <2>4, <2>5
  <1>3. QED
    BY <1>1, <1>2

\* The second half of the operator's write.
LEMMA FreshIndexWritten ==
  ASSUME RecShape, RecShape', NEW u \in Templates, NEW t \in Templates \ crossed',
         IndexWritten(u), Fresh(t)
  PROVE  Fresh(t)'
  <1>0. /\ StoreType /\ now \in Nat /\ poll' = poll /\ now' = now /\ key' = key /\ fired' = fired
        /\ row' = row
    BY ShapeParts DEF TallyType, IndexWritten
  <1>1. CASE t # u
    <2>1. SameStore(t)
      BY <1>0, <1>1 DEF SameStore, IndexWritten, StoreType
    <2>2. \A q \in Pollers : Calm(q, t)
      BY <1>0, CalmSame DEF StoreType
    <2>3. QED
      BY <2>1, <2>2, FreshKept
  <1>2. CASE t = u
    <2>1. ~Busy(t)
      BY <1>2 DEF IndexWritten, Fresh, TemplateOK
    <2>2. ~Busy(t)'
      BY <1>0, <2>1 DEF Busy
    <2>3. row[t].enabled => FiredBefore(t, row[t].next)
      BY <1>2, Zenon DEF IndexWritten, Fresh, TemplateOK
    <2>4. TemplateOK(t)'
      BY <1>0, <2>2, <2>3 DEF TemplateOK, FiredBefore, Fresh
    <2>5. QED
      BY <2>2, <2>4, FreshUnlisted
  <1>3. QED
    BY <1>1, <1>2

\* Steps of p that give it no template and write none.
LEMMA FreshQuiet ==
  ASSUME RecShape, RecShape', NEW p \in Pollers, NEW t \in Templates \ crossed',
         TickOnce(p) \/ ListDone(p) \/ UpsertFails(p) \/ Abandon(p), Fresh(t)
  PROVE  Fresh(t)'
  <1>0. /\ StoreType /\ now \in Nat /\ UNCHANGED <<row, index, key, op, fired, now>>
        /\ PollOK(p) /\ t # None /\ poll[p].age \in Nat /\ key[t] \in Nat
    BY ShapeParts, PairFacts DEF TallyType, TickOnce, ListDone, UpsertFails, Abandon
  <1>1. SameStore(t)
    BY <1>0 DEF SameStore
  <1>2. \A q \in Pollers \ {p} : poll'[q] = poll[q]
    <2>1. CASE TickOnce(p)
      BY <2>1, TickOncePoll
    <2>2. CASE ListDone(p)
      BY <2>2, ListDonePoll
    <2>3. CASE UpsertFails(p)
      BY <2>3, NextHeldPoll DEF UpsertFails
    <2>4. CASE Abandon(p)
      BY <2>4, AbandonPoll
    <2>5. QED
      BY <2>1, <2>2, <2>3, <2>4
  <1>3. Calm(p, t)
    <2>1. CASE TickOnce(p)
      BY <1>0, <2>1, TickOncePoll DEF Calm, Mine
    <2>2. CASE ListDone(p)
      <3>1. /\ poll[p].cur = None /\ poll'[p].cur = None
            /\ poll'[p].at = poll[p].at /\ poll'[p].age = poll[p].age
            /\ poll'[p].held = poll[p].held /\ poll'[p].todo = poll[p].todo
            /\ poll'[p].copy = poll[p].copy
        BY <1>0, <2>2, ListDonePoll DEF PollOK
      <3>2. QED
        BY <1>0, <3>1 DEF Calm, Mine, Writing
    <2>3. CASE UpsertFails(p)
      BY <1>0, <2>3, NextHeldPoll DEF Calm, Mine, Writing, UpsertFails
    <2>4. CASE Abandon(p)
      BY <1>0, <2>4, AbandonPoll DEF Calm, Mine
    <2>5. QED
      BY <2>1, <2>2, <2>3, <2>4
  <1>4. \A q \in Pollers : Calm(q, t)
    BY <1>0, <1>2, <1>3, CalmSame
  <1>5. QED
    BY <1>1, <1>4, FreshKept

\* Time passes: the key gets as much older as the listing.
LEMMA FreshTick ==
  ASSUME RecShape, RecShape', NEW t \in Templates \ crossed', CronTick, Fresh(t)
  PROVE  Fresh(t)'
  <1>0. /\ now \in Nat /\ now' = now + 1 /\ UNCHANGED <<row, index, op, fired>> /\ key[t] \in Nat
        /\ key'[t] = IF key[t] > 0 THEN key[t] - 1 ELSE 0
    BY ShapeParts DEF TallyType, StoreType, CronTick
  <1>1. SameStore(t)
    BY <1>0 DEF SameStore
  <1>2. ASSUME NEW q \in Pollers PROVE Calm(q, t)
    <2>1. PollOK(q) /\ t # None /\ poll[q].age \in Nat
      BY PairFacts
    <2>2. CASE poll[q].pc = "idle"
      BY <2>1, <2>2, TickPoll DEF Calm, Mine, PollOK
    <2>3. CASE poll[q].pc # "idle"
      <3>1. key'[t] + poll'[q].age >= key[t] + poll[q].age
        BY <1>0, <2>1, <2>3, TickPoll
      <3>2. QED
        BY <2>3, <3>1, TickPoll DEF Calm, Mine, Writing
    <2>4. QED
      BY <2>2, <2>3
  <1>3. QED
    BY <1>1, <1>2, FreshKept

\* MemoryStorage and Postgres: what is fetched is due, parked, and nobody
\* else's.
LEMMA FreshFetchDue ==
  ASSUME RecShape, RecShape', NEW p \in Pollers, NEW t \in Templates \ crossed',
         FetchDue(p), Fresh(t)
  PROVE  Fresh(t)'
  <1>0. /\ now \in Nat /\ UNCHANGED <<backend, now, key, op, fired>>
        /\ PollOK(p) /\ t # None /\ key[t] \in Nat /\ RowOK(t) /\ ParkFor \in Nat
    BY ShapeParts, PairFacts, RecurringAssumption, LoopsAssumption DEF TallyType, FetchDue
  <1>1. PICK B \in SUBSET Templates :
         /\ \A u \in B : row[u].enabled /\ index[u] \in 0..poll[p].at
         /\ Only(p) /\ \A q \in Pollers \ {p} : poll'[q] = poll[q]
         /\ poll[p].pc = "fetch" /\ backend = "atomic"
         /\ poll'[p].pc = (IF B = {} THEN "idle" ELSE "fire")
         /\ poll'[p].at = poll[p].at /\ poll'[p].age = poll[p].age
         /\ poll'[p].todo = poll[p].todo /\ poll'[p].cur = poll[p].cur
         /\ poll'[p].held = B
         /\ \A u \in B : poll'[p].copy[u] = row[u]
         /\ row' \in [Templates -> Row] /\ index' \in [Templates -> Nat \cup {NoIndex}]
         /\ \A u \in B : /\ index'[u] = poll[p].at + ParkFor
                         /\ row'[u] = [row[u] EXCEPT !.next = poll[p].at + ParkFor]
         /\ \A u \in Templates \ B : index'[u] = index[u] /\ row'[u] = row[u]
    BY FetchDuePoll
  <1>2. poll[p].todo = {} /\ poll[p].cur = None
    BY <1>0, <1>1 DEF PollOK
  <1>3. CASE t \notin B
    <2>1. SameStore(t)
      BY <1>0, <1>1, <1>3 DEF SameStore
    <2>2. Calm(p, t)
      BY <1>0, <1>1, <1>2, <1>3 DEF Calm, Mine
    <2>3. \A q \in Pollers : Calm(q, t)
      BY <1>0, <1>1, <2>2, CalmSame
    <2>4. QED
      BY <2>1, <2>3, FreshKept
  <1>4. CASE t \in B
    <2>1. /\ index[t] = row[t].next /\ index[t] \in 0..poll[p].at /\ op[t] = NoOp
          /\ index[t] < ParkFor /\ index'[t] >= ParkFor /\ poll[p].at \in Nat
          /\ ~(index'[t] < ParkFor) /\ ~(index[t] >= ParkFor)
      <3>1. row[t].enabled
        BY <1>1, <1>4
      <3>2. index[t] = row[t].next /\ op[t] = NoOp
        BY <1>0, <1>1, <3>1 DEF RowOK
      <3>3. index[t] \in 0..poll[p].at /\ index'[t] = poll[p].at + ParkFor
        BY <1>1, <1>4
      <3>4. QED
        BY <1>0, <3>2, <3>3, PairFacts
    <2>2. FiredBefore(t, row[t].next)
      <3>1. row[t].enabled /\ index[t] < ParkFor
        BY <1>1, <1>4, <2>1
      <3>2. QED
        BY <3>1, Zenon DEF Fresh, TemplateOK
    <2>3. TemplateOK(t)'
      <3>1. ~(index'[t] < ParkFor) /\ op'[t] = NoOp
        BY <1>0, <2>1
      <3>2. QED
        BY <1>0, <3>1 DEF Fresh, TemplateOK
    <2>4. poll'[p].copy[t].next <= poll'[p].at /\ FiredBefore(t, poll[p].copy[t].next)'
      <3>1. poll'[p].copy[t] = row[t]
        BY <1>1, <1>4
      <3>2. FiredBefore(t, poll'[p].copy[t].next)
        BY <2>2, <3>1
      <3>3. QED
        BY <1>0, <1>1, <2>1, <3>1, <3>2 DEF FiredBefore
    <2>5. PairOK(p, t)'
      <3>1. /\ t \in poll'[p].held /\ t \notin poll'[p].todo /\ ~Writing(p, t)'
            /\ ~(poll'[p].pc \in {"read", "park"})
        BY <1>1, <1>2, <1>4 DEF Writing
      <3>2. QED
        BY <2>1, <2>4, <3>1 DEF PairOK
    <2>6. ASSUME NEW q \in Pollers \ {p} PROVE PairOK(q, t)' /\ ~Claimed(q, t)'
      <3>1. PollOK(q) /\ PairOK(q, t)
        BY PairFacts DEF Fresh
      <3>6. t \notin poll[q].held
        BY <2>1, <3>1 DEF PairOK
      <3>2. ~Claimed(q, t) /\ t \notin poll[q].todo
        BY <1>1, <3>1, <3>6 DEF PollOK, Claimed
      <3>3. poll'[q] = poll[q]
        BY <1>1
      <3>4. ~Claimed(q, t)' /\ t \notin poll'[q].todo
        BY <3>2, <3>3 DEF Claimed
      <3>5. QED
        BY <3>4, PairIdleNext
    <2>7. QED
      BY <2>3, <2>5, <2>6 DEF Fresh, AloneWith
  <1>5. QED
    BY <1>3, <1>4

\* Redis: what is listed is due.
LEMMA FreshListDue ==
  ASSUME RecShape, RecShape', NEW p \in Pollers, NEW t \in Templates \ crossed',
         ListDue(p), Fresh(t)
  PROVE  Fresh(t)'
  <1>0. /\ now \in Nat /\ UNCHANGED <<backend, now, row, index, key, op, fired>>
        /\ PollOK(p) /\ t # None /\ key[t] \in Nat
    BY ShapeParts, PairFacts DEF TallyType, ListDue
  <1>1. PICK B \in SUBSET Templates :
         /\ \A u \in B : index[u] \in 0..poll[p].at
         /\ \A q \in Pollers \ {p} : poll'[q] = poll[q]
         /\ poll[p].pc = "fetch"
         /\ poll'[p].pc = (IF B = {} THEN "idle" ELSE "claim")
         /\ poll'[p].at = poll[p].at
         /\ poll'[p].held = poll[p].held /\ poll'[p].cur = poll[p].cur
         /\ poll'[p].todo = B
         /\ crossed' = crossed \cup {u \in B : op[u] # NoOp}
    BY ListDuePoll
  <1>2. poll[p].held = {} /\ poll[p].cur = None
    BY <1>0, <1>1 DEF PollOK
  <1>3. SameStore(t)
    BY <1>0 DEF SameStore
  <1>4. CASE t \notin B
    <2>1. Calm(p, t)
      BY <1>0, <1>1, <1>2, <1>4 DEF Calm, Mine
    <2>2. \A q \in Pollers : Calm(q, t)
      BY <1>0, <1>1, <2>1, CalmSame
    <2>3. QED
      BY <1>3, <2>2, FreshKept
  <1>5. CASE t \in B
    <2>1. op[t] = NoOp /\ index[t] \in 0..poll[p].at
      BY <1>1, <1>5
    <2>2. TemplateOK(t)'
      BY <1>0, <2>1 DEF Fresh, TemplateOK, FiredBefore
    <2>3. ~Claimed(p, t)'
      BY <1>0, <1>1, <1>2 DEF Claimed
    <2>4. PairOK(p, t)'
      BY <1>0, <1>1, <2>1, <2>3, PairIdleNext
    <2>5. \A q \in Pollers \ {p} : PairOK(q, t)' /\ (Claimed(q, t)' => Claimed(q, t))
      BY <1>0, <1>1, <1>3, CalmSame, PairKept DEF Fresh
    <2>6. QED
      BY <2>2, <2>3, <2>4, <2>5 DEF Fresh, AloneWith
  <1>6. QED
    BY <1>4, <1>5

\* Redis: who gets the key of a template finds it as it was listed, since
\* nobody can have fired it since.
LEMMA FreshClaimKey ==
  ASSUME KeyOutlives, RecShape, RecShape', KeyInv, NEW p \in Pollers,
         NEW u \in Templates, NEW t \in Templates \ crossed', ClaimKey(p, u), Fresh(t)
  PROVE  Fresh(t)'
  <1>0. /\ now \in Nat /\ UNCHANGED <<backend, now, row, index, op, fired>>
        /\ PollOK(p) /\ t # None /\ key \in [Templates -> Nat] /\ poll[p].age \in Nat
        /\ poll[p].age <= MaxLag /\ MaxLag \in Nat /\ ClaimTtl \in Nat
    BY ShapeParts, PairFacts, RecurringAssumption, LoopsAssumption
       DEF TallyType, StoreType, ClaimKey
  <1>1. /\ \A q \in Pollers \ {p} : poll'[q] = poll[q]
        /\ poll[p].pc = "claim" /\ u \in poll[p].todo
        /\ poll'[p].at = poll[p].at /\ poll'[p].age = poll[p].age
        /\ poll'[p].held = poll[p].held /\ poll'[p].todo = poll[p].todo \ {u}
        /\ poll'[p].copy = poll[p].copy
        /\ \/ /\ key[u] = 0 /\ key' = [key EXCEPT ![u] = ClaimTtl]
              /\ poll'[p].pc = "read" /\ poll'[p].cur = u
           \/ /\ key' = key
              /\ poll'[p].pc = "claim" /\ poll'[p].cur = poll[p].cur
    BY ClaimKeyPoll
  <1>2. /\ backend = "redis" /\ poll[p].cur = None /\ poll[p].todo \cap poll[p].held = {}
        /\ ClaimTtl > MaxLag
    <2>1. backend = "redis" /\ poll[p].cur = None /\ poll[p].todo \cap poll[p].held = {}
      BY <1>0, <1>1 DEF PollOK
    <2>2. backend \in Backends
      BY ShapeParts DEF TallyType
    <2>3. QED
      BY <1>0, <2>1, <2>2 DEF KeyOutlives
  <1>3. SameStore(t)
    BY <1>0 DEF SameStore
  <1>4. CASE key' = key /\ poll'[p].pc = "claim" /\ poll'[p].cur = poll[p].cur
    <2>1. Calm(p, t)
      BY <1>0, <1>1, <1>2, <1>4 DEF Calm, Mine, Writing
    <2>2. \A q \in Pollers : Calm(q, t)
      BY <1>0, <1>1, <1>4, <2>1, CalmSame
    <2>3. QED
      BY <1>3, <2>2, FreshKept
  <1>5. CASE /\ key[u] = 0 /\ key' = [key EXCEPT ![u] = ClaimTtl]
             /\ poll'[p].pc = "read" /\ poll'[p].cur = u /\ t # u
    <2>1. key'[t] = key[t]
      BY <1>0, <1>5
    <2>2. Calm(p, t)
      BY <1>0, <1>1, <1>2, <1>5, <2>1 DEF Calm, Mine, Writing
    <2>3. \A q \in Pollers : Calm(q, t)
      BY <1>0, <1>1, <2>1, <2>2, CalmSame
    <2>4. QED
      BY <1>3, <2>3, FreshKept
  <1>6. CASE /\ key[u] = 0 /\ key' = [key EXCEPT ![u] = ClaimTtl]
             /\ poll'[p].pc = "read" /\ poll'[p].cur = u /\ t = u
    <2>1. key'[t] = ClaimTtl /\ key[t] = 0
      BY <1>0, <1>6
    <2>2. index[t] \in 0..poll[p].at
      <3>1. t \in poll[p].todo /\ PairOK(p, t)
        BY <1>1, <1>6 DEF Fresh
      <3>2. ~(key[t] + poll[p].age > MaxLag)
        BY <1>0, <2>1
      <3>3. QED
        BY <3>1, <3>2 DEF PairOK
    <2>3. \A q \in Pollers : ~Claimed(q, t)
      BY <1>0, <1>2, <2>1, ClaimTimes
    <2>4. TemplateOK(t)'
      <3>1. Busy(t)
        BY <1>1, <1>6 DEF Busy
      <3>2. QED
        BY <1>0, <3>1 DEF Fresh, TemplateOK, FiredBefore
    <2>5. PairOK(p, t)'
      <3>1. /\ t \notin poll'[p].todo /\ t \notin poll'[p].held
        BY <1>1, <1>2, <1>6
      <3>2. ~Holds(p, t)' /\ ~Writing(p, t)'
        BY <1>6, <3>1 DEF Holds, Writing
      <3>3. QED
        BY <1>0, <1>1, <2>2, <3>1, <3>2 DEF PairOK
    <2>6. ASSUME NEW q \in Pollers \ {p} PROVE PairOK(q, t)' /\ ~Claimed(q, t)'
      <3>1. poll'[q] = poll[q] /\ poll[q].age \in Nat
        BY <1>1, PairFacts
      <3>2. ~Claimed(q, t)'
        BY <2>3, <3>1 DEF Claimed
      <3>3. key'[t] + poll'[q].age > MaxLag
        BY <1>0, <1>2, <2>1, <3>1
      <3>4. QED
        BY <3>2, <3>3, PairIdleNext
    <2>7. QED
      BY <2>4, <2>5, <2>6 DEF Fresh, AloneWith
  <1>7. QED
    BY <1>1, <1>4, <1>5, <1>6

\* Redis: the row read after the claim is ahead of what was fired.
LEMMA FreshReadRow ==
  ASSUME RecShape, RecShape', NEW p \in Pollers, NEW t \in Templates \ crossed',
         ReadRow(p), Fresh(t)
  PROVE  Fresh(t)'
  <1>0. /\ now \in Nat /\ UNCHANGED <<backend, now, row, index, key, op, fired>>
        /\ PollOK(p) /\ t # None /\ key[t] \in Nat /\ poll[p].pc = "read"
        /\ poll[p].age \in Nat /\ poll[p].at \in Nat /\ poll[p].at < ParkFor
    BY ShapeParts, PairFacts DEF TallyType, ReadRow
  <1>1. poll[p].cur \in Templates \ (poll[p].held \cup poll[p].todo)
    BY <1>0 DEF PollOK
  <1> DEFINE u == poll[p].cur
  <1>2. /\ \A q \in Pollers \ {p} : poll'[q] = poll[q]
        /\ poll'[p].at = poll[p].at /\ poll'[p].age = poll[p].age
        /\ poll'[p].held = poll[p].held /\ poll'[p].todo = poll[p].todo
        /\ \A v \in Templates \ {u} : poll'[p].copy[v] = poll[p].copy[v]
        /\ \/ /\ row[u].enabled /\ row[u].next <= poll[p].at
              /\ poll'[p].pc = "park" /\ poll'[p].cur = u /\ poll'[p].copy[u] = row[u]
           \/ poll'[p].pc = "claim" /\ poll'[p].cur = None
    BY <1>1, ReadRowPoll
  <1> HIDE DEF u
  <1>3. SameStore(t)
    BY <1>0 DEF SameStore
  <1>4. ASSUME t # u \/ (poll'[p].pc = "claim" /\ poll'[p].cur = None) PROVE Fresh(t)'
    <2>1. Calm(p, t)
      BY <1>0, <1>1, <1>2, <1>4 DEF Calm, Mine, Writing, u
    <2>2. \A q \in Pollers : Calm(q, t)
      BY <1>0, <1>2, <2>1, CalmSame
    <2>3. QED
      BY <1>3, <2>2, FreshKept
  <1>5. CASE /\ t = u /\ row[u].enabled /\ row[u].next <= poll[p].at
             /\ poll'[p].pc = "park" /\ poll'[p].cur = u /\ poll'[p].copy[u] = row[u]
    <2>1. index[t] \in 0..poll[p].at /\ index[t] < ParkFor
      <3>1. PairOK(p, t) /\ poll[p].pc \in {"read", "park"} /\ poll[p].cur = t
        BY <1>0, <1>5 DEF Fresh, u
      <3>2. index[t] \in 0..poll[p].at
        BY <3>1 DEF PairOK
      <3>3. QED
        BY <1>0, <3>2, RecurringAssumption, LoopsAssumption
    <2>2. FiredBefore(t, row[t].next)
      BY <1>5, <2>1, Zenon DEF Fresh, TemplateOK
    <2>3. TemplateOK(t)'
      <3>1. Busy(t)
        BY <1>5 DEF Busy, u
      <3>2. QED
        BY <1>0, <3>1 DEF Fresh, TemplateOK, FiredBefore
    <2>4. poll'[p].copy[t].next <= poll'[p].at /\ FiredBefore(t, poll[p].copy[t].next)'
      <3>1. poll'[p].copy[t] = row[t] /\ row[t].next <= poll[p].at
        BY <1>5
      <3>2. FiredBefore(t, poll'[p].copy[t].next)
        BY <2>2, <3>1
      <3>3. QED
        BY <1>0, <1>2, <3>1, <3>2 DEF FiredBefore
    <2>5. PairOK(p, t)'
      <3>1. /\ t \notin poll'[p].held /\ t \notin poll'[p].todo /\ ~Writing(p, t)'
        BY <1>1, <1>2, <1>5 DEF Writing, u
      <3>2. index'[t] \in 0..poll'[p].at
        BY <1>0, <1>2, <2>1
      <3>3. QED
        BY <2>4, <3>1, <3>2 DEF PairOK
    <2>6. \A q \in Pollers \ {p} : PairOK(q, t)' /\ (Claimed(q, t)' => Claimed(q, t))
      BY <1>0, <1>2, <1>3, CalmSame, PairKept DEF Fresh
    <2>7. Claimed(p, t)
      BY <1>0, <1>5 DEF Claimed, u
    <2>8. QED
      BY <2>3, <2>5, <2>6, <2>7 DEF Fresh, AloneWith
  <1>6. QED
    BY <1>2, <1>4, <1>5

\* Redis: from the park on the index does not list the template.
LEMMA FreshParkIndex ==
  ASSUME KeyOutlives, RecShape, RecShape', KeyInv, NEW p \in Pollers,
         NEW t \in Templates \ crossed', ParkIndex(p), Fresh(t)
  PROVE  Fresh(t)'
  <1>0. /\ now \in Nat /\ UNCHANGED <<backend, now, row, key, op, fired>>
        /\ PollOK(p) /\ t # None /\ key[t] \in Nat /\ poll[p].pc = "park"
        /\ poll[p].age \in Nat /\ poll[p].at \in Nat /\ StoreType /\ ParkFor \in Nat
    BY ShapeParts, PairFacts, RecurringAssumption, LoopsAssumption DEF TallyType, ParkIndex
  <1>1. poll[p].cur \in Templates \ (poll[p].held \cup poll[p].todo)
    BY <1>0 DEF PollOK
  <1> DEFINE u == poll[p].cur
  <1>2. /\ \A q \in Pollers \ {p} : poll'[q] = poll[q]
        /\ poll'[p].pc = "claim" /\ poll'[p].cur = None
        /\ poll'[p].at = poll[p].at /\ poll'[p].age = poll[p].age
        /\ poll'[p].held = poll[p].held \cup {u} /\ poll'[p].todo = poll[p].todo
        /\ poll'[p].copy = poll[p].copy
        /\ index' = [index EXCEPT ![u] = poll[p].at + ParkFor]
    BY <1>1, ParkIndexPoll
  <1> HIDE DEF u
  <1>3. CASE t # u
    <2>1. SameStore(t)
      BY <1>0, <1>2, <1>3 DEF SameStore, StoreType
    <2>2. Calm(p, t)
      BY <1>0, <1>1, <1>2, <1>3 DEF Calm, Mine, Writing, u
    <2>3. \A q \in Pollers : Calm(q, t)
      BY <1>0, <1>2, <2>2, CalmSame
    <2>4. QED
      BY <2>1, <2>3, FreshKept
  <1>4. CASE t = u
    <2>1. index'[t] = poll[p].at + ParkFor
      BY <1>0, <1>2, <1>4 DEF StoreType
    <2>2. index'[t] >= ParkFor /\ ~(index'[t] < ParkFor)
      BY <1>0, <2>1
    <2>3. Busy(t) /\ Claimed(p, t) /\ Holds(p, t) /\ ~Writing(p, t)
      BY <1>0, <1>4 DEF Busy, Claimed, Holds, Writing, u
    <2>4. op[t] = NoOp
      BY <2>3 DEF Fresh, TemplateOK
    <2>5. TemplateOK(t)'
      BY <1>0, <2>2, <2>4 DEF Fresh, TemplateOK
    <2>6. poll[p].copy[t].next <= poll[p].at /\ FiredBefore(t, poll[p].copy[t].next)
      BY <2>3 DEF Fresh, PairOK
    <2>7. poll'[p].copy[t].next <= poll'[p].at /\ FiredBefore(t, poll[p].copy[t].next)'
      BY <1>0, <1>2, <2>6 DEF FiredBefore
    <2>8. PairOK(p, t)'
      <3>1. /\ t \notin poll'[p].todo /\ ~Writing(p, t)' /\ poll'[p].pc \notin {"read", "park"}
        BY <1>1, <1>2, <1>4 DEF Writing, u
      <3>2. QED
        BY <2>2, <2>7, <3>1 DEF PairOK
    <2>9. QED
      BY <1>0, <1>2, <2>3, <2>5, <2>8, FreshWork
  <1>5. QED
    BY <1>3, <1>4

\* The occurrence fired was not fired before, and the copy is advanced past
\* it.
LEMMA FreshEnqueueFiring ==
  ASSUME KeyOutlives, RecShape, RecShape', KeyInv, NEW p \in Pollers,
         NEW u \in Templates, NEW t \in Templates \ crossed', EnqueueFiring(p, u), Fresh(t)
  PROVE  Fresh(t)'
  <1>0. /\ now \in Nat /\ UNCHANGED <<backend, now, row, index, key, op>>
        /\ PollOK(p) /\ t # None /\ key[t] \in Nat
        /\ poll[p].age \in Nat /\ poll[p].at \in Nat /\ poll[p].at <= now /\ poll[p].at <= MaxTime
        /\ poll[p].copy[t] \in Row /\ poll[p].copy[t].next \in Nat
        /\ fired \in [Templates -> [0..(MaxTime + ParkFor) -> Nat]]
        /\ ParkFor \in Nat /\ MaxTime \in Nat
    BY ShapeParts, PairFacts, RecurringAssumption, LoopsAssumption DEF TallyType, EnqueueFiring
  <1>1. /\ \A q \in Pollers \ {p} : poll'[q] = poll[q]
        /\ poll[p].pc = "fire" /\ u \in poll[p].held
        /\ poll'[p].pc = "write" /\ poll'[p].cur = u
        /\ poll'[p].at = poll[p].at /\ poll'[p].age = poll[p].age
        /\ poll'[p].held = poll[p].held /\ poll'[p].todo = poll[p].todo
        /\ poll'[p].copy[u] = Advance(poll[p].copy[u], poll[p].at)
        /\ \A v \in Templates \ {u} : poll'[p].copy[v] = poll[p].copy[v]
    BY EnqueueFiringPoll
  <1>2. poll[p].cur = None /\ poll[p].todo = {}
    BY <1>0, <1>1 DEF PollOK
  <1>3. CASE t # u
    <2>1. fired'[t] = fired[t]
      <3>1. CASE fired' = fired
        BY <3>1
      <3>2. CASE fired' = [fired EXCEPT ![u][poll[p].copy[u].next] = @ + 1]
        BY <1>0, <1>3, <3>2
      <3>3. QED
        BY <3>1, <3>2 DEF EnqueueFiring
    <2>2. SameStore(t)
      BY <1>0, <2>1 DEF SameStore
    <2>3. Calm(p, t)
      BY <1>0, <1>1, <1>2, <1>3 DEF Calm, Mine, Writing
    <2>4. \A q \in Pollers : Calm(q, t)
      BY <1>0, <1>1, <2>3, CalmSame
    <2>5. QED
      BY <2>2, <2>4, FreshKept
  <1>4. CASE t = u
    <2> DEFINE o == poll[p].copy[t].next
               D == 0..(MaxTime + ParkFor)
    <2>1. Busy(t) /\ Claimed(p, t) /\ Holds(p, t) /\ ~Writing(p, t)
      BY <1>1, <1>4 DEF Busy, Claimed, Holds, Writing
    <2>2. op[t] = NoOp /\ index[t] >= ParkFor /\ o <= poll[p].at /\ FiredBefore(t, o)
      BY <1>1, <1>4, <2>1 DEF Fresh, TemplateOK, PairOK
    <2>3. o \in D /\ o \in Nat /\ o <= now
      BY <1>0, <2>2
    <2>4. fired[t] \in [D -> Nat] /\ fired[t][o] = 0
      <3>1. fired[t] \in [D -> Nat] /\ fired[t][o] \in Nat
        BY <1>0, <2>3
      <3>2. ~(fired[t][o] > 0)
        BY <2>2, <2>3 DEF FiredBefore
      <3>3. QED
        BY <3>1, <3>2
    <2>5. fired'[t] = fired[t] \/ fired'[t] = [fired[t] EXCEPT ![o] = fired[t][o] + 1]
      <3>1. CASE fired' = fired
        BY <3>1
      <3>2. CASE fired' = [fired EXCEPT ![u][poll[p].copy[u].next] = @ + 1]
        BY <1>0, <1>4, <3>2
      <3>3. QED
        BY <3>1, <3>2 DEF EnqueueFiring
    <2>6. \A f \in D : /\ fired[t][f] <= 1 /\ fired[t][f] \in Nat
                       /\ fired[t][f] > 0 => f <= now /\ f < o
      BY <2>2, <2>4 DEF Fresh, TemplateOK, FiredBefore
    <2> HIDE DEF o, D
    <2>7. \A f \in D : fired'[t][f] <= 1 /\ (fired'[t][f] > 0 => f = o \/ (f <= now /\ f < o))
      BY <2>3, <2>4, <2>5, <2>6
    <2>8. TemplateOK(t)'
      <3>1. ~(index'[t] < ParkFor) /\ op'[t] = NoOp
        <4>1. index[t] \in Nat \cup {NoIndex}
          BY PairFacts
        <4>2. QED
          BY <1>0, <2>2, <4>1 DEF NoIndex
      <3>2. \A f \in D : fired'[t][f] <= 1 /\ (fired'[t][f] > 0 => f <= now')
        BY <1>0, <2>3, <2>7
      <3>3. QED
        BY <3>1, <3>2 DEF TemplateOK, D
    <2>9. poll'[p].copy[t].enabled => FiredBefore(t, poll[p].copy[t].next)'
      <3>1. /\ Advance(poll[p].copy[t], poll[p].at) \in Row
            /\ Advance(poll[p].copy[t], poll[p].at).enabled =>
                  Advance(poll[p].copy[t], poll[p].at).next > poll[p].at
        BY <1>0, AdvanceBounds
      <3>2. poll'[p].copy[t].enabled => poll'[p].copy[t].next > poll[p].at
        BY <1>1, <1>4, <3>1, Zenon
      <3>3. poll'[p].copy[t].next \in Nat
        BY <1>1, <1>4, <3>1 DEF Row
      <3>4. poll'[p].copy[t].next > poll[p].at => \A f \in D : fired'[t][f] > 0 => f < poll'[p].copy[t].next
        <4> DEFINE n == poll'[p].copy[t].next
                   a == poll[p].at
        <4>1. n \in Nat /\ a \in Nat /\ o \in Nat /\ o <= a
          BY <1>0, <2>2, <2>3, <3>3
        <4>2. \A f \in D : f \in Int
          BY <1>0 DEF D
        <4> HIDE DEF n, a
        <4>3. n > a => \A f \in D : fired'[t][f] > 0 => f < n
          BY <2>7, <4>1, <4>2
        <4>4. QED
          BY <4>3 DEF n, a
      <3>5. QED
        BY <3>2, <3>4 DEF FiredBefore, D
    <2>10. PairOK(p, t)'
      <3>1. /\ t \notin poll'[p].todo /\ Writing(p, t)' /\ poll'[p].pc = "write"
        BY <1>1, <1>2, <1>4 DEF Writing
      <3>2. index'[t] >= ParkFor
        BY <1>0, <2>2
      <3>3. QED
        BY <2>9, <3>1, <3>2 DEF PairOK
    <2>11. QED
      BY <1>0, <1>1, <2>1, <2>8, <2>10, FreshWork
  <1>5. QED
    BY <1>3, <1>4

\* upsert_recurring_job over Redis writes the row first.
LEMMA FreshUpsertRow ==
  ASSUME KeyOutlives, RecShape, RecShape', KeyInv, NEW p \in Pollers,
         NEW t \in Templates \ crossed', UpsertAdvanced(p), backend = "redis", Fresh(t)
  PROVE  Fresh(t)'
  <1>0. /\ now \in Nat /\ UNCHANGED <<backend, now, index, key, op, fired>>
        /\ PollOK(p) /\ t # None /\ key[t] \in Nat /\ poll[p].pc = "write" /\ PollerAt(p, "index")
        /\ poll[p].age \in Nat /\ StoreType
        /\ row' = [row EXCEPT ![poll[p].cur] = poll[p].copy[poll[p].cur]]
    BY ShapeParts, PairFacts DEF TallyType, UpsertAdvanced
  <1>1. poll[p].cur \in poll[p].held /\ poll[p].todo = {}
    BY <1>0 DEF PollOK
  <1>2. /\ \A q \in Pollers \ {p} : poll'[q] = poll[q]
        /\ poll'[p].pc = "index" /\ poll'[p].cur = poll[p].cur
        /\ poll'[p].at = poll[p].at /\ poll'[p].age = poll[p].age
        /\ poll'[p].held = poll[p].held /\ poll'[p].todo = poll[p].todo
        /\ poll'[p].copy = poll[p].copy
    BY <1>0, UpsertRowPoll
  <1>3. CASE t # poll[p].cur
    <2>1. SameStore(t)
      BY <1>0, <1>3 DEF SameStore, StoreType
    <2>2. Calm(p, t)
      BY <1>0, <1>1, <1>2, <1>3 DEF Calm, Mine, Writing
    <2>3. \A q \in Pollers : Calm(q, t)
      BY <1>0, <1>2, <2>2, CalmSame
    <2>4. QED
      BY <2>1, <2>3, FreshKept
  <1>4. CASE t = poll[p].cur
    <2>1. Busy(t) /\ Claimed(p, t) /\ Writing(p, t) /\ t \in poll[p].held
      BY <1>0, <1>1, <1>4 DEF Busy, Claimed, Writing
    <2>2. op[t] = NoOp /\ index[t] >= ParkFor /\ index[t] \in Nat \cup {NoIndex}
      BY <2>1, PairFacts DEF Fresh, TemplateOK, PairOK
    <2>3. ~(index'[t] < ParkFor) /\ op'[t] = NoOp /\ index'[t] >= ParkFor
      BY <1>0, <2>2, RecurringAssumption, LoopsAssumption DEF NoIndex
    <2>4. TemplateOK(t)'
      BY <1>0, <2>3 DEF Fresh, TemplateOK
    <2>5. poll'[p].copy[t].enabled => FiredBefore(t, poll[p].copy[t].next)'
      <3>1. poll[p].copy[t].enabled => FiredBefore(t, poll[p].copy[t].next)
        BY <2>1, Zenon DEF Fresh, PairOK
      <3>2. FiredBefore(t, poll[p].copy[t].next) => FiredBefore(t, poll[p].copy[t].next)'
        BY <1>0, <1>2 DEF FiredBefore
      <3>3. QED
        BY <1>2, <3>1, <3>2
    <2>6. row'[t] = poll'[p].copy[t]
      BY <1>0, <1>2, <1>4 DEF StoreType
    <2>7. PairOK(p, t)'
      <3>1. t \notin poll'[p].todo /\ Writing(p, t)' /\ poll'[p].pc = "index"
        BY <1>1, <1>2, <1>4 DEF Writing
      <3>2. QED
        BY <2>3, <2>5, <2>6, <3>1 DEF PairOK
    <2>8. QED
      BY <1>0, <1>2, <2>1, <2>4, <2>7, FreshWork
  <1>5. QED
    BY <1>3, <1>4

\* The write that makes the advanced template due again: of row and index
\* together, or over Redis of the index.
LEMMA FreshUpsertIndex ==
  ASSUME KeyOutlives, RecShape, RecShape', KeyInv, NEW p \in Pollers,
         NEW t \in Templates \ crossed', Fresh(t),
         UpsertIndex(p) \/ (UpsertAdvanced(p) /\ backend # "redis")
  PROVE  Fresh(t)'
  <1>0. /\ now \in Nat /\ UNCHANGED <<backend, now, key, op, fired>>
        /\ PollOK(p) /\ t # None /\ key[t] \in Nat /\ poll[p].pc \in {"write", "index"} /\ NextHeld(p)
        /\ poll[p].age \in Nat /\ StoreType
        /\ index' = [index EXCEPT ![poll[p].cur] = poll[p].copy[poll[p].cur].next]
    BY ShapeParts, PairFacts DEF TallyType, UpsertAdvanced, UpsertIndex
  <1>1. poll[p].cur \in poll[p].held /\ poll[p].todo = {}
    BY <1>0 DEF PollOK
  <1>2. /\ \A q \in Pollers \ {p} : poll'[q] = poll[q]
        /\ poll'[p].cur = None
        /\ poll'[p].at = poll[p].at /\ poll'[p].age = poll[p].age
        /\ poll'[p].held = poll[p].held \ {poll[p].cur} /\ poll'[p].todo = poll[p].todo
        /\ poll'[p].copy = poll[p].copy
    BY <1>0, NextHeldPoll
  <1>3. CASE t # poll[p].cur
    <2>1. row'[t] = row[t]
      BY <1>0, <1>3 DEF UpsertAdvanced, UpsertIndex, StoreType
    <2>2. SameStore(t)
      BY <1>0, <1>3, <2>1 DEF SameStore, StoreType
    <2>3. Calm(p, t)
      BY <1>0, <1>1, <1>2, <1>3 DEF Calm, Mine, Writing
    <2>4. \A q \in Pollers : Calm(q, t)
      BY <1>0, <1>2, <2>3, CalmSame
    <2>5. QED
      BY <2>2, <2>4, FreshKept
  <1>4. CASE t = poll[p].cur
    <2>1. Busy(t) /\ Claimed(p, t) /\ Writing(p, t)
      BY <1>0, <1>1, <1>4 DEF Busy, Claimed, Writing
    <2>2. row'[t] = poll[p].copy[t]
      <3>1. CASE UpsertIndex(p)
        <4>1. row' = row /\ poll[p].pc = "index"
          BY <3>1 DEF UpsertIndex
        <4>2. row[t] = poll[p].copy[t]
          BY <2>1, <4>1 DEF Fresh, PairOK
        <4>3. QED
          BY <4>1, <4>2
      <3>2. CASE UpsertAdvanced(p)
        BY <1>0, <1>4, <3>2 DEF UpsertAdvanced, StoreType
      <3>3. QED
        BY <3>1, <3>2
    <2>3. op'[t] = NoOp
      BY <1>0, <2>1 DEF Fresh, TemplateOK
    <2>4. row'[t].enabled => FiredBefore(t, row[t].next)'
      <3>1. poll[p].copy[t].enabled => FiredBefore(t, poll[p].copy[t].next)
        BY <2>1, Zenon DEF Fresh, PairOK
      <3>2. row'[t].enabled => FiredBefore(t, row'[t].next)
        BY <2>2, <3>1, Zenon
      <3>3. FiredBefore(t, row'[t].next) => FiredBefore(t, row[t].next)'
        BY <1>0 DEF FiredBefore
      <3>4. QED
        BY <3>2, <3>3
    <2>5. TemplateOK(t)'
      BY <1>0, <2>3, <2>4 DEF Fresh, TemplateOK
    <2>6. PairOK(p, t)'
      <3>1. ~Claimed(p, t)' /\ t \notin poll'[p].todo
        BY <1>0, <1>1, <1>2, <1>4 DEF Claimed
      <3>2. QED
        BY <3>1, PairIdleNext
    <2>7. QED
      BY <1>0, <1>2, <2>1, <2>5, <2>6, FreshWork
  <1>5. QED
    BY <1>3, <1>4

\* Every step keeps the firing invariant.
LEMMA FiringNext ==
  ASSUME KeyOutlives, FiringInv, [CronNext]_cronVars
  PROVE  FiringInv'
  <1>1. RecShape /\ RecShape' /\ KeyInv
    BY ShapeNext DEF FiringInv
  <1>2. CASE CronNext
    <2>1. KeyInv'
      BY <1>1, <1>2, KeyNext
    <2>2. ASSUME NEW t \in Templates \ crossed' PROVE Fresh(t)'
      <3>1. Fresh(t)
        <4>1. crossed \subseteq crossed'
          <5>1. \A p \in Pollers : ListDue(p) => crossed \subseteq crossed'
            BY DEF ListDue
          <5>2. \A u \in Templates : ScheduleRecurring(u) \/ RemoveRecurring(u) \/ IndexWritten(u)
                                        => crossed \subseteq crossed'
            BY DEF ScheduleRecurring, RemoveRecurring, IndexWritten, Cross
          <5>3. ASSUME NEW p \in Pollers, PollerStep(p) \/ UpsertFails(p) \/ Abandon(p), ~ListDue(p)
                PROVE  crossed' = crossed
            BY <5>3 DEF PollerStep, TickOnce, FetchDue, ReadRow, ParkIndex, ListDone,
                        ClaimKey, EnqueueFiring, UpsertAdvanced, UpsertIndex, UpsertFails, Abandon
          <5>4. CronTick => crossed' = crossed
            BY DEF CronTick
          <5>5. QED
            BY <1>2, <5>1, <5>2, <5>3, <5>4 DEF CronNext
        <4>2. QED
          BY <4>1 DEF FiringInv
      <3>2. ASSUME NEW u \in Templates, ScheduleRecurring(u) \/ RemoveRecurring(u) \/ IndexWritten(u)
            PROVE  Fresh(t)'
        BY <1>1, <3>1, <3>2, FreshSchedule, FreshIndexWritten
      <3>3. ASSUME NEW p \in Pollers, PollerStep(p) \/ UpsertFails(p) \/ Abandon(p)
            PROVE  Fresh(t)'
        <4>1. CASE TickOnce(p) \/ ListDone(p) \/ UpsertFails(p) \/ Abandon(p)
          BY <1>1, <3>1, <4>1, FreshQuiet
        <4>2. CASE FetchDue(p)
          BY <1>1, <3>1, <4>2, FreshFetchDue
        <4>3. CASE ListDue(p)
          BY <1>1, <3>1, <4>3, FreshListDue
        <4>4. CASE ReadRow(p)
          BY <1>1, <3>1, <4>4, FreshReadRow
        <4>5. CASE ParkIndex(p)
          BY <1>1, <3>1, <4>5, FreshParkIndex
        <4>6. ASSUME NEW u \in Templates, ClaimKey(p, u) PROVE Fresh(t)'
          BY <1>1, <3>1, <4>6, FreshClaimKey
        <4>7. ASSUME NEW u \in Templates, EnqueueFiring(p, u) PROVE Fresh(t)'
          BY <1>1, <3>1, <4>7, FreshEnqueueFiring
        <4>8. CASE UpsertAdvanced(p)
          BY <1>1, <3>1, <4>8, FreshUpsertRow, FreshUpsertIndex
        <4>9. CASE UpsertIndex(p)
          BY <1>1, <3>1, <4>9, FreshUpsertIndex
        <4>10. QED
          BY <3>3, <4>1, <4>2, <4>3, <4>4, <4>5, <4>6, <4>7, <4>8, <4>9 DEF PollerStep
      <3>4. CASE CronTick
        BY <1>1, <3>1, <3>4, FreshTick
      <3>5. QED
        BY <1>2, <3>2, <3>3, <3>4 DEF CronNext
    <2>3. QED
      BY <1>1, <2>1, <2>2 DEF FiringInv
  <1>3. CASE UNCHANGED cronVars
    <2>1. KeyInv'
      BY <1>1, <1>3 DEF cronVars, KeyInv, Claimed
    <2>2. ASSUME NEW t \in Templates \ crossed' PROVE Fresh(t)'
      <3>1. Fresh(t) /\ UNCHANGED <<row, index, op, fired, now, poll, key>> /\ now \in Nat /\ key[t] \in Nat
        BY <1>1, <1>3, ShapeParts DEF cronVars, FiringInv, TallyType, StoreType
      <3>2. SameStore(t) /\ \A q \in Pollers : Calm(q, t)
        BY <1>1, <3>1, CalmSame DEF SameStore
      <3>3. QED
        BY <1>1, <3>1, <3>2, FreshKept
    <2>3. QED
      BY <1>1, <2>1, <2>2 DEF FiringInv
  <1>4. QED
    BY <1>2, <1>3

\* No occurrence of a template is enqueued twice unless an edit overlapped its
\* firing (fetch_due_recurring_jobs, tick_once), however many pollers and
\* templates there are, whatever fails and however the calls interleave, as
\* long as a Redis claim key outlives two ticks of a poller.
THEOREM OccurrencesFireOnce ==
  ASSUME KeyOutlives
  PROVE  CronSpec => []NoTickFiredTwice
  <1>1. FiringInv => NoTickFiredTwice
    <2> SUFFICES ASSUME FiringInv, NEW t \in Templates \ crossed, NEW o \in DOMAIN fired[t]
                 PROVE  fired[t][o] <= 1
      BY DEF NoTickFiredTwice
    <2>1. fired[t] \in [0..(MaxTime + ParkFor) -> Nat]
      BY ShapeParts DEF FiringInv, TallyType
    <2>2. QED
      BY <2>1 DEF FiringInv, Fresh, TemplateOK
  <1>2. CronInit => FiringInv
    BY InitFiring
  <1>3. FiringInv /\ [CronNext]_cronVars => FiringInv'
    BY FiringNext
  <1>4. QED
    BY <1>1, <1>2, <1>3, PTL DEF CronSpec

\* A due template is in the hands of one poller at most
\* (fetch_due_recurring_jobs): with an atomic fetch unless an edit made it due
\* again while it was being fired, with a Redis claim key even then.
THEOREM OnePollerHolds ==
  ASSUME KeyOutlives
  PROVE  CronSpec => []OneHolder
  <1>1. FiringInv => OneHolder
    <2> SUFFICES ASSUME FiringInv, NEW p \in Pollers, NEW q \in Pollers, NEW t \in Templates,
                        t \in crossed => backend = "redis", Holds(p, t), Holds(q, t)
                 PROVE  p = q
      BY DEF OneHolder
    <2>1. Claimed(p, t) /\ Claimed(q, t)
      BY DEF Holds, Claimed
    <2>2. CASE t \in crossed
      BY <2>1, <2>2 DEF FiringInv, KeyInv
    <2>3. CASE t \notin crossed
      BY <2>1, <2>3 DEF FiringInv, Fresh, AloneWith
    <2>4. QED
      BY <2>2, <2>3
  <1>2. CronInit => FiringInv
    BY InitFiring
  <1>3. FiringInv /\ [CronNext]_cronVars => FiringInv'
    BY FiringNext
  <1>4. QED
    BY <1>1, <1>2, <1>3, PTL DEF CronSpec

(***************************************************************************)
(* No template stays parked.                                               *)
(***************************************************************************)

\* What is held, and then written back, is an instant that comes.
CopyOK(p, t) ==
    /\ t \in poll[p].held => poll[p].copy[t].next < ParkFor
    /\ poll[p].pc = "park" /\ poll[p].cur = t => poll[p].copy[t].next < ParkFor

\* Whoever parked a template has it to write back.
ParkOK(t) ==
    /\ op[t] < ParkFor
    /\ index[t] >= ParkFor => \E p \in Pollers : t \in poll[p].held

ParkInv ==
    /\ RecShape
    /\ \A t \in Templates : ParkOK(t) /\ \A p \in Pollers : CopyOK(p, t)

\* At the start nothing is parked.
LEMMA InitPark == CronInit => ParkInv
  <1> SUFFICES ASSUME CronInit PROVE ParkInv
    OBVIOUS
  <1>1. RecShape
    BY InitShape
  <1>2. \A p \in Pollers : poll[p].pc = "idle" /\ poll[p].held = {}
    BY DEF CronInit, Idle
  <1>3. \A t \in Templates : op[t] = NoOp /\ index[t] = NoIndex
    BY DEF CronInit
  <1>4. QED
    BY <1>1, <1>2, <1>3, RecurringAssumption, LoopsAssumption
       DEF ParkInv, ParkOK, CopyOK, NoOp, NoIndex

\* A step that leaves the holders their templates and the index its instants.
LEMMA ParkKept ==
  ASSUME NEW t \in Templates, ParkOK(t), op'[t] = op[t] \/ op'[t] < ParkFor,
         \/ ~(index'[t] >= ParkFor)
         \/ /\ index'[t] = index[t]
            /\ \A q \in Pollers : t \in poll[q].held => t \in poll'[q].held
         \/ \E q \in Pollers : t \in poll'[q].held
  PROVE  ParkOK(t)'
  BY DEF ParkOK

\* Poller q keeps its copy of t, or no longer has t.
LEMMA CopyKept ==
  ASSUME NEW q \in Pollers, NEW t \in Templates, CopyOK(q, t),
         \/ poll'[q] = poll[q]
         \/ /\ poll'[q].copy[t] = poll[q].copy[t]
            /\ t \in poll'[q].held => t \in poll[q].held \/ (poll[q].pc = "park" /\ poll[q].cur = t)
            /\ poll'[q].pc # "park" \/ poll'[q].cur # t
         \/ t \notin poll'[q].held /\ (poll'[q].pc # "park" \/ poll'[q].cur # t)
         \/ poll'[q].copy[t].next < ParkFor
  PROVE  CopyOK(q, t)'
  BY DEF CopyOK

\* What the operator schedules is an instant that comes.
LEMMA ParkOperator ==
  ASSUME ParkInv, NEW u \in Templates,
         ScheduleRecurring(u) \/ RemoveRecurring(u) \/ IndexWritten(u)
  PROVE  \A t \in Templates : ParkOK(t)' /\ \A p \in Pollers : CopyOK(p, t)'
  <1>1. /\ RecShape /\ StoreType /\ now \in Nat /\ now <= MaxTime /\ poll' = poll
        /\ ParkFor \in Nat /\ NextAfter(now) \in Nat /\ NextAfter(now) < ParkFor
    <2>1. RecShape /\ StoreType /\ now \in Nat /\ now <= MaxTime
      BY ShapeParts DEF ParkInv, TallyType
    <2>2. NextAfter(now) \in Nat /\ NextAfter(now) <= now + Period
      BY <2>1, NextAfterBounds
    <2>3. QED
      BY <2>1, <2>2, RecurringAssumption, LoopsAssumption
         DEF ScheduleRecurring, RemoveRecurring, IndexWritten
  <1>2. ASSUME NEW t \in Templates PROVE ParkOK(t)'
    <2>1. ParkOK(t) /\ ParkOK(u)
      BY DEF ParkInv
    <2>2. /\ op'[t] = op[t] \/ op'[t] < ParkFor
          /\ index'[t] = index[t] \/ ~(index'[t] >= ParkFor)
      <3>1. CASE ScheduleRecurring(u)
        BY <1>1, <3>1 DEF ScheduleRecurring, StoreType
      <3>2. CASE RemoveRecurring(u)
        BY <1>1, <3>2 DEF RemoveRecurring, StoreType, NoIndex
      <3>3. CASE IndexWritten(u)
        <4>1. op[u] \in Int /\ op[u] < ParkFor
          BY <1>1, <2>1 DEF StoreType, NoIndex, NoOp, ParkOK
        <4>2. QED
          BY <1>1, <3>3, <4>1 DEF IndexWritten, StoreType, NoOp
      <3>4. QED
        BY <3>1, <3>2, <3>3
    <2>3. QED
      BY <1>1, <2>1, <2>2, ParkKept
  <1>3. ASSUME NEW t \in Templates, NEW p \in Pollers PROVE CopyOK(p, t)'
    BY <1>1, CopyKept DEF ParkInv
  <1>4. QED
    BY <1>2, <1>3

\* A poller that parks a template holds it until it has written it back.
LEMMA ParkPoller ==
  ASSUME MaxFaults = 0, ParkInv, NEW p \in Pollers, PollerStep(p),
         NEW t \in Templates
  PROVE  ParkOK(t)' /\ \A q \in Pollers : CopyOK(q, t)'
  <1>1. /\ RecShape /\ StoreType /\ PollOK(p) /\ t # None /\ ParkOK(t) /\ ParkFor \in Nat
        /\ \A q \in Pollers : CopyOK(q, t)
        /\ poll[p].at \in Nat /\ poll[p].at < ParkFor /\ poll[p].at + Period < ParkFor
        /\ poll[p].copy[t] \in Row /\ poll[p].copy[t].next \in Nat /\ index[t] \in Nat \cup {NoIndex}
    BY ShapeParts, PairFacts, RecurringAssumption, LoopsAssumption DEF ParkInv
  <1>2. ASSUME Only(p), \A q \in Pollers \ {p} : poll'[q] = poll[q], CopyOK(p, t)'
        PROVE  \A q \in Pollers : CopyOK(q, t)'
    BY <1>1, <1>2, CopyKept
  <1>3. CASE TickOnce(p)
    <2>1. /\ CopyOK(p, t)' /\ poll[p].held = {}
      BY <1>1, <1>3, TickOncePoll, CopyKept DEF PollOK
    <2>2. ParkOK(t)'
      BY <1>1, <1>3, <2>1, TickOncePoll, ParkKept DEF TickOnce
    <2>3. QED
      BY <1>1, <1>2, <1>3, <2>1, <2>2, TickOncePoll
  <1>4. CASE FetchDue(p)
    <2>1. PICK B \in SUBSET Templates :
            /\ \A v \in B : row[v].enabled /\ index[v] \in 0..poll[p].at
            /\ Only(p) /\ \A q \in Pollers \ {p} : poll'[q] = poll[q]
            /\ poll[p].pc = "fetch" /\ backend = "atomic"
            /\ poll'[p].pc = (IF B = {} THEN "idle" ELSE "fire")
            /\ poll'[p].at = poll[p].at /\ poll'[p].age = poll[p].age
            /\ poll'[p].todo = poll[p].todo /\ poll'[p].cur = poll[p].cur
            /\ poll'[p].held = B
            /\ \A v \in B : poll'[p].copy[v] = row[v]
            /\ row' \in [Templates -> Row] /\ index' \in [Templates -> Nat \cup {NoIndex}]
            /\ \A v \in B : /\ index'[v] = poll[p].at + ParkFor
                            /\ row'[v] = [row[v] EXCEPT !.next = poll[p].at + ParkFor]
            /\ \A v \in Templates \ B : index'[v] = index[v] /\ row'[v] = row[v]
      BY <1>1, <1>4, FetchDuePoll
    <2>2. poll[p].held = {} /\ op' = op
      BY <1>1, <1>4, <2>1 DEF PollOK, FetchDue
    <2>3. CASE t \in B
      <3>1. row[t].enabled /\ RowOK(t)
        BY <1>1, <2>1, <2>3, ShapeParts
      <3>2. index[t] = row[t].next
        BY <2>1, <3>1 DEF RowOK
      <3>3. poll'[p].copy[t] = row[t] /\ index[t] \in 0..poll[p].at /\ t \in poll'[p].held
        BY <2>1, <2>3
      <3>4. poll'[p].copy[t].next < ParkFor
        BY <1>1, <3>2, <3>3
      <3>5. CopyOK(p, t)'
        BY <1>1, <3>4, CopyKept
      <3>6. ParkOK(t)'
        BY <1>1, <2>2, <3>3, ParkKept
      <3>7. QED
        BY <1>2, <2>1, <3>5, <3>6
    <2>4. CASE t \notin B
      <3>1. CopyOK(p, t)'
        BY <1>1, <2>1, <2>4, CopyKept
      <3>2. ParkOK(t)'
        BY <1>1, <2>1, <2>2, <2>4, ParkKept
      <3>3. QED
        BY <1>2, <2>1, <3>1, <3>2
    <2>5. QED
      BY <2>3, <2>4
  <1>5. CASE ListDue(p)
    <2>1. /\ Only(p) /\ \A q \in Pollers \ {p} : poll'[q] = poll[q]
          /\ poll'[p].held = poll[p].held /\ poll'[p].pc # "park" /\ poll[p].held = {}
      BY <1>1, <1>5, ListDuePoll DEF PollOK
    <2>2. UNCHANGED <<op, index>>
      BY <1>5 DEF ListDue
    <2>3. CopyOK(p, t)' /\ ParkOK(t)'
      BY <1>1, <2>1, <2>2, CopyKept, ParkKept
    <2>4. QED
      BY <1>2, <2>1, <2>3
  <1>6. ASSUME NEW u \in Templates, ClaimKey(p, u)
        PROVE  ParkOK(t)' /\ \A q \in Pollers : CopyOK(q, t)'
    <2>1. /\ Only(p) /\ \A q \in Pollers \ {p} : poll'[q] = poll[q]
          /\ poll'[p].held = poll[p].held /\ poll'[p].pc # "park" /\ poll'[p].copy = poll[p].copy
      BY <1>1, <1>6, ClaimKeyPoll
    <2>2. UNCHANGED <<op, index>>
      BY <1>6 DEF ClaimKey
    <2>3. CopyOK(p, t)' /\ ParkOK(t)'
      BY <1>1, <2>1, <2>2, CopyKept, ParkKept
    <2>4. QED
      BY <1>2, <2>1, <2>3
  <1>7. CASE ReadRow(p)
    <2>0. poll[p].cur \in Templates \ poll[p].held /\ UNCHANGED <<op, index>>
      BY <1>1, <1>7 DEF PollOK, ReadRow
    <2>1. /\ Only(p) /\ \A q \in Pollers \ {p} : poll'[q] = poll[q]
          /\ poll[p].pc = "read" /\ poll'[p].held = poll[p].held
          /\ \A v \in Templates \ {poll[p].cur} : poll'[p].copy[v] = poll[p].copy[v]
          /\ \/ /\ row[poll[p].cur].enabled /\ row[poll[p].cur].next <= poll[p].at
                /\ poll'[p].pc = "park" /\ poll'[p].cur = poll[p].cur
                /\ poll'[p].copy[poll[p].cur] = row[poll[p].cur]
             \/ poll'[p].pc = "claim" /\ poll'[p].cur = None
      BY <1>1, <1>7, <2>0, ReadRowPoll
    <2>2. ParkOK(t)'
      BY <1>1, <2>0, <2>1, ParkKept
    <2>3. CopyOK(p, t)'
      <3>1. CASE t # poll[p].cur
        BY <1>1, <2>1, <3>1, CopyKept
      <3>2. CASE t = poll[p].cur /\ poll'[p].pc = "claim"
        BY <1>1, <2>0, <2>1, <3>2, CopyKept
      <3>3. CASE t = poll[p].cur /\ row[t].next <= poll[p].at /\ poll'[p].copy[t] = row[t]
        <4>1. row[t].next \in Nat
          BY <1>1, PairFacts
        <4>2. poll'[p].copy[t].next < ParkFor
          BY <1>1, <3>3, <4>1
        <4>3. QED
          BY <1>1, <4>2, CopyKept
      <3>4. QED
        BY <2>1, <3>1, <3>2, <3>3
    <2>4. QED
      BY <1>2, <2>1, <2>2, <2>3
  <1>8. CASE ParkIndex(p)
    <2>0. poll[p].cur \in Templates /\ UNCHANGED op
      BY <1>1, <1>8 DEF PollOK, ParkIndex
    <2>1. /\ Only(p) /\ \A q \in Pollers \ {p} : poll'[q] = poll[q]
          /\ poll[p].pc = "park" /\ poll'[p].pc = "claim"
          /\ poll'[p].held = poll[p].held \cup {poll[p].cur} /\ poll'[p].copy = poll[p].copy
          /\ index' = [index EXCEPT ![poll[p].cur] = poll[p].at + ParkFor]
      BY <1>1, <1>8, <2>0, ParkIndexPoll
    <2>2. CopyOK(p, t)'
      BY <1>1, <2>1, CopyKept
    <2>3. ParkOK(t)'
      <3>1. CASE t = poll[p].cur
        BY <1>1, <2>0, <2>1, <3>1, ParkKept
      <3>2. CASE t # poll[p].cur
        <4>1. index'[t] = index[t]
          BY <1>1, <2>1, <3>2 DEF StoreType
        <4>2. QED
          BY <1>1, <2>0, <2>1, <4>1, ParkKept
      <3>3. QED
        BY <3>1, <3>2
    <2>4. QED
      BY <1>2, <2>1, <2>2, <2>3
  <1>9. CASE ListDone(p)
    <2>1. /\ Only(p) /\ \A q \in Pollers \ {p} : poll'[q] = poll[q]
          /\ poll'[p].held = poll[p].held /\ poll'[p].pc # "park" /\ poll'[p].copy = poll[p].copy
      BY <1>1, <1>9, ListDonePoll
    <2>2. UNCHANGED <<op, index>>
      BY <1>9 DEF ListDone
    <2>3. CopyOK(p, t)' /\ ParkOK(t)'
      BY <1>1, <2>1, <2>2, CopyKept, ParkKept
    <2>4. QED
      BY <1>2, <2>1, <2>3
  <1>10. ASSUME NEW u \in Templates, EnqueueFiring(p, u)
         PROVE  ParkOK(t)' /\ \A q \in Pollers : CopyOK(q, t)'
    <2>1. /\ Only(p) /\ \A q \in Pollers \ {p} : poll'[q] = poll[q]
          /\ poll'[p].held = poll[p].held /\ poll'[p].pc # "park" /\ u \in poll[p].held
          /\ poll'[p].copy[u] = Advance(poll[p].copy[u], poll[p].at)
          /\ \A v \in Templates \ {u} : poll'[p].copy[v] = poll[p].copy[v]
      BY <1>1, <1>10, EnqueueFiringPoll
    <2>2. UNCHANGED <<op, index>>
      BY <1>10 DEF EnqueueFiring
    <2>3. CopyOK(p, t)'
      <3>1. CASE t # u
        BY <1>1, <2>1, <3>1, CopyKept
      <3>2. CASE t = u
        <4>1. poll[p].copy[t].next < ParkFor
          BY <1>1, <2>1, <3>2 DEF CopyOK
        <4>2. /\ Advance(poll[p].copy[t], poll[p].at) \in Row
              /\ \/ Advance(poll[p].copy[t], poll[p].at).next <= poll[p].copy[t].next
                 \/ Advance(poll[p].copy[t], poll[p].at).next <= poll[p].at + Period
          BY <1>1, AdvanceBounds
        <4>3. Advance(poll[p].copy[t], poll[p].at).next \in Nat
          BY <4>2 DEF Row
        <4>4. Advance(poll[p].copy[t], poll[p].at).next < ParkFor
          BY <1>1, <4>1, <4>2, <4>3, RecurringAssumption, LoopsAssumption
        <4>5. QED
          BY <1>1, <2>1, <3>2, <4>4, CopyKept
      <3>3. QED
        BY <3>1, <3>2
    <2>4. ParkOK(t)'
      BY <1>1, <2>1, <2>2, ParkKept
    <2>5. QED
      BY <1>2, <2>1, <2>3, <2>4
  <1>11. CASE UpsertAdvanced(p) /\ backend = "redis"
    <2>1. /\ Only(p) /\ \A q \in Pollers \ {p} : poll'[q] = poll[q]
          /\ poll'[p].held = poll[p].held /\ poll'[p].pc # "park" /\ poll'[p].copy = poll[p].copy
      BY <1>1, <1>11, UpsertRowPoll DEF UpsertAdvanced
    <2>2. UNCHANGED <<op, index>>
      BY <1>11 DEF UpsertAdvanced
    <2>3. CopyOK(p, t)' /\ ParkOK(t)'
      BY <1>1, <2>1, <2>2, CopyKept, ParkKept
    <2>4. QED
      BY <1>2, <2>1, <2>3
  <1>12. CASE UpsertIndex(p) \/ (UpsertAdvanced(p) /\ backend # "redis")
    <2>1. /\ NextHeld(p) /\ op' = op /\ poll[p].cur \in poll[p].held
          /\ index' = [index EXCEPT ![poll[p].cur] = poll[p].copy[poll[p].cur].next]
      BY <1>1, <1>12 DEF UpsertIndex, UpsertAdvanced, PollOK
    <2>2. /\ Only(p) /\ \A q \in Pollers \ {p} : poll'[q] = poll[q]
          /\ poll'[p].held = poll[p].held \ {poll[p].cur} /\ poll'[p].pc # "park"
          /\ poll'[p].copy = poll[p].copy
      BY <1>1, <2>1, NextHeldPoll
    <2>3. CopyOK(p, t)'
      BY <1>1, <2>2, CopyKept
    <2>4. ParkOK(t)'
      <3>1. CASE t = poll[p].cur
        <4>1. poll[p].copy[t].next < ParkFor
          BY <1>1, <2>1, <3>1 DEF CopyOK
        <4>2. index'[t] = poll[p].copy[t].next
          BY <1>1, <2>1, <3>1 DEF StoreType
        <4>3. QED
          BY <1>1, <2>1, <4>1, <4>2, ParkKept
      <3>2. CASE t # poll[p].cur
        <4>1. index'[t] = index[t]
          BY <1>1, <2>1, <3>2 DEF StoreType
        <4>2. \A q \in Pollers : t \in poll[q].held => t \in poll'[q].held
          BY <2>2, <3>2
        <4>3. QED
          BY <1>1, <2>1, <4>1, <4>2, ParkKept
      <3>3. QED
        BY <3>1, <3>2
    <2>5. QED
      BY <1>2, <2>2, <2>3, <2>4
  <1>13. QED
    BY <1>3, <1>4, <1>5, <1>6, <1>7, <1>8, <1>9, <1>10, <1>11, <1>12 DEF PollerStep

\* Without faults every step keeps the parking invariant.
LEMMA ParkNext ==
  ASSUME MaxFaults = 0, ParkInv, [CronNext]_cronVars
  PROVE  ParkInv'
  <1>1. RecShape /\ RecShape' /\ faults \in Nat
    BY ShapeNext, ShapeParts DEF ParkInv, TallyType
  <1>2. ASSUME NEW u \in Templates, ScheduleRecurring(u) \/ RemoveRecurring(u) \/ IndexWritten(u)
        PROVE  ParkInv'
    BY <1>1, <1>2, ParkOperator DEF ParkInv
  <1>3. ASSUME NEW p \in Pollers, PollerStep(p) PROVE ParkInv'
    BY <1>1, <1>3, ParkPoller DEF ParkInv
  <1>4. ASSUME NEW p \in Pollers, UpsertFails(p) \/ Abandon(p) PROVE FALSE
    BY <1>1, <1>4 DEF UpsertFails, Abandon
  <1>5. CASE CronTick
    <2>1. ASSUME NEW t \in Templates PROVE ParkOK(t)' /\ \A p \in Pollers : CopyOK(p, t)'
      <3>1. ASSUME NEW p \in Pollers
            PROVE  /\ poll'[p].held = poll[p].held /\ poll'[p].copy = poll[p].copy
                   /\ poll'[p].pc = poll[p].pc /\ poll'[p].cur = poll[p].cur
        BY <1>1, <1>5, TickPoll
      <3>2. UNCHANGED <<op, index>>
        BY <1>5 DEF CronTick
      <3>3. ParkOK(t)'
        BY <3>1, <3>2, ParkKept DEF ParkInv
      <3>4. ASSUME NEW p \in Pollers PROVE CopyOK(p, t)'
        BY <3>1 DEF ParkInv, CopyOK
      <3>5. QED
        BY <3>3, <3>4
    <2>2. QED
      BY <1>1, <2>1 DEF ParkInv
  <1>6. CASE UNCHANGED cronVars
    BY <1>1, <1>6 DEF cronVars, ParkInv, ParkOK, CopyOK
  <1>7. QED
    BY <1>2, <1>3, <1>4, <1>5, <1>6 DEF CronNext

\* A template that was put off is in the hands of a poller that will write it
\* back (fetch_due_recurring_jobs, tick_once), whichever backend, as long as no
\* call fails and no poller dies: those the code does not make up for.
THEOREM ParkedTemplatesHeld ==
  ASSUME MaxFaults = 0
  PROVE  CronSpec => []ParkedIsHeld
  <1>1. ParkInv => ParkedIsHeld
    BY DEF ParkInv, ParkOK, ParkedIsHeld, Holds
  <1>2. CronInit => ParkInv
    BY InitPark
  <1>3. ParkInv /\ [CronNext]_cronVars => ParkInv'
    BY ParkNext
  <1>4. QED
    BY <1>1, <1>2, <1>3, PTL DEF CronSpec
===============================================================================
