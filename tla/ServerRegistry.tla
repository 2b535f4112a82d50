---------------------------- MODULE ServerRegistry ----------------------------
(***************************************************************************)
(* The server registry (the ServerRegistry impls of the storages), the     *)
(* HeartbeatWorker of every BackgroundJobServer (processing/heartbeat.rs)  *)
(* and the part of start, stop and fetch_and_lock_job that concerns them.  *)
(* A member of Servers is one run of a server: start gives every run a new *)
(* uuid.  heartbeat_server is one step in MemoryStorage and Postgres, and  *)
(* a GET and a SET in Redis.                                               *)
(*                                                                         *)
(* Instants are ages in ticks, as in JobStates; they stop growing where    *)
(* nothing compares them any more.                                         *)
(***************************************************************************)
EXTENDS ServerLoops, FiniteSets

CONSTANTS Servers, Jobs,
          StorageName,       \* the server_name fetch_and_lock_job stamps: "memory-storage", ...
          Interval,          \* ServerConfig::heartbeat_interval
          DeadTimeout,       \* ServerConfig::dead_server_timeout
          MaxCrashes         \* bound: servers that crash

NoServer == "no server"

ASSUME RegistryAssumption ==
    /\ StorageName \notin Servers /\ NoServer \notin Servers
    /\ Interval \in Nat /\ DeadTimeout \in Nat /\ MaxCrashes \in Nat

VARIABLES
    life,     \* [Servers -> new, up, stopping (token cancelled), down, crashed]
    beat,     \* [Servers -> age of last_heartbeat, or NoRow]
    listed,   \* the ids in the index list_dead_servers goes through
    hb,       \* [Servers -> the heartbeat worker]
    job,      \* [Jobs -> state, the server_name stamped, the server that runs it]
    crashes

vars == <<backend, life, beat, listed, hb, job, crashes, faults>>

NoRow == -1
Registered(s) == beat[s] # NoRow
MaxAge == DeadTimeout + 2 * MaxLag + 1

Waiting(since) == [pc |-> "wait", age |-> 0, since |-> since, dead |-> {}, peer |-> NoServer]
Free == [state |-> "Enqueued", stamp |-> NoServer, by |-> NoServer]

TypeOK ==
    /\ backend \in Backends
    /\ life \in [Servers -> {"new", "up", "stopping", "down", "crashed"}]
    /\ beat \in [Servers -> Nat \cup {NoRow}]
    /\ listed \subseteq Servers
    /\ hb \in [Servers -> [pc: {"wait", "bump", "set", "list", "reclaim", "deregister"},
                           age: Nat, since: Nat, dead: SUBSET Servers,
                           peer: Servers \cup {NoServer}]]
    /\ job \in [Jobs -> [state: {"Enqueued", "Processing", "Done"},
                         stamp: Servers \cup {StorageName, NoServer},
                         by: Servers \cup {NoServer}]]
    /\ crashes \in Nat /\ faults \in Nat
    /\ \A s \in Servers : s \notin hb[s].dead /\ hb[s].peer # s

Init ==
    /\ backend \in Backends
    /\ life = [s \in Servers |-> "new"]
    /\ beat = [s \in Servers |-> NoRow]
    /\ listed = {}
    /\ hb = [s \in Servers |-> Waiting(0)]
    /\ job = [j \in Jobs |-> Free]
    /\ crashes = 0 /\ faults = 0

------------------------------------------------------------------------------
(* The server.                                                             *)

\* start: register_server, and the heartbeat worker, which ticks at once.
Start(s) ==
    /\ life[s] = "new"
    /\ life' = [life EXCEPT ![s] = "up"]
    /\ beat' = [beat EXCEPT ![s] = 0]
    /\ listed' = listed \cup {s}
    /\ hb' = [hb EXCEPT ![s] = Waiting(Interval)]
    /\ UNCHANGED <<backend, job, crashes, faults>>

\* stop cancels the token and deregisters the server before it waits for the
\* tasks ...
Stop(s) ==
    /\ life[s] = "up"
    /\ life' = [life EXCEPT ![s] = "stopping"]
    /\ beat' = [beat EXCEPT ![s] = NoRow]
    /\ listed' = listed \ {s}
    /\ UNCHANGED <<backend, hb, job, crashes, faults>>

\* ... which finish what they are doing, or are aborted at shutdown_timeout.
Stopped(s) ==
    /\ life[s] = "stopping"
    /\ life' = [life EXCEPT ![s] = "down"]
    /\ hb' = [hb EXCEPT ![s] = Waiting(0)]
    /\ UNCHANGED <<backend, beat, listed, job, crashes, faults>>

Crash(s) ==
    /\ life[s] \in {"up", "stopping"}
    /\ crashes < MaxCrashes /\ crashes' = crashes + 1
    /\ life' = [life EXCEPT ![s] = "crashed"]
    /\ hb' = [hb EXCEPT ![s] = Waiting(0)]
    /\ UNCHANGED <<backend, beat, listed, job, faults>>

\* fetch_and_lock_job knows the worker, not the server: it stamps the name of
\* the storage.
Claim(s, j) ==
    /\ life[s] = "up" /\ job[j].state = "Enqueued"
    /\ job' = [job EXCEPT ![j] = [state |-> "Processing", stamp |-> StorageName, by |-> s]]
    /\ UNCHANGED <<backend, life, beat, listed, hb, crashes, faults>>

\* The attempt ends; only a server that still runs writes its result.
Finish(j) ==
    /\ job[j].state = "Processing" /\ life[job[j].by] \in {"up", "stopping"}
    /\ job' = [job EXCEPT ![j] = [Free EXCEPT !.state = "Done"]]
    /\ UNCHANGED <<backend, life, beat, listed, hb, crashes, faults>>

------------------------------------------------------------------------------
(* HeartbeatWorker::bump_and_scan.                                         *)

Alive(s) == life[s] \in {"up", "stopping"}
To(s, pc) == hb' = [hb EXCEPT ![s].pc = pc]

\* The interval ticks, early after a late one; the clock is read.
HeartbeatTick(s) ==
    /\ life[s] = "up" /\ hb[s].pc = "wait"
    /\ hb[s].since + MaxLag >= Interval
    /\ hb' = [hb EXCEPT ![s] = [Waiting(0) EXCEPT !.pc = "bump"]]
    /\ UNCHANGED <<backend, life, beat, listed, job, crashes, faults>>

\* heartbeat_server: only an existing row is bumped, nobody registers again.
HeartbeatServer(s) ==
    /\ Alive(s) /\ hb[s].pc = "bump"
    /\ IF backend = "redis" /\ Registered(s)
       THEN To(s, "set") /\ UNCHANGED beat              \* GET
       ELSE /\ To(s, "list")
            /\ beat' = IF Registered(s) THEN [beat EXCEPT ![s] = hb[s].age] ELSE beat
    /\ UNCHANGED <<backend, life, listed, job, crashes, faults>>

\* Redis: SET of the row read before.
HeartbeatSet(s) ==
    /\ Alive(s) /\ hb[s].pc = "set"
    /\ beat' = [beat EXCEPT ![s] = hb[s].age]
    /\ To(s, "list")
    /\ UNCHANGED <<backend, life, listed, job, crashes, faults>>

\* Mutant: the timeout is counted from the wrong end.
DeadEarly(s, p) == beat[p] + hb[s].age >= DeadTimeout

\* last_heartbeat < now - dead_server_timeout, at the instant s read the clock.
Dead(s, p) == beat[p] > hb[s].age + DeadTimeout

\* list_dead_servers without the server itself.  Redis reads the rows one by
\* one and drops index entries without a row; a peer is judged by its own row.
ListDeadServers(s) ==
    LET dead == {p \in listed \ {s} : Registered(p) /\ Dead(s, p)} IN
    /\ Alive(s) /\ hb[s].pc = "list"
    /\ listed' = {p \in listed : Registered(p)}
    /\ hb' = [hb EXCEPT ![s].pc = IF dead = {} THEN "wait" ELSE "reclaim", ![s].dead = dead]
    /\ UNCHANGED <<backend, life, beat, job, crashes, faults>>

\* reclaim_jobs_from_server: the Processing jobs that carry the peer's id.
ReclaimJobsFromServer(s, p) ==
    /\ Alive(s) /\ hb[s].pc = "reclaim" /\ p \in hb[s].dead
    /\ job' = [j \in Jobs |-> IF job[j].state = "Processing" /\ job[j].stamp = p
                              THEN Free ELSE job[j]]
    /\ hb' = [hb EXCEPT ![s].pc = "deregister", ![s].peer = p, ![s].dead = @ \ {p}]
    /\ UNCHANGED <<backend, life, beat, listed, crashes, faults>>

NextPeer(s) == [hb[s] EXCEPT !.pc = IF hb[s].dead = {} THEN "wait" ELSE "reclaim",
                             !.peer = NoServer]

\* Mutant: the dead peer's row is left in place.
DeregisterNothing(s) ==
    /\ Alive(s) /\ hb[s].pc = "deregister"
    /\ hb' = [hb EXCEPT ![s] = NextPeer(s)]
    /\ UNCHANGED <<backend, life, beat, listed, job, crashes, faults>>

DeregisterPeer(s) ==
    /\ Alive(s) /\ hb[s].pc = "deregister"
    /\ beat' = [beat EXCEPT ![hb[s].peer] = NoRow]
    /\ listed' = listed \ {hb[s].peer}
    /\ hb' = [hb EXCEPT ![s] = NextPeer(s)]
    /\ UNCHANGED <<backend, life, job, crashes, faults>>

\* A storage call fails: the tick ends when it is the bump or the listing,
\* the peer is passed over otherwise.
CallFails(s) ==
    /\ Alive(s) /\ hb[s].pc # "wait"
    /\ faults < MaxFaults /\ faults' = faults + 1
    /\ \/ hb[s].pc \in {"bump", "set", "list"} /\ To(s, "wait")
       \/ /\ hb[s].pc = "reclaim"
          /\ \E p \in hb[s].dead :
                hb' = [hb EXCEPT ![s].dead = @ \ {p},
                                 ![s].pc = IF hb[s].dead = {p} THEN "wait" ELSE "reclaim"]
       \/ hb[s].pc = "deregister" /\ hb' = [hb EXCEPT ![s] = NextPeer(s)]
    /\ UNCHANGED <<backend, life, beat, listed, job, crashes>>

Older(t) == IF t < MaxAge THEN t + 1 ELSE t

\* A worker is at most MaxLag late for its tick and takes at most MaxLag for it.
Tick ==
    /\ \A s \in Servers : life[s] = "up" =>
          /\ hb[s].pc = "wait" => hb[s].since < Interval + MaxLag
          /\ hb[s].pc # "wait" => hb[s].age < MaxLag
    /\ beat' = [s \in Servers |-> IF Registered(s) THEN Older(beat[s]) ELSE NoRow]
    /\ hb' = [s \in Servers |->
                IF Alive(s) THEN [hb[s] EXCEPT !.since = Older(@),
                                               !.age = IF hb[s].pc = "wait" THEN 0 ELSE Older(@)]
                ELSE hb[s]]
    /\ UNCHANGED <<backend, life, listed, job, crashes, faults>>

HeartbeatStep(s) ==
    \/ HeartbeatTick(s) \/ HeartbeatServer(s) \/ HeartbeatSet(s) \/ ListDeadServers(s)
    \/ \E p \in Servers : ReclaimJobsFromServer(s, p)
    \/ DeregisterPeer(s)

Next ==
    \/ \E s \in Servers : \/ Start(s) \/ Stop(s) \/ Stopped(s) \/ Crash(s)
                          \/ HeartbeatStep(s) \/ CallFails(s)
                          \/ \E j \in Jobs : Claim(s, j)
    \/ \E j \in Jobs : Finish(j)
    \/ Tick

Spec == Init /\ [][Next]_vars

\* Tokio polls the heartbeat task of a running server, and time passes.
Fairness ==
    /\ WF_vars(Tick)
    /\ \A s \in Servers : WF_vars(HeartbeatStep(s)) /\ WF_vars(Start(s)) /\ WF_vars(Stopped(s))

FairSpec == Spec /\ Fairness

------------------------------------------------------------------------------
(* Properties.                                                             *)

\* The condition on the configuration: a heartbeat that comes in time, but for
\* the bumps that fail, is never as old as dead_server_timeout.
TimeoutExceedsInterval == DeadTimeout >= (1 + MaxFaults) * (Interval + MaxLag) + MaxLag

\* A running server whose heartbeats come in time stays registered: no peer
\* ever takes it for dead, however late the peer's own scan is and although a
\* bump may fail (heartbeat_server, list_dead_servers, deregister_server).  It
\* needs TimeoutExceedsInterval.
PromptServerStaysRegistered ==
    \A s \in Servers : life[s] = "up" => Registered(s)

\* No server runs or will be started.
NobodyLeft == \A s \in Servers : life[s] \notin {"new", "up"}

\* A server that keeps running clears the registry of servers that crashed,
\* although a call for a peer may fail (bump_and_scan): whoever crashed while
\* list_dead_servers can find it is deregistered.
DeadPeersCollected ==
    \A s \in Servers :
        (life[s] = "crashed" /\ s \in listed) ~>
            ((s \notin listed /\ ~Registered(s)) \/ NobodyLeft)

------------------------------------------------------------------------------
(* What the documentation says and the code does not do.                   *)

\* heartbeat.rs: the in-flight jobs of a dead peer are actively reclaimed, so
\* "a crashed server's work [can] be picked up by healthy peers".
DeadPeerJobsReclaimed ==
    \A j \in Jobs :
        (job[j].state = "Processing" /\ life[job[j].by] = "crashed") ~>
            (job[j].state # "Processing" \/ NobodyLeft)

==============================================================================
