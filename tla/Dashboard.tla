------------------------------ MODULE Dashboard -------------------------------
(***************************************************************************)
(* The running dashboard: DashboardServer::run_until_cancelled             *)
(* (dashboard/server.rs), the connections and the periodic statistics of   *)
(* WebSocketManager (dashboard/websocket.rs), requests in flight           *)
(* (dashboard/routes.rs) and the page's own script (DASHBOARD_HTML).       *)
(*                                                                         *)
(* The jobs are a version number, raised by every change; statistics are   *)
(* the version their job counts were read at.  The two lists read after    *)
(* the counts never show: updateJobsTable calls a string method on         *)
(* job.state, which is an object, and throws before either table is        *)
(* touched.  What the server sends arrives when the page's socket is open. *)
(***************************************************************************)
EXTENDS DashboardGuards, FiniteSets, SequencesExt

CONSTANTS Calls,              \* calls of start or run_until_cancelled on one DashboardServer
          Tokens,             \* the server's own token, and those of run_until_cancelled's callers
          MaxSockets,         \* bound: sockets the page has at a time
          RunConfigs,         \* the configurations looked at
          RunRequests,        \* the requests looked at
          BroadcastCapacity,  \* the 1000 messages of the broadcast channel
          MaxChanges,         \* bound: changes of the jobs
          MaxFaults           \* bound: failures, and times the storage hangs

ASSUME DashboardAssumption ==
    /\ RunConfigs \subseteq Configs /\ RunRequests \subseteq Requests
    /\ MaxSockets \in Nat \ {0} /\ BroadcastCapacity \in Nat \ {0}
    /\ MaxChanges \in Nat /\ MaxFaults \in Nat

VARIABLES
    config,
    version,      \* of the jobs in the storage
    wedged,       \* storage calls do not return
    call,         \* [Calls -> where run_until_cancelled is, its token, whether bind failed]
    cancelled,    \* the tokens that have fired
    periodic,     \* [Calls -> the task of start_periodic_updates]
    request,      \* the request whose handler runs, and what is known of its sender
    conn,         \* [Sockets -> handle_socket: where it is, its receiver's buffer]
    broadcasted,  \* the statistics broadcast last
    loaded, sock, reconnectInterval, connected, grid,   \* the page
    faults

pageVars == <<loaded, sock, reconnectInterval, connected, grid>>
serverVars == <<config, call, cancelled, periodic, request, broadcasted>>
vars == <<version, wedged, serverVars, conn, pageVars, faults>>

Sockets == 1..MaxSockets

NoToken == "no token"
Nothing == -1
NoRequest == [route |-> "none", anonymous |-> FALSE, foreign |-> FALSE]
NoConn == [pc |-> "none", got |-> Nothing, buffer |-> <<>>, lagged |-> FALSE, sent |-> Nothing]

Versions == 0..MaxChanges

TypeOK ==
    /\ config \in RunConfigs /\ version \in Versions /\ wedged \in BOOLEAN
    /\ call \in [Calls -> [pc: {"idle", "bind", "serve", "join", "returned"},
                           token: Tokens \cup {NoToken}, unbound: BOOLEAN]]
    /\ cancelled \subseteq Tokens
    /\ periodic \in [Calls -> [pc: {"none", "wait", "counts", "lists"}, got: Versions \cup {Nothing}]]
    /\ request \in [route: Routes \cup {"none"}, anonymous: BOOLEAN, foreign: BOOLEAN]
    /\ conn \in [Sockets -> [pc: {"none", "counts", "lists", "loop", "gone"},
                             got: Versions \cup {Nothing},
                             buffer: Seq(Versions), lagged: BOOLEAN,
                             sent: Versions \cup {Nothing}]]
    /\ broadcasted \in Versions \cup {Nothing}
    /\ loaded \in BOOLEAN /\ connected \in BOOLEAN
    /\ sock \in [Sockets -> {"free", "connecting", "open"}]
    /\ reconnectInterval \in {"null", "live", "cleared"}
    /\ grid \in Versions \cup {Nothing}
    /\ faults \in 0..MaxFaults

Init ==
    /\ config \in RunConfigs /\ version = 0 /\ wedged = FALSE
    /\ call = [r \in Calls |-> [pc |-> "idle", token |-> NoToken, unbound |-> FALSE]]
    /\ cancelled = {}
    /\ periodic = [r \in Calls |-> [pc |-> "none", got |-> Nothing]]
    /\ request = NoRequest
    /\ conn = [s \in Sockets |-> NoConn]
    /\ broadcasted = Nothing
    /\ loaded = FALSE /\ sock = [s \in Sockets |-> "free"]
    /\ reconnectInterval = "null" /\ connected = FALSE /\ grid = Nothing
    /\ faults = 0

Fault == faults < MaxFaults /\ faults' = faults + 1

------------------------------------------------------------------------------
(* The storage, seen from the dashboard.                                   *)

\* Workers, clients and sweepers change the jobs.
JobsChange ==
    /\ version < MaxChanges
    /\ version' = version + 1
    /\ UNCHANGED <<wedged, serverVars, conn, pageVars, faults>>

\* The backend stops answering, and recovers.
Wedge ==
    /\ ~wedged /\ Fault
    /\ wedged' = TRUE
    /\ UNCHANGED <<version, serverVars, conn, pageVars>>

Recover ==
    /\ wedged
    /\ wedged' = FALSE
    /\ UNCHANGED <<version, serverVars, conn, pageVars, faults>>

------------------------------------------------------------------------------
(* run_until_cancelled.                                                    *)

Cancelled(r) == call[r].token \in cancelled
Listening == \E r \in Calls : call[r].pc = "serve"
Accepting == \E r \in Calls : call[r].pc = "serve" /\ ~Cancelled(r)

\* start (with the server's own token) or run_until_cancelled (with another),
\* up to the bind: it may refuse, and else the periodic task is running.
Start(r, token) ==
    /\ call[r].pc = "idle"
    /\ IF MayStart(config) /\ AddressParses(config)
       THEN /\ call' = [call EXCEPT ![r].pc = "bind", ![r].token = token]
            /\ periodic' = [periodic EXCEPT ![r].pc = "wait"]
       ELSE /\ call' = [call EXCEPT ![r].pc = "returned", ![r].token = token]
            /\ UNCHANGED periodic
    /\ UNCHANGED <<config, version, wedged, cancelled, request, broadcasted, conn, pageVars, faults>>

Bind(r) ==
    /\ call[r].pc = "bind" /\ ~Listening
    /\ call' = [call EXCEPT ![r].pc = "serve"]
    /\ UNCHANGED <<config, version, wedged, cancelled, periodic, request, broadcasted, conn,
                   pageVars, faults>>

\* The port is taken: the call returns at once.
BindFails(r) ==
    /\ call[r].pc = "bind"
    /\ IF Listening THEN UNCHANGED faults ELSE Fault
    /\ call' = [call EXCEPT ![r].pc = "returned", ![r].unbound = TRUE]
    /\ UNCHANGED <<config, version, wedged, cancelled, periodic, request, broadcasted, conn,
                   pageVars>>

\* shutdown(), or the caller's own token.
Cancel(token) ==
    /\ \E r \in Calls : call[r].pc # "idle" /\ call[r].token = token
    /\ token \notin cancelled
    /\ cancelled' = cancelled \cup {token}
    /\ UNCHANGED <<config, version, wedged, call, periodic, request, broadcasted, conn, pageVars, faults>>

\* axum::serve returns, its requests drained, or with an error; the token is
\* fired in either case.
ServeEnds(r) ==
    /\ call[r].pc = "serve"
    /\ \/ Cancelled(r) /\ request = NoRequest /\ UNCHANGED <<request, faults>>
       \/ Fault /\ request' = NoRequest
    /\ call' = [call EXCEPT ![r].pc = "join"]
    /\ cancelled' = cancelled \cup {call[r].token}
    /\ UNCHANGED <<config, version, wedged, periodic, broadcasted, conn, pageVars>>

\* Mutant: the wait gives up without aborting the task.
JoinNoAbort(r) ==
    /\ call[r].pc = "join"
    /\ call' = [call EXCEPT ![r].pc = "returned"]
    /\ UNCHANGED <<config, version, wedged, cancelled, periodic, request, broadcasted, conn,
                   pageVars, faults>>

\* Mutant: the wait for the task has no timeout.
JoinUnbounded(r) ==
    /\ call[r].pc = "join" /\ periodic[r].pc = "none"
    /\ call' = [call EXCEPT ![r].pc = "returned"]
    /\ UNCHANGED <<config, version, wedged, cancelled, periodic, request, broadcasted, conn,
                   pageVars, faults>>

\* The handle is awaited for 5 seconds, and else aborted.
Join(r) ==
    /\ call[r].pc = "join"
    /\ call' = [call EXCEPT ![r].pc = "returned"]
    /\ periodic' = [periodic EXCEPT ![r].pc = "none"]
    /\ UNCHANGED <<config, version, wedged, cancelled, request, broadcasted, conn, pageVars, faults>>

\* A request is let through to a handler that calls the storage.
Request(req) ==
    /\ request = NoRequest /\ Accepting
    /\ req.route \in {"read", "retry", "delete"} /\ Respond(config, req) = "handled"
    /\ request' = [route |-> req.route, anonymous |-> Anonymous(config, req), foreign |-> Foreign(req)]
    /\ UNCHANGED <<config, version, wedged, call, cancelled, periodic, broadcasted, conn,
                   pageVars, faults>>

\* The handler's storage call returns; retry_job and delete_job may have
\* changed a job.
RequestDone ==
    /\ request # NoRequest /\ ~wedged
    /\ \/ UNCHANGED version
       \/ request.route \in {"retry", "delete"} /\ version < MaxChanges /\ version' = version + 1
    /\ request' = NoRequest
    /\ UNCHANGED <<config, wedged, call, cancelled, periodic, broadcasted, conn, pageVars, faults>>

------------------------------------------------------------------------------
(* Broadcasts.                                                             *)

Subscribed(s) == conn[s].pc \notin {"none", "gone"}

\* broadcast::Sender::send: a receiver with a full buffer loses its oldest
\* message, and its next recv returns Lagged; handle_socket never calls another.
Receive(c, message) ==
    IF ~c.lagged /\ Len(c.buffer) < BroadcastCapacity
    THEN [c EXCEPT !.buffer = Append(@, message)]
    ELSE [c EXCEPT !.buffer = <<>>, !.lagged = TRUE]

Broadcast(message) ==
    conn' = [s \in Sockets |-> IF Subscribed(s) THEN Receive(conn[s], message) ELSE conn[s]]

\* Mutant: the task ends at the first failure of the statistics.
PeriodicFailsForGood(r) ==
    /\ periodic[r].pc \in {"counts", "lists"} /\ Fault
    /\ periodic' = [periodic EXCEPT ![r] = [pc |-> "none", got |-> Nothing]]
    /\ UNCHANGED <<config, version, wedged, call, cancelled, request, broadcasted, conn, pageVars>>

\* The select of start_periodic_updates, the token first.
PeriodicTick(r) ==
    /\ periodic[r].pc = "wait"
    /\ periodic' = [periodic EXCEPT ![r].pc = IF Cancelled(r) THEN "none" ELSE "counts"]
    /\ UNCHANGED <<config, version, wedged, call, cancelled, request, broadcasted, conn,
                   pageVars, faults>>

\* get_server_statistics: the counts, then the lists; then the broadcast.
PeriodicCounts(r) ==
    /\ periodic[r].pc = "counts" /\ ~wedged
    /\ periodic' = [periodic EXCEPT ![r].pc = "lists", ![r].got = version]
    /\ UNCHANGED <<config, version, wedged, call, cancelled, request, broadcasted, conn,
                   pageVars, faults>>

PeriodicBroadcast(r) ==
    /\ periodic[r].pc = "lists" /\ ~wedged
    /\ Broadcast(periodic[r].got)
    /\ broadcasted' = periodic[r].got
    /\ periodic' = [periodic EXCEPT ![r] = [pc |-> "wait", got |-> Nothing]]
    /\ UNCHANGED <<config, version, wedged, call, cancelled, request, pageVars, faults>>

PeriodicFails(r) ==
    /\ periodic[r].pc \in {"counts", "lists"} /\ Fault
    /\ periodic' = [periodic EXCEPT ![r] = [pc |-> "wait", got |-> Nothing]]
    /\ UNCHANGED <<config, version, wedged, call, cancelled, request, broadcasted, conn, pageVars>>

------------------------------------------------------------------------------
(* handle_socket.                                                          *)

\* The page's script shows the counts of statistics it receives, and then fails
\* at the tables.
UpdateStatistics(message) == grid' = message

OnMessage(message) ==
    /\ UpdateStatistics(message)
    /\ UNCHANGED <<loaded, sock, reconnectInterval, connected>>

SetConn(s, c) == conn' = [conn EXCEPT ![s] = c]

\* The upgrade: the task subscribes, enters the connection into the table and
\* sends connection_info.
Upgrade(s) ==
    /\ sock[s] = "connecting" /\ conn[s].pc = "none" /\ Accepting
    /\ SetConn(s, [NoConn EXCEPT !.pc = "counts"])
    /\ UNCHANGED <<version, wedged, serverVars, pageVars, faults>>

\* get_server_statistics: the counts; the lists come with the send.
ConnCounts(s) ==
    /\ conn[s].pc = "counts" /\ ~wedged
    /\ SetConn(s, [conn[s] EXCEPT !.pc = "lists", !.got = version])
    /\ UNCHANGED <<version, wedged, serverVars, pageVars, faults>>

\* Without initial statistics the task goes on to its loop.
ConnFails(s) ==
    /\ conn[s].pc \in {"counts", "lists"} /\ Fault
    /\ SetConn(s, [conn[s] EXCEPT !.pc = "loop", !.got = Nothing])
    /\ UNCHANGED <<version, wedged, serverVars, pageVars>>

\* Mutant: the task subscribes once the initial statistics are out.
SendInitialThenSubscribe(s) ==
    /\ conn[s].pc = "lists" /\ ~wedged /\ sock[s] = "open"
    /\ SetConn(s, [NoConn EXCEPT !.pc = "loop", !.sent = conn[s].got])
    /\ OnMessage(conn[s].got)
    /\ UNCHANGED <<version, wedged, serverVars, faults>>

SendInitial(s) ==
    /\ conn[s].pc = "lists" /\ ~wedged /\ sock[s] = "open"
    /\ SetConn(s, [conn[s] EXCEPT !.pc = "loop", !.got = Nothing, !.sent = conn[s].got])
    /\ OnMessage(conn[s].got)
    /\ UNCHANGED <<version, wedged, serverVars, faults>>

\* The broadcast arm of the select sends the next message.
SendNext(s) ==
    LET message == Head(conn[s].buffer) IN
    /\ conn[s].pc = "loop" /\ ~conn[s].lagged /\ conn[s].buffer # <<>> /\ sock[s] = "open"
    /\ SetConn(s, [conn[s] EXCEPT !.buffer = Tail(@), !.sent = message])
    /\ OnMessage(message)
    /\ UNCHANGED <<version, wedged, serverVars, faults>>

\* The select ends, because the receiver lagged or the socket broke, and the
\* connection leaves the table.
ConnEnds(s) ==
    /\ conn[s].pc = "loop"
    /\ IF conn[s].lagged THEN UNCHANGED faults ELSE Fault
    /\ SetConn(s, [NoConn EXCEPT !.pc = "gone"])
    /\ UNCHANGED <<version, wedged, serverVars, pageVars>>

------------------------------------------------------------------------------
(* The script of the page.                                                 *)

\* The page is fetched and calls connectWebSocket.
Load ==
    /\ ~loaded /\ Accepting
    /\ loaded' = TRUE
    /\ sock' = [sock EXCEPT ![1] = "connecting"]
    /\ UNCHANGED <<version, wedged, serverVars, conn, reconnectInterval, connected, grid,
                   faults>>

UpdateConnectionStatus(isConnected) == connected' = isConnected

\* Mutant: onopen stops the timer and keeps its handle.
OnOpenKeepsHandle(s) ==
    /\ sock[s] = "connecting" /\ Subscribed(s)
    /\ sock' = [sock EXCEPT ![s] = "open"]
    /\ UpdateConnectionStatus(TRUE)
    /\ reconnectInterval' = IF reconnectInterval = "live" THEN "cleared" ELSE reconnectInterval
    /\ UNCHANGED <<version, wedged, serverVars, conn, loaded, grid, faults>>

OnOpen(s) ==
    /\ sock[s] = "connecting" /\ Subscribed(s)
    /\ sock' = [sock EXCEPT ![s] = "open"]
    /\ UpdateConnectionStatus(TRUE)
    /\ reconnectInterval' = "null"
    /\ UNCHANGED <<version, wedged, serverVars, conn, loaded, grid, faults>>

\* A socket that the server ended, or that nobody answers.
OnClose(s) ==
    /\ \/ sock[s] # "free" /\ conn[s].pc = "gone"
       \/ sock[s] = "connecting" /\ conn[s].pc = "none" /\ ~Accepting
    /\ sock' = [sock EXCEPT ![s] = "free"]
    /\ SetConn(s, NoConn)
    /\ UpdateConnectionStatus(FALSE)
    /\ reconnectInterval' = IF reconnectInterval = "null" THEN "live" ELSE reconnectInterval
    /\ UNCHANGED <<version, wedged, serverVars, loaded, grid, faults>>

\* setInterval(connectWebSocket, 5000): it fires whether or not the socket
\* before is still connecting.
IntervalFires(s) ==
    /\ reconnectInterval = "live"
    /\ sock[s] = "free" /\ \A t \in 1..(s - 1) : sock[t] # "free"
    /\ sock' = [sock EXCEPT ![s] = "connecting"]
    /\ UNCHANGED <<version, wedged, serverVars, conn, loaded, reconnectInterval, connected, grid,
                   faults>>

------------------------------------------------------------------------------
CallStep(r) == Bind(r) \/ BindFails(r) \/ ServeEnds(r) \/ Join(r)
PeriodicStep(r) == PeriodicTick(r) \/ PeriodicCounts(r) \/ PeriodicBroadcast(r)
ConnStep(s) == Upgrade(s) \/ ConnCounts(s) \/ SendInitial(s) \/ SendNext(s) \/ ConnEnds(s)
PageEvent(s) == OnOpen(s) \/ OnClose(s)

Next ==
    \/ JobsChange \/ Wedge \/ Recover
    \/ \E r \in Calls : \/ \E token \in Tokens : Start(r, token)
                        \/ CallStep(r) \/ PeriodicStep(r) \/ PeriodicFails(r)
    \/ \E token \in Tokens : Cancel(token)
    \/ \E req \in RunRequests : Request(req)
    \/ RequestDone \/ Load
    \/ \E s \in Sockets : ConnStep(s) \/ ConnFails(s) \/ PageEvent(s) \/ IntervalFires(s)

Spec == Init /\ [][Next]_vars

\* The steps that come without a failure.
CallProgress(r) ==
    \/ Bind(r) \/ Join(r)
    \/ Listening /\ BindFails(r)
    \/ Cancelled(r) /\ request = NoRequest /\ ServeEnds(r)
ConnProgress(s) ==
    \/ Upgrade(s) \/ ConnCounts(s) \/ SendInitial(s) \/ SendNext(s)
    \/ conn[s].lagged /\ ConnEnds(s)

\* Tokio polls its tasks, the 5 second timeout elapses, a storage that answers
\* does so, and the browser delivers events and fires timers.  Nobody owes a
\* call, a cancellation, a request, a failure or the recovery of the storage.
FairSpec ==
    /\ Spec
    /\ \A r \in Calls : WF_vars(CallProgress(r)) /\ WF_vars(PeriodicStep(r))
    /\ WF_vars(RequestDone)
    /\ \A s \in Sockets : WF_vars(ConnProgress(s)) /\ WF_vars(PageEvent(s))
    /\ WF_vars(\E s \in Sockets : IntervalFires(s))

------------------------------------------------------------------------------
(* Properties.                                                             *)

\* The storage is read or changed for a request without the credentials only
\* where the dashboard has no guard and listens on loopback, and changed only
\* for one from the dashboard's own pages (run_until_cancelled's refusal,
\* create_app's layers, require_auth, csrf_guard).
OnlyGuardedHandled ==
    request # NoRequest =>
        /\ request.anonymous => config.auth = Absent /\ config.host # "public address"
        /\ request.route \in {"retry", "delete"} => ~request.foreign

\* A call that returned has taken its periodic task with it, whether the task
\* saw the token or hung in a storage call, unless it failed to bind its port
\* (run_until_cancelled).
PeriodicEndsWithCall ==
    \A r \in Calls : call[r].pc = "returned" /\ ~call[r].unbound => periodic[r].pc = "none"

\* A connection that has started to forward broadcasts and has nothing left to
\* forward has sent what was broadcast last or something newer, and one that
\* has something left ends with it: no update falls between the initial
\* statistics and the loop, or is skipped by a receiver that lagged
\* (handle_socket subscribes first, and ends when recv is an error).
NoUpdateMissed ==
    \A s \in Sockets :
        conn[s].pc = "loop" /\ ~conn[s].lagged =>
            IF conn[s].buffer # <<>> THEN Last(conn[s].buffer) = broadcasted
            ELSE conn[s].sent # Nothing => conn[s].sent >= broadcasted

\* Once loaded, the page has a socket that is open or being opened, or its
\* timer runs, and it says "Connected" only with an open socket: overlapping
\* attempts, late opens and closes of older sockets never leave it waiting for
\* nothing (connectWebSocket).
PageKeepsTrying ==
    /\ loaded => reconnectInterval = "live" \/ \E s \in Sockets : sock[s] # "free"
    /\ connected => \E s \in Sockets : sock[s] = "open"

\* A call whose token fires returns, also when the storage hangs, unless the
\* hanging storage holds up a request it has to drain (run_until_cancelled).
CancelledCallReturns ==
    \A r \in Calls :
        (call[r].pc # "idle" /\ Cancelled(r)) ~>
            (call[r].pc = "returned" \/ (wedged /\ request # NoRequest))

\* While the dashboard serves and the storage answers, a loaded page comes to
\* show the jobs as they are, through lagging receivers, broken sockets and
\* reconnections (start_periodic_updates, handle_socket, connectWebSocket).
PageCatchesUp ==
    <>[](loaded /\ Accepting /\ ~wedged) => <>[](grid = version)
===============================================================================
