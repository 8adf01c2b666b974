----------------------------- MODULE DaemonClient -----------------------------
(***************************************************************************)
(* The control client (homie-client/src/client.rs, connection.rs): one     *)
(* lifecycle task that connects, says hello, subscribes, beats and cleans  *)
(* up after a connection; callers whose requests wait in one table for the *)
(* answer; a task events() starts to subscribe on a connection that is     *)
(* already there.  Every await is a point at which the others may run.     *)
(*                                                                         *)
(* A request is known by its caller and the connection it was sent on,     *)
(* which stand for its unique id.  Hello, heartbeat and subscribe have a   *)
(* timeout; the callers' requests have none.                               *)
(***************************************************************************)
EXTENDS Naturals, FiniteSets

CONSTANTS
  Callers,      \* requests without a timeout, made once each
  MaxTrouble,   \* bound: connections cut, daemons out of reach, timeouts
  SlowRuntime,  \* may a task be delayed past a cleanup and the backoff of 500 ms?
  EventsAnytime \* may events() be called while a connection comes up or goes?

VARIABLES
  lc,           \* where run_lifecycle and run_once are
  conn,         \* the number of the connection
  link,         \* whether its socket is open
  io,           \* the connections whose reader and writer tasks run
  writer,       \* whose sender requests clone, 0 when none
  published,    \* ConnectionState
  wantEvents, flag,   \* want_events, events_subscribed
  stop,         \* shutdown_tx
  rpc, via,     \* where each request is, and the connection it goes over
  pending,      \* the table of requests that wait for an answer
  wire,         \* requests the daemon has not answered, by connection
  subs,         \* the connections on which the daemon forwards events
  trouble

reqVars == <<rpc, via, pending, wire>>
vars == <<lc, conn, link, io, writer, published, wantEvents, flag, stop, reqVars, subs, trouble>>

Conns == 1..MaxTrouble + 1
Own == {"hello", "sub", "task"}      \* hello and heartbeat, subscribe, events()
Reqs == Callers \cup Own
Done == {"ok", "error"}

TypeOK ==
  /\ lc \in {"start", "hello", "subscribe", "publish", "ready", "beat", "closing",
             "writer", "flag", "fail", "down", "end", "closed"}
  /\ conn \in 0..MaxTrouble + 1 /\ link \in BOOLEAN
  /\ io \subseteq Conns /\ writer \in {0} \cup Conns
  /\ published \in {"connecting", "connected", "disconnected"}
  /\ {wantEvents, flag, stop} \subseteq BOOLEAN
  /\ rpc \in [Reqs -> {"idle", "spawned", "begin", "put", "wait", "lost"} \cup Done]
  /\ via \in [Reqs -> {0} \cup Conns] /\ pending \subseteq Reqs \X Conns
  /\ wire \in [Conns -> SUBSET Reqs] /\ subs \subseteq Conns
  /\ trouble \in 0..MaxTrouble

Init ==
  /\ lc = "start" /\ conn = 0 /\ link = FALSE /\ io = {} /\ writer = 0
  /\ published = "connecting" /\ wantEvents \in BOOLEAN /\ flag = FALSE /\ stop = FALSE
  /\ rpc = [r \in Reqs |-> "idle"] /\ via = [r \in Reqs |-> 0]
  /\ pending = {} /\ wire = [c \in Conns |-> {}] /\ subs = {} /\ trouble = 0

Goto(p) == lc' = p
Bump == trouble < MaxTrouble /\ trouble' = trouble + 1

-----------------------------------------------------------------------------
(* ClientCore::request.                                                    *)

Ask(r) ==
  /\ r \in Callers /\ rpc[r] = "idle"
  /\ rpc' = [rpc EXCEPT ![r] = "begin"]
  /\ UNCHANGED <<lc, conn, link, io, writer, published, wantEvents, flag, stop, via, pending,
                 wire, subs, trouble>>

\* The sender is cloned, or there is no connection.
CloneWriter(r) ==
  /\ rpc[r] = "begin"
  /\ rpc' = [rpc EXCEPT ![r] = IF writer = 0 THEN "error" ELSE "put"]
  /\ via' = [via EXCEPT ![r] = writer]
  /\ UNCHANGED <<lc, conn, link, io, writer, published, wantEvents, flag, stop, pending, wire,
                 subs, trouble>>

\* The request is put in the table and its line into the writer task's queue;
\* when that task is gone it is taken out again and fails.
Put(r) ==
  /\ rpc[r] = "put"
  /\ IF via[r] \in io
     THEN /\ rpc' = [rpc EXCEPT ![r] = "wait"]
          /\ pending' = pending \cup {<<r, via[r]>>}
          /\ wire' = [wire EXCEPT ![via[r]] = @ \cup {r}]
     ELSE rpc' = [rpc EXCEPT ![r] = "error"] /\ UNCHANGED <<pending, wire>>
  /\ UNCHANGED <<lc, conn, link, io, writer, published, wantEvents, flag, stop, via, subs, trouble>>

\* HEARTBEAT_TIMEOUT.
TimeOut(r) ==
  /\ r \in Own /\ rpc[r] = "wait" /\ Bump
  /\ rpc' = [rpc EXCEPT ![r] = "error"]
  /\ pending' = pending \ {<<r, via[r]>>}
  /\ UNCHANGED <<lc, conn, link, io, writer, published, wantEvents, flag, stop, via, wire, subs>>

\* The daemon answers (events.subscribe makes the connection a sink) and
\* route_message hands the answer to the caller, if it still waits.
Route(c, r, result) ==
  /\ c = conn /\ link /\ c \in io /\ r \in wire[c]
  /\ IF r \in Own /\ result = "error" THEN Bump ELSE UNCHANGED trouble
  /\ wire' = [wire EXCEPT ![c] = @ \ {r}]
  /\ subs' = IF r \in {"sub", "task"} /\ result = "ok" THEN subs \cup {c} ELSE subs
  /\ IF <<r, c>> \in pending
     THEN /\ pending' = pending \ {<<r, c>>}
          /\ rpc' = IF rpc[r] = "wait" /\ via[r] = c THEN [rpc EXCEPT ![r] = result] ELSE rpc
     ELSE UNCHANGED <<pending, rpc>>
  /\ UNCHANGED <<lc, conn, link, io, writer, published, wantEvents, flag, stop, via>>

-----------------------------------------------------------------------------
(* run_once.                                                               *)

\* The socket opens and the sender is published; hello follows.
Open ==
  /\ lc = "start" /\ ~stop /\ Goto("hello")
  /\ conn' = conn + 1 /\ link' = TRUE /\ io' = io \cup {conn + 1} /\ writer' = conn + 1
  /\ rpc' = [rpc EXCEPT !["hello"] = "begin"]
  /\ UNCHANGED <<published, wantEvents, flag, stop, via, pending, wire, subs, trouble>>

OpenFails ==
  /\ lc = "start" /\ ~stop /\ Bump /\ Goto("writer")
  /\ UNCHANGED <<conn, link, io, writer, published, wantEvents, flag, stop, reqVars, subs>>

\* Hello was answered by a Rust Engine: subscribe if events are wanted and no
\* subscription is said to be there.
HelloAnswered ==
  /\ lc = "hello" /\ rpc["hello"] = "ok"
  /\ IF wantEvents /\ ~flag
     THEN /\ Goto("subscribe") /\ flag' = TRUE
          /\ rpc' = [rpc EXCEPT !["hello"] = "idle", !["sub"] = "begin"]
     ELSE Goto("publish") /\ flag' = flag /\ rpc' = [rpc EXCEPT !["hello"] = "idle"]
  /\ UNCHANGED <<conn, link, io, writer, published, wantEvents, stop, via, pending, wire, subs, trouble>>

Subscribed ==
  /\ lc = "subscribe" /\ rpc["sub"] = "ok"
  /\ Goto("publish") /\ rpc' = [rpc EXCEPT !["sub"] = "idle"]
  /\ UNCHANGED <<conn, link, io, writer, published, wantEvents, flag, stop, via, pending, wire,
                 subs, trouble>>

Publish ==
  /\ lc = "publish" /\ Goto("ready") /\ published' = "connected"
  /\ UNCHANGED <<conn, link, io, writer, wantEvents, flag, stop, reqVars, subs, trouble>>

\* HEARTBEAT_INTERVAL.
Beat ==
  /\ lc = "ready" /\ Goto("beat") /\ rpc' = [rpc EXCEPT !["hello"] = "begin"]
  /\ UNCHANGED <<conn, link, io, writer, published, wantEvents, flag, stop, via, pending, wire,
                 subs, trouble>>

BeatAnswered ==
  /\ lc = "beat" /\ rpc["hello"] = "ok"
  /\ Goto("ready") /\ rpc' = [rpc EXCEPT !["hello"] = "idle"]
  /\ UNCHANGED <<conn, link, io, writer, published, wantEvents, flag, stop, via, pending, wire,
                 subs, trouble>>

\* Mutant: nobody listens for the end of the socket.
GiveUpOnError ==
  /\ lc \in {"hello", "subscribe", "ready", "beat"}
  /\ \/ stop
     \/ lc \in {"hello", "beat"} /\ rpc["hello"] = "error"
     \/ lc = "subscribe" /\ rpc["sub"] = "error"
  /\ Goto("closing")
  /\ flag' = IF rpc["sub"] = "error" THEN FALSE ELSE flag
  /\ rpc' = [rpc EXCEPT !["hello"] = "idle", !["sub"] = "idle"]
  /\ UNCHANGED <<conn, link, io, writer, published, wantEvents, stop, via, pending, wire, subs, trouble>>

\* Any of them fails, the socket is closed or the client is shut down: the
\* request under way is dropped where it stands.
GiveUp ==
  /\ lc \in {"hello", "subscribe", "ready", "beat"}
  /\ \/ ~link \/ stop
     \/ lc \in {"hello", "beat"} /\ rpc["hello"] = "error"
     \/ lc = "subscribe" /\ rpc["sub"] = "error"
  /\ Goto("closing")
  /\ flag' = IF rpc["sub"] = "error" THEN FALSE ELSE flag
  /\ rpc' = [rpc EXCEPT !["hello"] = "idle", !["sub"] = "idle"]
  /\ UNCHANGED <<conn, link, io, writer, published, wantEvents, stop, via, pending, wire, subs, trouble>>

\* Dropping the connection closes the socket and aborts its tasks, ...
DropConnection ==
  /\ lc = "closing" /\ Goto("writer") /\ link' = FALSE
  /\ UNCHANGED <<conn, io, writer, published, wantEvents, flag, stop, reqVars, subs, trouble>>

\* ... which the runtime does when it comes to it.
AbortLands(c) ==
  /\ c \in io /\ ~(c = conn /\ lc \in {"hello", "subscribe", "publish", "ready", "beat", "closing"})
  /\ io' = io \ {c}
  /\ UNCHANGED <<lc, conn, link, writer, published, wantEvents, flag, stop, reqVars, subs, trouble>>

-----------------------------------------------------------------------------
(* run_lifecycle cleans up.                                                *)

ClearWriter ==
  /\ lc = "writer" /\ Goto("flag") /\ writer' = 0
  /\ UNCHANGED <<conn, link, io, published, wantEvents, flag, stop, reqVars, subs, trouble>>

\* Mutant: the flag outlives its connection.
KeepFlag ==
  /\ lc = "flag" /\ Goto("fail")
  /\ UNCHANGED <<conn, link, io, writer, published, wantEvents, flag, stop, reqVars, subs, trouble>>

ClearFlag ==
  /\ lc = "flag" /\ Goto("fail") /\ flag' = FALSE
  /\ UNCHANGED <<conn, link, io, writer, published, wantEvents, stop, reqVars, subs, trouble>>

\* Everyone in the table is told.
FailAll == [r \in Reqs |-> IF rpc[r] = "wait" /\ <<r, via[r]>> \in pending
                           THEN "error" ELSE rpc[r]]

FailPending ==
  /\ lc = "fail" /\ Goto("down") /\ rpc' = FailAll /\ pending' = {}
  /\ SlowRuntime \/ conn \notin io
  /\ published' = "disconnected"
  /\ UNCHANGED <<conn, link, io, writer, wantEvents, flag, stop, via, wire, subs, trouble>>

\* After the backoff, whatever its length.
Retry ==
  /\ lc = "down" /\ ~stop /\ Goto("start") /\ published' = "connecting"
  /\ SlowRuntime \/ rpc["task"] \in {"idle", "lost"}
  /\ UNCHANGED <<conn, link, io, writer, wantEvents, flag, stop, reqVars, subs, trouble>>

LifecycleEnds ==
  /\ lc \in {"down", "start"} /\ stop /\ Goto("end")
  /\ UNCHANGED <<conn, link, io, writer, published, wantEvents, flag, stop, reqVars, subs, trouble>>

-----------------------------------------------------------------------------
(* The rest of the API, and the world.                                     *)

\* events(): on a connection that is there, a task subscribes.
Events ==
  /\ ~wantEvents /\ (EventsAnytime \/ lc \in {"ready", "beat"}) /\ wantEvents' = TRUE
  /\ rpc' = IF published = "connected" THEN [rpc EXCEPT !["task"] = "spawned"] ELSE rpc
  /\ UNCHANGED <<lc, conn, link, io, writer, published, flag, stop, via, pending, wire,
                 subs, trouble>>

TaskRuns ==
  /\ rpc["task"] = "spawned"
  /\ rpc' = [rpc EXCEPT !["task"] = IF flag THEN "idle" ELSE "begin"]
  /\ flag' = TRUE
  /\ UNCHANGED <<lc, conn, link, io, writer, published, wantEvents, stop, via, pending, wire,
                 subs, trouble>>

TaskEnds ==
  /\ rpc["task"] \in Done
  /\ flag' = IF rpc["task"] = "error" THEN FALSE ELSE flag
  /\ rpc' = [rpc EXCEPT !["task"] = IF @ = "error" THEN "lost" ELSE "idle"]
  /\ UNCHANGED <<lc, conn, link, io, writer, published, wantEvents, stop, via, pending, wire,
                 subs, trouble>>

Shutdown ==
  /\ ~stop /\ stop' = TRUE
  /\ UNCHANGED <<lc, conn, link, io, writer, published, wantEvents, flag, reqVars, subs, trouble>>

\* shutdown() after the lifecycle has ended.
ShutdownEnds ==
  /\ lc = "end" /\ Goto("closed") /\ writer' = 0 /\ rpc' = FailAll /\ pending' = {}
  /\ published' = "disconnected"
  /\ UNCHANGED <<conn, link, io, wantEvents, flag, stop, via, wire, subs, trouble>>

\* The daemon goes away, or a line cannot be read.
Cut ==
  /\ link /\ Bump /\ link' = FALSE
  /\ UNCHANGED <<lc, conn, io, writer, published, wantEvents, flag, stop, reqVars, subs>>

-----------------------------------------------------------------------------
Request(r) ==
  CloneWriter(r) \/ Put(r) \/ \E c \in Conns : Route(c, r, "ok") \/ Route(c, r, "error")

Lifecycle ==
  \/ Open \/ HelloAnswered \/ Subscribed \/ Publish \/ BeatAnswered \/ GiveUp
  \/ DropConnection \/ ClearWriter \/ ClearFlag \/ FailPending \/ Retry
  \/ LifecycleEnds \/ ShutdownEnds

Task == TaskRuns \/ TaskEnds

Next ==
  \/ \E r \in Reqs : Ask(r) \/ Request(r) \/ TimeOut(r)
  \/ Lifecycle \/ OpenFails \/ Beat \/ Cut \/ Shutdown \/ Events \/ Task
  \/ \E c \in Conns : AbortLands(c)

\* tokio runs every task that can run; the daemon answers what it has read;
\* the time between two heartbeats passes.
Fairness ==
  /\ \A r \in Reqs : WF_vars(Request(r))
  /\ WF_vars(Lifecycle) /\ WF_vars(Task)
  /\ \A c \in Conns : WF_vars(AbortLands(c))

Spec == Init /\ [][Next]_vars /\ Fairness

-----------------------------------------------------------------------------
\* Nobody waits on a connection that has been cleaned up: the answer cannot
\* come, and nothing fails the request before the next connection ends.
WaitsOnLiveConnection ==
  \A r \in Reqs : rpc[r] = "wait" /\ lc \in {"start", "hello", "ready", "closed"} =>
    via[r] = conn /\ lc \in {"hello", "ready"}

\* A connection that is up carries the events its user asked for, unless the
\* task of events() was refused on it (its error is dropped).
EventsFlow ==
  /\ lc \in {"ready", "beat"} /\ wantEvents /\ rpc["task"] \in {"idle", "lost"}
  /\ ~(rpc["task"] = "lost" /\ via["task"] = conn)
  => conn \in subs

\* Every request returns.
RequestsReturn == \A r \in Callers : rpc[r] = "begin" ~> rpc[r] \in Done

=============================================================================
