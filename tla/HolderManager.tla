---------------------------- MODULE HolderManager ----------------------------
(***************************************************************************)
(* The shared holder manager and the way to it: HolderLauncher::launch     *)
(* (homie-engine/src/holder/launcher.rs) finds or starts the manager under *)
(* a file lock and asks it to host a session; the manager                  *)
(* (holder/manager.rs) serves one request at a time, runs a thread per     *)
(* session, and leaves when it has been idle for a while.  The daemon may  *)
(* crash, which frees the lock.                                            *)
(***************************************************************************)
EXTENDS Naturals

CONSTANTS
  Launchers,    \* threads of the daemon that launch
  Sessions,     \* session ids
  MaxMgr,       \* bound: manager processes
  MaxLaunch,    \* bound: sessions hosted
  MaxCrash,     \* bound: daemon crashes
  LateWatchdog  \* may a request be served between the watchdog's look and its stop?

VARIABLES
  pc,           \* the accept loop of each manager
  req,          \* the launch it is in the middle of
  shutting,     \* shutting_down: the listener is closed
  active,       \* the sessions it hosts
  looked,       \* its watchdog found the idle time over
  mgrSock, pidf,\* whose listener and pid the control files show
  launchLock,   \* who has the launch lock
  lpc, want,    \* the launchers, and the session each is to launch
  accepted,     \* sessions a launcher was told are hosted, child still running
  alone,        \* a manager was left to start by itself
  launches, engineCrashes

mgrVars == <<pc, req, shutting, active, looked>>
files == <<mgrSock, pidf>>
runVars == <<alone, launches, engineCrashes>>
launcherVars == <<launchLock, lpc, want, accepted, runVars>>
vars == <<mgrVars, files, launcherVars>>

Mgrs == 1..MaxMgr
Nobody == 0
None == "none"

TypeOK ==
  /\ pc \in [Mgrs -> {"unborn", "starting", "bound", "accept", "check", "left", "gone"}]
  /\ req \in [Mgrs -> Sessions \cup {None}]
  /\ shutting \in [Mgrs -> BOOLEAN] /\ looked \in [Mgrs -> BOOLEAN]
  /\ active \in [Mgrs -> SUBSET Sessions]
  /\ mgrSock \in Mgrs \cup {Nobody} /\ pidf \in Mgrs \cup {Nobody}
  /\ launchLock \in Launchers \cup {None}
  /\ lpc \in [Launchers -> {"idle", "lock", "ping", "wait", "ask", "asked", "retry"}]
  /\ want \in [Launchers -> Sessions \cup {None}]
  /\ accepted \subseteq Sessions /\ alone \in BOOLEAN
  /\ launches \in 0..MaxLaunch /\ engineCrashes \in 0..MaxCrash

Init ==
  /\ pc = [m \in Mgrs |-> "unborn"] /\ req = [m \in Mgrs |-> None]
  /\ shutting = [m \in Mgrs |-> FALSE] /\ looked = [m \in Mgrs |-> FALSE]
  /\ active = [m \in Mgrs |-> {}]
  /\ mgrSock = Nobody /\ pidf = Nobody /\ launchLock = None
  /\ lpc = [l \in Launchers |-> "idle"] /\ want = [l \in Launchers |-> None]
  /\ accepted = {} /\ alone = FALSE /\ launches = 0 /\ engineCrashes = 0

-----------------------------------------------------------------------------
Hosted(s) == \E m \in Mgrs : s \in active[m]
\* A request on the socket is answered: its listener is open and accepting.
Serving(m) == m # Nobody /\ pc[m] = "accept" /\ ~shutting[m]
Starting == {m \in Mgrs : pc[m] \in {"starting", "bound"}}
Unborn == {m \in Mgrs : pc[m] = "unborn"}

LauncherAt(l, s) == lpc' = [lpc EXCEPT ![l] = s]

\* HolderLauncher::launch: a holder that is alive is adopted at once.
Launch(l, s) ==
  /\ lpc[l] = "idle" /\ launches < MaxLaunch /\ ~Hosted(s)
  /\ LauncherAt(l, "lock") /\ want' = [want EXCEPT ![l] = s]
  /\ launches' = launches + 1
  /\ UNCHANGED <<mgrVars, files, launchLock, accepted, alone, engineCrashes>>

Lock(l) ==
  /\ lpc[l] = "lock" /\ launchLock = None
  /\ launchLock' = l /\ LauncherAt(l, "ping")
  /\ UNCHANGED <<mgrVars, files, want, accepted, runVars>>

Unlock(l) == launchLock' = IF launchLock = l THEN None ELSE launchLock

\* spawn_manager: a detached process.
SpawnManager ==
  \E m \in Unborn :
    /\ \A k \in Unborn : m <= k
    /\ pc' = [pc EXCEPT ![m] = "starting"]

\* A live manager is asked (the ping renews its idle time), else one is started.
PingAlive(l) ==
  /\ lpc[l] \in {"ping", "wait"} /\ Serving(mgrSock)
  /\ LauncherAt(l, "ask")
  /\ UNCHANGED <<mgrVars, files, launchLock, want, accepted, runVars>>

PingDead(l) ==
  /\ lpc[l] = "ping" /\ ~Serving(mgrSock) /\ Unborn # {}
  /\ ~(mgrSock # Nobody /\ pc[mgrSock] \in {"bound", "check"})   \* a request there would wait
  /\ SpawnManager /\ LauncherAt(l, "wait")
  /\ UNCHANGED <<req, shutting, active, looked, files, launchLock, want, accepted, runVars>>

\* The launch request is taken from the socket, ...
Ask(l) ==
  /\ lpc[l] \in {"ask", "retry"} /\ Serving(mgrSock)
  /\ pc' = [pc EXCEPT ![mgrSock] = "check"] /\ req' = [req EXCEPT ![mgrSock] = want[l]]
  /\ LauncherAt(l, "asked")
  /\ UNCHANGED <<shutting, active, looked, files, launchLock, want, accepted, runVars>>

\* ... or reaches nobody, and one fresh manager is tried.
AskDead(l) ==
  /\ lpc[l] = "ask" /\ ~Serving(mgrSock) /\ Unborn # {}
  /\ ~(mgrSock # Nobody /\ pc[mgrSock] \in {"bound", "check"})
  /\ SpawnManager /\ LauncherAt(l, "retry")
  /\ UNCHANGED <<req, shutting, active, looked, files, launchLock, want, accepted, runVars>>

\* No process can be started: the launch fails.
SpawnFails(l) ==
  /\ lpc[l] \in {"ping", "ask"} /\ ~Serving(mgrSock)
  /\ ~(mgrSock # Nobody /\ pc[mgrSock] \in {"bound", "check"})
  /\ LauncherAt(l, "idle") /\ want' = [want EXCEPT ![l] = None] /\ Unlock(l)
  /\ UNCHANGED <<mgrVars, files, accepted, runVars>>

\* The manager's answer: the launcher returns and lets go of the lock.
Answered(l) ==
  /\ lpc[l] = "asked"
  /\ ~\E m \in Mgrs : pc[m] = "check" /\ req[m] = want[l]
  /\ LauncherAt(l, "idle") /\ Unlock(l)
  /\ accepted' = IF Hosted(want[l]) THEN accepted \cup {want[l]} ELSE accepted
  /\ want' = [want EXCEPT ![l] = None]
  /\ UNCHANGED <<mgrVars, files, runVars>>

\* The attempts are used up.
TimedOut(l) ==
  /\ lpc[l] \in {"wait", "retry"}
  /\ LauncherAt(l, "idle") /\ want' = [want EXCEPT ![l] = None] /\ Unlock(l)
  /\ alone' = TRUE
  /\ UNCHANGED <<mgrVars, files, accepted, launches, engineCrashes>>

\* The daemon dies with its launchers; the lock goes with it.
DaemonCrash ==
  /\ engineCrashes < MaxCrash /\ engineCrashes' = engineCrashes + 1
  /\ launchLock' = None
  /\ lpc' = [l \in Launchers |-> "idle"] /\ want' = [l \in Launchers |-> None]
  /\ alone' = TRUE
  /\ UNCHANGED <<mgrVars, files, accepted, launches>>

-----------------------------------------------------------------------------
(* The manager.                                                            *)

\* socket::listen replaces whatever is at the path.
Bind(m) ==
  /\ pc[m] = "starting"
  /\ pc' = [pc EXCEPT ![m] = "bound"] /\ mgrSock' = m
  /\ UNCHANGED <<req, shutting, active, looked, pidf, launcherVars>>

WritePid(m) ==
  /\ pc[m] = "bound"
  /\ pc' = [pc EXCEPT ![m] = "accept"] /\ pidf' = m
  /\ UNCHANGED <<req, shutting, active, looked, mgrSock, launcherVars>>

\* Mutant: a manager that is leaving does not refuse.
HostLeaving(m) ==
  /\ pc[m] = "check"
  /\ pc' = [pc EXCEPT ![m] = "accept"] /\ req' = [req EXCEPT ![m] = None]
  /\ active' = IF Hosted(req[m]) THEN active
               ELSE [active EXCEPT ![m] = @ \cup {req[m]}]
  /\ looked' = IF LateWatchdog THEN looked ELSE [looked EXCEPT ![m] = FALSE]
  /\ UNCHANGED <<shutting, files, launcherVars>>

\* handle(Launch): an alive holder is adopted, a manager that is leaving
\* refuses, and otherwise the session becomes active and the idle time ends.
Host(m) ==
  /\ pc[m] = "check"
  /\ pc' = [pc EXCEPT ![m] = "accept"] /\ req' = [req EXCEPT ![m] = None]
  /\ active' = IF shutting[m] \/ Hosted(req[m]) THEN active
               ELSE [active EXCEPT ![m] = @ \cup {req[m]}]
  /\ looked' = IF LateWatchdog THEN looked ELSE [looked EXCEPT ![m] = FALSE]
  /\ UNCHANGED <<shutting, files, launcherVars>>

\* watch_idle: no session for idle_timeout, ...
WatchIdle(m) ==
  /\ pc[m] \in {"accept", "check"} /\ ~shutting[m] /\ ~looked[m] /\ active[m] = {}
  /\ looked' = [looked EXCEPT ![m] = TRUE]
  /\ UNCHANGED <<pc, req, shutting, active, files, launcherVars>>

\* ... and the listener is closed.
StopListener(m) ==
  /\ looked[m] /\ ~shutting[m]
  /\ shutting' = [shutting EXCEPT ![m] = TRUE]
  /\ UNCHANGED <<pc, req, active, looked, files, launcherVars>>

\* handle(ShutdownIfIdle), sent by a daemon that leaves.
ShutdownIfIdle(m) ==
  /\ mgrSock = m /\ Serving(m) /\ active[m] = {}
  /\ shutting' = [shutting EXCEPT ![m] = TRUE]
  /\ UNCHANGED <<pc, req, active, looked, files, launcherVars>>

\* The accept loop ends.
Leave(m) ==
  /\ pc[m] = "accept" /\ shutting[m]
  /\ pc' = [pc EXCEPT ![m] = "left"]
  /\ UNCHANGED <<req, shutting, active, looked, files, launcherVars>>

\* cleanup_control_files, under the launch lock; then the process ends, and
\* with it every session it still hosts.
Cleanup(m) ==
  /\ pc[m] = "left" /\ launchLock = None
  /\ pc' = [pc EXCEPT ![m] = "gone"] /\ active' = [active EXCEPT ![m] = {}]
  /\ IF pidf = m THEN mgrSock' = Nobody /\ pidf' = Nobody ELSE UNCHANGED files
  /\ UNCHANGED <<req, shutting, looked, launcherVars>>

\* The child exits and its thread with it.
ChildExits(m, s) ==
  /\ s \in active[m]
  /\ active' = [active EXCEPT ![m] = @ \ {s}]
  /\ accepted' = accepted \ {s}
  /\ UNCHANGED <<pc, req, shutting, looked, files, launchLock, lpc, want, runVars>>

-----------------------------------------------------------------------------
Launcher(l) ==
  Lock(l) \/ PingAlive(l) \/ PingDead(l) \/ Ask(l) \/ AskDead(l) \/ SpawnFails(l)
  \/ Answered(l)

Manager(m) == Bind(m) \/ WritePid(m) \/ Host(m) \/ StopListener(m) \/ Leave(m) \/ Cleanup(m)

Next ==
  \/ \E l \in Launchers : Launcher(l) \/ TimedOut(l) \/ \E s \in Sessions : Launch(l, s)
  \/ \E m \in Mgrs : \/ Manager(m) \/ WatchIdle(m) \/ ShutdownIfIdle(m)
                     \/ \E s \in Sessions : ChildExits(m, s)
  \/ DaemonCrash

Fairness ==
  /\ \A l \in Launchers : WF_vars(Launcher(l) \/ TimedOut(l))
  /\ \A m \in Mgrs : WF_vars(Manager(m))

Spec == Init /\ [][Next]_vars /\ Fairness

-----------------------------------------------------------------------------
\* "A session from an older per-session holder may already own this socket.
\* Adopt it instead of creating a second writer/child."
OneHolder == \A m, k \in Mgrs : m # k => active[m] \cap active[k] = {}

\* "The manager exits only after every hosted child has exited": a session a
\* launcher was told is hosted is hosted until its child exits.
AcceptedIsHosted == \A s \in accepted : Hosted(s)

\* "the pid check prevents an old process from unlinking a successor's fresh
\* socket": the socket leads to the manager that serves, unless a crash or a
\* launcher that gave up left one to start without the lock.
EndpointKept ==
  ~alone => \A m \in Mgrs : pc[m] \in {"accept", "check"} /\ ~shutting[m] => mgrSock = m

\* A launcher returns, one way or the other, and the lock is free again.
LaunchReturns == \A l \in Launchers : lpc[l] # "idle" ~> lpc[l] = "idle"

=============================================================================
