---------------------------- MODULE DaemonLifetime ----------------------------
(***************************************************************************)
(* How the Engine comes and goes.  The app probes the socket when it       *)
(* starts, replaces an Engine of another build and starts one when none    *)
(* answers (homie-app/src/daemon_launch.rs); homied-rs takes a lock for    *)
(* its lifetime and binds the socket (bin/homied-rs.rs, control/runtime.rs *)
(* bind); it leaves when told to, or when the quitting app was the last to *)
(* need it (control/runtime.rs).  The app's client reconnects by itself    *)
(* but starts no Engine.  Agents run in holders and outlive the Engine.    *)
(* The app has an Engine of its own to start, whose executable it can      *)
(* read; without one it leaves what serves alone.                          *)
(***************************************************************************)
EXTENDS Integers, FiniteSets

CONSTANTS
  MaxDaemon,    \* bound: Engine processes
  MaxStarts,    \* bound: starts of the app
  MaxCrash,     \* bound: crashes of an Engine
  IdleChecks,   \* how often an Engine about to leave looks again: 20
  Overlap       \* may an app or an Engine start while another is on its way out?

VARIABLES
  dpc, build,   \* the Engines, and which executable they run
  lock, sock,   \* who has daemon.lock; to whom the socket file leads
  conns,        \* active_connections of each Engine
  exit, tries,  \* the exit thread of each, and the looks it has left
  app, on,      \* the app, and the Engine its client is connected to
  spared,       \* history: the Engine that this start of the app could not
                \* compare with its own, or could not stop
  cli,          \* the Engine another client is connected to
  agents,       \* is there a live session?
  starts, crashes

daemonVars == <<dpc, build, lock, sock, exit, tries>>
vars == <<daemonVars, conns, app, on, spared, cli, agents, starts, crashes>>

Daemons == 1..MaxDaemon
Nobody == 0
App == "app"
Probe == "probe"
Cli == "cli"

TypeOK ==
  /\ dpc \in [Daemons -> {"unborn", "boot", "locked", "serving", "idle", "unlinked", "gone"}]
  /\ build \in [Daemons -> {"old", "new"}]
  /\ {lock, sock, on, spared, cli} \subseteq Daemons \cup {Nobody}
  /\ conns \in [Daemons -> SUBSET {App, Probe, Cli}]
  /\ exit \in [Daemons -> {"no", "told", "idle"}] /\ tries \in [Daemons -> 0..IdleChecks]
  /\ app \in {"off", "start", "probing", "again", "retrying", "stop", "stopping", "spawn", "run",
              "quitting"}
  /\ agents \in BOOLEAN /\ starts \in 0..MaxStarts /\ crashes \in 0..MaxCrash

\* An Engine an earlier version of the app has left may be there.
Init ==
  /\ \E old \in BOOLEAN :
       /\ dpc = [d \in Daemons |-> IF old /\ d = 1 THEN "serving" ELSE "unborn"]
       /\ build = [d \in Daemons |-> IF old /\ d = 1 THEN "old" ELSE "new"]
       /\ lock = IF old THEN 1 ELSE Nobody
       /\ sock = IF old THEN 1 ELSE Nobody
  /\ conns = [d \in Daemons |-> {}]
  /\ exit = [d \in Daemons |-> "no"] /\ tries = [d \in Daemons |-> 0]
  /\ app = "off" /\ on = Nobody /\ spared = Nobody /\ cli = Nobody /\ agents \in BOOLEAN
  /\ starts = 0 /\ crashes = 0

-----------------------------------------------------------------------------
Live == sock # Nobody /\ dpc[sock] \in {"serving", "idle"}
Leaving == \E d \in Daemons : exit[d] # "no" /\ dpc[d] \notin {"unborn", "gone"}
Join(d, who) == conns' = [conns EXCEPT ![d] = @ \cup {who}]
Part(d, who) == conns' = [conns EXCEPT ![d] = @ \ {who}]

(* The app: ensure_daemon_running, then the client.                        *)

AppStart ==
  /\ app = "off" /\ starts < MaxStarts /\ starts' = starts + 1 /\ app' = "start"
  /\ spared' = Nobody
  /\ Overlap \/ ~Leaving
  /\ UNCHANGED <<daemonVars, conns, on, cli, agents, crashes>>

\* probe_daemon: a connection of its own, ...
ProbeOpens ==
  /\ app = "start"
  /\ IF Live THEN app' = "probing" /\ Join(sock, Probe) ELSE app' = "spawn" /\ UNCHANGED conns
  /\ UNCHANGED <<daemonVars, on, spared, cli, agents, starts, crashes>>

\* ... closed when hello is answered, or the Engine is gone; another build is
\* to be replaced.
ProbeAnswered ==
  /\ app = "probing"
  /\ \E d \in Daemons :
       /\ Probe \in conns[d] /\ Part(d, Probe)
       /\ app' = IF build[d] = "new" THEN "run" ELSE "stop"
  /\ UNCHANGED <<daemonVars, on, spared, cli, agents, starts, crashes>>

\* An Engine that is busy for a second, or too old to know hello, is probed
\* again.
ProbeUnclear ==
  /\ app = "probing" /\ app' = "again"
  /\ \E d \in Daemons : Probe \in conns[d] /\ Part(d, Probe)
  /\ UNCHANGED <<daemonVars, on, spared, cli, agents, starts, crashes>>

\* It dies under the probe: a reset counts as no Engine, the end of the stream
\* as an answer that cannot be read.
ProbeFails ==
  /\ app = "probing" /\ \A d \in Daemons : Probe \notin conns[d]
  /\ app' \in {"spawn", "again"}
  /\ UNCHANGED <<daemonVars, conns, on, spared, cli, agents, starts, crashes>>

\* The second probe; nobody there is now an error like any other.
ProbeAgain ==
  /\ app = "again"
  /\ IF Live THEN app' = "retrying" /\ Join(sock, Probe) ELSE app' = "stop" /\ UNCHANGED conns
  /\ UNCHANGED <<daemonVars, on, spared, cli, agents, starts, crashes>>

\* An Engine that answers it is left alone, whatever its build; one that does
\* not is replaced.
RetryAnswered ==
  /\ app = "retrying"
  /\ \E d \in Daemons :
       /\ Probe \in conns[d] /\ Part(d, Probe)
       /\ \/ app' = "run" /\ spared' = d
          \/ app' = "stop" /\ UNCHANGED spared
  /\ UNCHANGED <<daemonVars, on, cli, agents, starts, crashes>>

RetryFails ==
  /\ app = "retrying" /\ \A d \in Daemons : Probe \notin conns[d]
  /\ app' = "stop"
  /\ UNCHANGED <<daemonVars, conns, on, spared, cli, agents, starts, crashes>>

\* stop_daemon_for_upgrade: daemon.shutdown, which may not be answered within
\* the second; an error here is final and no Engine is started, ...
AskShutdown ==
  /\ app = "stop"
  /\ \/ /\ Live /\ exit' = [exit EXCEPT ![sock] = "told"]
        /\ app' \in {"stopping"} \cup (IF Overlap THEN {"run"} ELSE {})
        /\ spared' = IF app' = "run" THEN sock ELSE spared
     \/ ~Live /\ app' = "run" /\ UNCHANGED <<exit, spared>>
  /\ UNCHANGED <<dpc, build, lock, sock, tries, conns, on, cli, agents, starts, crashes>>

\* ... and a look every 100 ms until the socket is dead, for 3 s; then it is
\* that of an Engine that is slow to leave, or of one that came after it.
Stopped ==
  /\ app = "stopping"
  /\ \/ ~Live /\ app' = "spawn" /\ UNCHANGED spared
     \/ /\ Live /\ (Overlap \/ exit[sock] # "told")
        /\ app' = "run" /\ spared' = sock
  /\ UNCHANGED <<daemonVars, conns, on, cli, agents, starts, crashes>>

SpawnDetached ==
  /\ app = "spawn" /\ app' = "run"
  /\ \E d \in Daemons :
       /\ dpc[d] = "unborn" /\ \A e \in Daemons : dpc[e] = "unborn" => d <= e
       /\ dpc' = [dpc EXCEPT ![d] = "boot"] /\ build' = [build EXCEPT ![d] = "new"]
  /\ UNCHANGED <<lock, sock, exit, tries, conns, on, spared, cli, agents, starts, crashes>>

\* The client's reconnect loop.
Connect ==
  /\ app = "run" /\ on = Nobody /\ Live
  /\ on' = sock /\ Join(sock, App)
  /\ UNCHANGED <<daemonVars, app, spared, cli, agents, starts, crashes>>

StartAgent ==
  /\ app = "run" /\ on # Nobody /\ ~agents /\ agents' = TRUE
  /\ UNCHANGED <<daemonVars, conns, app, on, spared, cli, starts, crashes>>

AgentExits ==
  /\ agents /\ agents' = FALSE
  /\ UNCHANGED <<daemonVars, conns, app, on, spared, cli, starts, crashes>>

CliConnects ==
  /\ cli = Nobody /\ Live /\ cli' = sock /\ Join(sock, Cli)
  /\ Overlap \/ dpc[sock] = "serving"
  /\ UNCHANGED <<daemonVars, app, on, spared, agents, starts, crashes>>

CliLeaves ==
  /\ cli # Nobody /\ cli' = Nobody /\ Part(cli, Cli)
  /\ UNCHANGED <<daemonVars, app, on, spared, agents, starts, crashes>>

\* idle_shutdown_refusal: no live session, and the one connection that asks.
MayLeave(d) == ~agents /\ Cardinality(conns[d]) = 1

\* on_app_quit: daemon.shutdown_if_idle, then the client closes.
Quit ==
  /\ app = "run" /\ app' = "quitting"
  /\ IF on # Nobody /\ exit[on] = "no" /\ MayLeave(on)
     THEN exit' = [exit EXCEPT ![on] = "idle"] /\ tries' = [tries EXCEPT ![on] = IdleChecks]
     ELSE UNCHANGED <<exit, tries>>
  /\ UNCHANGED <<dpc, build, lock, sock, conns, on, spared, cli, agents, starts, crashes>>

QuitEnds ==
  /\ app = "quitting" /\ app' = "off" /\ on' = Nobody
  /\ IF on # Nobody THEN Part(on, App) ELSE UNCHANGED conns
  /\ UNCHANGED <<daemonVars, spared, cli, agents, starts, crashes>>

-----------------------------------------------------------------------------
(* The Engine.                                                             *)

\* Mutant: an Engine starts whoever has the lock.
BootAnyway(d) ==
  /\ dpc[d] = "boot" /\ dpc' = [dpc EXCEPT ![d] = "locked"] /\ lock' = d
  /\ UNCHANGED <<build, sock, exit, tries, conns, app, on, spared, cli, agents, starts, crashes>>

\* flock, not waiting: a second Engine leaves at once.
Boot(d) ==
  /\ dpc[d] = "boot"
  /\ Overlap \/ \A e \in Daemons : dpc[e] # "unlinked"
  /\ IF lock = Nobody THEN lock' = d /\ dpc' = [dpc EXCEPT ![d] = "locked"]
                      ELSE lock' = lock /\ dpc' = [dpc EXCEPT ![d] = "gone"]
  /\ UNCHANGED <<build, sock, exit, tries, conns, app, on, spared, cli, agents, starts, crashes>>

\* Mutant: bind leaves the file of a dead Engine where it is.
BindRefused(d) ==
  /\ dpc[d] = "locked"
  /\ IF sock # Nobody THEN dpc' = [dpc EXCEPT ![d] = "gone"] /\ lock' = Nobody /\ UNCHANGED sock
                      ELSE dpc' = [dpc EXCEPT ![d] = "serving"] /\ sock' = d /\ UNCHANGED lock
  /\ UNCHANGED <<build, exit, tries, conns, app, on, spared, cli, agents, starts, crashes>>

\* State is loaded, holders are adopted, then bind: a socket that answers is
\* left alone, the file of a dead Engine replaced.
Bind(d) ==
  /\ dpc[d] = "locked"
  /\ IF Live THEN dpc' = [dpc EXCEPT ![d] = "gone"] /\ lock' = Nobody /\ UNCHANGED sock
             ELSE dpc' = [dpc EXCEPT ![d] = "serving"] /\ sock' = d /\ UNCHANGED lock
  /\ UNCHANGED <<build, exit, tries, conns, app, on, spared, cli, agents, starts, crashes>>

\* The exit thread looks every 50 ms: it leaves when nobody is connected and
\* no session lives, and gives up when one does or the looks are used up.
IdleLook(d) ==
  /\ dpc[d] = "serving" /\ exit[d] = "idle"
  /\ \/ /\ conns[d] # {} /\ tries[d] > 1
        /\ tries' = [tries EXCEPT ![d] = @ - 1] /\ UNCHANGED <<dpc, exit>>
     \/ /\ IF conns[d] # {} THEN tries[d] <= 1 ELSE agents
        /\ exit' = [exit EXCEPT ![d] = "no"] /\ UNCHANGED <<dpc, tries>>
     \/ /\ conns[d] = {} /\ ~agents
        /\ dpc' = [dpc EXCEPT ![d] = "idle"] /\ UNCHANGED <<exit, tries>>
  /\ UNCHANGED <<build, lock, sock, conns, app, on, spared, cli, agents, starts, crashes>>

\* Masters, holder manager and sidecar are told; then remove_file, ...
Unlink(d) ==
  /\ dpc[d] = "idle" \/ (dpc[d] = "serving" /\ exit[d] = "told")
  /\ dpc' = [dpc EXCEPT ![d] = "unlinked"] /\ sock' = Nobody
  /\ UNCHANGED <<build, lock, exit, tries, conns, app, on, spared, cli, agents, starts, crashes>>

\* The connections of an Engine end with it; the lock is free.
Dies(d) ==
  /\ dpc' = [dpc EXCEPT ![d] = "gone"] /\ conns' = [conns EXCEPT ![d] = {}]
  /\ lock' = IF lock = d THEN Nobody ELSE lock
  /\ on' = IF on = d THEN Nobody ELSE on
  /\ cli' = IF cli = d THEN Nobody ELSE cli

\* ... and exit.
Exit(d) ==
  /\ dpc[d] = "unlinked" /\ Dies(d)
  /\ UNCHANGED <<build, sock, exit, tries, app, spared, agents, starts, crashes>>

Crash(d) ==
  /\ dpc[d] \in {"locked", "serving"} /\ crashes < MaxCrash /\ crashes' = crashes + 1
  /\ Dies(d)
  /\ UNCHANGED <<build, sock, exit, tries, app, spared, agents, starts>>

-----------------------------------------------------------------------------
AppSteps ==
  \/ ProbeOpens \/ ProbeAnswered \/ ProbeUnclear \/ ProbeFails
  \/ ProbeAgain \/ RetryAnswered \/ RetryFails \/ AskShutdown \/ Stopped
  \/ SpawnDetached \/ Connect \/ QuitEnds

Engine(d) == Boot(d) \/ Bind(d) \/ IdleLook(d) \/ Unlink(d) \/ Exit(d)

Next ==
  \/ AppSteps \/ AppStart \/ Quit \/ StartAgent \/ AgentExits
  \/ CliConnects \/ CliLeaves
  \/ \E d \in Daemons : Engine(d) \/ Crash(d)

Fairness == WF_vars(AppSteps) /\ \A d \in Daemons : WF_vars(Engine(d))

Spec == Init /\ [][Next]_vars /\ Fairness

-----------------------------------------------------------------------------
\* "a second daemon ... exits instead of stealing the live daemon's socket":
\* the Engine that serves has the lock and is the one at the socket.
ServesAlone ==
  \A d \in Daemons : dpc[d] \in {"serving", "idle"} => lock = d /\ sock = d

\* "only when doing so cannot strand a live Agent or interrupt another
\* client": an Engine that leaves by itself cuts nobody off.
IdleExitHarmless ==
  [][\A d \in Daemons : dpc[d] = "idle" /\ dpc'[d] = "unlinked" => conns[d] = {} /\ ~agents]_vars

\* The app talks to an Engine of its own build, or to one that it could not
\* compare or could not stop when it was started.
OwnBuild == on # Nobody => build[on] = "new" \/ spared = on

\* The app that starts gets its Engine, whatever it found, unless an Engine
\* crashes meanwhile.
AppServed ==
  \A k \in 0..MaxCrash :
    app = "start" /\ crashes = k ~> on # Nobody \/ app = "off" \/ crashes > k

=============================================================================
