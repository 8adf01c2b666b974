------------------------------ MODULE MCServices ------------------------------
(***************************************************************************)
(* The protocols around a session, for TLC: the app and the Engine that    *)
(* serves it (DaemonLifetime), the Engine's threads and the holder manager *)
(* (HolderManager), the self-update (UpdateInstall), the pull-request      *)
(* monitor (PrMonitor) and the first prompt of an agent (PromptInjection). *)
(* They share no state, so their product says nothing the parts do not: a  *)
(* behaviour plays one of them, and the others rest where they start.      *)
(***************************************************************************)
EXTENDS Naturals

CONSTANTS Launchers, Sessions, MaxMgr, MaxLaunch, LateWatchdog,
          MaxDaemon, MaxStarts, IdleChecks, Overlap, MaxCrash,
          Latest, MaxHelpers, MayKill, MayReopen, MayRepeat,
          Viewed, Pulls, MaxBatch, MaxMoves, MaxNews,
          MaxAttempts, Slow, HasProbe, MayAnswer, ReadsWorking

\* What the proofs need of them: counters count, and "none" stands for nobody.
ASSUME ManagerBounds ==
  /\ MaxMgr \in Nat /\ MaxLaunch \in Nat /\ MaxCrash \in Nat
  /\ "none" \notin Launchers /\ "none" \notin Sessions
ASSUME DaemonBounds ==
  MaxDaemon \in Nat \ {0} /\ MaxStarts \in Nat /\ MaxCrash \in Nat /\ IdleChecks \in Nat
ASSUME UpdateBounds == Latest \in Nat \ {0} /\ MaxHelpers \in Nat
ASSUME MonitorBounds == MaxNews \in Nat
ASSUME PromptBounds == MaxAttempts \in Nat

VARIABLES
  pc, req, shutting, active, looked, mgrSock, pidf, launchLock, lpc, want, accepted,
  alone, launches, engineCrashes,
  dpc, build, lock, sock, conns, exit, tries, app, on, spared, cli, agents, starts, crashes,
  feed, running, pid, service, target, backup, cache, helper,
  found, seen, conn, front, pending, teller, mon, forced, rest, order, known,
  shown, github, owed, moves, news,
  kind, mode, tty, held, sent, screen, moved, swallowed, exited, thread,
  scene         \* which of them is played

Manager == INSTANCE HolderManager
Daemon  == INSTANCE DaemonLifetime
Update  == INSTANCE UpdateInstall
Pr      == INSTANCE PrMonitor
Prompt  == INSTANCE PromptInjection

managerVars == <<pc, req, shutting, active, looked, mgrSock, pidf, launchLock, lpc, want,
                 accepted, alone, launches, engineCrashes>>
daemonVars  == <<dpc, build, lock, sock, conns, exit, tries, app, on, spared, cli, agents, starts,
                 crashes>>
updateVars  == <<feed, running, pid, service, target, backup, cache, helper>>
monitorVars == <<found, seen, conn, front, pending, teller, mon, forced, rest, order, known,
                 shown, github, owed, moves, news>>
promptVars  == <<kind, mode, tty, held, sent, screen, moved, swallowed, exited, thread>>
mcVars == <<managerVars, daemonVars, updateVars, monitorVars, promptVars, scene>>

\* Two sessions with a pull request in common.
MCPulls == [s \in Viewed |-> IF s = "s1" THEN {"u1"} ELSE {"u1", "u2"}]

MCInit ==
  /\ scene \in {"manager", "daemon", "update", "monitor", "prompt"}
  /\ Manager!Init /\ Daemon!Init /\ Update!Init /\ Pr!Init /\ Prompt!Init
  \* One way to rest.
  /\ scene # "daemon" => sock = 0 /\ ~agents
  /\ scene # "monitor" => order = <<"u1", "u2">>
  /\ scene # "prompt" => kind = "tui" /\ thread.at = "ready"

MCNext ==
  /\ UNCHANGED scene
  /\ \/ /\ scene = "manager" /\ Manager!Next
        /\ UNCHANGED <<daemonVars, updateVars, monitorVars, promptVars>>
     \/ /\ scene = "daemon" /\ Daemon!Next
        /\ UNCHANGED <<managerVars, updateVars, monitorVars, promptVars>>
     \/ /\ scene = "update" /\ Update!Next
        /\ UNCHANGED <<managerVars, daemonVars, monitorVars, promptVars>>
     \/ /\ scene = "monitor" /\ Pr!Next
        /\ UNCHANGED <<managerVars, daemonVars, updateVars, promptVars>>
     \/ /\ scene = "prompt" /\ Prompt!Next
        /\ UNCHANGED <<managerVars, daemonVars, updateVars, monitorVars>>

\* The fairness of each part, while it is the one that is played.
Fairness ==
  /\ \A l \in Launchers :
       WF_managerVars(scene = "manager" /\ (Manager!Launcher(l) \/ Manager!TimedOut(l)))
  /\ \A m \in Manager!Mgrs : WF_managerVars(scene = "manager" /\ Manager!Manager(m))
  /\ WF_daemonVars(scene = "daemon" /\ Daemon!AppSteps)
  /\ \A d \in Daemon!Daemons : WF_daemonVars(scene = "daemon" /\ Daemon!Engine(d))
  /\ \A h \in Update!Helpers : WF_updateVars(scene = "update" /\ Update!Script(h))
  /\ WF_monitorVars(scene = "monitor" /\ Pr!Monitor)
  /\ WF_monitorVars(scene = "monitor" /\ Pr!ActiveWakes)
  /\ \A s \in Viewed : WF_monitorVars(scene = "monitor" /\ Pr!Wakers(s))
  /\ \A u \in Pr!Urls : WF_monitorVars(scene = "monitor" /\ Pr!Clock(u))
  /\ WF_promptVars(scene = "prompt" /\ Prompt!Thread)
  /\ WF_promptVars(scene = "prompt" /\ Prompt!Read)
  /\ WF_promptVars(scene = "prompt" /\ Prompt!Paint)

MCSpec == MCInit /\ [][MCNext]_mcVars /\ Fairness

-----------------------------------------------------------------------------
(* The properties of the parts, each explained in its module.              *)

\* launcher.rs and manager.rs: no session has two holders, one that a launcher
\* was told is hosted stays hosted until its child exits, and
\* cleanup_control_files never takes a successor's socket away.
HostedOnce ==
  Manager!TypeOK /\ Manager!OneHolder /\ Manager!AcceptedIsHosted /\ Manager!EndpointKept

\* The Engine that serves has daemon.lock and is the one at the socket, and
\* the app talks to one of its own build, but for one it could not compare or stop.
OneEngine == Daemon!TypeOK /\ Daemon!ServesAlone /\ Daemon!OwnBuild

\* An app that starts gets its Engine.
AppServed == Daemon!AppServed

\* install.rs: the swap of the app's bundle is safe at each command of the
\* helper, even of one that is killed, and never happens under a running app.
UpdateInv == Update!UpdateInv

\* wake.rs: a wake of the pull-request monitor is not lost, wherever the sweep
\* is when it comes.
MonitorInv == Pr!MonitorInv

\* inject.rs: whatever the agent shows, discards and swallows, the first prompt
\* is submitted at most once, and never by a thread that gave up.
PromptInv == Prompt!PromptInv

\* The threads and processes that work unattended come to their end: a launch
\* returns, the app that was replaced is opened again, a session on screen comes
\* to show its pull requests as they are, an agent that takes input gets its
\* prompt.
HelpersFinish ==
  /\ Manager!LaunchReturns /\ Update!AppComesBack
  /\ Pr!RecordsCatchUp /\ Prompt!PromptDelivered

=============================================================================
