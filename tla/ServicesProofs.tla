---------------------------- MODULE ServicesProofs ----------------------------
(***************************************************************************)
(* The safety of the protocols around a session, for any number of         *)
(* launchers, sessions, Engines, helpers, pull requests and attempts: the  *)
(* self-update (UpdateSafe), the Engine's lifetime (EngineAlone,           *)
(* IdleExitSafe), the holder manager (ManagerSafe), the pull-request       *)
(* monitor (MonitorSafe), the first prompt of an agent (PromptSafe) and a  *)
(* remote session through broken Bridges (RemoteSafe).                     *)
(*                                                                         *)
(* Each is an induction of its own.  The invariant that carries it says    *)
(* where the protocol's pieces are at each of its steps; the property that *)
(* MCServices or RemoteSession states follows from it.                     *)
(***************************************************************************)
EXTENDS MCServices, RemoteSession, SequenceTheorems, TLAPS

(***************************************************************************)
(* The self-update.                                                        *)
(***************************************************************************)

UpdatePcs ==
  {"unborn", "wait", "clear", "aside", "copy", "copying", "discard", "undo", "restore", "open",
   "done", "killed"}

UpdateType ==
  /\ feed \in Update!Whole /\ running \in 0..Latest /\ pid \in Nat
  /\ target \in 0..Update!Torn /\ backup \in 0..Update!Torn /\ cache \in 0..Update!Torn
  /\ service \in [phase : {"idle", "uptodate", "available", "ready", "installing", "failed"},
                  pending : 0..Latest, staged : 0..Latest, skipped : 0..Latest]
  /\ helper \in [Update!Helpers -> [pc : UpdatePcs, pid : Nat, app : 0..Latest]]

\* What the service offers is newer than the app that runs, which is the one in place.
Offers ==
  running # 0 => /\ running = target
                 /\ service.pending # 0 => service.pending > running
                 /\ service.staged # 0 => service.staged > running

\* One helper works at a time; while the app still runs it waits for it.
Alone ==
  /\ \A g, h \in Update!Helpers : Update!Working(g) /\ Update!Working(h) => g = h
  /\ \A h \in Update!Helpers : Update!Working(h) /\ running # 0 =>
       helper[h].pc = "wait" /\ helper[h].pid = pid /\ service.phase = "installing"

\* Where the bundles are at each command.
Place ==
  \A h \in Update!Helpers :
    LET p == helper[h].pc IN
    /\ p \in {"wait", "clear", "aside"} => target \in Update!Whole /\ helper[h].app > target
    /\ p = "aside" => backup = 0
    /\ p \in {"copy", "copying"} => helper[h].app > backup
    /\ p \in {"copy", "copying", "undo", "restore"} => backup \in Update!Whole
    /\ p \in {"discard", "open"} => target \in Update!Whole

\* The invariant the update's induction carries.
UpdateIInv ==
  UpdateType /\ Offers /\ Alone /\ Place /\ Update!Recoverable /\ Update!NoHole

\* An app that has just been opened, with no helper, satisfies it.
LEMMA UpdateInit == Update!Init => UpdateIInv
BY UpdateBounds DEF Update!Init, UpdateIInv, UpdateType, Offers, Alone, Place, Update!Recoverable,
   Update!NoHole, Update!Whole, Update!Torn, Update!Helpers, Update!Fresh, Update!Working, UpdatePcs

\* A command of the script moves its helper on and leaves the others where they are.
LEMMA HelperMoves ==
  ASSUME UpdateType, NEW h \in Update!Helpers, NEW to \in UpdatePcs,
         helper' = [helper EXCEPT ![h].pc = to]
  PROVE  /\ helper' \in [Update!Helpers -> [pc : UpdatePcs, pid : Nat, app : 0..Latest]]
         /\ helper'[h].pc = to /\ helper'[h].pid = helper[h].pid /\ helper'[h].app = helper[h].app
         /\ \A g \in Update!Helpers : g # h => helper'[g] = helper[g]
BY DEF UpdateType

\* Each command of the helper's script (install.rs), and its being killed
\* between two of them, preserves the invariant.
LEMMA UpdateScript ==
  ASSUME UpdateIInv, NEW h \in Update!Helpers, Update!Script(h) \/ Update!Kill(h)
  PROVE  UpdateIInv'
<1> DEFINE Goes(to) ==
      /\ helper' \in [Update!Helpers -> [pc : UpdatePcs, pid : Nat, app : 0..Latest]]
      /\ helper'[h].pc = to /\ helper'[h].pid = helper[h].pid /\ helper'[h].app = helper[h].app
      /\ \A g \in Update!Helpers : g # h => helper'[g] = helper[g]
<1>1. ASSUME NEW from, NEW to \in UpdatePcs, Update!At(h, from, to) PROVE Goes(to)
  BY <1>1, HelperMoves DEF Update!At, UpdateIInv
<1> HIDE DEF UpdatePcs
<1> USE UpdateBounds DEF Update!Whole, Update!Torn, UpdateIInv, UpdateType, Alone, Place, Offers,
     Update!Recoverable, Update!NoHole, Update!Working, Update!Apart
<1>2. CASE Update!Wait(h)
  <2>1. Goes("clear") \/ Goes("done")
    BY <1>2, <1>1 DEF Update!Wait, Update!Exited, UpdatePcs
  <2> QED BY <1>2, <2>1 DEF Update!Wait, Update!Exited, Update!At
<1>3. CASE Update!ClearBackup(h)
  <2>1. Goes("aside")
    BY <1>3, <1>1 DEF Update!ClearBackup, UpdatePcs
  <2> QED BY <1>3, <2>1 DEF Update!ClearBackup, Update!At
<1>4. CASE Update!MoveAside(h)
  <2>1. Goes("copy") \/ Goes("done")
    BY <1>4, <1>1 DEF Update!MoveAside, UpdatePcs
  <2>2. CASE target' = 0
    <3>1. UpdateType' /\ Offers' /\ Alone'
      BY <1>4, <2>1, <2>2 DEF Update!MoveAside, Update!At
    <3>2. Place' /\ Update!Recoverable' /\ Update!NoHole'
      BY <1>4, <2>1, <2>2 DEF Update!MoveAside, Update!At
    <3> QED BY <3>1, <3>2
  <2>3. CASE target' # 0
    BY <1>4, <2>1, <2>3 DEF Update!MoveAside, Update!At
  <2> QED BY <2>2, <2>3
<1>5. CASE Update!Copy(h)
  <2>1. Goes("copying") \/ Goes("discard") \/ Goes("undo")
    BY <1>5, <1>1 DEF Update!Copy, UpdatePcs
  <2> QED BY <1>5, <2>1 DEF Update!Copy, Update!At
<1>6. CASE Update!Discard(h)
  <2>1. Goes("open")
    BY <1>6, <1>1 DEF Update!Discard, UpdatePcs
  <2> QED BY <1>6, <2>1 DEF Update!Discard, Update!At
<1>7. CASE Update!Undo(h)
  <2>1. Goes("restore")
    BY <1>7, <1>1 DEF Update!Undo, UpdatePcs
  <2> QED BY <1>7, <2>1 DEF Update!Undo, Update!At
<1>8. CASE Update!Restore(h)
  <2>1. Goes("open")
    BY <1>8, <1>1 DEF Update!Restore, UpdatePcs
  <2> QED BY <1>8, <2>1 DEF Update!Restore, Update!At
<1>9. CASE Update!Open(h)
  <2>1. Goes("done")
    BY <1>9, <1>1 DEF Update!Open, Update!Start, Update!Fresh, UpdatePcs
  <2> QED BY <1>9, <2>1 DEF Update!Open, Update!Start, Update!Fresh, Update!At
<1>10. CASE Update!Kill(h)
  <2>1. Goes("killed")
    BY <1>10, HelperMoves DEF Update!Kill, UpdatePcs
  <2> QED BY <1>10, <2>1 DEF Update!Kill, Update!At
<1> QED BY <1>2, <1>3, <1>4, <1>5, <1>6, <1>7, <1>8, <1>9, <1>10 DEF Update!Script

\* So does every step of the update service, of the user and of the feed.
LEMMA UpdateNext ==
  ASSUME ~MayReopen, ~MayRepeat, UpdateIInv, [Update!Next]_(Update!updateVars)
  PROVE  UpdateIInv'
<1> USE UpdateBounds DEF UpdateIInv, UpdateType, Offers, Alone, Place, Update!Recoverable,
     Update!NoHole, Update!Whole, Update!Torn, Update!Helpers, Update!Fresh, Update!Working,
     UpdatePcs, Update!Serve, Update!Phase
<1>1. CASE Update!Check
  <2>1. /\ service' \in [phase : {"uptodate", "available", "ready", "failed"},
                          pending : 0..Latest, staged : {service.staged}, skipped : {service.skipped}]
        /\ service'.pending \in {service.pending, 0} \/ service'.pending > running
        /\ service.phase # "installing"
        /\ UNCHANGED <<feed, running, pid, target, backup, cache, helper>>
    <3>1. CASE \/ service' = [service EXCEPT !.phase = "ready"]
               \/ service' = [service EXCEPT !.phase = "failed"]
      BY <1>1, <3>1 DEF Update!Check
    <3>2. CASE service' = [[service EXCEPT !.phase = "uptodate"] EXCEPT !.pending = 0]
      BY <1>1, <3>2 DEF Update!Check
    <3>3. CASE \E v \in Update!Eligible :
                 service' = [[service EXCEPT !.phase = "available"] EXCEPT !.pending = v]
      <4>1. PICK v \in Update!Eligible :
              service' = [[service EXCEPT !.phase = "available"] EXCEPT !.pending = v]
        BY <3>3
      <4>2. v \in 0..Latest /\ v > running
        BY DEF Update!Eligible
      <4>3. service' = [phase |-> "available", pending |-> v, staged |-> service.staged,
                        skipped |-> service.skipped]
        BY <4>1
      <4> QED BY <1>1, <4>2, <4>3 DEF Update!Check
    <3> QED BY <1>1, <3>1, <3>2, <3>3 DEF Update!Check
  <2> QED BY <2>1
<1>2. CASE Update!Download
  <2>1. /\ service' \in [phase : {"ready", "failed"}, pending : {service.pending},
                          staged : {service.staged, service.pending}, skipped : {service.skipped}]
        /\ service.phase = "available" /\ service.pending # 0 /\ cache' \in 0..Update!Torn
        /\ UNCHANGED <<feed, running, pid, target, backup, helper>>
    <3>1. CASE service' = [[service EXCEPT !.phase = "ready"] EXCEPT !.staged = service.pending]
      <4>1. service' = [phase |-> "ready", pending |-> service.pending, staged |-> service.pending,
                        skipped |-> service.skipped]
        BY <3>1
      <4> QED BY <1>2, <4>1 DEF Update!Download
    <3>2. CASE service' = [service EXCEPT !.phase = "failed"]
      <4>1. service' = [phase |-> "failed", pending |-> service.pending, staged |-> service.staged,
                        skipped |-> service.skipped]
        BY <3>2
      <4>2. cache' \in 0..Update!Torn /\ service.phase = "available" /\ service.pending # 0
        BY <1>2 DEF Update!Download
      <4> QED BY <1>2, <4>1, <4>2 DEF Update!Download
    <3> QED BY <1>2, <3>1, <3>2 DEF Update!Download
  <2>2. UpdateType'
    BY <2>1
  <2>3. Offers' /\ Alone' /\ Place' /\ Update!Recoverable' /\ Update!NoHole'
    BY <2>1
  <2> QED BY <2>2, <2>3
<1>3. CASE Update!Skip
  <2>0. PICK v \in 0..Latest :
          service' = [phase |-> "idle", pending |-> 0, staged |-> 0, skipped |-> v]
    BY <1>3 DEF Update!Skip
  <2>1. /\ service.phase \in {"available", "ready"}
        /\ UNCHANGED <<feed, running, pid, target, backup, cache, helper>>
    BY <1>3 DEF Update!Skip
  <2>2. UpdateType' /\ Offers'
    BY <2>0, <2>1
  <2>3. Alone' /\ Place' /\ Update!Recoverable' /\ Update!NoHole'
    BY <2>1
  <2> QED BY <2>2, <2>3
<1>4. CASE Update!Dismiss
  BY <1>4 DEF Update!Dismiss
<1>5. CASE Update!Install
  <2>1. CASE service' = Update!Phase("failed") /\ UNCHANGED helper
    BY <1>5, <2>1 DEF Update!Install
  <2>2. ASSUME NEW h \in Update!Helpers, helper[h].pc = "unborn",
               helper' = [helper EXCEPT ![h] = [pc |-> "wait", pid |-> pid, app |-> service.staged]],
               service' = Update!Phase("installing")
        PROVE  UpdateIInv'
    <3>1. /\ UNCHANGED <<feed, running, pid, target, backup, cache>>
          /\ running # 0 /\ service.staged # 0 /\ service.phase = "ready"
      BY <1>5 DEF Update!Install
    <3>2. UpdateType'
      BY <2>2, <3>1
    <3>3. Offers'
      BY <2>2, <3>1
    <3>4. Alone'
      BY <2>2, <3>1
    <3>5. Place' /\ Update!Recoverable' /\ Update!NoHole'
      BY <2>2, <3>1
    <3> QED BY <3>2, <3>3, <3>4, <3>5
  <2> QED BY <1>5, <2>1, <2>2 DEF Update!Install
<1>6. CASE Update!Quit
  BY <1>6 DEF Update!Quit
<1>7. CASE Update!Reopen
  BY <1>7 DEF Update!Reopen, Update!Start
<1>8. CASE Update!Release
  BY <1>8 DEF Update!Release
<1>9. ASSUME NEW h \in Update!Helpers, Update!Script(h) \/ Update!Kill(h) PROVE UpdateIInv'
  BY <1>9, UpdateScript
<1>11. CASE UNCHANGED Update!updateVars
  BY <1>11 DEF Update!updateVars
<1> QED BY <1>1, <1>2, <1>3, <1>4, <1>5, <1>6, <1>7, <1>8, <1>9, <1>11 DEF Update!Next

\* updates.rs and install.rs: at every command of the helper, killed or not, a
\* whole app is in place or can be put back, nothing is moved under a running
\* app, and no older app replaces a newer one; as long as the user does not open
\* the app while it is being replaced, and Install is not asked for twice.
THEOREM UpdateSafe == ASSUME ~MayReopen, ~MayRepeat PROVE Update!Spec => []UpdateInv
<1>1. UpdateIInv => UpdateInv
  BY UpdateBounds DEF UpdateIInv, UpdateType, Offers, Alone, Place, UpdateInv, Update!UpdateInv,
     Update!TypeOK, Update!NotUnderTheApp, Update!NoDowngrade, Update!Working, Update!Torn
<1> QED BY <1>1, UpdateInit, UpdateNext, PTL DEF Update!Spec

(***************************************************************************)
(* The Engine's lifetime.                                                  *)
(***************************************************************************)

DaemonType ==
  /\ dpc \in [Daemon!Daemons -> {"unborn", "boot", "locked", "serving", "idle", "unlinked", "gone"}]
  /\ build \in [Daemon!Daemons -> {"old", "new"}]
  /\ lock \in 0..MaxDaemon /\ sock \in 0..MaxDaemon /\ on \in 0..MaxDaemon /\ cli \in 0..MaxDaemon
  /\ spared \in 0..MaxDaemon
  /\ conns \in [Daemon!Daemons -> SUBSET {"app", "probe", "cli"}]
  /\ exit \in [Daemon!Daemons -> {"no", "told", "idle"}] /\ tries \in [Daemon!Daemons -> 0..IdleChecks]
  /\ app \in {"off", "start", "probing", "again", "retrying", "stop", "stopping", "spawn", "run",
              "quitting"}
  /\ agents \in BOOLEAN /\ starts \in 0..MaxStarts /\ crashes \in 0..MaxCrash

\* The Engine the app's client is connected to counts it, and only an app that is
\* past its start has one.
Joined == on # Daemon!Nobody => Daemon!App \in conns[on] /\ app \in {"run", "quitting"}

\* An Engine that got past its lock file has the lock until it dies.
LockHeld ==
  \A d \in Daemon!Daemons : dpc[d] \in {"locked", "serving", "idle", "unlinked"} => lock = d

\* Only an Engine that has bound its socket has connections, and one that is
\* not that far runs the app's build and was told nothing.
Bound ==
  \A d \in Daemon!Daemons :
    /\ conns[d] # {} => dpc[d] \in {"serving", "idle", "unlinked"}
    /\ dpc[d] \in {"unborn", "boot", "locked"} => build[d] = "new" /\ exit[d] = "no"

\* While an Engine of another build serves, the app is not past replacing it,
\* and its probe is there to see; or it is the one this start has let be.
OldReplaced ==
  \A d \in Daemon!Daemons : build[d] = "old" /\ dpc[d] \in {"serving", "idle"} =>
    \/ spared = d
    \/ /\ app \in {"off", "start", "probing", "again", "retrying", "stop", "stopping"}
       /\ app \in {"probing", "retrying"} => Daemon!Probe \in conns[d]

\* The invariant the induction over the Engine's life carries.
DaemonIInv ==
  /\ DaemonType /\ LockHeld /\ Bound /\ Joined /\ OldReplaced
  /\ Daemon!ServesAlone /\ Daemon!OwnBuild

\* It holds before the app is started, whatever Engine is left from before.
LEMMA DaemonInit == Daemon!Init => DaemonIInv
BY DaemonBounds DEF Daemon!Init, DaemonIInv, DaemonType, LockHeld, Bound, Joined, OldReplaced,
   Daemon!ServesAlone, Daemon!OwnBuild, Daemon!Daemons, Daemon!Nobody

\* Every step of the app, of a command-line client and of an Engine preserves it.
LEMMA DaemonNext ==
  ASSUME DaemonIInv, [Daemon!Next]_(Daemon!vars)
  PROVE  DaemonIInv'
<1> USE DaemonBounds DEF DaemonIInv, DaemonType, LockHeld, Bound, Joined, OldReplaced,
     Daemon!ServesAlone, Daemon!OwnBuild, Daemon!Daemons, Daemon!Nobody, Daemon!daemonVars,
     Daemon!Probe, Daemon!App, Daemon!Cli
<1>1. CASE Daemon!AppStart
  BY <1>1 DEF Daemon!AppStart
<1>2. CASE Daemon!ProbeOpens
  BY <1>2 DEF Daemon!ProbeOpens, Daemon!Live, Daemon!Join, Daemon!Part
<1>3. CASE Daemon!ProbeAnswered
  BY <1>3 DEF Daemon!ProbeAnswered, Daemon!Live, Daemon!Join, Daemon!Part
<1>4. CASE Daemon!ProbeFails \/ Daemon!RetryFails
  BY <1>4 DEF Daemon!ProbeFails, Daemon!RetryFails
<1>22. CASE Daemon!ProbeUnclear
  BY <1>22 DEF Daemon!ProbeUnclear, Daemon!Live, Daemon!Join, Daemon!Part
<1>23. CASE Daemon!ProbeAgain
  BY <1>23 DEF Daemon!ProbeAgain, Daemon!Live, Daemon!Join, Daemon!Part
<1>24. CASE Daemon!RetryAnswered
  BY <1>24 DEF Daemon!RetryAnswered, Daemon!Live, Daemon!Join, Daemon!Part
<1>5. CASE Daemon!AskShutdown
  BY <1>5 DEF Daemon!AskShutdown, Daemon!Live, Daemon!Join, Daemon!Part
<1>6. CASE Daemon!Stopped
  BY <1>6 DEF Daemon!Stopped, Daemon!Live, Daemon!Join, Daemon!Part
<1>7. CASE Daemon!SpawnDetached
  BY <1>7 DEF Daemon!SpawnDetached, Daemon!Live, Daemon!Join, Daemon!Part
<1>8. CASE Daemon!Connect
  BY <1>8 DEF Daemon!Connect, Daemon!Live, Daemon!Join, Daemon!Part
<1>9. CASE Daemon!StartAgent
  BY <1>9 DEF Daemon!StartAgent, Daemon!Live, Daemon!Join, Daemon!Part
<1>10. CASE Daemon!AgentExits
  BY <1>10 DEF Daemon!AgentExits, Daemon!Live, Daemon!Join, Daemon!Part
<1>11. CASE Daemon!CliConnects
  BY <1>11 DEF Daemon!CliConnects, Daemon!Live, Daemon!Join, Daemon!Part
<1>12. CASE Daemon!CliLeaves
  BY <1>12 DEF Daemon!CliLeaves, Daemon!Live, Daemon!Join, Daemon!Part
<1>13. CASE Daemon!Quit
  <2>1. /\ app = "run" /\ app' = "quitting"
        /\ UNCHANGED <<dpc, build, lock, sock, conns, on, spared, cli, agents, starts, crashes>>
    BY <1>13 DEF Daemon!Quit
  <2>2. /\ exit' \in [Daemon!Daemons -> {"no", "told", "idle"}]
        /\ tries' \in [Daemon!Daemons -> 0..IdleChecks]
        /\ \A d \in Daemon!Daemons : exit'[d] = exit[d] \/ d = on
    <3>1. CASE exit' = [exit EXCEPT ![on] = "idle"] /\ tries' = [tries EXCEPT ![on] = IdleChecks]
      <4>1. IdleChecks \in 0..IdleChecks
        OBVIOUS
      <4> QED BY <3>1, <4>1
    <3>2. CASE UNCHANGED <<exit, tries>>
      BY <3>2
    <3> QED BY <1>13, <3>1, <3>2 DEF Daemon!Quit
  <2>3. Bound'
    BY <2>1, <2>2
  <2> QED BY <2>1, <2>2, <2>3
<1>14. CASE Daemon!QuitEnds
  <2>1. CASE on = 0
    BY <1>14, <2>1 DEF Daemon!QuitEnds
  <2>2. CASE on \in 1..MaxDaemon
    <3>1. /\ conns' \in [Daemon!Daemons -> SUBSET {"app", "probe", "cli"}]
          /\ \A d \in Daemon!Daemons : conns'[d] = conns[d] \ (IF d = on THEN {"app"} ELSE {})
      BY <1>14, <2>2 DEF Daemon!QuitEnds, Daemon!Part
    <3> QED BY <1>14, <3>1 DEF Daemon!QuitEnds
  <2>3. on = 0 \/ on \in 1..MaxDaemon
    OBVIOUS
  <2> HIDE DEF DaemonIInv
  <2> QED BY <2>1, <2>2, <2>3
<1>15. ASSUME NEW d \in Daemon!Daemons, Daemon!Boot(d) PROVE DaemonIInv'
  <2> DEFINE to == IF lock = 0 THEN "locked" ELSE "gone"
  <2>1. /\ dpc[d] = "boot" /\ dpc' = [dpc EXCEPT ![d] = to] /\ lock' = IF lock = 0 THEN d ELSE lock
        /\ UNCHANGED <<build, sock, exit, tries, conns, app, on, spared, cli, agents, starts, crashes>>
    BY <1>15 DEF Daemon!Boot
  <2>2. DaemonType' /\ dpc'[d] = to /\ \A e \in Daemon!Daemons : e # d => dpc'[e] = dpc[e]
    BY <2>1
  <2>3. LockHeld' /\ Bound' /\ Joined'
    BY <2>1, <2>2
  <2>4. OldReplaced' /\ Daemon!ServesAlone' /\ Daemon!OwnBuild'
    BY <2>1, <2>2
  <2> QED BY <2>2, <2>3, <2>4
<1>16. ASSUME NEW d \in Daemon!Daemons, Daemon!Bind(d) PROVE DaemonIInv'
  <2>1. ~Daemon!Live
    BY <1>16 DEF Daemon!Bind, Daemon!Live
  <2>2. /\ dpc[d] = "locked" /\ dpc' = [dpc EXCEPT ![d] = "serving"] /\ sock' = d
        /\ UNCHANGED <<build, lock, exit, tries, conns, app, on, spared, cli, agents, starts, crashes>>
    BY <1>16, <2>1 DEF Daemon!Bind
  <2>3. DaemonType' /\ dpc'[d] = "serving" /\ \A e \in Daemon!Daemons : e # d => dpc'[e] = dpc[e]
    BY <2>2
  <2>4. LockHeld' /\ Bound' /\ Joined'
    BY <2>2, <2>3
  <2>5. OldReplaced' /\ Daemon!ServesAlone' /\ Daemon!OwnBuild'
    BY <2>2, <2>3
  <2> QED BY <2>3, <2>4, <2>5
<1>17. ASSUME NEW d \in Daemon!Daemons, Daemon!IdleLook(d) PROVE DaemonIInv'
  <2>1. CASE tries[d] > 1 /\ tries' = [tries EXCEPT ![d] = @ - 1] /\ UNCHANGED <<dpc, exit>>
    BY <1>17, <2>1 DEF Daemon!IdleLook
  <2>3. CASE exit' = [exit EXCEPT ![d] = "no"] /\ UNCHANGED <<dpc, tries>>
    BY <1>17, <2>3 DEF Daemon!IdleLook
  <2>2. CASE conns[d] = {} /\ ~agents /\ dpc' = [dpc EXCEPT ![d] = "idle"] /\ UNCHANGED <<exit, tries>>
    BY <1>17, <2>2 DEF Daemon!IdleLook
  <2> QED BY <1>17, <2>1, <2>2, <2>3 DEF Daemon!IdleLook
<1>18. ASSUME NEW d \in Daemon!Daemons, Daemon!Unlink(d) PROVE DaemonIInv'
  BY <1>18 DEF Daemon!Unlink, Daemon!Live, Daemon!Dies
<1>19. ASSUME NEW d \in Daemon!Daemons, Daemon!Exit(d) PROVE DaemonIInv'
  BY <1>19 DEF Daemon!Exit, Daemon!Live, Daemon!Dies
<1>20. ASSUME NEW d \in Daemon!Daemons, Daemon!Crash(d) PROVE DaemonIInv'
  BY <1>20 DEF Daemon!Crash, Daemon!Live, Daemon!Dies
<1>21. CASE UNCHANGED Daemon!vars
  BY <1>21 DEF Daemon!vars
<1> QED BY <1>1, <1>2, <1>3, <1>4, <1>5, <1>6, <1>7, <1>8, <1>9, <1>10, <1>11, <1>12, <1>13, <1>14,
     <1>15, <1>16, <1>17, <1>18, <1>19, <1>20, <1>21, <1>22, <1>23, <1>24
   DEF Daemon!Next, Daemon!AppSteps, Daemon!Engine

\* control/runtime.rs and daemon_launch.rs: whoever crashes, leaves or is
\* replaced, one Engine at a time serves, it has daemon.lock and the socket, and
\* the app talks to one of its own build, unless its probe could not tell or the
\* Engine did not make room in time.
THEOREM EngineAlone == Daemon!Spec => []OneEngine
<1>1. DaemonIInv => OneEngine
  BY DaemonBounds DEF DaemonIInv, DaemonType, Daemon!TypeOK, Daemon!Daemons, Daemon!Nobody,
     Daemon!App, Daemon!Probe, Daemon!Cli, OneEngine
<1> QED BY <1>1, DaemonInit, DaemonNext, PTL DEF Daemon!Spec

(***************************************************************************)
(* The holder manager and its launchers.                                   *)
(***************************************************************************)

\* The types, and that who asks and who is asked has a session in hand.
ManagerType ==
  /\ Manager!TypeOK
  /\ \A m \in Manager!Mgrs : pc[m] = "check" => req[m] \in Sessions
  /\ \A l \in Launchers : lpc[l] # "idle" => want[l] \in Sessions

\* The launch lock is with the launcher that is past it.
LockOwner ==
  \A l \in Launchers : lpc[l] \in {"ping", "wait", "ask", "asked", "retry"} => launchLock = l

\* A manager on its way out hosts nothing, so the process ends nobody's session.
LeavesEmpty ==
  \A m \in Manager!Mgrs :
    /\ looked[m] \/ shutting[m] => active[m] = {}
    /\ pc[m] \in {"left", "gone"} => shutting[m]
    /\ pc[m] \in {"unborn", "starting", "bound"} => ~shutting[m] /\ ~looked[m]

\* While no manager starts without a launcher that waits for it with the lock, ...
Awaited ==
  \A m \in Manager!Mgrs : pc[m] \in {"starting", "bound"} =>
    \E l \in Launchers : lpc[l] \in {"wait", "retry"}

\* ... one that starts is the only one that is not leaving, ...
StartsAlone ==
  \A m, k \in Manager!Mgrs : pc[m] = "starting" =>
    /\ pc[k] = "starting" => m = k
    /\ pc[k] \in {"bound", "accept", "check"} => shutting[k]

\* ... and the control files show the one that serves.
FilesShow ==
  \A m \in Manager!Mgrs : ~shutting[m] =>
    /\ pc[m] \in {"bound", "accept", "check"} => mgrSock = m
    /\ pc[m] \in {"accept", "check"} => pidf = m

\* The invariant the managers' induction carries.
ManagerIInv ==
  /\ ManagerType /\ LockOwner /\ LeavesEmpty /\ Manager!OneHolder /\ Manager!AcceptedIsHosted
  /\ ~alone => Awaited /\ StartsAlone /\ FilesShow

\* No manager runs and nobody launches: it holds.
LEMMA ManagerInit == Manager!Init => ManagerIInv
<1> SUFFICES ASSUME Manager!Init PROVE ManagerIInv
  OBVIOUS
<1>1. ManagerType
  <2>1. /\ shutting \in [Manager!Mgrs -> BOOLEAN] /\ looked \in [Manager!Mgrs -> BOOLEAN]
        /\ alone \in BOOLEAN
    BY Zenon DEF Manager!Init
  <2> QED BY <2>1, ManagerBounds DEF Manager!Init, ManagerType, Manager!TypeOK, Manager!Mgrs,
                                    Manager!Nobody, Manager!None
<1>2. LeavesEmpty /\ Manager!OneHolder /\ Manager!AcceptedIsHosted
  BY DEF Manager!Init, LeavesEmpty, Manager!OneHolder, Manager!AcceptedIsHosted
<1>3. LockOwner /\ Awaited /\ StartsAlone /\ FilesShow
  BY SMTT(30) DEF Manager!Init, LockOwner, Awaited, StartsAlone, FilesShow
<1> QED BY <1>1, <1>2, <1>3 DEF ManagerIInv

\* Every step of a launcher, of a manager's threads and of a child preserves it.
LEMMA ManagerNext ==
  ASSUME ~LateWatchdog, ManagerIInv, [Manager!Next]_(Manager!vars)
  PROVE  ManagerIInv'
<1> USE ManagerBounds DEF ManagerIInv, ManagerType, Manager!TypeOK, LockOwner, LeavesEmpty,
     Manager!OneHolder, Manager!AcceptedIsHosted, Manager!Hosted, Awaited, StartsAlone, FilesShow,
     Manager!Mgrs, Manager!Nobody, Manager!None, Manager!mgrVars, Manager!files, Manager!runVars,
     Manager!launcherVars
<1>1. ASSUME NEW l \in Launchers, Manager!Lock(l) PROVE ManagerIInv'
  BY <1>1 DEF Manager!Lock, Manager!LauncherAt
<1>2. ASSUME NEW l \in Launchers, Manager!PingAlive(l) PROVE ManagerIInv'
  BY <1>2 DEF Manager!PingAlive, Manager!LauncherAt, Manager!Serving
<1>3. ASSUME NEW l \in Launchers, Manager!PingDead(l) PROVE ManagerIInv'
  <2>1. PICK m \in Manager!Mgrs : pc[m] = "unborn" /\ pc' = [pc EXCEPT ![m] = "starting"]
    BY <1>3 DEF Manager!PingDead, Manager!SpawnManager, Manager!Unborn
  <2>2. ~alone => \A k \in Manager!Mgrs :
          pc[k] \notin {"starting", "bound"} /\ (pc[k] \in {"accept", "check"} => shutting[k])
    BY <1>3 DEF Manager!PingDead, Manager!Serving
  <2>3. /\ lpc' = [lpc EXCEPT ![l] = "wait"] /\ lpc[l] = "ping"
        /\ UNCHANGED <<req, shutting, active, looked, mgrSock, pidf, launchLock, want,
                        accepted, alone, launches, engineCrashes>>
    BY <1>3 DEF Manager!PingDead, Manager!LauncherAt
  <2> QED BY <2>1, <2>2, <2>3
<1>4. ASSUME NEW l \in Launchers, Manager!Ask(l) PROVE ManagerIInv'
  BY <1>4 DEF Manager!Ask, Manager!LauncherAt, Manager!Serving
<1>5. ASSUME NEW l \in Launchers, Manager!AskDead(l) PROVE ManagerIInv'
  <2>1. PICK m \in Manager!Mgrs : pc[m] = "unborn" /\ pc' = [pc EXCEPT ![m] = "starting"]
    BY <1>5 DEF Manager!AskDead, Manager!SpawnManager, Manager!Unborn
  <2>2. ~alone => \A k \in Manager!Mgrs :
          pc[k] \notin {"starting", "bound"} /\ (pc[k] \in {"accept", "check"} => shutting[k])
    BY <1>5 DEF Manager!AskDead, Manager!Serving
  <2>3. /\ lpc' = [lpc EXCEPT ![l] = "retry"] /\ lpc[l] = "ask"
        /\ UNCHANGED <<req, shutting, active, looked, mgrSock, pidf, launchLock, want,
                        accepted, alone, launches, engineCrashes>>
    BY <1>5 DEF Manager!AskDead, Manager!LauncherAt
  <2> QED BY <2>1, <2>2, <2>3
<1>6. ASSUME NEW l \in Launchers, Manager!SpawnFails(l) PROVE ManagerIInv'
  <2>1. /\ lpc[l] \in {"ping", "ask"} /\ lpc' = [lpc EXCEPT ![l] = "idle"]
        /\ launchLock' = IF launchLock = l THEN Manager!None ELSE launchLock
        /\ want' = [want EXCEPT ![l] = Manager!None]
        /\ UNCHANGED <<Manager!mgrVars, Manager!files, accepted, Manager!runVars>>
    BY <1>6 DEF Manager!SpawnFails, Manager!LauncherAt, Manager!Unlock
  <2>2. ManagerType'
    BY <2>1
  <2>3. LockOwner' /\ (~alone' => Awaited')
    BY <2>1
  <2>4. LeavesEmpty' /\ Manager!OneHolder' /\ Manager!AcceptedIsHosted'
    BY <2>1
  <2>5. ~alone' => StartsAlone' /\ FilesShow'
    BY <2>1
  <2> QED BY <2>2, <2>3, <2>4, <2>5
<1>7. ASSUME NEW l \in Launchers, Manager!Answered(l) PROVE ManagerIInv'
  BY <1>7 DEF Manager!Answered, Manager!LauncherAt, Manager!Unlock
<1>8. ASSUME NEW l \in Launchers, Manager!TimedOut(l) PROVE ManagerIInv'
  <2>1. /\ lpc' = [lpc EXCEPT ![l] = "idle"] /\ alone' = TRUE
        /\ launchLock' = IF launchLock = l THEN Manager!None ELSE launchLock
        /\ want' = [want EXCEPT ![l] = Manager!None]
        /\ UNCHANGED <<Manager!mgrVars, Manager!files, accepted, launches, engineCrashes>>
    BY <1>8 DEF Manager!TimedOut, Manager!LauncherAt, Manager!Unlock
  <2>2. ManagerType'
    BY <2>1
  <2>3. LockOwner'
    BY <2>1
  <2> QED BY <2>1, <2>2, <2>3
<1>9. ASSUME NEW l \in Launchers, NEW s \in Sessions, Manager!Launch(l, s) PROVE ManagerIInv'
  <2>1. /\ lpc[l] = "idle" /\ lpc' = [lpc EXCEPT ![l] = "lock"] /\ want' = [want EXCEPT ![l] = s]
        /\ launches < MaxLaunch /\ launches' = launches + 1
        /\ UNCHANGED <<Manager!mgrVars, Manager!files, launchLock, accepted, alone, engineCrashes>>
    BY <1>9 DEF Manager!Launch, Manager!LauncherAt
  <2>2. ManagerType'
    BY <2>1
  <2>3. LockOwner' /\ (~alone' => Awaited' /\ StartsAlone' /\ FilesShow')
    BY <2>1
  <2>4. LeavesEmpty' /\ Manager!OneHolder' /\ Manager!AcceptedIsHosted'
    BY <2>1
  <2> QED BY <2>2, <2>3, <2>4
<1>10. ASSUME NEW m \in Manager!Mgrs, Manager!Bind(m) PROVE ManagerIInv'
  BY <1>10 DEF Manager!Bind
<1>11. ASSUME NEW m \in Manager!Mgrs, Manager!WritePid(m) PROVE ManagerIInv'
  BY <1>11 DEF Manager!WritePid
<1>12. ASSUME NEW m \in Manager!Mgrs, Manager!Host(m) PROVE ManagerIInv'
  BY <1>12 DEF Manager!Host
<1>13. ASSUME NEW m \in Manager!Mgrs, Manager!StopListener(m) PROVE ManagerIInv'
  BY <1>13 DEF Manager!StopListener
<1>14. ASSUME NEW m \in Manager!Mgrs, Manager!Leave(m) PROVE ManagerIInv'
  BY <1>14 DEF Manager!Leave
<1>15. ASSUME NEW m \in Manager!Mgrs, Manager!Cleanup(m) PROVE ManagerIInv'
  <2>1. /\ pc[m] = "left" /\ pc' = [pc EXCEPT ![m] = "gone"] /\ active' = [active EXCEPT ![m] = {}]
        /\ IF pidf = m THEN mgrSock' = 0 /\ pidf' = 0 ELSE UNCHANGED <<mgrSock, pidf>>
        /\ UNCHANGED <<req, shutting, looked, Manager!launcherVars>>
    BY <1>15 DEF Manager!Cleanup
  <2>2. ManagerType'
    BY <2>1
  <2>3. LockOwner' /\ LeavesEmpty' /\ Manager!OneHolder' /\ Manager!AcceptedIsHosted'
    BY <2>1
  <2>4. ~alone' => Awaited' /\ StartsAlone'
    BY <2>1
  <2>5. ~alone => \A k \in Manager!Mgrs : pc[k] # "bound"
    BY <1>15 DEF Manager!Cleanup
  <2>6. ~alone' => FilesShow'
    BY <2>1, <2>5
  <2> QED BY <2>2, <2>3, <2>4, <2>6
<1>16. ASSUME NEW m \in Manager!Mgrs, Manager!WatchIdle(m) PROVE ManagerIInv'
  BY <1>16 DEF Manager!WatchIdle
<1>17. ASSUME NEW m \in Manager!Mgrs, Manager!ShutdownIfIdle(m) PROVE ManagerIInv'
  BY <1>17 DEF Manager!ShutdownIfIdle, Manager!Serving
<1>18. ASSUME NEW m \in Manager!Mgrs, NEW s \in Sessions, Manager!ChildExits(m, s) PROVE ManagerIInv'
  BY <1>18 DEF Manager!ChildExits
<1>19. CASE Manager!DaemonCrash
  BY <1>19 DEF Manager!DaemonCrash
<1>20. CASE UNCHANGED Manager!vars
  BY <1>20 DEF Manager!vars
<1> QED BY <1>1, <1>2, <1>3, <1>4, <1>5, <1>6, <1>7, <1>8, <1>9, <1>10, <1>11, <1>12, <1>13, <1>14,
     <1>15, <1>16, <1>17, <1>18, <1>19, <1>20 DEF Manager!Next, Manager!Launcher, Manager!Manager

\* launcher.rs and manager.rs: however launches, idle exits, timeouts and crashes
\* of the Engine interleave, no session has two holders, one that was reported
\* hosted stays hosted until its child exits, and no manager takes away its
\* successor's socket; as long as no request is served between the last look of a
\* manager's watchdog and its stop.
THEOREM ManagerSafe == ASSUME ~LateWatchdog PROVE Manager!Spec => []HostedOnce
<1>1. ManagerIInv => HostedOnce
  BY DEF ManagerIInv, ManagerType, FilesShow, HostedOnce, Manager!EndpointKept
<1> QED BY <1>1, ManagerInit, ManagerNext, PTL DEF Manager!Spec

(***************************************************************************)
(* The pull-request monitor.                                               *)
(***************************************************************************)

\* A pending wake.
WakeType == [reconcile : BOOLEAN, foreground : BOOLEAN, sessions : SUBSET Viewed]

\* What the monitor's sweep carries; its batch and the answer it waits for only
\* matter to the property through the URLs asked about.
SweepType ==
  [at : {"wait", "look", "fetch", "asked", "apply"}, zero : {mon.zero}, took : WakeType,
   wanted : [Viewed -> SUBSET Pr!Urls], targets : SUBSET Pr!Urls, batch : {mon.batch},
   asked : {mon.asked}]

\* The types.
MonitorType ==
  /\ found \in [Viewed -> SUBSET Pr!Urls] /\ seen \subseteq Viewed /\ front \in BOOLEAN
  /\ conn \in [Viewed -> {"out", "marked", "woken", "in"}]
  /\ pending \in WakeType /\ teller \subseteq Viewed \cup {"app"}
  /\ mon \in SweepType
  /\ forced \subseteq Pr!Urls /\ owed \subseteq Pr!Urls
  /\ rest \in [Pr!Urls -> {"new", "resting", "due"}]
  /\ known \in [Pr!Urls -> 0..MaxNews + 1]
  /\ github \in [Pr!Urls -> 1..news + 1] /\ news \in 0..MaxNews
  /\ mon.at = "asked" /\ Head(mon.batch) \in Pr!Urls => mon.asked \in 1..MaxNews + 1

\* Whoever is attaching has been seen, and what is owed is on a screen in view.
OwedInView ==
  /\ \A s \in Viewed : conn[s] \in {"marked", "woken"} => s \in seen
  /\ \A u \in owed : \E s \in Viewed : Pr!Visible(s) /\ u \in found[s]

\* The invariant the monitor's induction carries.
MonitorIInv == MonitorType /\ OwedInView /\ Pr!NoWakeLost

\* The wake that asks for nothing.
LEMMA NoWakeType == Pr!NoWake \in WakeType
BY Zenon DEF Pr!NoWake, WakeType

\* Nothing is in view and nothing owed: it holds.
LEMMA MonitorInit == Pr!Init => MonitorIInv
<1> SUFFICES ASSUME Pr!Init PROVE MonitorIInv
  OBVIOUS
<1>1. pending \in WakeType /\ mon.took \in WakeType
  BY Zenon DEF Pr!Init, WakeType, Pr!NoWake, Pr!Idle
<1>2. mon = [at |-> "wait", zero |-> TRUE, took |-> mon.took, wanted |-> Pr!Nobody, targets |-> {},
             batch |-> <<>>, asked |-> 0]
  BY DEF Pr!Init, Pr!Idle
<1>3. MonitorType
  <2>1. front \in BOOLEAN /\ TRUE \in BOOLEAN
    BY Zenon DEF Pr!Init
  <2>2. mon \in SweepType
    BY <1>1, <1>2, <2>1 DEF Pr!Nobody, SweepType
  <2>3. /\ found \in [Viewed -> SUBSET Pr!Urls] /\ seen \subseteq Viewed /\ teller = {}
        /\ forced = {} /\ owed = {}
        /\ conn \in [Viewed -> {"out", "marked", "woken", "in"}]
        /\ rest \in [Pr!Urls -> {"new", "resting", "due"}]
    BY DEF Pr!Init, Pr!Nobody
  <2>4. /\ known \in [Pr!Urls -> 0..MaxNews + 1] /\ github \in [Pr!Urls -> 1..news + 1]
        /\ news \in 0..MaxNews
    BY MonitorBounds DEF Pr!Init
  <2> QED BY <1>1, <1>2, <2>1, <2>2, <2>3, <2>4 DEF MonitorType
<1>4. OwedInView /\ Pr!NoWakeLost
  BY DEF Pr!Init, OwedInView, Pr!NoWakeLost
<1> QED BY <1>3, <1>4 DEF MonitorIInv

\* Every step of the monitor thread, of a connection, of the discovery and of the
\* clock preserves it.
LEMMA MonitorNext ==
  ASSUME MonitorIInv, [Pr!Next]_(Pr!monitorVars)
  PROVE  MonitorIInv'
<1> USE MonitorBounds DEF MonitorIInv, MonitorType, OwedInView, Pr!NoWakeLost, Pr!Calls, Pr!Visible,
     WakeType, SweepType, Pr!env, Pr!Quiet, Pr!Move
<1>1. ASSUME NEW s \in Viewed, Pr!Attach(s) PROVE MonitorIInv'
  BY <1>1 DEF Pr!Attach
<1>2. ASSUME NEW s \in Viewed, Pr!AttachWakes(s) PROVE MonitorIInv'
  BY <1>2 DEF Pr!AttachWakes, Pr!WakeSession
<1>3. ASSUME NEW s \in Viewed, Pr!Register(s) PROVE MonitorIInv'
  BY <1>3 DEF Pr!Register
<1>4. ASSUME NEW s \in Viewed, Pr!Detach(s) PROVE MonitorIInv'
  BY <1>4 DEF Pr!Detach
<1>5. ASSUME NEW s \in Viewed, Pr!MarkSeen(s) PROVE MonitorIInv'
  BY <1>5 DEF Pr!MarkSeen, Pr!WakeSession
<1>6. ASSUME NEW s \in Viewed, Pr!SeenPasses(s) PROVE MonitorIInv'
  BY <1>6 DEF Pr!SeenPasses
<1>7. ASSUME NEW s \in Viewed, Pr!Discover(s) PROVE MonitorIInv'
  BY <1>7 DEF Pr!Discover, Pr!Urls
<1>8. ASSUME NEW s \in Viewed, Pr!DiscoverWakes(s) PROVE MonitorIInv'
  BY <1>8 DEF Pr!DiscoverWakes
<1>9. ASSUME NEW u \in Pr!Urls, Pr!Clock(u) PROVE MonitorIInv'
  BY <1>9 DEF Pr!Clock
<1>10. ASSUME NEW u \in Pr!Urls, Pr!News(u) PROVE MonitorIInv'
  BY <1>10 DEF Pr!News
<1>11. CASE Pr!SetActive
  BY <1>11 DEF Pr!SetActive
<1>12. CASE Pr!ActiveWakes
  <2>1. /\ pending' \in WakeType /\ pending'.sessions = pending.sessions
        /\ pending'.foreground = (pending.foreground \/ front)
    BY <1>12 DEF Pr!ActiveWakes
  <2>2. MonitorType'
    BY <1>12, <2>1 DEF Pr!ActiveWakes
  <2>3. OwedInView'
    BY <1>12 DEF Pr!ActiveWakes
  <2>4. Pr!NoWakeLost'
    BY <1>12, <2>1 DEF Pr!ActiveWakes
  <2> QED BY <2>2, <2>3, <2>4
<1>13. CASE Pr!Wait
  <2>1. PICK w \in WakeType :
          /\ mon' = [mon EXCEPT !.at = "look", !.took = w]
          /\ (w = pending /\ pending' = Pr!NoWake) \/ pending' = pending
    BY <1>13 DEF Pr!Wait, Pr!NoWake
  <2>2. mon' = [at |-> "look", zero |-> mon.zero, took |-> w, wanted |-> mon.wanted,
                targets |-> mon.targets, batch |-> mon.batch, asked |-> mon.asked]
    BY <2>1
  <2>3. pending' \in WakeType
    BY <2>1, NoWakeType
  <2>4. MonitorType'
    BY <1>13, <2>2, <2>3 DEF Pr!Wait
  <2>5. OwedInView'
    BY <1>13 DEF Pr!Wait
  <2>6. Pr!NoWakeLost'
    BY <1>13, <2>1, <2>2, SMTT(30) DEF Pr!Wait
  <2> QED BY <2>4, <2>5, <2>6
<1>14. CASE Pr!Look
  <2> DEFINE wanted == [s \in Viewed |-> IF Pr!Visible(s) THEN found[s] ELSE {}]
             woken == {s \in Viewed :
                         s \in mon.took.sessions \/ (mon.took.foreground /\ conn[s] = "in")}
             targets == UNION {wanted[s] : s \in Viewed}
             force == (forced \cup UNION {wanted[s] : s \in woken}) \cap targets
  <2>1. /\ forced' = force
        /\ \/ mon' = Pr!Idle
           \/ \E b : mon' = [Pr!Idle EXCEPT !.at = "fetch", !.wanted = wanted,
                                             !.targets = targets, !.batch = b]
        /\ UNCHANGED <<found, seen, conn, front, teller, github, moves, news, pending, rest, order,
                        known, shown, owed>>
        /\ mon.at = "look"
    BY <1>14 DEF Pr!Look
  <2>2. wanted \in [Viewed -> SUBSET Pr!Urls] /\ targets \subseteq Pr!Urls /\ force \subseteq Pr!Urls
    OBVIOUS
  <2>3. mon' \in SweepType' /\ mon'.at \in {"wait", "fetch"}
    <3> DEFINE Fetching(b) == [at |-> "fetch", zero |-> FALSE, took |-> Pr!NoWake, wanted |-> wanted,
                               targets |-> targets, batch |-> b, asked |-> 0]
    <3>1. CASE mon' = Pr!Idle
      BY <3>1, NoWakeType DEF Pr!Idle, Pr!Nobody
    <3>2. ASSUME NEW b, mon' = [Pr!Idle EXCEPT !.at = "fetch", !.wanted = wanted,
                                               !.targets = targets, !.batch = b]
          PROVE  mon' = Fetching(b)
      BY <3>2 DEF Pr!Idle
    <3>3. mon' = Pr!Idle \/ \E b : mon' = Fetching(b)
      BY <2>1, <3>2
    <3> HIDE DEF wanted, targets, MonitorIInv
    <3>4. ASSUME NEW b, mon' = Fetching(b) PROVE mon' \in SweepType' /\ mon'.at = "fetch"
      BY <2>2, <3>4, NoWakeType
    <3> QED BY <3>1, <3>3, <3>4
  <2>4. MonitorType'
    BY <2>1, <2>2, <2>3
  <2>5. OwedInView'
    BY <2>1
  <2>6. ASSUME NEW u \in owed PROVE u \in forced' \/ Pr!Calls(pending, u)
    <3>1. u \in targets
      OBVIOUS
    <3>2. CASE Pr!Calls(mon.took, u)
      <4>1. PICK s \in Viewed : s \in woken /\ u \in wanted[s]
        BY <3>2
      <4> HIDE DEF wanted, woken, targets, MonitorIInv
      <4>2. u \in force
        BY <3>1, <4>1
      <4> QED BY <4>2, <2>1
    <3> QED BY <3>1, <3>2, <2>1
  <2>7. Pr!NoWakeLost'
    BY <2>1, <2>3, <2>6
  <2> QED BY <2>4, <2>5, <2>7
<1>15. CASE Pr!Ask
  <2> DEFINE u == Head(mon.batch)
  <2>1. /\ mon' = [at |-> "asked", zero |-> mon.zero, took |-> mon.took, wanted |-> mon.wanted,
                   targets |-> mon.targets, batch |-> mon.batch, asked |-> github[u]]
        /\ forced' = forced \ {u} /\ owed' = owed \ {u} /\ rest' = [rest EXCEPT ![u] = "resting"]
        /\ UNCHANGED <<found, seen, conn, front, teller, github, moves, news, pending, known, shown>>
        /\ mon.at = "fetch"
    BY <1>15 DEF Pr!Ask
  <2> HIDE DEF u
  <2>2. u \in Pr!Urls => github[u] \in 1..MaxNews + 1
    OBVIOUS
  <2>3. MonitorType'
    BY <2>1, <2>2 DEF u
  <2>4. OwedInView'
    BY <2>1
  <2>5. Pr!NoWakeLost'
    BY <2>1
  <2> QED BY <2>3, <2>4, <2>5
<1>16. CASE Pr!Answer
  <2>1. /\ mon' = [at |-> "fetch", zero |-> mon.zero, took |-> mon.took, wanted |-> mon.wanted,
                   targets |-> mon.targets, batch |-> Tail(mon.batch), asked |-> mon.asked]
        /\ mon.at = "asked"
        /\ UNCHANGED <<found, seen, conn, front, teller, github, moves, pending, forced, rest, order,
                        shown, owed>>
    BY <1>16 DEF Pr!Answer
  <2>2. news' \in 0..MaxNews /\ news' >= news
    BY <1>16 DEF Pr!Answer
  <2>3. known' \in [Pr!Urls -> 0..MaxNews + 1]
    BY <1>16 DEF Pr!Answer
  <2>4. MonitorType'
    BY <2>1, <2>2, <2>3
  <2>5. OwedInView'
    BY <2>1
  <2>6. Pr!NoWakeLost'
    BY <2>1
  <2> QED BY <2>4, <2>5, <2>6
<1>17. CASE Pr!Apply
  <2>1. PICK s \in Viewed : mon' = [mon EXCEPT !.at = "apply", !.wanted[s] = {}]
    BY <1>17 DEF Pr!Apply
  <2>2. mon' = [at |-> "apply", zero |-> mon.zero, took |-> mon.took,
                wanted |-> [mon.wanted EXCEPT ![s] = {}], targets |-> mon.targets,
                batch |-> mon.batch, asked |-> mon.asked]
    BY <2>1
  <2>3. MonitorType'
    BY <1>17, <2>2 DEF Pr!Apply
  <2>4. OwedInView'
    BY <1>17 DEF Pr!Apply
  <2>5. Pr!NoWakeLost'
    BY <1>17, <2>2 DEF Pr!Apply
  <2> QED BY <2>3, <2>4, <2>5
<1>18. CASE Pr!NextRefreshDelay
  BY <1>18 DEF Pr!NextRefreshDelay, Pr!Idle, Pr!NoWake, Pr!Nobody
<1>19. CASE UNCHANGED Pr!monitorVars
  BY <1>19 DEF Pr!monitorVars
<1> HIDE DEF MonitorIInv
<1> QED BY <1>1, <1>2, <1>3, <1>4, <1>5, <1>6, <1>7, <1>8, <1>9, <1>10, <1>11, <1>12, <1>13, <1>14,
     <1>15, <1>16, <1>17, <1>18, <1>19 DEF Pr!Next, Pr!Monitor

\* wake.rs: a pull request that became due to be asked about is in the forced set,
\* in the wake that was taken or in the one that is pending, wherever the sweep
\* is when it comes.
THEOREM MonitorSafe == Pr!Spec => []MonitorInv
<1>1. MonitorIInv => MonitorInv
  BY MonitorBounds DEF MonitorIInv, MonitorType, WakeType, SweepType, MonitorInv, Pr!MonitorInv,
     Pr!TypeOK
<1> QED BY <1>1, MonitorInit, MonitorNext, PTL DEF Pr!Spec

(***************************************************************************)
(* The first prompt of an agent.                                           *)
(***************************************************************************)

\* All that can be written and not read.
Enter == <<"enter">>
Kill == <<"kill">>
Typed == <<"prompt">>
OneEnter == <<"one", "enter">>
KillTyped == <<"kill", "prompt">>
TypedEnter == <<"prompt", "enter">>
KillTypedEnter == <<"kill", "prompt", "enter">>
Unread == {<<>>, Enter, Kill, Typed, OneEnter, KillTyped, TypedEnter, KillTypedEnter}

\* The prompt was submitted once; it was not even typed.
SentOnce == << Typed >>
Untouched == held = <<>> /\ sent = <<>>

\* The types.
PromptType ==
  /\ kind \in {"tui", "line"} /\ mode \in {"boot", "dialog", "input"} /\ tty \in Unread
  /\ screen \in [picker : BOOLEAN, word : BOOLEAN]
  /\ thread \in [at : {"trust", "trusted", "ready", "type", "echo", "submit", "confirm", "blind",
                       "landed", "clear", "done", "gaveup"},
                 tries : 0..MaxAttempts, enters : Nat, probe : BOOLEAN]

\* The prompt is in one place: in the terminal, in the input line, or sent.
OnePlace ==
  /\ Untouched \/ (held = Typed /\ sent = <<>>) \/ (held = <<>> /\ sent = SentOnce)
  /\ held # <<>> => mode = "input"
  /\ tty \notin {<<>>, Enter} => Untouched
  /\ thread.at \in {"trust", "trusted", "ready", "type", "clear", "gaveup"} => Untouched

\* What is unread at each step of a thread whose agent lives.
ThreadTty ==
  /\ thread.at \in {"trust", "ready", "blind", "clear"} => tty = <<>>
  /\ thread.at = "trusted" => tty \in {<<>>, Enter, OneEnter}
  /\ thread.at = "trusted" /\ tty # <<>> => mode = "dialog" /\ screen.picker
  /\ thread.at = "trust" /\ screen.picker => mode = "dialog"
  /\ thread.at \in {"type", "gaveup"} => tty \in {<<>>, Kill}
  /\ thread.at \in {"echo", "submit"} => tty \in {<<>>, Typed, KillTyped}
  /\ thread.at = "submit" /\ thread.probe => tty = <<>>
  /\ thread.at \in {"confirm", "landed"} => tty \in {<<>>, Enter}
  /\ thread.at = "done" => tty \in {<<>>, Enter, TypedEnter, KillTypedEnter}

\* What the screen shows is there, and a screen that has not moved since the
\* prompt was typed does not show it.
PromptShown ==
  /\ screen.word => (kind = "tui" /\ held = Typed) \/ sent = SentOnce
  /\ thread.at \in {"echo", "blind", "landed"} /\ ~moved => ~screen.word
  /\ thread.at = "landed" /\ kind = "line" /\ tty = <<>> => held = <<>>

\* The invariant the induction over the injection carries.
PromptIInv == PromptType /\ OnePlace /\ (~exited => ThreadTty) /\ PromptShown

\* An agent that has just been started satisfies it.
LEMMA PromptInit == Prompt!Init => PromptIInv
BY PromptBounds DEF Prompt!Init, PromptIInv, PromptType, OnePlace, ThreadTty, PromptShown, Untouched,
   Unread

\* Sequences put together and taken apart.
LEMMA Pair == ASSUME NEW a, NEW b PROVE <<a>> \o <<b>> = <<a, b>>
<1>1. <<a>> \in Seq({a, b}) /\ <<b>> \in Seq({a, b}) /\ <<a, b>> \in Seq({a, b})
  OBVIOUS
<1>2. /\ <<a>> \o <<b>> \in Seq({a, b}) /\ Len(<<a>> \o <<b>>) = 2
      /\ (<<a>> \o <<b>>)[1] = a /\ (<<a>> \o <<b>>)[2] = b
  BY <1>1, ConcatProperties
<1>3. \A i \in 1..2 : (<<a>> \o <<b>>)[i] = <<a, b>>[i]
  BY <1>2
<1> QED BY <1>1, <1>2, <1>3, SeqEqual

\* The same, for three.
LEMMA Triple == ASSUME NEW a, NEW b, NEW c PROVE <<a, b>> \o <<c>> = <<a, b, c>>
<1> DEFINE S == {a, b, c}
<1>1. <<a, b>> \in Seq(S) /\ <<c>> \in Seq(S) /\ <<a, b, c>> \in Seq(S)
  OBVIOUS
<1>2. /\ <<a, b>> \o <<c>> \in Seq(S) /\ Len(<<a, b>> \o <<c>>) = 3
      /\ (<<a, b>> \o <<c>>)[1] = a /\ (<<a, b>> \o <<c>>)[2] = b /\ (<<a, b>> \o <<c>>)[3] = c
  BY <1>1, ConcatProperties
<1>3. \A i \in 1..3 : (<<a, b>> \o <<c>>)[i] = <<a, b, c>>[i]
  BY <1>2
<1> QED BY <1>1, <1>2, <1>3, SeqEqual

\* What the agent reads next from each of them, and what is left.
LEMMA UnreadIs ==
  /\ Head(Enter) = "enter" /\ Tail(Enter) = <<>> /\ Head(Kill) = "kill" /\ Tail(Kill) = <<>>
  /\ Head(Typed) = "prompt" /\ Tail(Typed) = <<>>
  /\ Head(OneEnter) = "one" /\ Tail(OneEnter) = Enter
  /\ Head(KillTyped) = "kill" /\ Tail(KillTyped) = Typed
  /\ Head(TypedEnter) = "prompt" /\ Tail(TypedEnter) = Enter
  /\ Head(KillTypedEnter) = "kill" /\ Tail(KillTypedEnter) = TypedEnter
<1>1. /\ Head(Enter) = "enter" /\ Tail(Enter) = <<>> /\ Head(Kill) = "kill" /\ Tail(Kill) = <<>>
      /\ Head(Typed) = "prompt" /\ Tail(Typed) = <<>>
  BY DEF Enter, Kill, Typed
<1>2. Head(OneEnter) = "one" /\ Tail(OneEnter) = Enter
  BY DEF OneEnter, Enter
<1>3. Head(KillTyped) = "kill" /\ Tail(KillTyped) = Typed
  BY DEF KillTyped, Typed
<1>4. Head(TypedEnter) = "prompt" /\ Tail(TypedEnter) = Enter
  BY DEF TypedEnter, Enter
<1>5. Head(KillTypedEnter) = "kill" /\ Tail(KillTypedEnter) = TypedEnter
  BY DEF KillTypedEnter, TypedEnter
<1> QED BY <1>1, <1>2, <1>3, <1>4, <1>5

\* No two of them are the same.
LEMMA UnreadDiffer ==
  /\ \A t \in {Enter, Kill, Typed, OneEnter, KillTyped, TypedEnter, KillTypedEnter, SentOnce} : t # <<>>
  /\ \A t \in {Kill, Typed, OneEnter, KillTyped, TypedEnter, KillTypedEnter} : t # Enter
  /\ \A t \in {Typed, OneEnter, KillTyped, TypedEnter, KillTypedEnter} : t # Kill
  /\ \A t \in {OneEnter, KillTyped, TypedEnter, KillTypedEnter} : t # Typed
  /\ \A t \in {KillTyped, TypedEnter, KillTypedEnter} : t # OneEnter
  /\ KillTyped # TypedEnter /\ KillTyped # KillTypedEnter /\ TypedEnter # KillTypedEnter
<1>1. /\ Len(<<>>) = 0 /\ Len(Enter) = 1 /\ Len(Kill) = 1 /\ Len(Typed) = 1 /\ Len(OneEnter) = 2
      /\ Len(KillTyped) = 2 /\ Len(TypedEnter) = 2 /\ Len(KillTypedEnter) = 3 /\ Len(SentOnce) = 1
  BY DEF Enter, Kill, Typed, OneEnter, KillTyped, TypedEnter, KillTypedEnter, SentOnce
<1>2. \A t \in {Enter, Kill, Typed, OneEnter, KillTyped, TypedEnter, KillTypedEnter, SentOnce} : t # <<>>
  BY <1>1
<1>3. Enter # Kill /\ Enter # Typed /\ Kill # Typed
  BY UnreadIs
<1>4. OneEnter # KillTyped /\ OneEnter # TypedEnter /\ KillTyped # TypedEnter
  BY UnreadIs
<1>5. \A s \in {Enter, Kill, Typed}, t \in {OneEnter, KillTyped, TypedEnter, KillTypedEnter} : s # t
  BY <1>1
<1>6. \A t \in {OneEnter, KillTyped, TypedEnter} : t # KillTypedEnter
  BY <1>1
<1> QED BY <1>2, <1>3, <1>4, <1>5, <1>6

\* What a write of the injector makes of them.
LEMMA Written ==
  /\ <<>> \o <<"one", "enter">> = OneEnter /\ <<>> \o <<"enter">> = Enter
  /\ <<>> \o <<"prompt">> = Typed /\ <<>> \o <<"kill">> = Kill
  /\ Kill \o <<"prompt">> = KillTyped /\ Typed \o <<"enter">> = TypedEnter
  /\ KillTyped \o <<"enter">> = KillTypedEnter
  /\ Append(<<>>, "prompt") = Typed /\ Append(<<>>, Typed) = SentOnce
<1>1. /\ <<>> \o <<"one", "enter">> = OneEnter /\ <<>> \o <<"enter">> = Enter
      /\ <<>> \o <<"prompt">> = Typed /\ <<>> \o <<"kill">> = Kill
  BY DEF OneEnter, Enter, Typed, Kill
<1>2. Kill \o <<"prompt">> = KillTyped /\ Typed \o <<"enter">> = TypedEnter
  BY Pair DEF Kill, Typed, KillTyped, TypedEnter
<1>3. KillTyped \o <<"enter">> = KillTypedEnter
  BY Triple DEF KillTyped, KillTypedEnter
<1>4. Append(<<>>, "prompt") = Typed /\ Append(<<>>, Typed) = SentOnce
  BY DEF Typed, SentOnce
<1> QED BY <1>1, <1>2, <1>3, <1>4

\* When the prompt can be seen on a screen that is up to date.
LEMMA InViewIs ==
  OnePlace => (Prompt!InView("prompt") <=> (kind = "tui" /\ held = Typed) \/ sent = SentOnce)
<1> SUFFICES ASSUME OnePlace
             PROVE  Prompt!InView("prompt") <=> (kind = "tui" /\ held = Typed) \/ sent = SentOnce
  OBVIOUS
<1>1. Len(Typed) = 1 /\ Typed[1] = "prompt" /\ Len(SentOnce) = 1 /\ SentOnce[1] = Typed /\ Len(<<>>) = 0
  BY DEF Typed, SentOnce
<1> QED BY <1>1, UnreadDiffer DEF Prompt!InView, OnePlace, Untouched

\* Every step of the injecting thread and of the agent preserves it.
LEMMA PromptNext ==
  ASSUME ~Slow, ~MayAnswer, PromptIInv, [Prompt!Next]_(Prompt!promptVars)
  PROVE  PromptIInv'
<1> USE PromptBounds DEF PromptIInv, PromptType, OnePlace, ThreadTty, PromptShown, Untouched,
     Prompt!Look, Prompt!agentVars, Prompt!To, Prompt!Writes
<1>1. CASE Prompt!Read
  <2>1. /\ ~exited /\ tty # <<>> /\ tty' = Tail(tty)
        /\ UNCHANGED <<kind, screen, moved, exited, thread>>
    BY <1>1 DEF Prompt!Read
  <2>2. CASE tty = Enter
    <3>1. /\ Head(tty) = "enter" /\ tty' = <<>>
          /\ mode' = mode \/ (mode = "dialog" /\ mode' = "input" /\ held' = held)
          /\ held' = held \/ held' = <<>>
          /\ kind = "line" /\ mode = "input" => held' = <<>>
          /\ \/ held' = held /\ sent' = sent
             \/ held' = <<>> /\ sent' = IF held = <<>> THEN sent ELSE Append(sent, held)
      BY <1>1, <2>1, <2>2, UnreadIs DEF Prompt!Read
    <3>2. (held' = held /\ sent' = sent) \/ (held = Typed /\ held' = <<>> /\ sent' = SentOnce)
      BY <3>1, Written
    <3> QED BY <2>1, <2>2, <3>1, <3>2, UnreadDiffer DEF Unread
  <2>3. CASE tty \in {Typed, TypedEnter}
    <3>1. Head(tty) = "prompt" /\ tty' \in {<<>>, Enter} /\ (tty = TypedEnter => tty' = Enter)
      BY <2>1, <2>3, UnreadIs
    <3>2. /\ mode' = mode /\ sent' = <<>> /\ held = <<>> /\ sent = <<>>
          /\ held' = held \/ (mode = "input" /\ held' = Typed)
      BY <1>1, <2>3, <3>1, UnreadDiffer, Written DEF Prompt!Read, Prompt!Put
    <3>3. /\ thread.at \in {"echo", "submit", "done"} /\ (thread.at = "submit" => ~thread.probe)
          /\ tty = Typed => tty' = <<>> /\ thread.at # "done"
      BY <2>1, <2>3, UnreadIs, UnreadDiffer
    <3> QED BY <2>1, <2>3, <3>1, <3>2, <3>3, UnreadDiffer DEF Unread
  <2>4. CASE tty \in {Kill, KillTyped, KillTypedEnter}
    <3>1. Head(tty) = "kill" /\ tty' \in {<<>>, Typed, TypedEnter}
      BY <2>1, <2>4, UnreadIs
    <3>2. mode' = mode /\ Untouched /\ Untouched'
      BY <1>1, <2>4, <3>1, UnreadDiffer DEF Prompt!Read, Prompt!Put
    <3>3. /\ tty = Kill => tty' = <<>>
          /\ tty = KillTyped => tty' = Typed
          /\ tty = KillTypedEnter => tty' = TypedEnter
      BY <2>1, UnreadIs
    <3> QED BY <2>1, <2>4, <3>1, <3>2, <3>3, UnreadDiffer DEF Unread
  <2>5. CASE tty = OneEnter
    <3>1. Head(tty) = "one" /\ tty' = Enter
      BY <2>1, <2>5, UnreadIs
    <3>2. thread.at = "trusted"
      BY <2>1, <2>5, UnreadDiffer
    <3>3. mode' = mode /\ Untouched /\ Untouched'
      BY <1>1, <2>1, <2>5, <3>1, <3>2, UnreadDiffer DEF Prompt!Read, Prompt!Put
    <3> QED BY <2>1, <2>5, <3>1, <3>2, <3>3, UnreadDiffer DEF Unread
  <2> QED BY <2>1, <2>2, <2>3, <2>4, <2>5 DEF Unread
<1>2. CASE Prompt!Paint
  <2>1. /\ screen' = [picker |-> mode = "dialog", word |-> Prompt!InView("prompt")]
        /\ moved' /\ ~exited /\ UNCHANGED <<kind, mode, tty, held, sent, swallowed, exited, thread>>
    BY <1>2 DEF Prompt!Paint, Prompt!Painted
  <2>2. /\ screen' \in [picker : BOOLEAN, word : BOOLEAN]
        /\ screen'.picker <=> mode = "dialog"
        /\ screen'.word <=> Prompt!InView("prompt")
    <3>1. (mode = "dialog") \in BOOLEAN /\ Prompt!InView("prompt") \in BOOLEAN
      BY DEF Prompt!InView
    <3> QED BY <2>1, <3>1
  <2> QED BY <2>1, <2>2, InViewIs
<1>3. CASE Prompt!ComesUp
  BY <1>3, UnreadDiffer DEF Prompt!ComesUp
<1>4. CASE Prompt!Exit
  BY <1>4 DEF Prompt!Exit
<1>5. CASE Prompt!Leave
  BY <1>5, UnreadDiffer DEF Prompt!Leave
<1>6. CASE Prompt!AcceptTrust
  BY <1>6, Written, UnreadDiffer DEF Prompt!AcceptTrust, Unread, Prompt!WindowEnds, Prompt!Painted
<1>7. CASE Prompt!TrustSettles
  BY <1>7, UnreadDiffer DEF Prompt!TrustSettles, Prompt!WindowEnds, Prompt!Painted
<1>8. CASE Prompt!Ready
  BY <1>8, UnreadDiffer DEF Prompt!Ready, Prompt!WindowEnds, Prompt!Painted
<1>9. CASE Prompt!Type
  <2>1. /\ thread' = [at |-> "echo", tries |-> thread.tries + 1, enters |-> 0, probe |-> thread'.probe]
        /\ thread'.probe \in BOOLEAN /\ thread.at = "type" /\ thread.tries < MaxAttempts /\ ~exited
        /\ tty' = tty \o <<"prompt">> /\ UNCHANGED <<kind, mode, held, sent, screen, swallowed, exited>>
    BY <1>9 DEF Prompt!Type
  <2>2. tty' \in {Typed, KillTyped}
    BY <2>1, Written
  <2>3. ~screen.word
    BY <2>1, UnreadDiffer
  <2> QED BY <2>1, <2>2, <2>3 DEF Unread
<1>10. CASE Prompt!Echo
  BY <1>10, UnreadDiffer DEF Prompt!Echo, Prompt!WindowEnds, Prompt!Echoed, Prompt!Painted
<1>11. CASE Prompt!Submit
  <2>1. /\ thread' = [at |-> IF thread.probe THEN "confirm" ELSE "done", tries |-> thread.tries,
                      enters |-> thread.enters + 1, probe |-> thread.probe]
        /\ thread.at = "submit" /\ ~exited /\ tty' = tty \o <<"enter">>
        /\ UNCHANGED <<kind, mode, held, sent, screen, moved, swallowed, exited>>
    BY <1>11 DEF Prompt!Submit
  <2>2. tty' \in {Enter, TypedEnter, KillTypedEnter} /\ (thread.probe => tty' = Enter)
    BY <2>1, Written
  <2>3. tty' # Enter => Untouched
    BY <2>1, Written, UnreadDiffer
  <2> QED BY <2>1, <2>2, <2>3, UnreadDiffer DEF Unread
<1>12. CASE Prompt!Confirm
  BY <1>12, UnreadDiffer DEF Prompt!Confirm, Prompt!WindowEnds
<1>13. CASE Prompt!BlindEnter
  BY <1>13, Written, UnreadDiffer DEF Prompt!BlindEnter, Unread
<1>14. CASE Prompt!Landed
  <2>1. CASE thread' = [thread EXCEPT !.at = "done"]
    BY <1>14, <2>1, UnreadDiffer DEF Prompt!Landed, Unread
  <2>2. CASE ~Prompt!Echoed /\ Prompt!WindowEnds /\ thread' = [thread EXCEPT !.at = "clear"]
    <3>1. ~screen.word /\ tty = <<>> /\ screen = Prompt!Painted /\ thread.at = "landed"
      BY <1>14, <2>2 DEF Prompt!Landed, Prompt!Echoed, Prompt!WindowEnds
    <3>2. ~Prompt!InView("prompt")
      BY <3>1 DEF Prompt!Painted
    <3>3. Untouched
      BY <3>1, <3>2, InViewIs, UnreadDiffer
    <3> QED BY <1>14, <2>2, <3>1, <3>3 DEF Prompt!Landed
  <2> QED BY <1>14, <2>1, <2>2 DEF Prompt!Landed
<1>15. CASE Prompt!Clear
  BY <1>15, Written, UnreadDiffer DEF Prompt!Clear, Unread
<1>16. CASE UNCHANGED Prompt!promptVars
  BY <1>16 DEF Prompt!promptVars
<1> HIDE DEF PromptIInv
<1> QED BY <1>1, <1>2, <1>3, <1>4, <1>5, <1>6, <1>7, <1>8, <1>9, <1>10, <1>11, <1>12, <1>13, <1>14,
     <1>15, <1>16 DEF Prompt!Next, Prompt!Thread, Prompt!Agent

\* inject.rs: whatever the agent discards, swallows and repaints, and whether it
\* can be probed or not, the first prompt is submitted at most once and whole, and
\* a thread that gave up has left nothing typed; as long as the agent paints
\* within the injector's windows and the user leaves the trust dialog to it.
THEOREM PromptSafe == ASSUME ~Slow, ~MayAnswer PROVE Prompt!Spec => []PromptInv
<1>1. ASSUME PromptType PROVE \A i \in 1..Len(tty) : tty[i] \in {"one", "prompt", "enter", "kill"}
  BY <1>1 DEF PromptType, Unread, Enter, Kill, Typed, OneEnter, KillTyped, TypedEnter,
     KillTypedEnter
<1>2. PromptIInv => PromptInv
  BY <1>1 DEF PromptIInv, PromptType, OnePlace, Untouched, Typed, SentOnce, PromptInv, Prompt!PromptInv,
     Prompt!TypeOK, Prompt!PromptOnce, Prompt!GivesUpUntyped
<1> QED BY <1>2, PromptInit, PromptNext, PTL DEF Prompt!Spec

(***************************************************************************)
(* A remote session (RemoteSession).                                       *)
(*                                                                         *)
(* The invariant follows what is under way on the newest Bridge.  To the   *)
(* Engine: a stream of chunks, screens and grid updates each of which      *)
(* continues the ones before it (Stream), and which ends at the Holder's   *)
(* present while the Bridge holds (Tip).  To the Holder: keys and sizes in *)
(* the order of asking, between what the Agent has and what still waits    *)
(* (Typing), and none missing as long as nothing was lost (Kept).          *)
(***************************************************************************)

\* What the Holder has queued for a Bridge, and the Engine for the Holder.
DownMessages ==
  [t : {"ack"}, e : 0..MaxBridge, exited : BOOLEAN]
    \cup [t : {"out"}, at : 0..MaxOut]
    \cup [t : {"snap"}, seq : Nat \ {0}, at : 0..MaxOut]
    \cup [t : {"delta"}, seq : Nat \ {0}, base : 0..MaxOut, at : 0..MaxOut]
    \cup [t : {"granted"}, e : 0..MaxBridge]
    \cup [t : {"exit"}]
    \cup [t : {"error"}, fatal : BOOLEAN]

UpMessages ==
  [t : {"hello"}, off : 0..MaxOut]
    \cup [t : {"keys"}, ks : Seq(1..MaxAsks)]
    \cup [t : {"size"}, v : 1..MaxAsks]

HolderType ==
  /\ agent \in {"running", "exited", "gone"} /\ tail \in 0..MaxOut /\ epoch \in 0..MaxBridge
  /\ seq \in Nat /\ base \in 0..tail /\ dirty \in BOOLEAN
  /\ typed \in Seq(1..MaxAsks) /\ size \in 0..MaxAsks
  /\ ctl \in Bridges \cup {None} /\ ep \in [Bridges -> 0..MaxBridge]
WireType ==
  /\ open \in [Bridges -> BOOLEAN]
  /\ up \in [Bridges -> Seq(UpMessages)] /\ down \in [Bridges -> Seq(DownMessages)]
PumpType ==
  /\ gen \in Bridges \cup {None} /\ wep \in 0..MaxBridge /\ input \in BOOLEAN
  /\ queued \in Seq(1..MaxAsks) /\ queuedSize \in 0..MaxAsks
  /\ pump \in {"connect", "read", "ended"} /\ retries \in 0..2
  /\ hello \in BOOLEAN /\ granted \in BOOLEAN
ViewType ==
  /\ offset \in 0..tail /\ saved \in 0..offset /\ first \in 0..offset
  /\ display \in 0..tail \cup {Garbled}
  /\ mirror \in [seq : Nat, at : Int] /\ mirror.at \in 0..tail \cup {Garbled}
UserType ==
  /\ ending \in {"none", "exited", "failed"} /\ skipped \in BOOLEAN /\ refused \in BOOLEAN
  /\ keys \in Nat /\ sizes \in Nat /\ keys + sizes <= MaxAsks
  /\ losses \in Nat /\ restarts \in Nat
RType == HolderType /\ WireType /\ PumpType /\ ViewType /\ UserType

\* One Bridge lives at a time, and the Holder knows none the Engine does not.
Lines ==
  /\ pump = "read" => gen # None
  /\ \A b \in Bridges : b # gen \/ pump # "read" => ~open[b] /\ down[b] = <<>>
  /\ \A b \in Bridges : b > gen => ep[b] = 0 /\ up[b] = <<>>
  /\ ctl # None => ep[ctl] # 0 /\ agent # "gone"
  /\ ctl # None /\ ctl = gen => ep[ctl] = epoch

\* Epochs are handed out in the order of the Bridges.
Epochs ==
  /\ \A b \in Bridges : ep[b] <= epoch
  /\ epoch # 0 => \E b \in Bridges : ep[b] = epoch /\ epoch <= b

\* Before the handshake a Bridge carries its Hello, after it no other.
Greeted ==
  \A b \in Bridges :
    /\ ep[b] = 0 => up[b] = <<>> \/ \E off \in 0..tail : up[b] = <<Hello(off)>>
    /\ ep[b] = 0 => down[b] = <<>>
    /\ ep[b] # 0 => \A i \in 1..Len(up[b]) : up[b][i].t # "hello"
    /\ b = gen /\ pump = "read" /\ ep[b] = 0 /\ up[b] # <<>> => up[b][1].off = offset

\* Where the pump and the writer are.
Pumped ==
  /\ pump = "connect" => ~hello /\ ~granted
  /\ granted => hello
  /\ wep # 0 => hello /\ pump = "read" /\ input
  /\ pump = "read" /\ ~hello => input
  /\ pump = "read" /\ hello => ep[gen] # 0
  /\ granted /\ wep # 0 => queued = <<>> /\ queuedSize = 0

\* The epoch a Bridge was given is the one it is told, and the writer's.
Signed(q, e) == \A i \in 1..Len(q) : q[i].t \in {"ack", "granted"} => q[i].e = e
Agreed ==
  pump = "read" => /\ Signed(down[gen], ep[gen])
                   /\ open[gen] => input /\ (hello => wep = ep[gen])

\* Position j of the queue is behind the first snapshot.
Live(q, gr, j) == gr = TRUE \/ \E g \in 1..Len(q) : g <= j + 1 /\ q[g].t = "granted"

\* The order of a Bridge's messages.
Form(q, hi, gr) ==
  /\ \A i \in 1..Len(q) : (q[i].t = "ack") <=> (i = 1 /\ hi = FALSE)
  /\ \A i \in 1..Len(q) : q[i].t = "granted" => gr = FALSE /\ (i = 1 \/ q[i-1].t = "snap")
  /\ \A i, j \in 1..Len(q) : q[i].t = "granted" /\ q[j].t = "granted" => i = j
  /\ \A i \in 1..Len(q) : q[i].t = "delta" => Live(q, gr, i - 1)

\* An end that is told has happened.
Ends(q, ag) ==
  \A i \in 1..Len(q) :
    q[i].t = "exit" \/ (q[i].t = "ack" /\ q[i].exited = TRUE) => ag # "running"

\* Chunks come in their order, and the Engine has seen none of them.
Chunks(q, off, tl) ==
  /\ \A i \in 1..Len(q) : q[i].t = "out" => off <= q[i].at /\ q[i].at < tl
  /\ \A i, j \in 1..Len(q) :
       i < j /\ q[i].t = "out" /\ q[j].t = "out" => q[i].at < q[j].at

\* None is left out.
NoGap(q, off) ==
  \A i \in 1..Len(q) : q[i].t = "out" =>
    \A n \in off..q[i].at - 1 : \E j \in 1..i - 1 : q[j].t = "out" /\ q[j].at = n
AllSent(q, off, tl) ==
  \A n \in off..tl - 1 : \E j \in 1..Len(q) : q[j].t = "out" /\ q[j].at = n

\* What the screen shows after position j; position 0 is the present.
Content(q, j) == j = 0 \/ q[j].t \in {"out", "snap"}
Shows(q, scr, j) == IF j = 0 THEN scr ELSE IF q[j].t = "out" THEN q[j].at + 1 ELSE q[j].at

Screens(q, gr, scr, tl) ==
  /\ Live(q, gr, 0) => scr \in 0..tl
  /\ \A i \in 1..Len(q) : q[i].t \in {"snap", "delta"} => q[i].at <= tl
  /\ \A i \in 0..Len(q), j \in 1..Len(q) :
       i < j /\ Live(q, gr, i) /\ Content(q, i) /\ Content(q, j) => Shows(q, scr, i) <= q[j].at
  /\ \A i \in 1..Len(q) : q[i].t = "out" /\ Live(q, gr, i) =>
       \E j \in 0..i - 1 : Live(q, gr, j) /\ Content(q, j) /\ Shows(q, scr, j) = q[i].at
ShowsAll(q, gr, scr, tl) ==
  \E j \in 0..Len(q) : Live(q, gr, j) /\ Content(q, j) /\ Shows(q, scr, j) = tl

\* The grid's updates: their number and what they cover.
IsUpdate(q, j) == j = 0 \/ q[j].t \in {"snap", "delta"}
Num(q, mir, j) == IF j = 0 THEN mir.seq ELSE q[j].seq
Covers(q, mir, j) == IF j = 0 THEN mir.at ELSE q[j].at

Grids(q, gr, mir, tl) ==
  /\ Live(q, gr, 0) => mir.at \in 0..tl /\ mir.seq # 0
  /\ \A i \in 0..Len(q), j \in 1..Len(q) :
       i < j /\ Live(q, gr, i) /\ IsUpdate(q, i) /\ IsUpdate(q, j) => Num(q, mir, i) < q[j].seq
  /\ \A i \in 1..Len(q) : q[i].t = "delta" =>
       \E j \in 0..i - 1 : /\ Live(q, gr, j) /\ IsUpdate(q, j)
                           /\ Num(q, mir, j) + 1 = q[i].seq /\ Covers(q, mir, j) >= q[i].base
NumsUpto(q, gr, mir, sq) ==
  \A j \in 0..Len(q) : Live(q, gr, j) /\ IsUpdate(q, j) => Num(q, mir, j) <= sq
Newest(q, gr, mir, sq, bs, dr, tl) ==
  \E j \in 0..Len(q) : /\ Live(q, gr, j) /\ IsUpdate(q, j)
                        /\ Num(q, mir, j) = sq /\ Covers(q, mir, j) >= bs
                        /\ (dr = TRUE \/ Covers(q, mir, j) = tl)

\* What is under way to the Engine, and, while the Bridge holds, where it ends.
StreamPart(q, hi, gr, ag, off, tl, sk, scr, mir) ==
  /\ Form(q, hi, gr) /\ Ends(q, ag) /\ Chunks(q, off, tl)
  /\ sk = FALSE => NoGap(q, off)
  /\ Screens(q, gr, scr, tl) /\ Grids(q, gr, mir, tl)
TipPart(q, hi, gr, off, tl, sk, scr, mir, sq, bs, dr) ==
  /\ hi = FALSE => q # <<>>
  /\ Live(q, gr, Len(q))
  /\ sk = FALSE => AllSent(q, off, tl)
  /\ ShowsAll(q, gr, scr, tl)
  /\ NumsUpto(q, gr, mir, sq) /\ Newest(q, gr, mir, sq, bs, dr, tl)

Stream ==
  pump = "read" =>
    StreamPart(down[gen], hello, granted, agent, offset, tail, skipped, display, mirror)
Tip ==
  pump = "read" /\ open[gen] /\ ctl = gen =>
    TipPart(down[gen], hello, granted, offset, tail, skipped, display, mirror, seq, base, dirty)

\* Input.
Rising(s) == \A i, j \in 1..Len(s) : i < j => s[i] < s[j]
Before(s, z) == \A i \in 1..Len(s), j \in 1..Len(z) : s[i] < z[j]

Ordered(u) ==
  /\ \A i \in 1..Len(u) : u[i].t = "keys" => Rising(u[i].ks)
  /\ \A i, j \in 1..Len(u) :
       i < j /\ u[i].t = "keys" /\ u[j].t = "keys" => Before(u[i].ks, u[j].ks)
  /\ \A i, j \in 1..Len(u) : i < j /\ u[i].t = "size" /\ u[j].t = "size" => u[i].v < u[j].v
\* nothing later than ks and vs
Upto(u, ks, vs) ==
  \A i \in 1..Len(u) :
    /\ u[i].t = "keys" => \A j \in 1..Len(u[i].ks) : u[i].ks[j] <= ks
    /\ u[i].t = "size" => u[i].v <= vs
Earlier(u, qd) == \A i \in 1..Len(u) : u[i].t = "keys" => Before(u[i].ks, qd)
SizesBefore(u, v) == \A i \in 1..Len(u) : u[i].t = "size" => u[i].v < v
Later(u, ty, sz) ==
  \A i \in 1..Len(u) : (u[i].t = "keys" => Before(ty, u[i].ks)) /\ (u[i].t = "size" => sz < u[i].v)
NotAfter(s, k) == \A i \in 1..Len(s) : s[i] <= k

Typing ==
  /\ \A b \in Bridges :
       /\ Ordered(up[b]) /\ Upto(up[b], keys, sizes) /\ Earlier(up[b], queued)
       /\ queuedSize # 0 => SizesBefore(up[b], queuedSize)
  /\ Rising(typed) /\ Rising(queued) /\ Before(typed, queued)
  /\ NotAfter(typed, keys) /\ NotAfter(queued, keys)
  /\ ctl # None => Later(up[ctl], typed, size)
  /\ size <= sizes /\ queuedSize <= sizes
  /\ queuedSize # 0 => size < queuedSize

\* Nothing has been lost so far.
Whole ==
  losses = 0 /\ restarts = 0 /\ ~skipped /\ ~refused /\ agent # "gone" /\ pump # "ended"
Carries(u, k) == \E i \in 1..Len(u) : u[i].t = "keys" /\ \E j \in 1..Len(u[i].ks) : u[i].ks[j] = k
Has(s, k) == \E i \in 1..Len(s) : s[i] = k

Kept ==
  Whole =>
    /\ gen <= 1 /\ (pump = "connect" => gen = None)
    /\ pump = "read" => open[gen]
    /\ ctl \in {None, gen}
    /\ queuedSize # 0 => queuedSize = sizes
    /\ queuedSize = 0 =>
         size = sizes \/ (gen # None /\ \E i \in 1..Len(up[gen]) : up[gen][i] = Size(sizes))
    /\ agent = "running" =>
         \A k \in 1..keys : Has(typed, k) \/ Has(queued, k) \/ (gen # None /\ Carries(up[gen], k))

\* The Engine takes the Agent for ended only when it has ended, or the session for
\* failed after a refusal.
Real ==
  /\ ending # "none" \/ pump = "ended" => agent # "running" \/ refused
  /\ ending = "exited" => agent # "running"
  /\ ending = "failed" => refused

\* Before the grant of control nobody writes to the Holder, ...
Quiet == pump = "read" /\ ep[gen] # 0 /\ ~granted => up[gen] = <<>>

\* ... and a fatal error is on its way only after a refusal.
Mild(q, rf) == \A i \in 1..Len(q) : q[i].t = "error" => q[i].fatal = FALSE \/ rf
Warned == pump = "read" => Mild(down[gen], refused)

\* The invariant the remote session's induction carries, with Quiet and Warned.
RemoteIInv ==
  /\ RType /\ Lines /\ Epochs /\ Greeted /\ Pumped /\ Agreed /\ Stream /\ Tip /\ Typing /\ Kept
  /\ Real /\ LogComplete

-----------------------------------------------------------------------------
(* Queues.                                                                 *)

\* The fields of a message of the Holder, ...
LEMMA DownFields ==
  ASSUME NEW m \in DownMessages
  PROVE  /\ m.t \in {"ack", "out", "snap", "delta", "granted", "exit", "error"}
         /\ m.t \in {"out", "snap", "delta"} => m.at \in Nat /\ m.at \in 0..MaxOut
         /\ m.t \in {"snap", "delta"} => m.seq \in Nat /\ m.seq # 0
         /\ m.t = "delta" => m.base \in Nat
         /\ m.t = "ack" => m.e \in 0..MaxBridge /\ m.exited \in BOOLEAN
         /\ m.t = "error" => m.fatal \in BOOLEAN
  BY RemoteAssumption DEF DownMessages

\* ... and of the Engine.
LEMMA UpFields ==
  ASSUME NEW m \in UpMessages
  PROVE  /\ m.t \in {"hello", "keys", "size"}
         /\ m.t = "hello" => m.off \in Nat
         /\ m.t = "keys" => m.ks \in Seq(1..MaxAsks)
         /\ m.t = "size" => m.v \in 1..MaxAsks
  BY RemoteAssumption DEF UpMessages

\* What is left of a queue when its head is taken.
LEMMA TailIs ==
  ASSUME NEW S, NEW q \in Seq(S), q # <<>>
  PROVE  /\ Tail(q) \in Seq(S) /\ Len(q) \in Nat /\ Len(q) >= 1 /\ Len(Tail(q)) = Len(q) - 1
         /\ \A i \in 1..Len(Tail(q)) : Tail(q)[i] = q[i + 1]
         /\ Head(q) = q[1] /\ q[1] \in S
  OBVIOUS

\* A queue and one message more, ...
LEMMA AppendIs ==
  ASSUME NEW S, NEW q \in Seq(S), NEW m \in S
  PROVE  /\ q \o <<m>> = Append(q, m)
         /\ Append(q, m) \in Seq(S) /\ Len(q) \in Nat /\ Len(Append(q, m)) = Len(q) + 1
         /\ \A i \in 1..Len(q) : Append(q, m)[i] = q[i]
         /\ Append(q, m)[Len(q) + 1] = m
  OBVIOUS

\* ... which is not empty, ...
LEMMA AppendSome ==
  ASSUME NEW S, NEW q \in Seq(S), NEW m \in S
  PROVE  Append(q, m) # <<>> /\ Append(q, m) \in Seq(S)
<1>1. Append(q, m) \in Seq(S) /\ Len(Append(q, m)) > 0
  BY AppendIs
<1>2. Len(<<>>) = 0
  OBVIOUS
<1> QED BY <1>1, <1>2

\* ... and two.
LEMMA AppendTwo ==
  ASSUME NEW p \in Seq(DownMessages), NEW a \in DownMessages, NEW b \in DownMessages
  PROVE  p \o <<a, b>> = Append(Append(p, a), b)
<1> DEFINE c == <<a, b>>
           x == p \o c
           z == Append(p, a)
           y == Append(z, b)
<1>1. c \in Seq(DownMessages) /\ Len(c) = 2 /\ c[1] = a /\ c[2] = b
  OBVIOUS
<1> HIDE DEF c
<1>2. /\ x \in Seq(DownMessages) /\ Len(p) \in Nat /\ Len(x) = Len(p) + 2 /\ \A i \in 1..Len(p) : x[i] = p[i]
      /\ x[Len(p) + 1] = c[1] /\ x[Len(p) + 2] = c[2]
  <2>1. /\ x \in Seq(DownMessages) /\ Len(x) = Len(p) + 2
        /\ \A i \in 1..Len(p) + 2 : x[i] = IF i <= Len(p) THEN p[i] ELSE c[i - Len(p)]
    <3>1. /\ p \o c \in Seq(DownMessages) /\ Len(p \o c) = Len(p) + Len(c)
          /\ \A i \in 1..Len(p) + Len(c) :
               (p \o c)[i] = IF i <= Len(p) THEN p[i] ELSE c[i - Len(p)]
      BY <1>1, ConcatProperties, ZenonT(20)
    <3> HIDE DEF x
    <3> QED BY <1>1, <3>1 DEF x
  <2>2. Len(p) \in Nat
    OBVIOUS
  <2> HIDE DEF x
  <2> QED BY <2>1, <2>2
<1> HIDE DEF x
<1>z. z \in Seq(DownMessages) /\ Len(z) = Len(p) + 1 /\ z[Len(p) + 1] = a /\ \A i \in 1..Len(p) : z[i] = p[i]
  BY AppendIs
<1> HIDE DEF z
<1>3. /\ y \in Seq(DownMessages) /\ Len(y) = Len(z) + 1 /\ \A i \in 1..Len(z) : y[i] = z[i]
      /\ y[Len(z) + 1] = b
  BY <1>z, AppendIs
<1> HIDE DEF y
<1>4. \A i \in 1..Len(x) : x[i] = y[i]
  BY <1>1, <1>2, <1>3, <1>z, SMTT(30)
<1>5. x = y
  BY <1>2, <1>3, <1>4, <1>z, SeqEqual
<1> QED BY <1>5 DEF c, x, y, z

\* What is left of a queue when its end is lost.
LEMMA PrefixIs ==
  ASSUME NEW S, NEW q \in Seq(S), NEW p \in Prefixes(q)
  PROVE  /\ p \in Seq(S) /\ Len(p) \in Nat /\ Len(q) \in Nat /\ Len(p) <= Len(q)
         /\ \A i \in 1..Len(p) : p[i] = q[i]
<1>1. PICK l \in 0..Len(q) : p = SubSeq(q, 1, l)
  BY DEF Prefixes
<1> QED BY <1>1

-----------------------------------------------------------------------------
(* A queue that loses its end.                                             *)

\* Bodies.
LEMMA LivePrefix ==
  ASSUME NEW S, NEW q \in Seq(S), NEW p \in Seq(S), NEW gr, NEW j \in Nat,
         Len(p) <= Len(q), \A i \in 1..Len(p) : p[i] = q[i]
  PROVE  /\ Live(p, gr, j) => Live(q, gr, j)
         /\ Live(q, gr, j) /\ j + 1 <= Len(p) => Live(p, gr, j)
  BY DEF Live

\* When the end is lost, the rest is in the order it was, ...
LEMMA FormPrefix ==
  ASSUME NEW S, NEW q \in Seq(S), NEW p \in Seq(S), NEW hi, NEW gr,
         Len(p) <= Len(q), \A i \in 1..Len(p) : p[i] = q[i], Form(q, hi, gr)
  PROVE  Form(p, hi, gr)
<1>1. Len(p) \in Nat /\ Len(q) \in Nat
  OBVIOUS
<1>2. \A i \in 1..Len(p) : p[i].t = "delta" => Live(p, gr, i - 1)
  BY <1>1, LivePrefix DEF Form
<1>3. \A i \in 1..Len(p) : (p[i].t = "ack") <=> (i = 1 /\ hi = FALSE)
  BY <1>1 DEF Form
<1>4. \A i \in 1..Len(p) : p[i].t = "granted" => gr = FALSE /\ (i = 1 \/ p[i-1].t = "snap")
  <2> TAKE i \in 1..Len(p)
  <2> HAVE p[i].t = "granted"
  <2>1. gr = FALSE /\ (i = 1 \/ q[i-1].t = "snap")
    BY <1>1 DEF Form
  <2>2. i = 1 \/ i - 1 \in 1..Len(p)
    BY <1>1
  <2> QED BY <2>1, <2>2
<1>5. \A i, j \in 1..Len(p) : p[i].t = "granted" /\ p[j].t = "granted" => i = j
  BY <1>1 DEF Form
<1> QED BY <1>2, <1>3, <1>4, <1>5 DEF Form

\* ... tells no end that has not come and no chunk out of turn, ...
LEMMA QuietPrefix ==
  ASSUME NEW S, NEW q \in Seq(S), NEW p \in Seq(S), NEW ag, NEW off, NEW tl,
         Len(p) <= Len(q), \A i \in 1..Len(p) : p[i] = q[i]
  PROVE  /\ Ends(q, ag) => Ends(p, ag)
         /\ Chunks(q, off, tl) => Chunks(p, off, tl)
         /\ NoGap(q, off) => NoGap(p, off)
<1>1. Len(p) \in Nat /\ Len(q) \in Nat
  OBVIOUS
<1>2. Ends(q, ag) => Ends(p, ag)
  BY <1>1 DEF Ends
<1>3. Chunks(q, off, tl) => Chunks(p, off, tl)
  BY <1>1 DEF Chunks
<1>4. NoGap(q, off) => NoGap(p, off)
  <2> SUFFICES ASSUME NoGap(q, off), NEW i \in 1..Len(p), p[i].t = "out", NEW n \in off..p[i].at - 1
               PROVE  \E j \in 1..i - 1 : p[j].t = "out" /\ p[j].at = n
    BY DEF NoGap
  <2>1. i \in 1..Len(q) /\ q[i] = p[i]
    BY <1>1
  <2>2. PICK j \in 1..i - 1 : q[j].t = "out" /\ q[j].at = n
    BY <2>1 DEF NoGap
  <2>3. j \in 1..Len(p)
    BY <1>1
  <2> QED BY <2>2, <2>3
<1> QED BY <1>2, <1>3, <1>4

\* ... shows the same screens, ...
LEMMA ScreensPrefix ==
  ASSUME NEW S, NEW q \in Seq(S), NEW p \in Seq(S), NEW gr, NEW scr, NEW tl,
         Len(p) <= Len(q), \A i \in 1..Len(p) : p[i] = q[i], Screens(q, gr, scr, tl)
  PROVE  Screens(p, gr, scr, tl)
<1>1. Len(p) \in Nat /\ Len(q) \in Nat
  OBVIOUS
<1>2. \A j \in 0..Len(p) : Live(p, gr, j) => Live(q, gr, j)
  BY <1>1, LivePrefix
<1>3. \A j \in 0..Len(p) - 1 : Live(q, gr, j) => Live(p, gr, j)
  BY <1>1, LivePrefix
<1>4. \A j \in 0..Len(p) : (Content(p, j) <=> Content(q, j)) /\ Shows(p, scr, j) = Shows(q, scr, j)
  BY <1>1 DEF Content, Shows
<1>5. \A i \in 1..Len(p) : p[i].t = "out" /\ Live(p, gr, i) =>
       \E j \in 0..i - 1 : Live(p, gr, j) /\ Content(p, j) /\ Shows(p, scr, j) = p[i].at
  <2> TAKE i \in 1..Len(p)
  <2> HAVE p[i].t = "out" /\ Live(p, gr, i)
  <2>1. i \in 1..Len(q) /\ q[i].t = "out" /\ Live(q, gr, i) /\ q[i].at = p[i].at
    BY <1>1, <1>2
  <2>2. PICK j \in 0..i - 1 : Live(q, gr, j) /\ Content(q, j) /\ Shows(q, scr, j) = q[i].at
    BY <2>1 DEF Screens
  <2>3. j \in 0..Len(p) - 1
    BY <1>1
  <2> QED BY <2>1, <2>2, <2>3, <1>3, <1>4
<1>6. \A i \in 0..Len(p), j \in 1..Len(p) :
       i < j /\ Live(p, gr, i) /\ Content(p, i) /\ Content(p, j) => Shows(p, scr, i) <= p[j].at
  BY <1>1, <1>2, <1>4 DEF Screens
<1>7. Live(p, gr, 0) => scr \in 0..tl
  BY <1>1, <1>2 DEF Screens
<1>8. \A i \in 1..Len(p) : p[i].t \in {"snap", "delta"} => p[i].at <= tl
  BY <1>1 DEF Screens
<1> QED BY <1>5, <1>6, <1>7, <1>8 DEF Screens

\* ... and has the same updates of the grid.
LEMMA GridsPrefix ==
  ASSUME NEW S, NEW q \in Seq(S), NEW p \in Seq(S), NEW gr, NEW mir, NEW tl,
         Len(p) <= Len(q), \A i \in 1..Len(p) : p[i] = q[i], Grids(q, gr, mir, tl)
  PROVE  Grids(p, gr, mir, tl)
<1>1. Len(p) \in Nat /\ Len(q) \in Nat
  OBVIOUS
<1>2. \A j \in 0..Len(p) : Live(p, gr, j) => Live(q, gr, j)
  BY <1>1, LivePrefix
<1>3. \A j \in 0..Len(p) - 1 : Live(q, gr, j) => Live(p, gr, j)
  BY <1>1, LivePrefix
<1>4. \A j \in 0..Len(p) : /\ IsUpdate(p, j) <=> IsUpdate(q, j)
                           /\ Num(p, mir, j) = Num(q, mir, j) /\ Covers(p, mir, j) = Covers(q, mir, j)
  BY <1>1 DEF IsUpdate, Num, Covers
<1>5. \A i \in 1..Len(p) : p[i].t = "delta" =>
       \E j \in 0..i - 1 : /\ Live(p, gr, j) /\ IsUpdate(p, j)
                           /\ Num(p, mir, j) + 1 = p[i].seq /\ Covers(p, mir, j) >= p[i].base
  <2> TAKE i \in 1..Len(p)
  <2> HAVE p[i].t = "delta"
  <2>1. i \in 1..Len(q) /\ q[i].t = "delta" /\ q[i].seq = p[i].seq /\ q[i].base = p[i].base
    BY <1>1
  <2>2. PICK j \in 0..i - 1 : /\ Live(q, gr, j) /\ IsUpdate(q, j)
                              /\ Num(q, mir, j) + 1 = q[i].seq /\ Covers(q, mir, j) >= q[i].base
    BY <2>1 DEF Grids
  <2>3. j \in 0..Len(p) - 1
    BY <1>1
  <2> QED BY <2>1, <2>2, <2>3, <1>3, <1>4
<1>6. \A i \in 0..Len(p), j \in 1..Len(p) :
       i < j /\ Live(p, gr, i) /\ IsUpdate(p, i) /\ IsUpdate(p, j) => Num(p, mir, i) < p[j].seq
  BY <1>1, <1>2, <1>4 DEF Grids
<1>7. Live(p, gr, 0) => mir.at \in 0..tl /\ mir.seq # 0
  BY <1>1, <1>2 DEF Grids
<1> QED BY <1>5, <1>6, <1>7 DEF Grids

\* Numbers that are not beyond one are not when the end is lost.
LEMMA NumsPrefix ==
  ASSUME NEW S, NEW q \in Seq(S), NEW p \in Seq(S), NEW gr, NEW mir, NEW sq,
         Len(p) <= Len(q), \A i \in 1..Len(p) : p[i] = q[i], NumsUpto(q, gr, mir, sq)
  PROVE  NumsUpto(p, gr, mir, sq)
<1>1. Len(p) \in Nat /\ Len(q) \in Nat
  OBVIOUS
<1>2. \A j \in 0..Len(p) : Live(p, gr, j) => Live(q, gr, j)
  BY <1>1, LivePrefix
<1>4. \A j \in 0..Len(p) : (IsUpdate(p, j) <=> IsUpdate(q, j)) /\ Num(p, mir, j) = Num(q, mir, j)
  BY <1>1 DEF IsUpdate, Num
<1> QED BY <1>1, <1>2, <1>4 DEF NumsUpto

-----------------------------------------------------------------------------
(* A queue that grows.                                                     *)

\* With one message more: where the first snapshot is, ...
LEMMA LiveAppend ==
  ASSUME NEW q \in Seq(DownMessages), NEW m \in DownMessages, NEW gr, m.t # "granted"
  PROVE  /\ \A j \in 0..Len(q) : Live(Append(q, m), gr, j) <=> Live(q, gr, j)
         /\ Live(Append(q, m), gr, Len(q) + 1) <=> Live(q, gr, Len(q))
<1> DEFINE z == Append(q, m)
<1>1. /\ Len(q) \in Nat /\ Len(z) = Len(q) + 1 /\ z[Len(q) + 1] = m
      /\ \A i \in 1..Len(q) : z[i] = q[i]
  BY AppendIs
<1> HIDE DEF z
<1>2. \A j \in 0..Len(q) : Live(z, gr, j) <=> Live(q, gr, j)
  BY <1>1 DEF Live
<1>3. Live(z, gr, Len(q) + 1) <=> Live(q, gr, Len(q))
  BY <1>1 DEF Live
<1> QED BY <1>2, <1>3 DEF z

\* ... the order, ...
LEMMA FormAppend ==
  ASSUME NEW q \in Seq(DownMessages), NEW m \in DownMessages, NEW hi, NEW gr,
         Form(q, hi, gr), Live(q, gr, Len(q)), hi = FALSE => q # <<>>,
         m.t \notin {"ack", "granted"}
  PROVE  Form(Append(q, m), hi, gr)
<1> DEFINE z == Append(q, m)
<1>1. /\ Len(q) \in Nat /\ Len(z) = Len(q) + 1 /\ z[Len(q) + 1] = m
      /\ \A i \in 1..Len(q) : z[i] = q[i]
  BY AppendIs
<1>2. \A j \in 0..Len(q) : Live(z, gr, j) <=> Live(q, gr, j)
  BY LiveAppend
<1>3. hi = FALSE => Len(q) # 0
  BY <1>1
<1> HIDE DEF z
<1>4. \A i \in 1..Len(z) : (z[i].t = "ack") <=> (i = 1 /\ hi = FALSE)
  BY <1>1, <1>3 DEF Form
<1>5. \A i \in 1..Len(z) : z[i].t = "granted" => gr = FALSE /\ (i = 1 \/ z[i-1].t = "snap")
  <2> TAKE i \in 1..Len(z)
  <2> HAVE z[i].t = "granted"
  <2>1. i \in 1..Len(q)
    BY <1>1
  <2>2. gr = FALSE /\ (i = 1 \/ q[i-1].t = "snap")
    BY <2>1, <1>1 DEF Form
  <2>3. i = 1 \/ i - 1 \in 1..Len(q)
    BY <2>1, <1>1
  <2> QED BY <1>1, <2>2, <2>3
<1>6. \A i, j \in 1..Len(z) : z[i].t = "granted" /\ z[j].t = "granted" => i = j
  BY <1>1 DEF Form
<1>8. \A i \in 1..Len(z) : z[i].t = "delta" => Live(z, gr, i - 1)
  BY <1>1, <1>2 DEF Form
<1> QED BY <1>4, <1>5, <1>6, <1>8 DEF Form, z

\* ... ends and chunks, ...
LEMMA QuietAppend ==
  ASSUME NEW q \in Seq(DownMessages), NEW m \in DownMessages, NEW ag, NEW off \in Nat, NEW tl \in Nat,
         NEW tm \in Nat, tl <= tm
  PROVE  /\ Ends(q, ag) /\ (m.t \in {"ack", "exit"} => ag # "running") => Ends(Append(q, m), ag)
         /\ Chunks(q, off, tl) /\ (m.t = "out" => off <= m.at /\ m.at = tl /\ m.at < tm) =>
              Chunks(Append(q, m), off, tm)
         /\ NoGap(q, off) /\ (m.t = "out" => m.at = tl /\ AllSent(q, off, tl)) => NoGap(Append(q, m), off)
         /\ AllSent(q, off, tl) /\ (IF m.t = "out" THEN m.at = tl /\ tm = tl + 1 ELSE tm = tl) =>
              AllSent(Append(q, m), off, tm)
<1> DEFINE z == Append(q, m)
<1>1. /\ Len(q) \in Nat /\ Len(z) = Len(q) + 1 /\ z[Len(q) + 1] = m
      /\ \A i \in 1..Len(q) : z[i] = q[i] /\ q[i] \in DownMessages
  BY AppendIs
<1>2. /\ \A i \in 1..Len(q) : q[i].t = "out" => q[i].at \in Nat
      /\ m.t = "out" => m.at \in Nat
  BY <1>1, DownFields
<1> HIDE DEF z
<1>3. Ends(q, ag) /\ (m.t \in {"ack", "exit"} => ag # "running") => Ends(z, ag)
  BY <1>1 DEF Ends
<1>4. Chunks(q, off, tl) /\ (m.t = "out" => off <= m.at /\ m.at = tl /\ m.at < tm) => Chunks(z, off, tm)
  <2> SUFFICES ASSUME Chunks(q, off, tl), m.t = "out" => off <= m.at /\ m.at = tl /\ m.at < tm
               PROVE  Chunks(z, off, tm)
    OBVIOUS
  <2>1. \A i \in 1..Len(z) : z[i].t = "out" => off <= z[i].at /\ z[i].at < tm
    BY <1>1, <1>2 DEF Chunks
  <2>2. \A i, j \in 1..Len(z) :
          i < j /\ z[i].t = "out" /\ z[j].t = "out" => z[i].at < z[j].at
    BY <1>1, <1>2 DEF Chunks
  <2> QED BY <2>1, <2>2 DEF Chunks
<1>5. NoGap(q, off) /\ (m.t = "out" => m.at = tl /\ AllSent(q, off, tl)) => NoGap(z, off)
  <2> SUFFICES ASSUME NoGap(q, off), m.t = "out" => m.at = tl /\ AllSent(q, off, tl),
                      NEW i \in 1..Len(z), z[i].t = "out", NEW n \in off..z[i].at - 1
               PROVE  \E j \in 1..i - 1 : z[j].t = "out" /\ z[j].at = n
    BY DEF NoGap
  <2>1. CASE i \in 1..Len(q)
    <3>1. PICK j \in 1..i - 1 : q[j].t = "out" /\ q[j].at = n
      BY <2>1, <1>1 DEF NoGap
    <3>2. j \in 1..Len(q)
      BY <2>1, <1>1
    <3> QED BY <3>1, <3>2, <1>1
  <2>2. CASE i = Len(q) + 1
    <3>1. z[i] = m /\ m.t = "out" /\ n \in off..tl - 1
      BY <2>2, <1>1
    <3>2. PICK j \in 1..Len(q) : q[j].t = "out" /\ q[j].at = n
      BY <3>1 DEF AllSent
    <3>3. j \in 1..i - 1
      BY <2>2, <1>1
    <3> QED BY <3>2, <3>3, <1>1
  <2> QED BY <2>1, <2>2, <1>1
<1>6. AllSent(q, off, tl) /\ (IF m.t = "out" THEN m.at = tl /\ tm = tl + 1 ELSE tm = tl)
        => AllSent(z, off, tm)
  <2> SUFFICES ASSUME AllSent(q, off, tl), IF m.t = "out" THEN m.at = tl /\ tm = tl + 1 ELSE tm = tl,
                      NEW n \in off..tm - 1
               PROVE  \E j \in 1..Len(z) : z[j].t = "out" /\ z[j].at = n
    BY DEF AllSent
  <2>1. CASE n \in off..tl - 1
    <3>1. PICK j \in 1..Len(q) : q[j].t = "out" /\ q[j].at = n
      BY <2>1 DEF AllSent
    <3> QED BY <3>1, <1>1
  <2>2. CASE ~(n \in off..tl - 1)
    <3>1. m.t = "out" /\ m.at = n
      BY <2>2
    <3> QED BY <3>1, <1>1
  <2> QED BY <2>1, <2>2
<1> QED BY <1>3, <1>4, <1>5, <1>6 DEF z

\* No screen shows more than there is.
LEMMA ShowsUpto ==
  ASSUME NEW q \in Seq(DownMessages), NEW gr, NEW scr, NEW off \in Nat, NEW tl \in Nat,
         Screens(q, gr, scr, tl), Chunks(q, off, tl)
  PROVE  \A j \in 0..Len(q) : Live(q, gr, j) /\ Content(q, j) =>
           Shows(q, scr, j) \in Nat /\ Shows(q, scr, j) <= tl
<1> SUFFICES ASSUME NEW j \in 0..Len(q), Live(q, gr, j), Content(q, j)
             PROVE  Shows(q, scr, j) \in Nat /\ Shows(q, scr, j) <= tl
  OBVIOUS
<1>1. CASE j = 0
  BY <1>1 DEF Screens, Shows
<1>2. CASE j # 0
  <2>1. j \in 1..Len(q) /\ q[j] \in DownMessages /\ q[j].t \in {"out", "snap"}
    BY <1>2 DEF Content
  <2>2. q[j].at \in Nat
    BY <2>1, DownFields
  <2>3. IF q[j].t = "out" THEN q[j].at < tl ELSE q[j].at <= tl
    BY <2>1 DEF Screens, Chunks
  <2> QED BY <1>2, <2>2, <2>3 DEF Shows
<1> QED BY <1>1, <1>2

\* With one message more: the screens, ...
LEMMA ScreensAppend ==
  ASSUME NEW q \in Seq(DownMessages), NEW m \in DownMessages, NEW gr, NEW scr, NEW off \in Nat,
         NEW tl \in Nat, NEW tm \in Nat, tl <= tm, Screens(q, gr, scr, tl), Chunks(q, off, tl),
         m.t # "granted", m.t \in {"out", "snap"} => tl <= m.at,
         m.t \in {"snap", "delta"} => m.at <= tm,
         m.t = "out" => m.at = tl /\ ShowsAll(q, gr, scr, tl)
  PROVE  Screens(Append(q, m), gr, scr, tm)
<1> DEFINE z == Append(q, m)
<1>1. /\ Len(q) \in Nat /\ Len(z) = Len(q) + 1 /\ z[Len(q) + 1] = m
      /\ \A i \in 1..Len(q) : z[i] = q[i] /\ q[i] \in DownMessages
  BY AppendIs
<1>2. \A j \in 0..Len(q) : Live(z, gr, j) <=> Live(q, gr, j)
  BY LiveAppend
<1> HIDE DEF z
<1>3. \A j \in 0..Len(q) : (Content(z, j) <=> Content(q, j)) /\ Shows(z, scr, j) = Shows(q, scr, j)
  BY <1>1 DEF Content, Shows
<1>4. \A j \in 0..Len(q) : Live(q, gr, j) /\ Content(q, j) =>
           Shows(q, scr, j) \in Nat /\ Shows(q, scr, j) <= tl
  BY ShowsUpto
<1>5. m.t \in {"out", "snap", "delta"} => m.at \in Nat
  BY DownFields
<1>6. \A i \in 1..Len(q) : q[i].t \in {"out", "snap", "delta"} => q[i].at \in Nat
  BY <1>1, DownFields
<1>7. Live(z, gr, 0) => scr \in 0..tm
  <2>1. Live(z, gr, 0) => scr \in 0..tl
    BY <1>1, <1>2 DEF Screens
  <2> QED BY <2>1
<1>8. \A i \in 1..Len(z) : z[i].t \in {"snap", "delta"} => z[i].at <= tm
  <2> SUFFICES ASSUME NEW i \in 1..Len(z), z[i].t \in {"snap", "delta"} PROVE z[i].at <= tm
    OBVIOUS
  <2>1. CASE i \in 1..Len(q)
    <3>1. q[i].at <= tl /\ z[i] = q[i] /\ q[i].at \in Nat
      BY <2>1, <1>1, <1>6 DEF Screens
    <3> QED BY <3>1
  <2>2. CASE i = Len(q) + 1
    BY <2>2, <1>1
  <2> QED BY <2>1, <2>2, <1>1
<1>9. \A i \in 0..Len(z), j \in 1..Len(z) :
       i < j /\ Live(z, gr, i) /\ Content(z, i) /\ Content(z, j) => Shows(z, scr, i) <= z[j].at
  <2> SUFFICES ASSUME NEW i \in 0..Len(z), NEW j \in 1..Len(z),
                      i < j, Live(z, gr, i), Content(z, i), Content(z, j)
               PROVE  Shows(z, scr, i) <= z[j].at
    OBVIOUS
  <2>1. i \in 0..Len(q) /\ Live(q, gr, i) /\ Content(q, i) /\ Shows(z, scr, i) = Shows(q, scr, i)
    BY <1>1, <1>2, <1>3
  <2>2. CASE j \in 1..Len(q)
    <3>1. Content(q, j) /\ z[j] = q[j]
      BY <2>2, <1>1, <1>3
    <3> QED BY <2>1, <2>2, <3>1 DEF Screens
  <2>3. CASE j = Len(q) + 1
    <3>1. m.t \in {"out", "snap"} /\ z[j] = m
      BY <2>3, <1>1 DEF Content
    <3> QED BY <2>1, <3>1, <1>4, <1>5
  <2> QED BY <2>2, <2>3, <1>1
<1>10. \A i \in 1..Len(z) : z[i].t = "out" /\ Live(z, gr, i) =>
       \E j \in 0..i - 1 : Live(z, gr, j) /\ Content(z, j) /\ Shows(z, scr, j) = z[i].at
  <2> SUFFICES ASSUME NEW i \in 1..Len(z), z[i].t = "out", Live(z, gr, i)
               PROVE  \E j \in 0..i - 1 : Live(z, gr, j) /\ Content(z, j) /\ Shows(z, scr, j) = z[i].at
    OBVIOUS
  <2>1. CASE i \in 1..Len(q)
    <3>1. q[i].t = "out" /\ Live(q, gr, i) /\ z[i] = q[i]
      BY <2>1, <1>1, <1>2
    <3>2. PICK j \in 0..i - 1 : Live(q, gr, j) /\ Content(q, j) /\ Shows(q, scr, j) = q[i].at
      BY <2>1, <3>1 DEF Screens
    <3>3. j \in 0..Len(q)
      BY <2>1, <1>1
    <3> QED BY <3>1, <3>2, <3>3, <1>2, <1>3
  <2>2. CASE i = Len(q) + 1
    <3>1. z[i] = m /\ m.t = "out" /\ m.at = tl /\ ShowsAll(q, gr, scr, tl)
      BY <2>2, <1>1
    <3>2. PICK j \in 0..Len(q) : Live(q, gr, j) /\ Content(q, j) /\ Shows(q, scr, j) = tl
      BY <3>1 DEF ShowsAll
    <3>3. j \in 0..i - 1
      BY <2>2, <1>1
    <3> QED BY <3>1, <3>2, <3>3, <1>2, <1>3
  <2> QED BY <2>1, <2>2, <1>1
<1> QED BY <1>7, <1>8, <1>9, <1>10 DEF Screens, z

\* ... the last of which shows all there is, ...
LEMMA ShowsAllAppend ==
  ASSUME NEW q \in Seq(DownMessages), NEW m \in DownMessages, NEW gr, NEW scr,
         NEW tl \in Nat, NEW tm \in Nat, m.t # "granted", Live(q, gr, Len(q)),
         \/ m.t = "out" /\ tm = m.at + 1
         \/ m.t = "snap" /\ tm = m.at
         \/ tm = tl /\ ShowsAll(q, gr, scr, tl)
  PROVE  ShowsAll(Append(q, m), gr, scr, tm)
<1> DEFINE z == Append(q, m)
<1>1. /\ Len(q) \in Nat /\ Len(z) = Len(q) + 1 /\ z[Len(q) + 1] = m
      /\ \A i \in 1..Len(q) : z[i] = q[i] /\ q[i] \in DownMessages
  BY AppendIs
<1>2. (\A j \in 0..Len(q) : Live(z, gr, j) <=> Live(q, gr, j)) /\ Live(z, gr, Len(q) + 1)
  BY LiveAppend
<1> HIDE DEF z
<1>3. CASE (m.t = "out" /\ tm = m.at + 1) \/ (m.t = "snap" /\ tm = m.at)
  <2>1. Content(z, Len(q) + 1) /\ Shows(z, scr, Len(q) + 1) = tm
    BY <1>1, <1>3 DEF Content, Shows
  <2> QED BY <1>1, <1>2, <2>1 DEF ShowsAll, z
<1>4. CASE tm = tl /\ ShowsAll(q, gr, scr, tl)
  <2>1. PICK j \in 0..Len(q) : Live(q, gr, j) /\ Content(q, j) /\ Shows(q, scr, j) = tl
    BY <1>4 DEF ShowsAll
  <2>2. Content(z, j) /\ Shows(z, scr, j) = tl
    BY <1>1, <2>1 DEF Content, Shows
  <2> QED BY <1>1, <1>2, <1>4, <2>1, <2>2 DEF ShowsAll, z
<1>5. ((m.t = "out" /\ tm = m.at + 1) \/ (m.t = "snap" /\ tm = m.at)) \/ (tm = tl /\ ShowsAll(q, gr, scr, tl))
  OBVIOUS
<1> QED BY <1>3, <1>4, <1>5

\* Message m may follow the updates of q, of which the last has number sq.
Follows(q, m, gr, mir, sq, tl) ==
  /\ m.t # "granted"
  /\ m.t \in {"snap", "delta"} => sq < m.seq
  /\ m.t = "delta" => m.seq = sq + 1 /\ \E dr : Newest(q, gr, mir, sq, m.base, dr, tl)

\* ... the updates of the grid, ...
LEMMA GridsAppend ==
  ASSUME NEW q \in Seq(DownMessages), NEW m \in DownMessages, NEW gr, NEW mir \in [seq : Nat, at : Int],
         NEW sq \in Nat,
         NEW tl \in Nat, NEW tm \in Nat, tl <= tm, Grids(q, gr, mir, tl), NumsUpto(q, gr, mir, sq),
         Follows(q, m, gr, mir, sq, tl)
  PROVE  Grids(Append(q, m), gr, mir, tm)
<1> USE DEF Follows
<1> DEFINE z == Append(q, m)
<1>1. /\ Len(q) \in Nat /\ Len(z) = Len(q) + 1 /\ z[Len(q) + 1] = m
      /\ \A i \in 1..Len(q) : z[i] = q[i] /\ q[i] \in DownMessages
  BY AppendIs
<1>2. \A j \in 0..Len(q) : Live(z, gr, j) <=> Live(q, gr, j)
  BY LiveAppend
<1> HIDE DEF z
<1>3. \A j \in 0..Len(q) : /\ IsUpdate(z, j) <=> IsUpdate(q, j)
                           /\ Num(z, mir, j) = Num(q, mir, j) /\ Covers(z, mir, j) = Covers(q, mir, j)
  BY <1>1 DEF IsUpdate, Num, Covers
<1>4. m.t \in {"snap", "delta"} => m.seq \in Nat
  BY DownFields
<1>5. \A i \in 1..Len(q) : q[i].t \in {"snap", "delta"} => q[i].seq \in Nat
  BY <1>1, DownFields
<1>6. \A j \in 0..Len(q) : IsUpdate(q, j) => Num(q, mir, j) \in Nat
  BY <1>1, <1>5 DEF IsUpdate, Num
<1>7. Live(z, gr, 0) => mir.at \in 0..tm /\ mir.seq # 0
  <2>1. Live(z, gr, 0) => mir.at \in 0..tl /\ mir.seq # 0
    BY <1>1, <1>2 DEF Grids
  <2> QED BY <2>1
<1>9. \A i \in 0..Len(z), j \in 1..Len(z) :
       i < j /\ Live(z, gr, i) /\ IsUpdate(z, i) /\ IsUpdate(z, j) => Num(z, mir, i) < z[j].seq
  <2> SUFFICES ASSUME NEW i \in 0..Len(z), NEW j \in 1..Len(z),
                      i < j, Live(z, gr, i), IsUpdate(z, i), IsUpdate(z, j)
               PROVE  Num(z, mir, i) < z[j].seq
    OBVIOUS
  <2>1. i \in 0..Len(q) /\ Live(q, gr, i) /\ IsUpdate(q, i) /\ Num(z, mir, i) = Num(q, mir, i)
    BY <1>1, <1>2, <1>3
  <2>2. CASE j \in 1..Len(q)
    <3>1. IsUpdate(q, j) /\ z[j] = q[j]
      BY <2>2, <1>1, <1>3
    <3> QED BY <2>1, <2>2, <3>1 DEF Grids
  <2>3. CASE j = Len(q) + 1
    <3>1. m.t \in {"snap", "delta"} /\ z[j] = m
      BY <2>3, <1>1 DEF IsUpdate
    <3>2. Num(q, mir, i) <= sq /\ Num(q, mir, i) \in Nat
      BY <2>1, <1>6 DEF NumsUpto
    <3> QED BY <2>1, <3>1, <3>2, <1>4
  <2> QED BY <2>2, <2>3, <1>1
<1>10. \A i \in 1..Len(z) : z[i].t = "delta" =>
       \E j \in 0..i - 1 : /\ Live(z, gr, j) /\ IsUpdate(z, j)
                           /\ Num(z, mir, j) + 1 = z[i].seq /\ Covers(z, mir, j) >= z[i].base
  <2> SUFFICES ASSUME NEW i \in 1..Len(z), z[i].t = "delta"
               PROVE  \E j \in 0..i - 1 : /\ Live(z, gr, j) /\ IsUpdate(z, j)
                           /\ Num(z, mir, j) + 1 = z[i].seq /\ Covers(z, mir, j) >= z[i].base
    OBVIOUS
  <2>1. CASE i \in 1..Len(q)
    <3>1. q[i].t = "delta" /\ z[i] = q[i]
      BY <2>1, <1>1
    <3>2. PICK j \in 0..i - 1 : /\ Live(q, gr, j) /\ IsUpdate(q, j)
                                /\ Num(q, mir, j) + 1 = q[i].seq /\ Covers(q, mir, j) >= q[i].base
      BY <2>1, <3>1 DEF Grids
    <3>3. j \in 0..Len(q)
      BY <2>1, <1>1
    <3> QED BY <3>1, <3>2, <3>3, <1>2, <1>3
  <2>2. CASE i = Len(q) + 1
    <3>1. z[i] = m /\ m.seq = sq + 1 /\ \E dr : Newest(q, gr, mir, sq, m.base, dr, tl)
      BY <2>2, <1>1
    <3>2. PICK j \in 0..Len(q) : /\ Live(q, gr, j) /\ IsUpdate(q, j)
                                 /\ Num(q, mir, j) = sq /\ Covers(q, mir, j) >= m.base
      BY <3>1 DEF Newest
    <3>3. j \in 0..i - 1
      BY <2>2, <1>1
    <3> QED BY <3>1, <3>2, <3>3, <1>2, <1>3
  <2> QED BY <2>1, <2>2, <1>1
<1> QED BY <1>7, <1>9, <1>10 DEF Grids, z

\* ... their numbers, ...
LEMMA NumsAppend ==
  ASSUME NEW q \in Seq(DownMessages), NEW m \in DownMessages, NEW gr, NEW mir \in [seq : Nat, at : Int],
         NEW sq \in Nat, NEW sr \in Nat, sq <= sr, NumsUpto(q, gr, mir, sq),
         m.t # "granted", m.t \in {"snap", "delta"} => m.seq <= sr
  PROVE  NumsUpto(Append(q, m), gr, mir, sr)
<1> DEFINE z == Append(q, m)
<1>1. /\ Len(q) \in Nat /\ Len(z) = Len(q) + 1 /\ z[Len(q) + 1] = m
      /\ \A i \in 1..Len(q) : z[i] = q[i] /\ q[i] \in DownMessages
  BY AppendIs
<1>2. \A j \in 0..Len(q) : Live(z, gr, j) <=> Live(q, gr, j)
  BY LiveAppend
<1> HIDE DEF z
<1>3. \A j \in 0..Len(q) : (IsUpdate(z, j) <=> IsUpdate(q, j)) /\ Num(z, mir, j) = Num(q, mir, j)
  BY <1>1 DEF IsUpdate, Num
<1>5. \A i \in 1..Len(q) : q[i].t \in {"snap", "delta"} => q[i].seq \in Nat
  BY <1>1, DownFields
<1>6. \A j \in 0..Len(q) : IsUpdate(q, j) => Num(q, mir, j) \in Nat
  BY <1>1, <1>5 DEF IsUpdate, Num
<1> SUFFICES ASSUME NEW j \in 0..Len(z), Live(z, gr, j), IsUpdate(z, j) PROVE Num(z, mir, j) <= sr
  BY DEF NumsUpto, z
<1>7. CASE j \in 0..Len(q)
  <2>1. Num(q, mir, j) <= sq /\ Num(q, mir, j) \in Nat /\ Num(z, mir, j) = Num(q, mir, j)
    BY <1>7, <1>2, <1>3, <1>6 DEF NumsUpto
  <2> QED BY <2>1
<1>8. CASE j = Len(q) + 1
  BY <1>8, <1>1 DEF IsUpdate, Num
<1> QED BY <1>7, <1>8, <1>1

\* ... and the newest of them.
LEMMA NewestAppend ==
  ASSUME NEW q \in Seq(DownMessages), NEW m \in DownMessages, NEW gr, NEW mir,
         NEW sq, NEW bs, NEW dr, NEW tl, NEW sr, NEW bt, NEW ds, NEW tm,
         m.t # "granted", Live(q, gr, Len(q)),
         \/ m.t \in {"snap", "delta"} /\ m.seq = sr /\ m.at >= bt /\ m.at = tm
         \/ sr = sq /\ bt = bs /\ ((tm = tl /\ ds = dr) \/ ds = TRUE) /\ Newest(q, gr, mir, sq, bs, dr, tl)
  PROVE  Newest(Append(q, m), gr, mir, sr, bt, ds, tm)
<1> DEFINE z == Append(q, m)
<1>1. /\ Len(q) \in Nat /\ Len(z) = Len(q) + 1 /\ z[Len(q) + 1] = m
      /\ \A i \in 1..Len(q) : z[i] = q[i] /\ q[i] \in DownMessages
  BY AppendIs
<1>2. (\A j \in 0..Len(q) : Live(z, gr, j) <=> Live(q, gr, j)) /\ Live(z, gr, Len(q) + 1)
  BY LiveAppend
<1> HIDE DEF z
<1>3. CASE m.t \in {"snap", "delta"} /\ m.seq = sr /\ m.at >= bt /\ m.at = tm
  <2>1. IsUpdate(z, Len(q) + 1) /\ Num(z, mir, Len(q) + 1) = sr /\ Covers(z, mir, Len(q) + 1) = m.at
    BY <1>1, <1>3 DEF IsUpdate, Num, Covers
  <2>2. Len(q) + 1 \in 0..Len(z)
    BY <1>1
  <2> QED BY <1>2, <1>3, <2>1, <2>2 DEF Newest, z
<1>4. CASE sr = sq /\ bt = bs /\ ((tm = tl /\ ds = dr) \/ ds = TRUE) /\ Newest(q, gr, mir, sq, bs, dr, tl)
  <2>1. PICK j \in 0..Len(q) : /\ Live(q, gr, j) /\ IsUpdate(q, j)
                        /\ Num(q, mir, j) = sq /\ Covers(q, mir, j) >= bs
                        /\ (dr = TRUE \/ Covers(q, mir, j) = tl)
    BY <1>4 DEF Newest
  <2>2. IsUpdate(z, j) /\ Num(z, mir, j) = sr /\ Covers(z, mir, j) = Covers(q, mir, j)
    BY <1>1, <1>4, <2>1 DEF IsUpdate, Num, Covers
  <2>3. ds = TRUE \/ Covers(z, mir, j) = tm
    BY <1>4, <2>1, <2>2
  <2>4. j \in 0..Len(z) /\ Live(z, gr, j)
    BY <1>1, <1>2, <2>1
  <2> QED BY <1>4, <2>1, <2>2, <2>3, <2>4 DEF Newest, z
<1> QED BY <1>3, <1>4

-----------------------------------------------------------------------------
(* A queue whose head is taken.                                            *)

\* When the head is taken: where the first snapshot is, ...
LEMMA LivePop ==
  ASSUME NEW q \in Seq(DownMessages), q # <<>>, NEW gr, NEW gs,
         gs = IF q[1].t = "granted" THEN TRUE ELSE gr
  PROVE  /\ \A j \in 0..Len(q) - 1 : Live(Tail(q), gs, j) <=> Live(q, gr, j + 1)
         /\ Live(Tail(q), gs, 0) <=> Live(q, gr, 1)
<1> DEFINE z == Tail(q)
<1>1. Len(q) \in Nat /\ Len(q) >= 1 /\ Len(z) = Len(q) - 1 /\ \A i \in 1..Len(z) : z[i] = q[i + 1]
  BY TailIs
<1> HIDE DEF z
<1> SUFFICES ASSUME NEW j \in 0..Len(q) - 1 PROVE Live(z, gs, j) <=> Live(q, gr, j + 1)
  <2>1. 0 \in 0..Len(q) - 1 /\ 0 + 1 = 1
    BY <1>1
  <2> QED BY <2>1 DEF z
<1>2. CASE q[1].t = "granted"
  BY <1>1, <1>2 DEF Live
<1>3. CASE q[1].t # "granted"
  <2>1. Live(z, gs, j) => Live(q, gr, j + 1)
    BY <1>1, <1>3 DEF Live
  <2>2. ASSUME Live(q, gr, j + 1) PROVE Live(z, gs, j)
    <3>1. CASE gr = TRUE
      BY <1>3, <3>1 DEF Live
    <3>2. CASE \E g \in 1..Len(q) : g <= j + 1 + 1 /\ q[g].t = "granted"
      <4>1. PICK g \in 1..Len(q) : g <= j + 1 + 1 /\ q[g].t = "granted"
        BY <3>2
      <4>2. g # 1 /\ g - 1 \in 1..Len(z) /\ g - 1 <= j + 1 /\ z[g - 1] = q[g]
        BY <4>1, <1>1, <1>3
      <4> QED BY <4>1, <4>2 DEF Live
    <3> QED BY <2>2, <3>1, <3>2 DEF Live
  <2> QED BY <2>1, <2>2
<1> QED BY <1>2, <1>3

\* ... the order, ...
LEMMA FormPop ==
  ASSUME NEW q \in Seq(DownMessages), q # <<>>, NEW hi \in BOOLEAN, NEW gr \in BOOLEAN, NEW gs,
         gs = IF q[1].t = "granted" THEN TRUE ELSE gr, Form(q, hi, gr)
  PROVE  Form(Tail(q), TRUE, gs)
<1> DEFINE z == Tail(q)
<1>1. Len(q) \in Nat /\ Len(q) >= 1 /\ Len(z) = Len(q) - 1 /\ \A i \in 1..Len(z) : z[i] = q[i + 1]
  BY TailIs
<1>2. \A j \in 0..Len(q) - 1 : Live(z, gs, j) <=> Live(q, gr, j + 1)
  BY LivePop
<1> HIDE DEF z
<1>4. \A i \in 1..Len(z) : (z[i].t = "ack") <=> (i = 1 /\ TRUE = FALSE)
  BY <1>1 DEF Form
<1>5. \A i \in 1..Len(z) : z[i].t = "granted" => gs = FALSE /\ (i = 1 \/ z[i-1].t = "snap")
  <2> TAKE i \in 1..Len(z)
  <2> HAVE z[i].t = "granted"
  <2>1. i + 1 \in 1..Len(q) /\ q[i + 1].t = "granted" /\ i + 1 # 1 /\ i + 1 - 1 = i
    BY <1>1
  <2>2. gr = FALSE /\ q[i].t = "snap"
    BY <2>1 DEF Form
  <2>3. q[1].t # "granted"
    BY <2>1, <1>1 DEF Form
  <2>4. i = 1 \/ z[i - 1] = q[i]
    BY <1>1
  <2> QED BY <2>2, <2>3, <2>4
<1>6. \A i, j \in 1..Len(z) : z[i].t = "granted" /\ z[j].t = "granted" => i = j
  <2> TAKE i, j \in 1..Len(z)
  <2> HAVE z[i].t = "granted" /\ z[j].t = "granted"
  <2>1. i + 1 \in 1..Len(q) /\ j + 1 \in 1..Len(q) /\ z[i] = q[i + 1] /\ z[j] = q[j + 1]
    BY <1>1
  <2>2. i + 1 = j + 1
    BY <2>1 DEF Form
  <2> QED BY <2>2
<1>8. \A i \in 1..Len(z) : z[i].t = "delta" => Live(z, gs, i - 1)
  <2> TAKE i \in 1..Len(z)
  <2> HAVE z[i].t = "delta"
  <2>1. i + 1 \in 1..Len(q) /\ q[i + 1].t = "delta" /\ i + 1 - 1 = i
    BY <1>1
  <2>2. Live(q, gr, i)
    BY <2>1 DEF Form
  <2>3. i - 1 \in 0..Len(q) - 1 /\ i - 1 + 1 = i
    BY <1>1
  <2> QED BY <2>2, <2>3, <1>2
<1> QED BY <1>4, <1>5, <1>6, <1>8 DEF Form, z

\* ... ends and chunks.
LEMMA QuietPop ==
  ASSUME NEW q \in Seq(DownMessages), q # <<>>, NEW ag, NEW off \in Nat, NEW om, NEW tl \in Nat,
         om = IF q[1].t = "out" THEN q[1].at + 1 ELSE off, Chunks(q, off, tl)
  PROVE  /\ Ends(q, ag) => Ends(Tail(q), ag)
         /\ Chunks(Tail(q), om, tl)
         /\ om \in off..tl \/ om = off
         /\ NoGap(q, off) => NoGap(Tail(q), om) /\ (q[1].t = "out" => q[1].at = off)
         /\ AllSent(q, off, tl) => AllSent(Tail(q), om, tl)
<1> DEFINE z == Tail(q)
<1>1. /\ Len(q) \in Nat /\ Len(q) >= 1 /\ Len(z) = Len(q) - 1 /\ \A i \in 1..Len(z) : z[i] = q[i + 1]
      /\ \A i \in 1..Len(q) : q[i] \in DownMessages
  BY TailIs
<1>2. \A i \in 1..Len(q) : q[i].t = "out" => q[i].at \in Nat
  BY <1>1, DownFields
<1> HIDE DEF z
<1>3. Ends(q, ag) => Ends(z, ag)
  BY <1>1 DEF Ends
<1>4. om \in Nat /\ off <= om /\ (om \in off..tl \/ om = off)
  BY <1>1, <1>2 DEF Chunks
<1>5. Chunks(z, om, tl)
  <2>1. \A i \in 1..Len(z) : z[i].t = "out" => om <= z[i].at /\ z[i].at < tl
    <3> TAKE i \in 1..Len(z)
    <3> HAVE z[i].t = "out"
    <3>1. i + 1 \in 1..Len(q) /\ 1 \in 1..Len(q) /\ 1 < i + 1 /\ z[i] = q[i + 1] /\ q[i + 1].at \in Nat
      BY <1>1, <1>2
    <3>2. off <= z[i].at /\ z[i].at < tl
      BY <3>1 DEF Chunks
    <3>3. q[1].t = "out" => q[1].at < z[i].at /\ q[1].at \in Nat
      BY <3>1, <1>2 DEF Chunks
    <3> QED BY <3>1, <3>2, <3>3
  <2>2. \A i, j \in 1..Len(z) :
          i < j /\ z[i].t = "out" /\ z[j].t = "out" => z[i].at < z[j].at
    <3> TAKE i, j \in 1..Len(z)
    <3> HAVE i < j /\ z[i].t = "out" /\ z[j].t = "out"
    <3>1. i + 1 \in 1..Len(q) /\ j + 1 \in 1..Len(q) /\ i + 1 < j + 1 /\ z[i] = q[i + 1] /\ z[j] = q[j + 1]
      BY <1>1, SMTT(30)
    <3> QED BY <3>1 DEF Chunks
  <2> QED BY <2>1, <2>2 DEF Chunks
<1>6. ASSUME NoGap(q, off) PROVE NoGap(z, om) /\ (q[1].t = "out" => q[1].at = off)
  <2>1. q[1].t = "out" => q[1].at = off
    <3> HAVE q[1].t = "out"
    <3>1. off <= q[1].at /\ q[1].at \in Nat
      BY <1>1, <1>2 DEF Chunks
    <3>2. \A n \in off..q[1].at - 1 : \E j \in 1..1 - 1 : q[j].t = "out" /\ q[j].at = n
      BY <1>1, <1>6 DEF NoGap
    <3>3. off \notin off..q[1].at - 1
      BY <3>2
    <3> QED BY <3>1, <3>3
  <2>2. NoGap(z, om)
    <3> SUFFICES ASSUME NEW i \in 1..Len(z), z[i].t = "out", NEW n \in om..z[i].at - 1
                 PROVE  \E j \in 1..i - 1 : z[j].t = "out" /\ z[j].at = n
      BY DEF NoGap
    <3>1. i + 1 \in 1..Len(q) /\ z[i] = q[i + 1] /\ q[i + 1].at \in Nat /\ i + 1 - 1 = i
      BY <1>1, <1>2
    <3>2. n \in off..q[i + 1].at - 1 /\ (q[1].t = "out" => q[1].at # n)
      BY <3>1, <1>4, <2>1
    <3>3. PICK j \in 1..i : q[j].t = "out" /\ q[j].at = n
      BY <3>1, <3>2, <1>6 DEF NoGap
    <3>4. j # 1 /\ j - 1 \in 1..i - 1 /\ j - 1 \in 1..Len(z) /\ z[j - 1] = q[j]
      BY <3>2, <3>3, <1>1
    <3> QED BY <3>3, <3>4
  <2> QED BY <2>1, <2>2
<1>7. ASSUME AllSent(q, off, tl) PROVE AllSent(z, om, tl)
  <2> SUFFICES ASSUME NEW n \in om..tl - 1 PROVE \E j \in 1..Len(z) : z[j].t = "out" /\ z[j].at = n
    BY DEF AllSent
  <2>1. n \in off..tl - 1 /\ (q[1].t = "out" => q[1].at # n)
    BY <1>1, <1>2, <1>4
  <2>2. PICK j \in 1..Len(q) : q[j].t = "out" /\ q[j].at = n
    BY <2>1, <1>7 DEF AllSent
  <2>3. j # 1 /\ j - 1 \in 1..Len(z) /\ z[j - 1] = q[j]
    BY <2>1, <2>2, <1>1
  <2> QED BY <2>2, <2>3
<1> QED BY <1>3, <1>4, <1>5, <1>6, <1>7 DEF z

\* Before the first snapshot only the snapshot is shown.
LEMMA LiveHead ==
  ASSUME NEW q \in Seq(DownMessages), q # <<>>, NEW hi, NEW gr, Form(q, hi, gr), Live(q, gr, 1)
  PROVE  Live(q, gr, 0) \/ q[1].t = "snap"
<1>1. Len(q) \in Nat /\ Len(q) >= 1
  BY TailIs
<1>2. CASE gr = TRUE
  BY <1>2 DEF Live
<1>3. CASE \E g \in 1..Len(q) : g <= 1 + 1 /\ q[g].t = "granted"
  <2>1. PICK g \in 1..Len(q) : g <= 1 + 1 /\ q[g].t = "granted"
    BY <1>3
  <2>2. CASE g = 1
    BY <2>1, <2>2 DEF Live
  <2>3. CASE g = 2
    <3>1. g - 1 = 1 /\ g # 1
      BY <2>3
    <3> QED BY <2>1, <3>1 DEF Form
  <2> QED BY <2>1, <2>2, <2>3
<1> QED BY <1>2, <1>3 DEF Live

\* What is behind the first snapshot stays behind it.
LEMMA LiveOn ==
  ASSUME NEW q, NEW gr, NEW i \in Nat, NEW j \in Nat, i <= j, Live(q, gr, i), Len(q) \in Nat
  PROVE  Live(q, gr, j)
  BY DEF Live

\* The head is taken, and the screen follows it.
Showing(q, hi, gr, gs, scr, sct, off, tl) ==
  /\ q \in Seq(DownMessages) /\ q # <<>> /\ off \in Nat /\ tl \in Nat
  /\ gs = IF q[1].t = "granted" THEN TRUE ELSE gr
  /\ Form(q, hi, gr) /\ Screens(q, gr, scr, tl) /\ Chunks(q, off, tl)
  /\ Live(q, gr, 1) => sct = IF Content(q, 1) THEN Shows(q, scr, 1) ELSE scr

\* A screen to come, or the present one, is so after the head is taken.
LEMMA ShownCarried ==
  ASSUME NEW q, NEW hi, NEW gr, NEW gs, NEW scr, NEW sct, NEW off, NEW tl,
         Showing(q, hi, gr, gs, scr, sct, off, tl),
         NEW k \in 1..Len(q), NEW j \in 0..k, NEW v \in Nat, Live(q, gr, j), Content(q, j),
         Shows(q, scr, j) = v, Live(q, gr, 1) /\ Content(q, 1) => Shows(q, scr, 1) <= v
  PROVE  \E i \in 0..k - 1 : Live(Tail(q), gs, i) /\ Content(Tail(q), i) /\ Shows(Tail(q), sct, i) = v
<1>p. /\ q \in Seq(DownMessages) /\ q # <<>> /\ off \in Nat /\ tl \in Nat
      /\ gs = IF q[1].t = "granted" THEN TRUE ELSE gr
      /\ Form(q, hi, gr) /\ Screens(q, gr, scr, tl) /\ Chunks(q, off, tl)
      /\ Live(q, gr, 1) => sct = IF Content(q, 1) THEN Shows(q, scr, 1) ELSE scr
  BY DEF Showing
<1> DEFINE z == Tail(q)
<1>1. /\ Len(q) \in Nat /\ Len(q) >= 1 /\ Len(z) = Len(q) - 1 /\ \A i \in 1..Len(z) : z[i] = q[i + 1]
      /\ \A i \in 1..Len(q) : q[i] \in DownMessages
  BY <1>p, TailIs
<1>2. /\ \A i \in 0..Len(q) - 1 : Live(z, gs, i) <=> Live(q, gr, i + 1)
      /\ Live(z, gs, 0) <=> Live(q, gr, 1)
  BY <1>p, LivePop
<1> HIDE DEF z
<1>3. CASE j >= 2
  <2>1. j - 1 \in 0..k - 1 /\ j - 1 \in 0..Len(q) - 1 /\ j - 1 \in 1..Len(z) /\ j - 1 + 1 = j /\ j # 0
          /\ j - 1 # 0
    BY <1>1, <1>3
  <2>2. Live(z, gs, j - 1) /\ z[j - 1] = q[j]
    BY <2>1, <1>1, <1>2
  <2>3. Content(z, j - 1) /\ Shows(z, sct, j - 1) = v
    BY <1>p, <2>1, <2>2 DEF Content, Shows
  <2> QED BY <2>1, <2>2, <2>3 DEF z
<1>4. CASE j \in {0, 1}
  <2>1. Live(q, gr, 1)
    BY <1>1, <1>4, LiveOn
  <2>2. Live(z, gs, 0)
    BY <2>1, <1>1, <1>2
  <2>3. Content(z, 0) /\ Shows(z, sct, 0) = sct
    BY <1>p DEF Content, Shows
  <2>4. sct = v
    <3>1. CASE j = 1
      BY <1>p, <2>1, <3>1
    <3>2. CASE j = 0 /\ ~Content(q, 1)
      BY <1>p, <2>1, <3>2 DEF Shows
    <3>3. CASE j = 0 /\ Content(q, 1)
      <4>1. Shows(q, scr, 0) <= q[1].at
        BY <1>p, <1>1, <3>3 DEF Screens
      <4>2. q[1].t \in {"out", "snap"} /\ q[1].at \in Nat
        BY <1>p, <1>1, <3>3, DownFields DEF Content
      <4>3. Shows(q, scr, 1) \in Nat /\ q[1].at <= Shows(q, scr, 1)
        BY <1>p, <4>2 DEF Shows
      <4>4. sct = Shows(q, scr, 1) /\ Shows(q, scr, 1) <= v
        BY <1>p, <2>1, <3>3
      <4> QED BY <3>3, <4>1, <4>2, <4>3, <4>4
    <3> QED BY <1>4, <3>1, <3>2, <3>3
  <2>5. 0 \in 0..k - 1
    OBVIOUS
  <2> QED BY <2>2, <2>3, <2>4, <2>5 DEF z
<1>5. k \in Nat /\ j \in Nat /\ (j >= 2 \/ j \in {0, 1})
  BY <1>1
<1> QED BY <1>3, <1>4, <1>5

\* The screens when the head is taken.
LEMMA ScreensPop ==
  ASSUME NEW q, NEW hi, NEW gr, NEW gs, NEW scr, NEW sct, NEW off, NEW tl,
         Showing(q, hi, gr, gs, scr, sct, off, tl)
  PROVE  Screens(Tail(q), gs, sct, tl) /\ (ShowsAll(q, gr, scr, tl) => ShowsAll(Tail(q), gs, sct, tl))
<1>p. /\ q \in Seq(DownMessages) /\ q # <<>> /\ off \in Nat /\ tl \in Nat
      /\ gs = IF q[1].t = "granted" THEN TRUE ELSE gr
      /\ Form(q, hi, gr) /\ Screens(q, gr, scr, tl) /\ Chunks(q, off, tl)
      /\ Live(q, gr, 1) => sct = IF Content(q, 1) THEN Shows(q, scr, 1) ELSE scr
  BY DEF Showing
<1> DEFINE z == Tail(q)
<1>1. /\ Len(q) \in Nat /\ Len(q) >= 1 /\ Len(z) = Len(q) - 1 /\ \A i \in 1..Len(z) : z[i] = q[i + 1]
      /\ \A i \in 1..Len(q) : q[i] \in DownMessages
  BY <1>p, TailIs
<1>2. /\ \A i \in 0..Len(q) - 1 : Live(z, gs, i) <=> Live(q, gr, i + 1)
      /\ Live(z, gs, 0) <=> Live(q, gr, 1)
  BY <1>p, LivePop
<1>3. \A j \in 0..Len(q) : Live(q, gr, j) /\ Content(q, j) =>
           Shows(q, scr, j) \in Nat /\ Shows(q, scr, j) <= tl
  BY <1>p, ShowsUpto
<1>4. Live(q, gr, 1) => Live(q, gr, 0) \/ q[1].t = "snap"
  BY <1>p, LiveHead
<1> HIDE DEF z
<1>5. \A i \in 1..Len(z) : /\ i + 1 \in 1..Len(q) /\ i + 1 # 0 /\ i # 0 /\ z[i] = q[i + 1]
                           /\ Content(z, i) <=> Content(q, i + 1)
                           /\ Shows(z, sct, i) = Shows(q, scr, i + 1)
  BY <1>p, <1>1 DEF Content, Shows
<1>6. Live(z, gs, 0) => sct \in 0..tl
  <2> HAVE Live(z, gs, 0)
  <2>1. Live(q, gr, 1)
    BY <1>1, <1>2
  <2>2. CASE Content(q, 1)
    BY <1>p, <2>1, <2>2, <1>1, <1>3
  <2>3. CASE ~Content(q, 1)
    <3>1. Live(q, gr, 0)
      BY <1>p, <2>1, <2>3, <1>4 DEF Content
    <3> QED BY <1>p, <2>1, <2>3, <3>1 DEF Screens
  <2> QED BY <2>2, <2>3
<1>7. \A i \in 1..Len(z) : z[i].t \in {"snap", "delta"} => z[i].at <= tl
  BY <1>p, <1>5 DEF Screens
<1>8. \A i \in 0..Len(z), j \in 1..Len(z) :
       i < j /\ Live(z, gs, i) /\ Content(z, i) /\ Content(z, j) => Shows(z, sct, i) <= z[j].at
  <2> SUFFICES ASSUME NEW i \in 0..Len(z), NEW j \in 1..Len(z),
                      i < j, Live(z, gs, i), Content(z, i), Content(z, j)
               PROVE  Shows(z, sct, i) <= z[j].at
    OBVIOUS
  <2>0. i + 1 \in 0..Len(q) /\ j + 1 \in 1..Len(q) /\ i + 1 < j + 1 /\ i \in 0..Len(q) - 1
    BY <1>1
  <2>1. i + 1 \in 0..Len(q) /\ j + 1 \in 1..Len(q) /\ i + 1 < j + 1 /\ Live(q, gr, i + 1)
        /\ Content(q, j + 1) /\ z[j] = q[j + 1]
    BY <2>0, <1>2, <1>5
  <2>2. CASE i # 0
    <3>1. i \in 1..Len(z)
      BY <2>2
    <3>2. Content(q, i + 1) /\ Shows(z, sct, i) = Shows(q, scr, i + 1)
      BY <3>1, <1>5
    <3> QED BY <1>p, <2>1, <3>2 DEF Screens
  <2>3. CASE i = 0 /\ Content(q, 1)
    <3>1. Shows(q, scr, 1) <= q[j + 1].at
      BY <1>p, <2>1, <2>3 DEF Screens
    <3>2. Shows(z, sct, i) = Shows(q, scr, 1)
      BY <1>p, <2>1, <2>3 DEF Shows
    <3> QED BY <2>1, <3>1, <3>2
  <2>4. CASE i = 0 /\ ~Content(q, 1)
    <3>1. Live(q, gr, 0) /\ Content(q, 0)
      BY <1>p, <2>1, <2>4, <1>4 DEF Content
    <3>2. 0 \in 0..Len(q) /\ 0 < j + 1
      BY <1>1
    <3>3. Shows(q, scr, 0) <= q[j + 1].at
      BY <1>p, <2>1, <3>1, <3>2 DEF Screens
    <3>4. Shows(z, sct, i) = sct /\ Shows(q, scr, 0) = scr /\ sct = scr
      BY <1>p, <2>1, <2>4 DEF Shows
    <3> QED BY <2>1, <3>3, <3>4
  <2> QED BY <2>2, <2>3, <2>4
<1>9. \A i \in 1..Len(z) : z[i].t = "out" /\ Live(z, gs, i) =>
       \E j \in 0..i - 1 : Live(z, gs, j) /\ Content(z, j) /\ Shows(z, sct, j) = z[i].at
  <2> SUFFICES ASSUME NEW i \in 1..Len(z), z[i].t = "out", Live(z, gs, i)
               PROVE  \E j \in 0..i - 1 : Live(z, gs, j) /\ Content(z, j) /\ Shows(z, sct, j) = z[i].at
    OBVIOUS
  <2>0. i \in 1..Len(q) /\ i + 1 - 1 = i /\ i \in 0..Len(q) - 1
    BY <1>1
  <2>1. i + 1 \in 1..Len(q) /\ z[i] = q[i + 1] /\ Live(q, gr, i + 1) /\ i \in 1..Len(q) /\ i + 1 - 1 = i
    BY <2>0, <1>2, <1>5
  <2>2. PICK j \in 0..i : Live(q, gr, j) /\ Content(q, j) /\ Shows(q, scr, j) = q[i + 1].at
    BY <1>p, <2>1 DEF Screens
  <2>3. q[i + 1].at \in Nat
    BY <2>1, <1>1, DownFields
  <2>4. Live(q, gr, 1) /\ Content(q, 1) => Shows(q, scr, 1) <= q[i + 1].at
    <3>1. 1 \in 0..Len(q) /\ 1 < i + 1 /\ Content(q, i + 1)
      BY <1>p, <1>1, <2>1 DEF Content
    <3> QED BY <1>p, <2>1, <3>1 DEF Screens
  <2>5. \E h \in 0..i - 1 :
          Live(Tail(q), gs, h) /\ Content(Tail(q), h) /\ Shows(Tail(q), sct, h) = q[i + 1].at
    BY <2>0, <2>2, <2>3, <2>4, ShownCarried
  <2> QED BY <2>1, <2>5 DEF z
<1>10. ASSUME ShowsAll(q, gr, scr, tl) PROVE ShowsAll(z, gs, sct, tl)
  <2>1. PICK j \in 0..Len(q) : Live(q, gr, j) /\ Content(q, j) /\ Shows(q, scr, j) = tl
    BY <1>p, <1>10 DEF ShowsAll
  <2>2. Live(q, gr, 1) /\ Content(q, 1) => Shows(q, scr, 1) <= tl
    BY <1>1, <1>3
  <2>3. \E i \in 0..Len(q) - 1 : Live(z, gs, i) /\ Content(z, i) /\ Shows(z, sct, i) = tl
    <3>1. tl \in Nat /\ Len(q) \in 1..Len(q)
      BY <1>p, <1>1
    <3>2. \E h \in 0..Len(q) - 1 :
            Live(Tail(q), gs, h) /\ Content(Tail(q), h) /\ Shows(Tail(q), sct, h) = tl
      BY <2>1, <2>2, <3>1, ShownCarried
    <3> QED BY <3>2 DEF z
  <2> QED BY <1>p, <2>3, <1>1 DEF ShowsAll
<1> QED BY <1>p, <1>6, <1>7, <1>8, <1>9, <1>10 DEF Screens, z

\* A chunk that comes behind the first snapshot continues the screen.
LEMMA HeadOut ==
  ASSUME NEW q \in Seq(DownMessages), q # <<>>, NEW hi, NEW gr, NEW scr, NEW tl,
         Form(q, hi, gr), Screens(q, gr, scr, tl), Live(q, gr, 1), q[1].t = "out"
  PROVE  q[1].at = scr
<1>1. Len(q) \in Nat /\ Len(q) >= 1
  BY TailIs
<1>2. PICK j \in 0..1 - 1 : Live(q, gr, j) /\ Content(q, j) /\ Shows(q, scr, j) = q[1].at
  BY <1>1 DEF Screens
<1>3. j = 0
  OBVIOUS
<1> QED BY <1>2, <1>3 DEF Shows

\* The head is taken, and the mirror follows it.
Numbering(q, hi, gr, gs, mir, mit, scr, tl) ==
  /\ q \in Seq(DownMessages) /\ q # <<>> /\ tl \in Nat
  /\ mir \in [seq : Nat, at : Int] /\ mit \in [seq : Nat, at : Int]
  /\ gs = IF q[1].t = "granted" THEN TRUE ELSE gr
  /\ Form(q, hi, gr) /\ Screens(q, gr, scr, tl) /\ Grids(q, gr, mir, tl)
  /\ Live(q, gr, 1) =>
       IF IsUpdate(q, 1) THEN mit.seq = Num(q, mir, 1) /\ mit.at = Covers(q, mir, 1) ELSE mit = mir

\* An update to come, or the last one, is so after the head is taken.
LEMMA NumCarried ==
  ASSUME NEW q, NEW hi, NEW gr, NEW gs, NEW mir, NEW mit, NEW scr, NEW tl,
         Numbering(q, hi, gr, gs, mir, mit, scr, tl),
         NEW k \in 1..Len(q), NEW j \in 0..k, NEW v \in Nat, NEW c \in Int,
         Live(q, gr, j), IsUpdate(q, j), Num(q, mir, j) = v, Covers(q, mir, j) = c,
         Live(q, gr, 1) /\ IsUpdate(q, 1) => Num(q, mir, 1) <= v
  PROVE  \E i \in 0..k - 1 : /\ Live(Tail(q), gs, i) /\ IsUpdate(Tail(q), i)
                             /\ Num(Tail(q), mit, i) = v /\ Covers(Tail(q), mit, i) = c
<1>p. /\ q \in Seq(DownMessages) /\ q # <<>> /\ tl \in Nat
      /\ mir \in [seq : Nat, at : Int] /\ mit \in [seq : Nat, at : Int]
      /\ gs = IF q[1].t = "granted" THEN TRUE ELSE gr
      /\ Form(q, hi, gr) /\ Grids(q, gr, mir, tl)
      /\ Live(q, gr, 1) =>
           IF IsUpdate(q, 1) THEN mit.seq = Num(q, mir, 1) /\ mit.at = Covers(q, mir, 1) ELSE mit = mir
  BY DEF Numbering
<1> DEFINE z == Tail(q)
<1>1. /\ Len(q) \in Nat /\ Len(q) >= 1 /\ Len(z) = Len(q) - 1 /\ \A i \in 1..Len(z) : z[i] = q[i + 1]
      /\ \A i \in 1..Len(q) : q[i] \in DownMessages
  BY <1>p, TailIs
<1>2. /\ \A i \in 0..Len(q) - 1 : Live(z, gs, i) <=> Live(q, gr, i + 1)
      /\ Live(z, gs, 0) <=> Live(q, gr, 1)
  BY <1>p, LivePop
<1> HIDE DEF z
<1>3. CASE j >= 2
  <2>1. j - 1 \in 0..k - 1 /\ j - 1 \in 0..Len(q) - 1 /\ j - 1 \in 1..Len(z) /\ j - 1 + 1 = j /\ j # 0
          /\ j - 1 # 0
    BY <1>1, <1>3
  <2>2. Live(z, gs, j - 1) /\ z[j - 1] = q[j]
    BY <2>1, <1>1, <1>2
  <2>3. IsUpdate(z, j - 1) /\ Num(z, mit, j - 1) = v /\ Covers(z, mit, j - 1) = c
    BY <2>1, <2>2 DEF IsUpdate, Num, Covers
  <2> QED BY <2>1, <2>2, <2>3 DEF z
<1>4. CASE j \in {0, 1}
  <2>1. Live(q, gr, 1)
    BY <1>1, <1>4, LiveOn
  <2>2. Live(z, gs, 0)
    BY <2>1, <1>1, <1>2
  <2>3. IsUpdate(z, 0) /\ Num(z, mit, 0) = mit.seq /\ Covers(z, mit, 0) = mit.at
    BY DEF IsUpdate, Num, Covers
  <2>4. mit.seq = v /\ mit.at = c
    <3>1. CASE j = 1
      BY <1>p, <2>1, <3>1
    <3>2. CASE j = 0 /\ ~IsUpdate(q, 1)
      BY <1>p, <2>1, <3>2 DEF Num, Covers
    <3>3. CASE j = 0 /\ IsUpdate(q, 1)
      <4>1. Num(q, mir, 0) < q[1].seq /\ Num(q, mir, 1) = q[1].seq
        BY <1>p, <1>1, <3>3 DEF Grids, Num
      <4>2. q[1].seq \in Nat
        BY <1>1, <3>3, DownFields DEF IsUpdate
      <4>4. Num(q, mir, 1) <= v
        BY <2>1, <3>3
      <4> QED BY <3>3, <4>1, <4>2, <4>4
    <3> QED BY <1>4, <3>1, <3>2, <3>3
  <2>5. 0 \in 0..k - 1
    OBVIOUS
  <2> QED BY <2>2, <2>3, <2>4, <2>5 DEF z
<1>5. k \in Nat /\ j \in Nat /\ (j >= 2 \/ j \in {0, 1})
  BY <1>1
<1> QED BY <1>3, <1>4, <1>5

\* The updates of the grid when the head is taken, ...
LEMMA GridsPop ==
  ASSUME NEW q, NEW hi, NEW gr, NEW gs, NEW mir, NEW mit, NEW scr, NEW tl,
         Numbering(q, hi, gr, gs, mir, mit, scr, tl)
  PROVE  /\ Grids(Tail(q), gs, mit, tl)
         /\ \A sq \in Nat : NumsUpto(q, gr, mir, sq) => NumsUpto(Tail(q), gs, mit, sq)
<1>p. /\ q \in Seq(DownMessages) /\ q # <<>> /\ tl \in Nat
      /\ mir \in [seq : Nat, at : Int] /\ mit \in [seq : Nat, at : Int]
      /\ gs = IF q[1].t = "granted" THEN TRUE ELSE gr
      /\ Form(q, hi, gr) /\ Screens(q, gr, scr, tl) /\ Grids(q, gr, mir, tl)
      /\ Live(q, gr, 1) =>
           IF IsUpdate(q, 1) THEN mit.seq = Num(q, mir, 1) /\ mit.at = Covers(q, mir, 1) ELSE mit = mir
  BY DEF Numbering
<1> DEFINE z == Tail(q)
<1>1. /\ Len(q) \in Nat /\ Len(q) >= 1 /\ Len(z) = Len(q) - 1 /\ \A i \in 1..Len(z) : z[i] = q[i + 1]
      /\ \A i \in 1..Len(q) : q[i] \in DownMessages
  BY <1>p, TailIs
<1>2. /\ \A i \in 0..Len(q) - 1 : Live(z, gs, i) <=> Live(q, gr, i + 1)
      /\ Live(z, gs, 0) <=> Live(q, gr, 1)
  BY <1>p, LivePop
<1>4. Live(q, gr, 1) => Live(q, gr, 0) \/ q[1].t = "snap"
  BY <1>p, LiveHead
<1> HIDE DEF z
<1>5. \A i \in 1..Len(z) : /\ i + 1 \in 1..Len(q) /\ i + 1 # 0 /\ i # 0 /\ z[i] = q[i + 1]
                           /\ IsUpdate(z, i) <=> IsUpdate(q, i + 1)
                           /\ Num(z, mit, i) = Num(q, mir, i + 1)
                           /\ Covers(z, mit, i) = Covers(q, mir, i + 1)
  BY <1>1 DEF IsUpdate, Num, Covers
<1>f. \A i \in 1..Len(q) : q[i].t \in {"snap", "delta"} => q[i].seq \in Nat /\ q[i].seq # 0 /\ q[i].at \in Nat
  BY <1>1, DownFields
<1>6. Live(z, gs, 0) => mit.at \in 0..tl /\ mit.seq # 0
  <2> HAVE Live(z, gs, 0)
  <2>1. Live(q, gr, 1)
    BY <1>1, <1>2
  <2>2. CASE IsUpdate(q, 1)
    <3>1. q[1].t \in {"snap", "delta"} /\ mit.seq = q[1].seq /\ mit.at = q[1].at
      BY <1>p, <2>1, <2>2 DEF IsUpdate, Num, Covers
    <3>2. q[1].at <= tl
      BY <1>p, <1>1, <3>1 DEF Screens
    <3> QED BY <1>p, <1>1, <1>f, <3>1, <3>2
  <2>3. CASE ~IsUpdate(q, 1)
    <3>1. Live(q, gr, 0)
      BY <2>1, <2>3, <1>4 DEF IsUpdate
    <3> QED BY <1>p, <2>1, <2>3, <3>1 DEF Grids
  <2> QED BY <2>2, <2>3
<1>8. \A i \in 0..Len(z), j \in 1..Len(z) :
       i < j /\ Live(z, gs, i) /\ IsUpdate(z, i) /\ IsUpdate(z, j) => Num(z, mit, i) < z[j].seq
  <2> SUFFICES ASSUME NEW i \in 0..Len(z), NEW j \in 1..Len(z),
                      i < j, Live(z, gs, i), IsUpdate(z, i), IsUpdate(z, j)
               PROVE  Num(z, mit, i) < z[j].seq
    OBVIOUS
  <2>0. i + 1 \in 0..Len(q) /\ j + 1 \in 1..Len(q) /\ i + 1 < j + 1 /\ i \in 0..Len(q) - 1
    BY <1>1
  <2>1. i + 1 \in 0..Len(q) /\ j + 1 \in 1..Len(q) /\ i + 1 < j + 1 /\ Live(q, gr, i + 1)
        /\ IsUpdate(q, j + 1) /\ z[j] = q[j + 1]
    BY <2>0, <1>2, <1>5
  <2>2. CASE i # 0
    <3>1. i \in 1..Len(z)
      BY <2>2
    <3>2. IsUpdate(q, i + 1) /\ Num(z, mit, i) = Num(q, mir, i + 1)
      BY <3>1, <1>5
    <3> QED BY <1>p, <2>1, <3>2 DEF Grids
  <2>3. CASE i = 0 /\ IsUpdate(q, 1)
    <3>0. 1 \in 0..Len(q) /\ 1 < j + 1 /\ Live(q, gr, 1)
      BY <1>1, <1>2, <2>3
    <3>1. Num(q, mir, 1) < q[j + 1].seq
      BY <1>p, <2>1, <2>3, <3>0 DEF Grids
    <3>2. Num(z, mit, i) = Num(q, mir, 1)
      BY <1>p, <3>0, <2>3 DEF Num
    <3> QED BY <2>1, <3>1, <3>2
  <2>4. CASE i = 0 /\ ~IsUpdate(q, 1)
    <3>0. Live(q, gr, 1)
      BY <1>2, <2>4
    <3>1. Live(q, gr, 0) /\ IsUpdate(q, 0)
      BY <3>0, <2>4, <1>4 DEF IsUpdate
    <3>2. 0 \in 0..Len(q) /\ 0 < j + 1
      BY <1>1
    <3>3. Num(q, mir, 0) < q[j + 1].seq
      BY <1>p, <2>1, <3>1, <3>2 DEF Grids
    <3>4. Num(z, mit, i) = mit.seq /\ Num(q, mir, 0) = mir.seq /\ mit = mir
      BY <1>p, <3>0, <2>4 DEF Num
    <3> QED BY <2>1, <3>3, <3>4
  <2> QED BY <2>2, <2>3, <2>4
<1>9. \A i \in 1..Len(z) : z[i].t = "delta" =>
       \E j \in 0..i - 1 : /\ Live(z, gs, j) /\ IsUpdate(z, j)
                           /\ Num(z, mit, j) + 1 = z[i].seq /\ Covers(z, mit, j) >= z[i].base
  <2> SUFFICES ASSUME NEW i \in 1..Len(z), z[i].t = "delta"
               PROVE  \E j \in 0..i - 1 : /\ Live(z, gs, j) /\ IsUpdate(z, j)
                           /\ Num(z, mit, j) + 1 = z[i].seq /\ Covers(z, mit, j) >= z[i].base
    OBVIOUS
  <2>0. i \in 1..Len(q) /\ i + 1 - 1 = i /\ i \in 0..Len(q) - 1
    BY <1>1
  <2>1. i + 1 \in 1..Len(q) /\ z[i] = q[i + 1] /\ q[i + 1] \in DownMessages
    BY <2>0, <1>1, <1>5
  <2>2. PICK j \in 0..i : /\ Live(q, gr, j) /\ IsUpdate(q, j)
                          /\ Num(q, mir, j) + 1 = q[i + 1].seq /\ Covers(q, mir, j) >= q[i + 1].base
    BY <1>p, <2>0, <2>1 DEF Grids
  <2>3. q[i + 1].seq \in Nat /\ q[i + 1].base \in Nat
    BY <2>1, DownFields
  <2>4. Num(q, mir, j) \in Nat /\ Covers(q, mir, j) \in Int
    <3>1. CASE j = 0
      BY <1>p, <3>1 DEF Num, Covers
    <3>2. CASE j # 0
      <4>1. j \in 1..Len(q) /\ q[j].t \in {"snap", "delta"}
        BY <2>0, <2>2, <3>2, <1>1 DEF IsUpdate
      <4> QED BY <4>1, <1>f, <3>2 DEF Num, Covers
    <3> QED BY <3>1, <3>2
  <2>5. Live(q, gr, 1) /\ IsUpdate(q, 1) => Num(q, mir, 1) <= Num(q, mir, j)
    <3> HAVE Live(q, gr, 1) /\ IsUpdate(q, 1)
    <3>1. 1 \in 0..Len(q) /\ 1 < i + 1 /\ IsUpdate(q, i + 1)
      BY <1>1, <2>1 DEF IsUpdate
    <3>2. Num(q, mir, 1) < q[i + 1].seq
      BY <1>p, <2>1, <3>1 DEF Grids
    <3>3. Num(q, mir, 1) \in Nat
      BY <1>1, <1>f DEF IsUpdate, Num
    <3> QED BY <3>2, <3>3, <2>2, <2>3, <2>4
  <2>6. \E h \in 0..i - 1 :
          /\ Live(Tail(q), gs, h) /\ IsUpdate(Tail(q), h)
          /\ Num(Tail(q), mit, h) = Num(q, mir, j) /\ Covers(Tail(q), mit, h) = Covers(q, mir, j)
    BY <2>0, <2>2, <2>4, <2>5, NumCarried
  <2> QED BY <2>1, <2>2, <2>6 DEF z
<1>10. ASSUME NEW sq \in Nat, NumsUpto(q, gr, mir, sq) PROVE NumsUpto(z, gs, mit, sq)
  <2> SUFFICES ASSUME NEW j \in 0..Len(z), Live(z, gs, j), IsUpdate(z, j) PROVE Num(z, mit, j) <= sq
    BY DEF NumsUpto
  <2>0. j + 1 \in 0..Len(q) /\ j \in 0..Len(q) - 1
    BY <1>1
  <2>1. Live(q, gr, j + 1)
    BY <2>0, <1>2
  <2>2. CASE j # 0
    <3>1. j \in 1..Len(z)
      BY <2>2
    <3> QED BY <2>0, <2>1, <3>1, <1>5, <1>10 DEF NumsUpto
  <2>3. CASE j = 0 /\ IsUpdate(q, 1)
    <3>0. 1 \in 0..Len(q) /\ Live(q, gr, 1)
      BY <1>1, <1>2, <2>3
    <3> QED BY <1>p, <3>0, <2>3, <1>10 DEF NumsUpto, Num
  <2>4. CASE j = 0 /\ ~IsUpdate(q, 1)
    <3>0. Live(q, gr, 1) /\ 0 \in 0..Len(q)
      BY <1>1, <1>2, <2>4
    <3>1. Live(q, gr, 0) /\ IsUpdate(q, 0)
      BY <3>0, <2>4, <1>4 DEF IsUpdate
    <3> QED BY <1>p, <3>0, <3>1, <2>4, <1>10 DEF NumsUpto, Num
  <2> QED BY <2>2, <2>3, <2>4
<1> QED BY <1>6, <1>8, <1>9, <1>10 DEF Grids, z

\* ... and the newest of them.
LEMMA NewestPop ==
  ASSUME NEW q, NEW hi, NEW gr, NEW gs, NEW mir, NEW mit, NEW scr, NEW tl,
         Numbering(q, hi, gr, gs, mir, mit, scr, tl),
         NEW sq \in Nat, NEW bs \in Nat, NEW dr, NumsUpto(q, gr, mir, sq), Newest(q, gr, mir, sq, bs, dr, tl)
  PROVE  Newest(Tail(q), gs, mit, sq, bs, dr, tl)
<1>p. q \in Seq(DownMessages) /\ q # <<>> /\ mir \in [seq : Nat, at : Int]
  BY DEF Numbering
<1>1. /\ Len(q) \in Nat /\ Len(q) >= 1 /\ Len(Tail(q)) = Len(q) - 1 /\ Len(q) \in 1..Len(q)
      /\ \A i \in 1..Len(q) : q[i] \in DownMessages
  BY <1>p, TailIs
<1>2. PICK j \in 0..Len(q) : /\ Live(q, gr, j) /\ IsUpdate(q, j)
                             /\ Num(q, mir, j) = sq /\ Covers(q, mir, j) >= bs
                             /\ (dr = TRUE \/ Covers(q, mir, j) = tl)
  BY DEF Newest
<1>3. Covers(q, mir, j) \in Int
  <2>1. CASE j = 0
    BY <1>p, <2>1 DEF Covers
  <2>2. CASE j # 0
    <3>1. j \in 1..Len(q) /\ q[j].t \in {"snap", "delta"}
      BY <2>2, <1>1, <1>2 DEF IsUpdate
    <3>2. q[j].at \in Nat
      BY <3>1, <1>1, DownFields
    <3> QED BY <3>2, <2>2 DEF Covers
  <2> QED BY <2>1, <2>2
<1>4. Live(q, gr, 1) /\ IsUpdate(q, 1) => Num(q, mir, 1) <= sq
  BY <1>1 DEF NumsUpto
<1>5. PICK h \in 0..Len(q) - 1 :
        /\ Live(Tail(q), gs, h) /\ IsUpdate(Tail(q), h)
        /\ Num(Tail(q), mit, h) = sq /\ Covers(Tail(q), mit, h) = Covers(q, mir, j)
  BY <1>1, <1>2, <1>3, <1>4, NumCarried
<1>6. h \in 0..Len(Tail(q))
  BY <1>1
<1> QED BY <1>2, <1>5, <1>6 DEF Newest

\* A delta comes right behind the update it builds on.
LEMMA HeadDelta ==
  ASSUME NEW q \in Seq(DownMessages), q # <<>>, NEW hi, NEW gr, NEW mir, NEW tl,
         Form(q, hi, gr), Grids(q, gr, mir, tl), q[1].t = "delta"
  PROVE  /\ Live(q, gr, 0) /\ mir.seq # 0 /\ mir.seq + 1 = q[1].seq /\ mir.at >= q[1].base
         /\ q[1].t # "granted" => gr = TRUE
<1>1. Len(q) \in Nat /\ Len(q) >= 1 /\ 1 \in 1..Len(q) /\ 1 - 1 = 0
  BY TailIs
<1>2. PICK j \in 0..1 - 1 : /\ Live(q, gr, j) /\ IsUpdate(q, j)
                            /\ Num(q, mir, j) + 1 = q[1].seq /\ Covers(q, mir, j) >= q[1].base
  BY <1>1 DEF Grids
<1>3. j = 0
  OBVIOUS
<1>4. Live(q, gr, 0) /\ mir.seq + 1 = q[1].seq /\ mir.at >= q[1].base
  BY <1>2, <1>3 DEF Num, Covers
<1>5. mir.seq # 0
  BY <1>4 DEF Grids
<1>6. gr = TRUE
  <2>1. CASE gr = TRUE
    BY <2>1
  <2>2. CASE \E g \in 1..Len(q) : g <= 0 + 1 /\ q[g].t = "granted"
    <3>1. PICK g \in 1..Len(q) : g <= 0 + 1 /\ q[g].t = "granted"
      BY <2>2
    <3>2. g = 1
      BY <1>1, <3>1
    <3> QED BY <3>1, <3>2
  <2> QED BY <1>4, <2>1, <2>2 DEF Live
<1> QED BY <1>4, <1>5, <1>6

-----------------------------------------------------------------------------
(* The answer to a Hello.                                                  *)

\* What the Holder writes are messages.
LEMMA Constructed ==
  /\ \A e \in 0..MaxBridge : Ack(e) \in DownMessages /\ Granted(e) \in DownMessages
  /\ \A n \in 0..MaxOut : Output(n) \in DownMessages
  /\ \A s \in Nat \ {0}, n \in 0..MaxOut : Snap(s, n) \in DownMessages
  /\ \A s \in Nat \ {0} : base \in 0..MaxOut /\ tail \in 0..MaxOut => Delta(s) \in DownMessages
  /\ Exit \in DownMessages /\ Error(FALSE) \in DownMessages /\ Error(TRUE) \in DownMessages
<1>1. \A e \in 0..MaxBridge : Ack(e) \in DownMessages /\ Granted(e) \in DownMessages
  BY DEF DownMessages, Ack, Granted
<1>2. \A n \in 0..MaxOut : Output(n) \in DownMessages
  BY DEF DownMessages, Output
<1>3. \A s \in Nat \ {0}, n \in 0..MaxOut : Snap(s, n) \in DownMessages
  BY DEF DownMessages, Snap
<1>4. \A s \in Nat \ {0} : base \in 0..MaxOut /\ tail \in 0..MaxOut => Delta(s) \in DownMessages
  BY DEF DownMessages, Delta
<1>5. Exit \in DownMessages /\ Error(FALSE) \in DownMessages /\ Error(TRUE) \in DownMessages
  BY DEF DownMessages, Exit, Error
<1> QED BY <1>1, <1>2, <1>3, <1>4, <1>5

\* The answer to a Hello: the epoch, the chunks from s on, a snapshot, the grant.
Answer(q, off, s, n, e, sq, tl) ==
  /\ off \in Nat /\ s \in Nat /\ n \in Nat /\ off <= s /\ s + n = tl
  /\ Len(q) = n + 3
  /\ q[1] = Ack(e) /\ q[n + 2] = Snap(sq, tl) /\ q[n + 3] = Granted(e)
  /\ \A i \in 2..n + 1 : q[i] = Output(s + i - 2)

\* HandshakeMessages is one; it leaves nothing out within the replay budget.
LEMMA HandshakeShape ==
  ASSUME NEW off \in Nat, tail \in 0..MaxOut, off <= tail, epoch + 1 \in 0..MaxBridge, seq \in Nat
  PROVE  /\ HandshakeMessages(off) \in Seq(DownMessages)
         /\ LET s == Max2(off, tail - ReplayBudget) IN
            /\ Answer(HandshakeMessages(off), off, s, tail - s, epoch + 1, seq + 1, tail)
            /\ tail - ReplayBudget <= off => s = off
<1> DEFINE s == Max2(off, tail - ReplayBudget)
           n == tail - s
           r == Replay(off)
           a == Ack(epoch + 1)
           w == Snap(seq + 1, tail)
           g == Granted(epoch + 1)
<1>1. tail \in Nat /\ MaxOut \in Nat /\ ReplayBudget \in Nat
  BY RemoteAssumption
<1>2. s \in Nat /\ n \in Nat /\ off <= s /\ s + n = tail /\ (tail - ReplayBudget <= off => s = off)
  BY <1>1 DEF Max2
<1>3. a \in DownMessages /\ w \in DownMessages /\ g \in DownMessages
  <2>1. seq + 1 \in Nat \ {0}
    OBVIOUS
  <2> QED BY <2>1, Constructed
<1>4. r = [i \in 1..n |-> Output(s + i - 1)]
  <2>1. Len(Numbers(s, tail)) = n
    BY <1>2 DEF Numbers
  <2>2. \A i \in 1..n : Numbers(s, tail)[i] = s + i - 1
    BY <1>2 DEF Numbers
  <2>3. r = [i \in 1..Len(Numbers(s, tail)) |-> Output(Numbers(s, tail)[i])]
    BY DEF Replay
  <2> QED BY <2>1, <2>2, <2>3
<1>5. r \in Seq(DownMessages) /\ Len(r) = n /\ \A i \in 1..n : r[i] = Output(s + i - 1)
  <2>1. \A i \in 1..n : Output(s + i - 1) \in DownMessages
    <3> TAKE i \in 1..n
    <3>1. s + i - 1 \in 0..MaxOut
      BY <1>1, <1>2
    <3> QED BY <3>1, Constructed
  <2> HIDE DEF s, n, r
  <2> QED BY <1>2, <1>4, <2>1
<1>6. HandshakeMessages(off) = (<<a>> \o r) \o <<w, g>>
  BY DEF HandshakeMessages
<1> HIDE DEF r, a, w, g, s, n
<1> DEFINE b == <<a>> \o r
<1>8. <<a>> \in Seq(DownMessages) /\ Len(<<a>>) = 1 /\ <<a>>[1] = a
  BY <1>3
<1>9. <<w, g>> \in Seq(DownMessages) /\ Len(<<w, g>>) = 2 /\ <<w, g>>[1] = w /\ <<w, g>>[2] = g
  BY <1>3
<1>10. b \in Seq(DownMessages) /\ Len(b) = n + 1 /\ b[1] = a /\ \A i \in 2..n + 1 : b[i] = r[i - 1]
  BY <1>2, <1>5, <1>8
<1> HIDE DEF b
<1> DEFINE q == b \o <<w, g>>
<1>11. /\ q \in Seq(DownMessages) /\ Len(q) = n + 3 /\ q[n + 2] = w /\ q[n + 3] = g
       /\ \A i \in 1..n + 1 : q[i] = b[i]
  <2> DEFINE y == <<w, g>>
  <2>1. y \in Seq(DownMessages) /\ Len(y) = 2 /\ y[1] = w /\ y[2] = g
    BY <1>9
  <2> HIDE DEF y
  <2>2. q = b \o y
    BY DEF y
  <2>3. q \in Seq(DownMessages) /\ Len(q) = n + 3 /\ \A i \in 1..n + 1 : q[i] = b[i]
    BY <1>2, <1>10, <2>1, <2>2
  <2>4. q[n + 2] = y[1] /\ q[n + 3] = y[2]
    BY <1>2, <1>10, <2>1, <2>2
  <2> QED BY <2>1, <2>3, <2>4
<1> HIDE DEF q
<1>12. \A i \in 2..n + 1 : q[i] = Output(s + i - 2)
  <2> TAKE i \in 2..n + 1
  <2>1. q[i] = r[i - 1] /\ i - 1 \in 1..n /\ s + (i - 1) - 1 = s + i - 2
    BY <1>2, <1>10, <1>11
  <2> QED BY <2>1, <1>5
<1>13. q[1] = a
  BY <1>2, <1>10, <1>11
<1>14. Answer(q, off, s, n, epoch + 1, seq + 1, tail)
  BY <1>2, <1>11, <1>12, <1>13 DEF Answer, a, w, g
<1> QED BY <1>2, <1>6, <1>11, <1>14 DEF q, b, s, n

\* Such an answer is in order, and ends at the present.
LEMMA AnswerStream ==
  ASSUME NEW q \in Seq(DownMessages), NEW off, NEW s, NEW n, NEW e, NEW sq \in Nat \ {0}, NEW tl \in Nat,
         NEW hi, NEW gr, hi = FALSE, gr = FALSE, NEW scr, NEW mir, NEW bs \in Nat, NEW dr, bs <= tl,
         Answer(q, off, s, n, e, sq, tl)
  PROVE  /\ Form(q, hi, gr) /\ Ends(q, agent) /\ Chunks(q, off, tl)
         /\ s = off => NoGap(q, off) /\ AllSent(q, off, tl)
         /\ Screens(q, gr, scr, tl) /\ Grids(q, gr, mir, tl)
         /\ q # <<>> /\ Live(q, gr, Len(q)) /\ ShowsAll(q, gr, scr, tl)
         /\ NumsUpto(q, gr, mir, sq) /\ Newest(q, gr, mir, sq, bs, dr, tl)
<1>a. n \in Nat /\ s \in Nat /\ off \in Nat /\ off <= s /\ s + n = tl /\ Len(q) = n + 3
  BY DEF Answer
<1>e. q[1].t = "ack" /\ (q[1].exited = TRUE => agent # "running")
  <2>1. q[1] = Ack(e)
    BY DEF Answer
  <2>2. Ack(e).t = "ack" /\ Ack(e).exited = (agent # "running")
    BY DEF Ack
  <2>3. (Ack(e).exited = TRUE) => agent # "running"
    BY <2>2, Zenon
  <2> QED BY <2>1, <2>2, <2>3
<1>r. \A i \in 2..n + 1 : q[i].t = "out" /\ q[i].at = s + i - 2
  <2>1. \A i \in 2..n + 1 : q[i] = Output(s + i - 2)
    BY DEF Answer
  <2>2. \A k : Output(k).t = "out" /\ Output(k).at = k
    BY DEF Output
  <2> QED BY <2>1, <2>2
<1>f. q[n + 2].t = "snap" /\ q[n + 2].at = tl /\ q[n + 2].seq = sq
  BY DEF Answer, Snap
<1>g. q[n + 3].t = "granted"
  BY DEF Answer, Granted
<1>i. \A i \in 1..Len(q) : i = 1 \/ i \in 2..n + 1 \/ i = n + 2 \/ i = n + 3
  BY <1>a
<1>t. \A i \in 1..Len(q) :
        /\ q[i].t = "ack" <=> i = 1
        /\ q[i].t = "out" <=> i \in 2..n + 1
        /\ q[i].t = "snap" <=> i = n + 2
        /\ q[i].t = "granted" <=> i = n + 3
        /\ q[i].t # "delta" /\ q[i].t # "error" /\ q[i].t # "exit"
  BY <1>e, <1>f, <1>g, <1>r, <1>i
<1>o. \A i \in 2..n + 1 : q[i].at = s + i - 2 /\ i \in 1..Len(q)
  BY <1>a, <1>r
<1>w. q[n + 2].at = tl /\ q[n + 2].seq = sq /\ n + 2 \in 1..Len(q) /\ n + 3 \in 1..Len(q) /\ 1 \in 1..Len(q)
  BY <1>a, <1>f
<1>2. \A j \in 0..Len(q) : Live(q, gr, j) <=> j >= n + 2
  <2> TAKE j \in 0..Len(q)
  <2>1. Live(q, gr, j) => j >= n + 2
    BY <1>a, <1>t DEF Live
  <2>2. j >= n + 2 => Live(q, gr, j)
    BY <1>a, <1>t, <1>w DEF Live
  <2> QED BY <2>1, <2>2
<1>3. Form(q, hi, gr)
  <2>1. \A i \in 1..Len(q) : q[i].t = "granted" => i = 1 \/ q[i-1].t = "snap"
    <3> TAKE i \in 1..Len(q)
    <3> HAVE q[i].t = "granted"
    <3>1. i = n + 3
      BY <1>t
    <3>2. i - 1 = n + 2
      BY <1>a, <3>1
    <3> QED BY <3>2, <1>t, <1>w
  <2>2. \A i, j \in 1..Len(q) : q[i].t = "granted" /\ q[j].t = "granted" => i = j
    BY <1>t
  <2>3. \A i \in 1..Len(q) : (q[i].t = "ack") <=> (i = 1 /\ hi = FALSE)
    BY <1>t
  <2> QED BY <1>t, <2>1, <2>2, <2>3 DEF Form
<1>4. Ends(q, agent)
  BY <1>t, <1>e DEF Ends
<1>5. Chunks(q, off, tl)
  <2>1. \A i \in 1..Len(q) : q[i].t = "out" => off <= q[i].at /\ q[i].at < tl
    BY <1>a, <1>t, <1>o
  <2>2. \A i, j \in 1..Len(q) :
       i < j /\ q[i].t = "out" /\ q[j].t = "out" => q[i].at < q[j].at
    BY <1>a, <1>t, <1>o
  <2> QED BY <2>1, <2>2 DEF Chunks
<1>6. s = off => NoGap(q, off)
  <2> SUFFICES ASSUME s = off, NEW i \in 1..Len(q), q[i].t = "out", NEW k \in off..q[i].at - 1
               PROVE  \E j \in 1..i - 1 : q[j].t = "out" /\ q[j].at = k
    BY DEF NoGap
  <2>1. i \in 2..n + 1 /\ q[i].at = s + i - 2
    BY <1>t, <1>o
  <2>2. k - s + 2 \in 2..n + 1 /\ k - s + 2 \in 1..i - 1 /\ s + (k - s + 2) - 2 = k
    BY <1>a, <2>1, SMTT(30)
  <2>3. q[k - s + 2].t = "out" /\ q[k - s + 2].at = k
    BY <2>2, <1>t, <1>o
  <2> QED BY <2>2, <2>3
<1>7. s = off => AllSent(q, off, tl)
  <2> SUFFICES ASSUME s = off, NEW k \in off..tl - 1
               PROVE  \E j \in 1..Len(q) : q[j].t = "out" /\ q[j].at = k
    BY DEF AllSent
  <2>2. k - s + 2 \in 2..n + 1 /\ s + (k - s + 2) - 2 = k
    BY <1>a
  <2>3. q[k - s + 2].t = "out" /\ q[k - s + 2].at = k /\ k - s + 2 \in 1..Len(q)
    BY <2>2, <1>t, <1>o
  <2> QED BY <2>3
<1>8. ~Live(q, gr, 0) /\ Live(q, gr, n + 2) /\ Live(q, gr, Len(q)) /\ n + 2 \in 0..Len(q)
  BY <1>a, <1>2
<1>9. Screens(q, gr, scr, tl)
  <2>1. \A i \in 1..Len(q) : q[i].t \in {"snap", "delta"} => q[i].at <= tl
    BY <1>a, <1>t, <1>w
  <2>2. \A i \in 0..Len(q), j \in 1..Len(q) : i < j /\ Live(q, gr, i) => ~Content(q, j)
    <3> TAKE i \in 0..Len(q), j \in 1..Len(q)
    <3> HAVE i < j /\ Live(q, gr, i)
    <3>1. j = n + 3 /\ j # 0
      BY <1>a, <1>2
    <3> QED BY <3>1, <1>t DEF Content
  <2>3. \A i \in 1..Len(q) : q[i].t = "out" => ~Live(q, gr, i)
    BY <1>a, <1>t, <1>2
  <2> QED BY <1>8, <2>1, <2>2, <2>3 DEF Screens
<1>10. Grids(q, gr, mir, tl)
  <2>2. \A i \in 0..Len(q), j \in 1..Len(q) : i < j /\ Live(q, gr, i) => ~IsUpdate(q, j)
    <3> TAKE i \in 0..Len(q), j \in 1..Len(q)
    <3> HAVE i < j /\ Live(q, gr, i)
    <3>1. j = n + 3 /\ j # 0
      BY <1>a, <1>2
    <3> QED BY <3>1, <1>t DEF IsUpdate
  <2> QED BY <1>8, <1>t, <2>2 DEF Grids
<1>11. ShowsAll(q, gr, scr, tl)
  <2>1. Content(q, n + 2) /\ Shows(q, scr, n + 2) = tl
    BY <1>a, <1>t, <1>w DEF Content, Shows
  <2> QED BY <1>8, <2>1 DEF ShowsAll
<1>12. IsUpdate(q, n + 2) /\ Num(q, mir, n + 2) = sq /\ Covers(q, mir, n + 2) = tl
  BY <1>a, <1>t, <1>w DEF IsUpdate, Num, Covers
<1>13. NumsUpto(q, gr, mir, sq)
  <2> SUFFICES ASSUME NEW j \in 0..Len(q), Live(q, gr, j), IsUpdate(q, j) PROVE Num(q, mir, j) <= sq
    BY DEF NumsUpto
  <2>1. j = n + 2
    <3>1. j = n + 2 \/ j = n + 3
      BY <1>a, <1>2
    <3>2. j # n + 3
      BY <1>a, <1>t, <1>w DEF IsUpdate
    <3> QED BY <3>1, <3>2
  <2> QED BY <2>1, <1>12
<1>14. Newest(q, gr, mir, sq, bs, dr, tl)
  BY <1>8, <1>12 DEF Newest
<1>15. q # <<>>
  BY <1>a
<1> QED BY <1>3, <1>4, <1>5, <1>6, <1>7, <1>8, <1>9, <1>10, <1>11, <1>13, <1>14, <1>15

-----------------------------------------------------------------------------
(* Input under way.                                                        *)

\* Input under way whose end is lost, ...
LEMMA UpPrefix ==
  ASSUME NEW u \in Seq(UpMessages), NEW p \in Seq(UpMessages), Len(p) <= Len(u),
         \A i \in 1..Len(p) : p[i] = u[i], NEW ks, NEW vs, NEW qd, NEW ty, NEW sz, NEW v
  PROVE  /\ Ordered(u) => Ordered(p)
         /\ Upto(u, ks, vs) => Upto(p, ks, vs)
         /\ Earlier(u, qd) => Earlier(p, qd)
         /\ SizesBefore(u, v) => SizesBefore(p, v)
         /\ Later(u, ty, sz) => Later(p, ty, sz)
<1>1. Len(p) \in Nat /\ Len(u) \in Nat /\ \A i \in 1..Len(p) : i \in 1..Len(u)
  OBVIOUS
<1>2. Ordered(u) => Ordered(p)
  BY <1>1 DEF Ordered
<1>3. Upto(u, ks, vs) => Upto(p, ks, vs)
  BY <1>1 DEF Upto
<1>4. Earlier(u, qd) => Earlier(p, qd)
  BY <1>1 DEF Earlier
<1>5. SizesBefore(u, v) => SizesBefore(p, v)
  BY <1>1 DEF SizesBefore
<1>6. Later(u, ty, sz) => Later(p, ty, sz)
  BY <1>1 DEF Later
<1> QED BY <1>2, <1>3, <1>4, <1>5, <1>6

\* ... whose head is read, ...
LEMMA UpTail ==
  ASSUME NEW u \in Seq(UpMessages), u # <<>>, NEW ks, NEW vs, NEW qd, NEW v
  PROVE  /\ Ordered(u) => Ordered(Tail(u))
         /\ Upto(u, ks, vs) => Upto(Tail(u), ks, vs)
         /\ Earlier(u, qd) => Earlier(Tail(u), qd)
         /\ SizesBefore(u, v) => SizesBefore(Tail(u), v)
<1> DEFINE p == Tail(u)
<1>1. /\ Len(u) \in Nat /\ Len(u) >= 1 /\ Len(p) = Len(u) - 1
      /\ \A i \in 1..Len(p) : p[i] = u[i + 1] /\ i + 1 \in 1..Len(u)
  BY TailIs
<1> HIDE DEF p
<1>2. Ordered(u) => Ordered(p)
  <2> SUFFICES ASSUME Ordered(u) PROVE Ordered(p)
    OBVIOUS
  <2>1. \A i \in 1..Len(p) : p[i].t = "keys" => Rising(p[i].ks)
    BY <1>1 DEF Ordered
  <2>2. \A i, j \in 1..Len(p) : i < j => i + 1 < j + 1
    BY <1>1
  <2>3. \A i, j \in 1..Len(p) :
       i < j /\ p[i].t = "keys" /\ p[j].t = "keys" => Before(p[i].ks, p[j].ks)
    BY <1>1, <2>2 DEF Ordered
  <2>4. \A i, j \in 1..Len(p) : i < j /\ p[i].t = "size" /\ p[j].t = "size" => p[i].v < p[j].v
    BY <1>1, <2>2 DEF Ordered
  <2> QED BY <2>1, <2>3, <2>4 DEF Ordered
<1>3. Upto(u, ks, vs) => Upto(p, ks, vs)
  BY <1>1 DEF Upto
<1>4. Earlier(u, qd) => Earlier(p, qd)
  BY <1>1 DEF Earlier
<1>5. SizesBefore(u, v) => SizesBefore(p, v)
  BY <1>1 DEF SizesBefore
<1> QED BY <1>2, <1>3, <1>4, <1>5 DEF p

\* What follows the head is later than it and than what came before it.
LEMMA LaterTail ==
  ASSUME NEW u \in Seq(UpMessages), u # <<>>, Ordered(u), NEW ty \in Seq(Nat), NEW sz \in Nat,
         Later(u, ty, sz)
  PROVE  /\ Later(Tail(u), ty, sz)
         /\ u[1].t = "keys" => Later(Tail(u), ty \o u[1].ks, sz)
         /\ u[1].t = "size" => Later(Tail(u), ty, u[1].v)
<1> DEFINE p == Tail(u)
<1>1. /\ Len(u) \in Nat /\ Len(u) >= 1 /\ Len(p) = Len(u) - 1
      /\ \A i \in 1..Len(p) : p[i] = u[i + 1] /\ i + 1 \in 1..Len(u) /\ 1 < i + 1
      /\ 1 \in 1..Len(u) /\ u[1] \in UpMessages
  BY TailIs
<1> HIDE DEF p
<1>2. Later(p, ty, sz)
  BY <1>1 DEF Later
<1>3. ASSUME u[1].t = "keys" PROVE Later(p, ty \o u[1].ks, sz)
  <2> DEFINE ks == u[1].ks
  <2>1. ks \in Seq(1..MaxAsks)
    BY <1>1, <1>3, UpFields
  <2>2. \A i \in 1..Len(p) : p[i].t = "keys" => Before(ty, p[i].ks) /\ Before(ks, p[i].ks)
    BY <1>1, <1>2, <1>3 DEF Later, Ordered
  <2> HIDE DEF ks
  <2>3. ks \in Seq(Nat)
    BY <2>1, RemoteAssumption
  <2>4. \A i \in 1..Len(ty \o ks) : \/ i \in 1..Len(ty) /\ (ty \o ks)[i] = ty[i]
                                    \/ i - Len(ty) \in 1..Len(ks) /\ (ty \o ks)[i] = ks[i - Len(ty)]
    BY <2>3
  <2>5. \A z : Before(ty, z) /\ Before(ks, z) => Before(ty \o ks, z)
    BY <2>4 DEF Before
  <2> QED BY <2>2, <2>5, <1>2 DEF Later, ks
<1>4. ASSUME u[1].t = "size" PROVE Later(p, ty, u[1].v)
  BY <1>1, <1>2, <1>4 DEF Later, Ordered
<1> QED BY <1>2, <1>3, <1>4 DEF p

\* A run of keys behind another.
LEMMA RisingJoin ==
  ASSUME NEW s \in Seq(Nat), NEW z \in Seq(Nat), NEW qd, NEW k, Rising(s), Rising(z), Before(s, z)
  PROVE  /\ Rising(s \o z)
         /\ Before(s, qd) /\ Before(z, qd) => Before(s \o z, qd)
         /\ NotAfter(s, k) /\ NotAfter(z, k) => NotAfter(s \o z, k)
<1>1. \A i \in 1..Len(s \o z) : \/ i \in 1..Len(s) /\ (s \o z)[i] = s[i]
                                \/ i - Len(s) \in 1..Len(z) /\ (s \o z)[i] = z[i - Len(s)]
  OBVIOUS
<1>2. Len(s) \in Nat /\ Len(z) \in Nat /\ Len(s \o z) = Len(s) + Len(z)
  OBVIOUS
<1> DEFINE w == s \o z
<1> HIDE DEF w
<1>3. Rising(w)
  <2> SUFFICES ASSUME NEW i \in 1..Len(w), NEW j \in 1..Len(w), i < j PROVE w[i] < w[j]
    BY DEF Rising
  <2>1. CASE j \in 1..Len(s) /\ w[j] = s[j]
    <3>1. i \in 1..Len(s)
      BY <2>1, <1>2
    <3>2. w[i] = s[i]
      BY <3>1, <1>1, <1>2 DEF w
    <3> QED BY <2>1, <3>1, <3>2 DEF Rising
  <2>2. CASE j - Len(s) \in 1..Len(z) /\ w[j] = z[j - Len(s)]
    <3>1. CASE i \in 1..Len(s) /\ w[i] = s[i]
      BY <2>2, <3>1 DEF Before
    <3>2. CASE i - Len(s) \in 1..Len(z) /\ w[i] = z[i - Len(s)]
      <4>1. i - Len(s) < j - Len(s)
        BY <1>2 DEF w
      <4> QED BY <2>2, <3>2, <4>1 DEF Rising
    <3> QED BY <3>1, <3>2, <1>1 DEF w
  <2> QED BY <2>1, <2>2, <1>1 DEF w
<1>4. Before(s, qd) /\ Before(z, qd) => Before(w, qd)
  BY <1>1 DEF Before, w
<1>5. NotAfter(s, k) /\ NotAfter(z, k) => NotAfter(w, k)
  BY <1>1 DEF NotAfter, w
<1> QED BY <1>3, <1>4, <1>5 DEF w

\* ... or behind which one message more is written.
LEMMA UpAppend ==
  ASSUME NEW u \in Seq(UpMessages), NEW m \in UpMessages, NEW ks, NEW vs, NEW qd, NEW ty, NEW sz, NEW v
  PROVE  /\ /\ Ordered(u) /\ (m.t = "keys" => Rising(m.ks) /\ Earlier(u, m.ks))
            /\ (m.t = "size" => SizesBefore(u, m.v))
            => Ordered(Append(u, m))
         /\ /\ Upto(u, ks, vs) /\ (m.t = "keys" => NotAfter(m.ks, ks)) /\ (m.t = "size" => m.v <= vs)
            => Upto(Append(u, m), ks, vs)
         /\ Earlier(u, qd) /\ (m.t = "keys" => Before(m.ks, qd)) => Earlier(Append(u, m), qd)
         /\ SizesBefore(u, v) /\ (m.t = "size" => m.v < v) => SizesBefore(Append(u, m), v)
         /\ /\ Later(u, ty, sz) /\ (m.t = "keys" => Before(ty, m.ks)) /\ (m.t = "size" => sz < m.v)
            => Later(Append(u, m), ty, sz)
<1> DEFINE p == Append(u, m)
<1>1. /\ Len(u) \in Nat /\ Len(p) = Len(u) + 1 /\ p[Len(u) + 1] = m
      /\ \A i \in 1..Len(u) : p[i] = u[i]
      /\ \A i \in 1..Len(p) : i \in 1..Len(u) \/ i = Len(u) + 1
  BY AppendIs
<1> HIDE DEF p
<1>2. ASSUME Ordered(u), m.t = "keys" => Rising(m.ks) /\ Earlier(u, m.ks), m.t = "size" => SizesBefore(u, m.v)
      PROVE  Ordered(p)
  <2>1. \A i \in 1..Len(p) : p[i].t = "keys" => Rising(p[i].ks)
    BY <1>1, <1>2 DEF Ordered
  <2>2. \A i, j \in 1..Len(p) : i < j => i \in 1..Len(u)
    BY <1>1
  <2>3. \A i, j \in 1..Len(p) :
       i < j /\ p[i].t = "keys" /\ p[j].t = "keys" => Before(p[i].ks, p[j].ks)
    BY <1>1, <1>2, <2>2 DEF Ordered, Earlier
  <2>4. \A i, j \in 1..Len(p) : i < j /\ p[i].t = "size" /\ p[j].t = "size" => p[i].v < p[j].v
    BY <1>1, <1>2, <2>2 DEF Ordered, SizesBefore
  <2> QED BY <2>1, <2>3, <2>4 DEF Ordered
<1>3. ASSUME Upto(u, ks, vs), m.t = "keys" => NotAfter(m.ks, ks), m.t = "size" => m.v <= vs
      PROVE  Upto(p, ks, vs)
  <2> SUFFICES ASSUME NEW i \in 1..Len(p)
               PROVE  /\ p[i].t = "keys" => \A j \in 1..Len(p[i].ks) : p[i].ks[j] <= ks
                      /\ p[i].t = "size" => p[i].v <= vs
    BY DEF Upto
  <2>1. CASE i \in 1..Len(u)
    BY <1>1, <1>3, <2>1 DEF Upto
  <2>2. CASE i = Len(u) + 1
    BY <1>1, <1>3, <2>2 DEF NotAfter
  <2> QED BY <1>1, <2>1, <2>2
<1>4. ASSUME Earlier(u, qd), m.t = "keys" => Before(m.ks, qd) PROVE Earlier(p, qd)
  BY <1>1, <1>4 DEF Earlier
<1>5. ASSUME SizesBefore(u, v), m.t = "size" => m.v < v PROVE SizesBefore(p, v)
  BY <1>1, <1>5 DEF SizesBefore
<1>6. ASSUME Later(u, ty, sz), m.t = "keys" => Before(ty, m.ks), m.t = "size" => sz < m.v
      PROVE  Later(p, ty, sz)
  BY <1>1, <1>6 DEF Later
<1> QED BY <1>2, <1>3, <1>4, <1>5, <1>6 DEF p

\* A key or a size that is new is later than all before.
LEMMA NewKey ==
  ASSUME NEW u \in Seq(UpMessages), NEW ks \in Nat, NEW vs \in Nat, Upto(u, ks, vs)
  PROVE  /\ Upto(u, ks + 1, vs) /\ Upto(u, ks, vs + 1)
         /\ Earlier(u, <<ks + 1>>) /\ SizesBefore(u, vs + 1)
         /\ \A qd \in Seq(Nat) : Earlier(u, qd) => Earlier(u, Append(qd, ks + 1))
<1>1. \A i \in 1..Len(u) : u[i] \in UpMessages
  OBVIOUS
<1>2. \A i \in 1..Len(u) : u[i].t = "keys" =>
        /\ u[i].ks \in Seq(1..MaxAsks)
        /\ \A j \in 1..Len(u[i].ks) : u[i].ks[j] \in Nat /\ u[i].ks[j] <= ks
  <2> TAKE i \in 1..Len(u)
  <2> HAVE u[i].t = "keys"
  <2>1. u[i].ks \in Seq(1..MaxAsks)
    BY <1>1, UpFields
  <2>2. \A j \in 1..Len(u[i].ks) : u[i].ks[j] \in Nat
    BY <2>1, RemoteAssumption
  <2> QED BY <2>1, <2>2 DEF Upto
<1>3. \A i \in 1..Len(u) : u[i].t = "size" => u[i].v \in Nat /\ u[i].v <= vs
  BY <1>1, UpFields, RemoteAssumption DEF Upto
<1>4. Upto(u, ks + 1, vs)
  BY <1>2, <1>3 DEF Upto
<1>5. Upto(u, ks, vs + 1)
  BY <1>2, <1>3 DEF Upto
<1>6. Earlier(u, <<ks + 1>>)
  BY <1>2 DEF Earlier, Before
<1>7. SizesBefore(u, vs + 1)
  BY <1>3 DEF SizesBefore
<1>8. ASSUME NEW qd \in Seq(Nat), Earlier(u, qd) PROVE Earlier(u, Append(qd, ks + 1))
  <2> DEFINE z == Append(qd, ks + 1)
  <2>1. \A j \in 1..Len(z) : (j \in 1..Len(qd) /\ z[j] = qd[j]) \/ z[j] = ks + 1
    BY AppendIs
  <2> HIDE DEF z
  <2>2. \A i \in 1..Len(u) : u[i].t = "keys" => Before(u[i].ks, z)
    <3> TAKE i \in 1..Len(u)
    <3> HAVE u[i].t = "keys"
    <3>1. Before(u[i].ks, qd)
      BY <1>8 DEF Earlier
    <3>2. \A j \in 1..Len(u[i].ks) : u[i].ks[j] < ks + 1
      BY <1>2
    <3> QED BY <2>1, <3>1, <3>2 DEF Before
  <2> QED BY <2>2 DEF Earlier, z
<1> QED BY <1>4, <1>5, <1>6, <1>7, <1>8

\* The same of runs of keys.
LEMMA NewKeyIn ==
  ASSUME NEW s \in Seq(Nat), NEW z \in Seq(Nat), NEW k \in Nat, NotAfter(s, k), NotAfter(z, k), Before(s, z),
         Rising(z)
  PROVE  /\ Rising(<<k + 1>>) /\ NotAfter(<<k + 1>>, k + 1) /\ Before(s, <<k + 1>>)
         /\ NotAfter(s, k + 1) /\ NotAfter(z, k + 1)
         /\ Rising(Append(z, k + 1)) /\ Before(s, Append(z, k + 1)) /\ NotAfter(Append(z, k + 1), k + 1)
         /\ Append(z, k + 1) \in Seq(Nat)
<1>1. /\ \A i \in 1..Len(s) : s[i] \in Nat /\ s[i] <= k
      /\ \A i \in 1..Len(z) : z[i] \in Nat /\ z[i] <= k
      /\ Len(s) \in Nat /\ Len(z) \in Nat
  BY DEF NotAfter
<1> DEFINE w == Append(z, k + 1)
<1>2. /\ w \in Seq(Nat) /\ Len(w) = Len(z) + 1 /\ w[Len(z) + 1] = k + 1
      /\ \A i \in 1..Len(z) : w[i] = z[i]
  BY AppendIs
<1> HIDE DEF w
<1>3. Rising(<<k + 1>>) /\ NotAfter(<<k + 1>>, k + 1) /\ Before(s, <<k + 1>>)
  BY <1>1 DEF Rising, NotAfter, Before
<1>4. NotAfter(s, k + 1) /\ NotAfter(z, k + 1)
  BY <1>1 DEF NotAfter
<1>8. \A i \in 1..Len(w) : (i \in 1..Len(z) /\ w[i] = z[i]) \/ (i = Len(z) + 1 /\ w[i] = k + 1)
  BY <1>1, <1>2
<1>5. Rising(w)
  <2> SUFFICES ASSUME NEW i \in 1..Len(w), NEW j \in 1..Len(w), i < j PROVE w[i] < w[j]
    BY DEF Rising
  <2>1. i \in 1..Len(z) /\ w[i] = z[i] /\ z[i] \in Nat /\ z[i] <= k
    BY <1>1, <1>2, <1>8
  <2>2. CASE j \in 1..Len(z) /\ w[j] = z[j]
    BY <2>1, <2>2 DEF Rising
  <2>3. CASE w[j] = k + 1
    BY <2>1, <2>3
  <2> QED BY <1>8, <2>2, <2>3
<1>6. Before(s, w)
  <2> SUFFICES ASSUME NEW i \in 1..Len(s), NEW j \in 1..Len(w) PROVE s[i] < w[j]
    BY DEF Before
  <2>1. CASE j \in 1..Len(z) /\ w[j] = z[j]
    BY <2>1 DEF Before
  <2>2. CASE w[j] = k + 1
    BY <1>1, <2>2
  <2> QED BY <1>8, <2>1, <2>2
<1>7. NotAfter(w, k + 1)
  <2> SUFFICES ASSUME NEW j \in 1..Len(w) PROVE w[j] <= k + 1
    BY DEF NotAfter
  <2> QED BY <1>1, <1>8
<1> QED BY <1>2, <1>3, <1>4, <1>5, <1>6, <1>7 DEF w

-----------------------------------------------------------------------------
(* The stream of a Bridge.                                                 *)

\* A stream whose end is lost is one.
LEMMA PartPrefix ==
  ASSUME NEW q \in Seq(DownMessages), NEW p \in Prefixes(q), NEW hi, NEW gr, NEW ag, NEW off, NEW tl, NEW sk,
         NEW scr, NEW mir, StreamPart(q, hi, gr, ag, off, tl, sk, scr, mir)
  PROVE  StreamPart(p, hi, gr, ag, off, tl, sk, scr, mir)
<1>1. p \in Seq(DownMessages) /\ Len(p) <= Len(q) /\ \A i \in 1..Len(p) : p[i] = q[i]
  BY PrefixIs
<1>2. Form(p, hi, gr)
  BY <1>1, FormPrefix DEF StreamPart
<1>3. Ends(p, ag) /\ Chunks(p, off, tl) /\ (sk = FALSE => NoGap(p, off))
  BY <1>1, QuietPrefix DEF StreamPart
<1>4. Screens(p, gr, scr, tl)
  BY <1>1, ScreensPrefix DEF StreamPart
<1>5. Grids(p, gr, mir, tl)
  BY <1>1, GridsPrefix DEF StreamPart
<1> QED BY <1>2, <1>3, <1>4, <1>5 DEF StreamPart

\* An agent that has ended, or output that goes elsewhere.
LEMMA PartGrows ==
  ASSUME NEW q \in Seq(DownMessages), NEW hi, NEW gr, NEW ag, NEW ah, NEW off, NEW tl \in Nat, NEW tm \in Nat,
         tl <= tm, NEW sk, NEW sl, NEW scr, NEW mir, StreamPart(q, hi, gr, ag, off, tl, sk, scr, mir),
         ah = ag \/ ah # "running", sl = sk \/ sl = TRUE
  PROVE  StreamPart(q, hi, gr, ah, off, tm, sl, scr, mir)
<1>1. \A i \in 1..Len(q) : q[i] \in DownMessages
  OBVIOUS
<1>2. \A i \in 1..Len(q) : q[i].t \in {"out", "snap", "delta"} => q[i].at \in Nat
  BY <1>1, DownFields
<1>3. Ends(q, ah)
  BY DEF StreamPart, Ends
<1>4. Chunks(q, off, tm)
  <2>1. Chunks(q, off, tl)
    BY DEF StreamPart
  <2>2. \A i \in 1..Len(q) : q[i].t = "out" => off <= q[i].at /\ q[i].at < tm
    BY <1>2, <2>1 DEF Chunks
  <2> QED BY <2>1, <2>2 DEF Chunks
<1>5. Screens(q, gr, scr, tm)
  <2>1. Screens(q, gr, scr, tl)
    BY DEF StreamPart
  <2>2. Live(q, gr, 0) => scr \in 0..tm
    <3>1. Live(q, gr, 0) => scr \in 0..tl
      BY <2>1 DEF Screens
    <3> QED BY <3>1
  <2>3. \A i \in 1..Len(q) : q[i].t \in {"snap", "delta"} => q[i].at <= tm
    <3>1. \A i \in 1..Len(q) : q[i].t \in {"snap", "delta"} => q[i].at <= tl
      BY <2>1 DEF Screens
    <3> QED BY <1>2, <3>1
  <2> QED BY <2>1, <2>2, <2>3 DEF Screens
<1>6. Grids(q, gr, mir, tm)
  <2>1. Grids(q, gr, mir, tl)
    BY DEF StreamPart
  <2>2. Live(q, gr, 0) => mir.at \in 0..tm /\ mir.seq # 0
    <3>1. Live(q, gr, 0) => mir.at \in 0..tl /\ mir.seq # 0
      BY <2>1 DEF Grids
    <3> QED BY <3>1
  <2> QED BY <2>1, <2>2 DEF Grids
<1>7. Form(q, hi, gr) /\ (sl = FALSE => NoGap(q, off))
  BY DEF StreamPart
<1> QED BY <1>3, <1>4, <1>5, <1>6, <1>7 DEF StreamPart

\* A chunk is written behind a stream, ...
LEMMA PushOut ==
  ASSUME NEW q \in Seq(DownMessages), NEW hi, NEW gr, NEW ag, NEW off \in Nat, NEW tl \in Nat, NEW sk,
         NEW scr, NEW mir \in [seq : Nat, at : Int], NEW sq \in Nat, NEW bs \in Nat, NEW dr, NEW ds,
         ds = TRUE, off <= tl, tl \in 0..MaxOut,
         StreamPart(q, hi, gr, ag, off, tl, sk, scr, mir),
         TipPart(q, hi, gr, off, tl, sk, scr, mir, sq, bs, dr)
  PROVE  /\ StreamPart(Append(q, Output(tl)), hi, gr, ag, off, tl + 1, sk, scr, mir)
         /\ TipPart(Append(q, Output(tl)), hi, gr, off, tl + 1, sk, scr, mir, sq, bs, ds)
<1> DEFINE m == Output(tl)
<1>1. m \in DownMessages /\ m.t = "out" /\ m.at = tl
  BY Constructed DEF Output
<1> HIDE DEF m
<1>2. /\ Form(q, hi, gr) /\ Ends(q, ag) /\ Chunks(q, off, tl) /\ (sk = FALSE => NoGap(q, off))
      /\ Screens(q, gr, scr, tl) /\ Grids(q, gr, mir, tl)
  BY DEF StreamPart
<1>3. /\ hi = FALSE => q # <<>>
      /\ Live(q, gr, Len(q)) /\ (sk = FALSE => AllSent(q, off, tl)) /\ ShowsAll(q, gr, scr, tl)
      /\ NumsUpto(q, gr, mir, sq) /\ Newest(q, gr, mir, sq, bs, dr, tl)
  BY DEF TipPart
<1>4. Form(Append(q, m), hi, gr)
  BY <1>1, <1>2, <1>3, FormAppend
<1>5. Ends(Append(q, m), ag) /\ Chunks(Append(q, m), off, tl + 1)
  BY <1>1, <1>2, QuietAppend
<1>6. sk = FALSE => NoGap(Append(q, m), off) /\ AllSent(Append(q, m), off, tl + 1)
  BY <1>1, <1>2, <1>3, QuietAppend
<1>7. Screens(Append(q, m), gr, scr, tl + 1)
  BY <1>1, <1>2, <1>3, ScreensAppend
<1>8. Grids(Append(q, m), gr, mir, tl + 1)
  <2>1. Follows(q, m, gr, mir, sq, tl)
    BY <1>1 DEF Follows
  <2> QED BY <1>1, <1>2, <1>3, <2>1, GridsAppend
<1>9. Append(q, m) # <<>>
  BY <1>1, AppendSome
<1>10. Live(Append(q, m), gr, Len(Append(q, m)))
  BY <1>1, <1>3, LiveAppend, AppendIs
<1>11. ShowsAll(Append(q, m), gr, scr, tl + 1)
  BY <1>1, <1>3, ShowsAllAppend
<1>12. NumsUpto(Append(q, m), gr, mir, sq)
  BY <1>1, <1>3, NumsAppend
<1>13. Newest(Append(q, m), gr, mir, sq, bs, ds, tl + 1)
  BY <1>1, <1>3, NewestAppend
<1> QED BY <1>4, <1>5, <1>6, <1>7, <1>8, <1>9, <1>10, <1>11, <1>12, <1>13 DEF StreamPart, TipPart, m

\* ... a delta, ...
LEMMA PushDelta ==
  ASSUME NEW q \in Seq(DownMessages), NEW hi, NEW gr, NEW ag, NEW off \in Nat, NEW tl \in Nat, NEW sk,
         NEW scr, NEW mir \in [seq : Nat, at : Int], NEW sq \in Nat, NEW bs \in Nat, NEW dr, NEW ds,
         NEW m \in DownMessages, m.t = "delta", m.seq = sq + 1, m.base = bs, m.at = tl,
         StreamPart(q, hi, gr, ag, off, tl, sk, scr, mir),
         TipPart(q, hi, gr, off, tl, sk, scr, mir, sq, bs, dr)
  PROVE  /\ StreamPart(Append(q, m), hi, gr, ag, off, tl, sk, scr, mir)
         /\ TipPart(Append(q, m), hi, gr, off, tl, sk, scr, mir, sq + 1, tl, ds)
<1>2. /\ Form(q, hi, gr) /\ Ends(q, ag) /\ Chunks(q, off, tl) /\ (sk = FALSE => NoGap(q, off))
      /\ Screens(q, gr, scr, tl) /\ Grids(q, gr, mir, tl)
  BY DEF StreamPart
<1>3. /\ hi = FALSE => q # <<>>
      /\ Live(q, gr, Len(q)) /\ (sk = FALSE => AllSent(q, off, tl)) /\ ShowsAll(q, gr, scr, tl)
      /\ NumsUpto(q, gr, mir, sq) /\ Newest(q, gr, mir, sq, bs, dr, tl)
  BY DEF TipPart
<1>4. Form(Append(q, m), hi, gr)
  BY <1>2, <1>3, FormAppend
<1>5. Ends(Append(q, m), ag) /\ Chunks(Append(q, m), off, tl)
  BY <1>2, QuietAppend
<1>6. sk = FALSE => NoGap(Append(q, m), off) /\ AllSent(Append(q, m), off, tl)
  BY <1>2, <1>3, QuietAppend
<1>7. Screens(Append(q, m), gr, scr, tl)
  BY <1>2, <1>3, ScreensAppend
<1>8. Grids(Append(q, m), gr, mir, tl)
  <2>1. \E x : Newest(q, gr, mir, sq, m.base, x, tl)
    BY <1>3
  <2>2. Follows(q, m, gr, mir, sq, tl)
    BY <2>1 DEF Follows
  <2> QED BY <1>2, <1>3, <2>2, GridsAppend
<1>9. Append(q, m) # <<>>
  BY AppendSome
<1>10. Live(Append(q, m), gr, Len(Append(q, m)))
  BY <1>3, LiveAppend, AppendIs
<1>11. ShowsAll(Append(q, m), gr, scr, tl)
  BY <1>3, ShowsAllAppend
<1>12. NumsUpto(Append(q, m), gr, mir, sq + 1)
  BY <1>3, NumsAppend
<1>13. Newest(Append(q, m), gr, mir, sq + 1, tl, ds, tl)
  <2>1. m.t \in {"snap", "delta"} /\ m.seq = sq + 1 /\ m.at >= tl /\ m.at = tl /\ m.t # "granted"
    OBVIOUS
  <2> QED BY <1>3, <2>1, NewestAppend
<1> QED BY <1>4, <1>5, <1>6, <1>7, <1>8, <1>9, <1>10, <1>11, <1>12, <1>13 DEF StreamPart, TipPart

\* ... an error or the exit, ...
LEMMA PushOther ==
  ASSUME NEW q \in Seq(DownMessages), NEW hi, NEW gr, NEW ag, NEW off \in Nat, NEW tl \in Nat, NEW sk,
         NEW scr, NEW mir \in [seq : Nat, at : Int], NEW sq \in Nat,
         NEW m \in DownMessages, m.t = "error" \/ (m.t = "exit" /\ ag # "running"),
         StreamPart(q, hi, gr, ag, off, tl, sk, scr, mir),
         hi = FALSE => q # <<>>, Live(q, gr, Len(q)), NumsUpto(q, gr, mir, sq)
  PROVE  /\ StreamPart(Append(q, m), hi, gr, ag, off, tl, sk, scr, mir)
         /\ Append(q, m) \in Seq(DownMessages) /\ Append(q, m) # <<>>
         /\ Live(Append(q, m), gr, Len(Append(q, m)))
         /\ NumsUpto(Append(q, m), gr, mir, sq)
         /\ \A dr : \A bs \in Nat :
              TipPart(q, hi, gr, off, tl, sk, scr, mir, sq, bs, dr) =>
                TipPart(Append(q, m), hi, gr, off, tl, sk, scr, mir, sq, bs, dr)
<1>2. /\ Form(q, hi, gr) /\ Ends(q, ag) /\ Chunks(q, off, tl) /\ (sk = FALSE => NoGap(q, off))
      /\ Screens(q, gr, scr, tl) /\ Grids(q, gr, mir, tl)
  BY DEF StreamPart
<1>m. m.t \notin {"ack", "granted", "out", "snap", "delta"}
  OBVIOUS
<1>4. Form(Append(q, m), hi, gr)
  BY <1>2, <1>m, FormAppend
<1>5. Ends(Append(q, m), ag) /\ Chunks(Append(q, m), off, tl)
  <2>1. m.t \in {"ack", "exit"} => ag # "running"
    OBVIOUS
  <2> QED BY <1>2, <1>m, <2>1, QuietAppend
<1>6. sk = FALSE => NoGap(Append(q, m), off)
  BY <1>2, <1>m, QuietAppend
<1>7. Screens(Append(q, m), gr, scr, tl)
  BY <1>2, <1>m, ScreensAppend
<1>8. Grids(Append(q, m), gr, mir, tl)
  <2>1. Follows(q, m, gr, mir, sq, tl)
    BY <1>m DEF Follows
  <2> QED BY <1>2, <2>1, GridsAppend
<1>9. Append(q, m) # <<>> /\ Append(q, m) \in Seq(DownMessages)
  BY AppendSome
<1>10. Live(Append(q, m), gr, Len(Append(q, m)))
  BY <1>m, LiveAppend, AppendIs
<1>12. NumsUpto(Append(q, m), gr, mir, sq)
  BY <1>m, NumsAppend
<1>13. ASSUME NEW bs \in Nat, NEW dr, TipPart(q, hi, gr, off, tl, sk, scr, mir, sq, bs, dr)
       PROVE  TipPart(Append(q, m), hi, gr, off, tl, sk, scr, mir, sq, bs, dr)
  <2>1. (sk = FALSE => AllSent(q, off, tl)) /\ ShowsAll(q, gr, scr, tl) /\ Newest(q, gr, mir, sq, bs, dr, tl)
    BY <1>13 DEF TipPart
  <2>2. sk = FALSE => AllSent(Append(q, m), off, tl)
    BY <2>1, <1>m, QuietAppend
  <2>3. ShowsAll(Append(q, m), gr, scr, tl)
    BY <2>1, <1>m, ShowsAllAppend
  <2>4. Newest(Append(q, m), gr, mir, sq, bs, dr, tl)
    BY <2>1, <1>m, NewestAppend
  <2> QED BY <1>9, <1>10, <1>12, <2>2, <2>3, <2>4 DEF TipPart
<1> QED BY <1>4, <1>5, <1>6, <1>7, <1>8, <1>9, <1>10, <1>12, <1>13 DEF StreamPart

\* ... a snapshot.
LEMMA PushSnap ==
  ASSUME NEW q \in Seq(DownMessages), NEW hi, NEW gr, NEW ag, NEW off \in Nat, NEW tl \in Nat, NEW tm \in Nat,
         NEW sk, NEW scr, NEW mir \in [seq : Nat, at : Int], NEW sq \in Nat, NEW sr \in Nat, NEW bs \in Nat,
         NEW dr,
         tl <= tm, tm \in 0..MaxOut, sq < sr, bs <= tm,
         StreamPart(q, hi, gr, ag, off, tl, sk, scr, mir),
         hi = FALSE => q # <<>>, Live(q, gr, Len(q)), NumsUpto(q, gr, mir, sq),
         sk = FALSE => tm = tl /\ AllSent(q, off, tl)
  PROVE  /\ StreamPart(Append(q, Snap(sr, tm)), hi, gr, ag, off, tm, sk, scr, mir)
         /\ TipPart(Append(q, Snap(sr, tm)), hi, gr, off, tm, sk, scr, mir, sr, bs, dr)
<1> DEFINE m == Snap(sr, tm)
<1>1. m \in DownMessages /\ m.t = "snap" /\ m.at = tm /\ m.seq = sr
  BY Constructed DEF Snap
<1> HIDE DEF m
<1>2. /\ Form(q, hi, gr) /\ Ends(q, ag) /\ Chunks(q, off, tl) /\ (sk = FALSE => NoGap(q, off))
      /\ Screens(q, gr, scr, tl) /\ Grids(q, gr, mir, tl)
  BY DEF StreamPart
<1>4. Form(Append(q, m), hi, gr)
  BY <1>1, <1>2, FormAppend
<1>5. Ends(Append(q, m), ag) /\ Chunks(Append(q, m), off, tm)
  BY <1>1, <1>2, QuietAppend
<1>6. sk = FALSE => NoGap(Append(q, m), off) /\ AllSent(Append(q, m), off, tm)
  BY <1>1, <1>2, QuietAppend
<1>7. Screens(Append(q, m), gr, scr, tm)
  BY <1>1, <1>2, ScreensAppend
<1>8. Grids(Append(q, m), gr, mir, tm)
  <2>1. Follows(q, m, gr, mir, sq, tl)
    BY <1>1 DEF Follows
  <2> QED BY <1>1, <1>2, <2>1, GridsAppend
<1>9. Append(q, m) # <<>>
  BY <1>1, AppendSome
<1>10. Live(Append(q, m), gr, Len(Append(q, m)))
  BY <1>1, LiveAppend, AppendIs
<1>11. ShowsAll(Append(q, m), gr, scr, tm)
  BY <1>1, ShowsAllAppend
<1>12. NumsUpto(Append(q, m), gr, mir, sr)
  BY <1>1, NumsAppend
<1>13. Newest(Append(q, m), gr, mir, sr, bs, dr, tm)
  BY <1>1, NewestAppend
<1> QED BY <1>4, <1>5, <1>6, <1>7, <1>8, <1>9, <1>10, <1>11, <1>12, <1>13 DEF StreamPart, TipPart, m

\* A backlog given up: what was sent stays, a fresh snapshot follows it.
LEMMA Reseeded ==
  ASSUME NEW q \in Seq(DownMessages), NEW p \in Prefixes(q), NEW hi, NEW gr, NEW ag, NEW off \in Nat,
         NEW tl \in Nat, NEW tm \in Nat, NEW sk, NEW sl, NEW scr, NEW mir \in [seq : Nat, at : Int],
         NEW sq \in Nat, NEW sr \in Nat, NEW bs \in Nat, NEW bt \in Nat, NEW dr, NEW ds, NEW m,
         ~Essential(SubSeq(q, Len(p) + 1, Len(q))), sl = TRUE, m = Error(FALSE),
         tl <= tm, tm \in 0..MaxOut, sq < sr, bt <= tm,
         StreamPart(q, hi, gr, ag, off, tl, sk, scr, mir),
         TipPart(q, hi, gr, off, tl, sk, scr, mir, sq, bs, dr)
  PROVE  /\ p \o <<m, Snap(sr, tm)>> \in Seq(DownMessages)
         /\ StreamPart(p \o <<m, Snap(sr, tm)>>, hi, gr, ag, off, tm, sl, scr, mir)
         /\ TipPart(p \o <<m, Snap(sr, tm)>>, hi, gr, off, tm, sl, scr, mir, sr, bt, ds)
<1>1. p \in Seq(DownMessages) /\ Len(p) \in Nat /\ Len(q) \in Nat /\ Len(p) <= Len(q)
        /\ \A i \in 1..Len(p) : p[i] = q[i]
  BY PrefixIs
<1>2. \A i \in 1..Len(q) : i > Len(p) => q[i].t \notin {"ack", "granted", "exit"}
  <2> SUFFICES ASSUME NEW i \in 1..Len(q), i > Len(p), q[i].t \in {"ack", "granted", "exit"} PROVE FALSE
    OBVIOUS
  <2> DEFINE w == SubSeq(q, Len(p) + 1, Len(q))
  <2>1. Len(w) = Len(q) - Len(p) /\ \A k \in 1..Len(q) - Len(p) : w[k] = q[Len(p) + k]
    BY <1>1
  <2> HIDE DEF w
  <2>2. i - Len(p) \in 1..Len(w) /\ w[i - Len(p)] = q[i]
    BY <1>1, <2>1
  <2>3. Essential(w)
    BY <2>2 DEF Essential
  <2> QED BY <2>3 DEF w
<1>3. StreamPart(p, hi, gr, ag, off, tl, sl, scr, mir)
  <2>1. StreamPart(p, hi, gr, ag, off, tl, sk, scr, mir)
    BY PartPrefix
  <2>2. tl <= tl /\ ag = ag /\ (sl = sk \/ sl = TRUE)
    OBVIOUS
  <2> QED BY <1>1, <2>1, <2>2, PartGrows
<1>4. hi = FALSE => p # <<>>
  <2> HAVE hi = FALSE
  <2>1. q # <<>> /\ Form(q, hi, gr)
    BY DEF TipPart, StreamPart
  <2>2. 1 \in 1..Len(q) /\ q[1].t = "ack"
    BY <1>1, <2>1 DEF Form
  <2>3. ~(1 > Len(p))
    BY <1>2, <2>2
  <2> QED BY <1>1, <2>3
<1>5. Live(p, gr, Len(p))
  <2>1. Live(q, gr, Len(q))
    BY DEF TipPart
  <2>2. CASE gr = TRUE
    BY <2>2 DEF Live
  <2>3. CASE \E g \in 1..Len(q) : g <= Len(q) + 1 /\ q[g].t = "granted"
    <3>1. PICK g \in 1..Len(q) : q[g].t = "granted"
      BY <2>3
    <3>2. g \in 1..Len(p) /\ g <= Len(p) + 1 /\ p[g] = q[g]
      BY <1>1, <1>2, <3>1
    <3> QED BY <3>1, <3>2 DEF Live
  <2> QED BY <2>1, <2>2, <2>3 DEF Live
<1>6. NumsUpto(p, gr, mir, sq)
  BY <1>1, NumsPrefix DEF TipPart
<1>7. m \in DownMessages /\ m.t = "error" /\ m.fatal = FALSE
  BY Constructed DEF Error
<1> DEFINE z == Append(p, m)
<1>8. /\ StreamPart(z, hi, gr, ag, off, tl, sl, scr, mir) /\ z \in Seq(DownMessages) /\ z # <<>>
      /\ Live(z, gr, Len(z)) /\ NumsUpto(z, gr, mir, sq)
  BY <1>1, <1>3, <1>4, <1>5, <1>6, <1>7, PushOther
<1> HIDE DEF z
<1> DEFINE w == Snap(sr, tm)
<1>9. w \in DownMessages
  BY Constructed
<1> HIDE DEF w
<1>10. p \o <<m, w>> = Append(z, w)
  BY <1>1, <1>7, <1>9, AppendTwo DEF z
<1>11. Append(z, w) \in Seq(DownMessages)
  BY <1>8, <1>9, AppendIs
<1>12. /\ StreamPart(Append(z, w), hi, gr, ag, off, tm, sl, scr, mir)
       /\ TipPart(Append(z, w), hi, gr, off, tm, sl, scr, mir, sr, bt, ds)
  BY <1>8, PushSnap DEF w
<1> QED BY <1>10, <1>11, <1>12 DEF w

\* The answer to a handshake begins a stream.
LEMMA Fresh ==
  ASSUME NEW q \in Seq(DownMessages), NEW off, NEW s, NEW n, NEW e, NEW sq \in Nat \ {0}, NEW tl \in Nat,
         NEW hi, NEW gr, hi = FALSE, gr = FALSE, NEW scr, NEW mir, NEW bs \in Nat, NEW dr, bs <= tl,
         Answer(q, off, s, n, e, sq, tl), NEW sk, sk = FALSE => s = off
  PROVE  /\ StreamPart(q, hi, gr, agent, off, tl, sk, scr, mir)
         /\ TipPart(q, hi, gr, off, tl, sk, scr, mir, sq, bs, dr)
<1>1. /\ Form(q, hi, gr) /\ Ends(q, agent) /\ Chunks(q, off, tl)
      /\ s = off => NoGap(q, off) /\ AllSent(q, off, tl)
      /\ Screens(q, gr, scr, tl) /\ Grids(q, gr, mir, tl)
      /\ q # <<>> /\ Live(q, gr, Len(q)) /\ ShowsAll(q, gr, scr, tl)
      /\ NumsUpto(q, gr, mir, sq) /\ Newest(q, gr, mir, sq, bs, dr, tl)
  BY AnswerStream
<1> QED BY <1>1 DEF StreamPart, TipPart

\* A message is handled.
Popping(q, hi, ht, gr, gs, ag, off, om, tl, sk, scr, sct, mir, mit) ==
  /\ q \in Seq(DownMessages) /\ q # <<>> /\ hi \in BOOLEAN /\ ht = TRUE /\ gr \in BOOLEAN
  /\ gs = IF q[1].t = "granted" THEN TRUE ELSE gr
  /\ off \in Nat /\ (om = IF q[1].t = "out" THEN q[1].at + 1 ELSE off) /\ tl \in Nat
  /\ mir \in [seq : Nat, at : Int] /\ mit \in [seq : Nat, at : Int]
  /\ StreamPart(q, hi, gr, ag, off, tl, sk, scr, mir)
  /\ Live(q, gr, 1) => sct = IF Content(q, 1) THEN Shows(q, scr, 1) ELSE scr
  /\ Live(q, gr, 1) =>
       IF IsUpdate(q, 1) THEN mit.seq = Num(q, mir, 1) /\ mit.at = Covers(q, mir, 1) ELSE mit = mir

\* The stream goes on from there.
LEMMA PopParts ==
  ASSUME NEW q, NEW hi, NEW ht, NEW gr, NEW gs, NEW ag, NEW off, NEW om, NEW tl, NEW sk, NEW scr, NEW sct,
         NEW mir, NEW mit, Popping(q, hi, ht, gr, gs, ag, off, om, tl, sk, scr, sct, mir, mit)
  PROVE  /\ StreamPart(Tail(q), ht, gs, ag, om, tl, sk, sct, mit)
         /\ \A dr : \A sq, bs \in Nat : TipPart(q, hi, gr, off, tl, sk, scr, mir, sq, bs, dr) =>
              TipPart(Tail(q), ht, gs, om, tl, sk, sct, mit, sq, bs, dr)
<1>0. /\ q \in Seq(DownMessages) /\ q # <<>> /\ hi \in BOOLEAN /\ ht = TRUE /\ gr \in BOOLEAN
      /\ gs = IF q[1].t = "granted" THEN TRUE ELSE gr
      /\ off \in Nat /\ (om = IF q[1].t = "out" THEN q[1].at + 1 ELSE off) /\ tl \in Nat
      /\ mir \in [seq : Nat, at : Int] /\ mit \in [seq : Nat, at : Int]
      /\ StreamPart(q, hi, gr, ag, off, tl, sk, scr, mir)
      /\ Live(q, gr, 1) => sct = IF Content(q, 1) THEN Shows(q, scr, 1) ELSE scr
      /\ Live(q, gr, 1) =>
           IF IsUpdate(q, 1) THEN mit.seq = Num(q, mir, 1) /\ mit.at = Covers(q, mir, 1) ELSE mit = mir
  BY DEF Popping
<1> USE <1>0
<1>1. /\ Form(q, hi, gr) /\ Ends(q, ag) /\ Chunks(q, off, tl) /\ (sk = FALSE => NoGap(q, off))
      /\ Screens(q, gr, scr, tl) /\ Grids(q, gr, mir, tl)
  BY DEF StreamPart
<1>2. Showing(q, hi, gr, gs, scr, sct, off, tl)
  BY <1>1 DEF Showing
<1>3. Numbering(q, hi, gr, gs, mir, mit, scr, tl)
  BY <1>1 DEF Numbering
<1>4. Form(Tail(q), ht, gs)
  BY <1>1, FormPop
<1>5. /\ Ends(Tail(q), ag) /\ Chunks(Tail(q), om, tl) /\ (sk = FALSE => NoGap(Tail(q), om))
      /\ AllSent(q, off, tl) => AllSent(Tail(q), om, tl)
  BY <1>1, QuietPop
<1>6. Screens(Tail(q), gs, sct, tl) /\ (ShowsAll(q, gr, scr, tl) => ShowsAll(Tail(q), gs, sct, tl))
  BY <1>2, ScreensPop
<1>7. /\ Grids(Tail(q), gs, mit, tl)
      /\ \A sq \in Nat : NumsUpto(q, gr, mir, sq) => NumsUpto(Tail(q), gs, mit, sq)
  BY <1>3, GridsPop
<1>8. ASSUME NEW sq \in Nat, NEW bs \in Nat, NEW dr, TipPart(q, hi, gr, off, tl, sk, scr, mir, sq, bs, dr)
      PROVE  TipPart(Tail(q), ht, gs, om, tl, sk, sct, mit, sq, bs, dr)
  <2>1. /\ Live(q, gr, Len(q)) /\ (sk = FALSE => AllSent(q, off, tl)) /\ ShowsAll(q, gr, scr, tl)
        /\ NumsUpto(q, gr, mir, sq) /\ Newest(q, gr, mir, sq, bs, dr, tl)
    BY <1>8 DEF TipPart
  <2>2. Live(Tail(q), gs, Len(Tail(q)))
    <3>1. Len(q) - 1 \in 0..Len(q) - 1 /\ Len(q) - 1 + 1 = Len(q) /\ Len(Tail(q)) = Len(q) - 1
      BY TailIs
    <3>2. Live(Tail(q), gs, Len(q) - 1) <=> Live(q, gr, Len(q) - 1 + 1)
      BY <3>1, LivePop
    <3> QED BY <2>1, <3>1, <3>2
  <2>3. Newest(Tail(q), gs, mit, sq, bs, dr, tl)
    BY <1>3, <2>1, NewestPop
  <2>4. sk = FALSE => AllSent(Tail(q), om, tl)
    BY <1>5, <2>1
  <2>5. ShowsAll(Tail(q), gs, sct, tl) /\ NumsUpto(Tail(q), gs, mit, sq)
    BY <1>6, <1>7, <2>1
  <2>6. ~(ht = FALSE)
    OBVIOUS
  <2> QED BY <2>2, <2>3, <2>4, <2>5, <2>6 DEF TipPart
<1>9. StreamPart(Tail(q), ht, gs, ag, om, tl, sk, sct, mit)
  BY <1>4, <1>5, <1>6, <1>7 DEF StreamPart
<1> QED BY <1>8, <1>9

\* The answer tells one epoch.
LEMMA AnswerSigned ==
  ASSUME NEW q \in Seq(DownMessages), NEW off, NEW s, NEW n, NEW e, NEW sq, NEW tl,
         Answer(q, off, s, n, e, sq, tl)
  PROVE  Signed(q, e)
<1>1. n \in Nat /\ Len(q) = n + 3
  BY DEF Answer
<1>2. \A i \in 1..Len(q) : i = 1 \/ i \in 2..n + 1 \/ i = n + 2 \/ i = n + 3
  BY <1>1
<1>3. q[1].e = e /\ q[n + 3].e = e /\ q[n + 2].t = "snap"
  BY DEF Answer, Ack, Granted, Snap
<1>4. \A i \in 2..n + 1 : q[i].t = "out"
  <2>1. \A i \in 2..n + 1 : q[i] = Output(s + i - 2)
    BY DEF Answer
  <2>2. \A k : Output(k).t = "out"
    BY DEF Output
  <2> QED BY <2>1, <2>2
<1> QED BY <1>2, <1>3, <1>4 DEF Signed

-----------------------------------------------------------------------------
(* What each part of the invariant depends on.                             *)

\* Parts of the invariant whose variables a step leaves alone, or hardly touches.
LEMMA StreamStays ==
  ASSUME Stream, UNCHANGED <<down, pump, gen, hello, granted, agent, offset, tail, skipped, display, mirror>>
  PROVE  Stream'
  BY DEF Stream

\* The same of where the stream ends, ...
LEMMA TipStays ==
  ASSUME Tip, UNCHANGED <<down, pump, gen, hello, granted, offset, tail, skipped, display, mirror>>,
         UNCHANGED <<open, ctl, seq, base, dirty>>
  PROVE  Tip'
  BY DEF Tip

\* ... of input, ...
LEMMA TypingStays ==
  ASSUME Typing, UNCHANGED <<up, keys, sizes, queued, queuedSize, typed, size>>, ctl' \in {ctl, None}
  PROVE  Typing'
  BY DEF Typing

\* ... of the Bridges, ...
LEMMA LinesStays ==
  ASSUME Lines, UNCHANGED <<pump, gen, open, down, ep, up, epoch, agent>>, ctl' \in {ctl, None}
  PROVE  Lines'
  BY DEF Lines

\* ... of epochs, ...
LEMMA EpochsStays ==
  ASSUME Epochs, UNCHANGED <<ep, epoch>>
  PROVE  Epochs'
  BY DEF Epochs

\* ... of the Hello, ...
LEMMA GreetedStays ==
  ASSUME Greeted, UNCHANGED <<ep, up, gen, pump, offset, down, tail>>
  PROVE  Greeted'
  BY DEF Greeted, Hello

\* ... of the pump and the writer, ...
LEMMA PumpedStays ==
  ASSUME Pumped, UNCHANGED <<pump, hello, granted, input, wep, ep, gen, queued, queuedSize>>
  PROVE  Pumped'
  BY DEF Pumped

\* ... of the writer's epoch, ...
LEMMA AgreedStays ==
  ASSUME Agreed, UNCHANGED <<pump, gen, down, ep, open, input, hello, wep>>
  PROVE  Agreed'
  BY DEF Agreed

\* ... of what is kept while nothing is lost, ...
LEMMA KeptStays ==
  ASSUME Kept, UNCHANGED <<losses, restarts, skipped, refused, pump, gen, open, queuedSize, sizes, size, up, keys,
         typed, queued>>,
         agent' = agent \/ (agent = "running" /\ agent' # "running"), ctl' \in {ctl, None}
  PROVE  Kept'
  BY DEF Kept, Whole, Size

\* ... of the end, ...
LEMMA RealStays ==
  ASSUME Real, UNCHANGED <<ending, pump>>, agent' = agent \/ agent' # "running",
         refused' = refused \/ refused' = TRUE
  PROVE  Real'
  BY DEF Real

\* ... of the log, ...
LEMMA LogStays ==
  ASSUME LogComplete, UNCHANGED <<log, first, offset>>, ~skipped' => ~skipped
  PROVE  LogComplete'
  BY DEF LogComplete, Numbers

\* ... of the types: the Holder's, ...
LEMMA HolderTypeStays ==
  ASSUME HolderType, UNCHANGED <<agentVars, gridVars, ep>>, ctl' \in {ctl, None}
  PROVE  HolderType'
  BY DEF HolderType, agentVars, gridVars

\* ... the pump's, ...
LEMMA PumpTypeStays ==
  ASSUME PumpType, UNCHANGED <<gen, writerVars, pumpVars>>
  PROVE  PumpType'
  BY DEF PumpType, writerVars, pumpVars

\* ... the views', ...
LEMMA ViewTypeStays ==
  ASSUME ViewType, tail \in Nat, tail' \in {tail, tail + 1}, UNCHANGED viewVars
  PROVE  ViewType'
  BY DEF ViewType, viewVars

\* ... and the user's.
LEMMA UserTypeStays ==
  ASSUME UserType, UNCHANGED <<ending, keys, sizes, losses, restarts>>, skipped' \in BOOLEAN,
         refused' = refused \/ refused' = TRUE
  PROVE  UserType'
  BY DEF UserType

\* Without a Bridge that holds, nothing is said of where the stream ends.
LEMMA NoTip ==
  ASSUME PumpType', Lines', ctl' # gen' \/ ctl' = None \/ ~open[gen]'
  PROVE  Tip'
  BY DEF Tip, Lines, PumpType, None

-----------------------------------------------------------------------------
(* The Holder writes.                                                      *)

\* What Queue does on the controller's Bridge.
Unsent(m) == ~open[ctl] /\ seq' = Numbered(m) /\ UNCHANGED <<down, open, ctl, skipped>>
Added(m) ==
  /\ open[ctl] /\ down' = [down EXCEPT ![gen] = Append(down[gen], m)] /\ seq' = Numbered(m)
  /\ UNCHANGED <<open, ctl, skipped>>
Dropped(m) ==
  /\ open[ctl] /\ skipped' = TRUE /\ seq' = Numbered(m)
  /\ \E p \in Prefixes(down[gen]) : down' = [down EXCEPT ![gen] = p]
  /\ open' = [open EXCEPT ![gen] = FALSE] /\ ctl' = None
Renewed(m, shows) ==
  /\ open[ctl] /\ skipped' = TRUE /\ seq' = Numbered(m) + 1
  /\ \E p \in Prefixes(down[gen]) :
       /\ ~Essential(SubSeq(down[gen], Len(p) + 1, Len(down[gen])))
       /\ down' = [down EXCEPT ![gen] = p \o <<Error(FALSE), Snap(Numbered(m) + 1, shows)>>]
  /\ UNCHANGED <<open, ctl>>

\* The epochs told, in a part of what is under way and behind another message.
LEMMA SignedPrefix ==
  ASSUME NEW q \in Seq(DownMessages), NEW p \in Prefixes(q)
  PROVE  \A e : Signed(q, e) => Signed(p, e)
<1>1. Len(p) \in Nat /\ Len(q) \in Nat /\ Len(p) <= Len(q) /\ \A i \in 1..Len(p) : p[i] = q[i]
  BY PrefixIs
<1> QED BY <1>1 DEF Signed

\* A message that tells no epoch changes none that is told.
LEMMA SignedAppend ==
  ASSUME NEW q \in Seq(DownMessages), NEW m \in DownMessages, m.t \notin {"ack", "granted"}
  PROVE  \A e : Signed(q, e) => Signed(Append(q, m), e)
<1> DEFINE z == Append(q, m)
<1>1. /\ Len(q) \in Nat /\ Len(z) = Len(q) + 1 /\ z[Len(q) + 1] = m
      /\ \A i \in 1..Len(q) : z[i] = q[i]
  BY AppendIs
<1> HIDE DEF z
<1>2. \A i \in 1..Len(z) : i \in 1..Len(q) \/ z[i] = m
  BY <1>1
<1>3. \A e : Signed(q, e) => Signed(z, e)
  BY <1>1, <1>2 DEF Signed
<1> QED BY <1>3 DEF z

\* The controller's Bridge is the newest one, or dead.
LEMMA OpenIsNewest ==
  ASSUME RType, Lines, ctl # None, open[ctl]
  PROVE  ctl = gen /\ gen \in Bridges /\ pump = "read"
  BY DEF RType, HolderType, Lines, None

\* Holder::queue does one of these.
LEMMA QueueCases ==
  ASSUME RType, Lines, ~Floods, ctl # None, NEW m \in DownMessages, NEW shows, Queue(ctl, m, shows)
  PROVE  Unsent(m) \/ Added(m) \/ Dropped(m) \/ Renewed(m, shows)
<1>0. ctl \in Bridges /\ down \in [Bridges -> Seq(DownMessages)] /\ open \in [Bridges -> BOOLEAN]
  BY DEF RType, HolderType, WireType, None
<1>1. CASE ~open[ctl]
  BY <1>1 DEF Queue, Sent, Unsent
<1>2. CASE open[ctl] /\ Len(down[ctl]) < Outbound
  <2>1. ctl = gen
    BY <1>2, OpenIsNewest
  <2>2. down[gen] \o <<m>> = Append(down[gen], m)
    BY <1>0, <2>1, AppendIs
  <2> QED BY <1>2, <2>1, <2>2 DEF Queue, Sent, Added
<1>3. CASE open[ctl] /\ ~(Len(down[ctl]) < Outbound)
  <2>1. ctl = gen
    BY <1>3, OpenIsNewest
  <2>2. skipped' = TRUE
    BY <1>3 DEF Queue
  <2>3. PICK p \in Prefixes(down[gen]) :
            /\ ~Essential(SubSeq(down[gen], Len(p) + 1, Len(down[gen])))
            /\ \/ /\ down' = [down EXCEPT ![gen] = p] /\ seq' = Numbered(m)
                  /\ open' = [open EXCEPT ![gen] = FALSE] /\ ctl' = None
               \/ /\ seq' = Numbered(m) + 1
                  /\ down' = [down EXCEPT ![gen] =
                       p \o <<Error(FALSE), Snap(Numbered(m) + 1, shows)>>]
                  /\ UNCHANGED <<open, ctl>>
    BY <1>3, <2>1 DEF Queue
  <2>4. CASE /\ down' = [down EXCEPT ![gen] = p] /\ seq' = Numbered(m)
             /\ open' = [open EXCEPT ![gen] = FALSE] /\ ctl' = None
    BY <1>3, <2>2, <2>4 DEF Dropped
  <2>5. CASE /\ seq' = Numbered(m) + 1
             /\ down' = [down EXCEPT ![gen] = p \o <<Error(FALSE), Snap(Numbered(m) + 1, shows)>>]
             /\ UNCHANGED <<open, ctl>>
    BY <1>3, <2>2, <2>3, <2>5 DEF Renewed
  <2> QED BY <2>3, <2>4, <2>5
<1> QED BY <1>1, <1>2, <1>3

\* No matter which, only the stream to the Engine is touched.
LEMMA QueueFrame ==
  ASSUME RType, Lines, Epochs, Greeted, Pumped, Agreed, Typing, Kept, LogComplete, ctl # None,
         NEW m \in DownMessages, m.t \notin {"ack", "granted"}, NEW shows,
         Unsent(m) \/ Added(m) \/ Dropped(m) \/ Renewed(m, shows),
         Numbered(m) + 1 \in Nat \ {0}, shows \in 0..MaxOut,
         UNCHANGED <<epoch, ep, up, gen, writerVars, pumpVars, viewVars, userVars, typed, size, losses,
                     restarts, refused>>,
         tail' \in {tail, tail + 1}, agent' = agent \/ (agent = "running" /\ agent' = "exited")
  PROVE  /\ WireType' /\ Lines' /\ Epochs' /\ Greeted' /\ Pumped' /\ Agreed' /\ Typing' /\ Kept'
              /\ LogComplete'
         /\ skipped' \in BOOLEAN /\ ctl' \in {ctl, None}
<1> USE DEF writerVars, pumpVars, viewVars, userVars
<1>0. /\ ctl \in Bridges /\ down \in [Bridges -> Seq(DownMessages)] /\ open \in [Bridges -> BOOLEAN]
      /\ tail \in Nat /\ skipped \in BOOLEAN
  BY RemoteAssumption DEF RType, HolderType, WireType, UserType, None
<1>1. open[ctl] => ctl = gen /\ gen \in Bridges /\ pump = "read"
  BY OpenIsNewest
<1>2. /\ ctl' \in {ctl, None}
      /\ skipped' \in BOOLEAN /\ (~skipped' => ~skipped)
  BY <1>0 DEF Unsent, Added, Dropped, Renewed
<1>3. \/ down' = down
      \/ /\ open[ctl]
         /\ \E x \in Seq(DownMessages) : /\ down' = [down EXCEPT ![gen] = x]
                                         /\ \A e : Signed(down[gen], e) => Signed(x, e)
  <2>1. CASE Unsent(m)
    BY <2>1 DEF Unsent
  <2>2. CASE Added(m)
    <3>1. Append(down[gen], m) \in Seq(DownMessages)
      BY <1>0, <1>1, <2>2, AppendIs DEF Added
    <3>2. \A e : Signed(down[gen], e) => Signed(Append(down[gen], m), e)
      BY <1>0, <1>1, <2>2, SignedAppend DEF Added
    <3> QED BY <2>2, <3>1, <3>2 DEF Added
  <2>3. CASE Dropped(m)
    <3>1. PICK p \in Prefixes(down[gen]) : down' = [down EXCEPT ![gen] = p]
      BY <2>3 DEF Dropped
    <3>2. p \in Seq(DownMessages)
      BY <1>0, <1>1, <2>3, PrefixIs DEF Dropped
    <3>3. \A e : Signed(down[gen], e) => Signed(p, e)
      BY <1>0, <1>1, <2>3, SignedPrefix DEF Dropped
    <3> QED BY <2>3, <3>1, <3>2, <3>3 DEF Dropped
  <2>4. CASE Renewed(m, shows)
    <3> DEFINE a == Error(FALSE)
               b == Snap(Numbered(m) + 1, shows)
    <3>1. PICK p \in Prefixes(down[gen]) : down' = [down EXCEPT ![gen] = p \o <<a, b>>]
      BY <2>4 DEF Renewed
    <3>2. p \in Seq(DownMessages)
      BY <1>0, <1>1, <2>4, PrefixIs DEF Renewed
    <3>3. a \in DownMessages /\ b \in DownMessages
      BY Constructed
    <3>t. a.t = "error" /\ b.t = "snap"
      BY DEF Error, Snap
    <3> HIDE DEF a, b
    <3>4. p \o <<a, b>> \in Seq(DownMessages)
      BY <3>2, <3>3
    <3>5. \A e : Signed(down[gen], e) => Signed(p \o <<a, b>>, e)
      <4>1. p \o <<a, b>> = Append(Append(p, a), b) /\ Append(p, a) \in Seq(DownMessages)
        BY <3>2, <3>3, AppendTwo, AppendIs
      <4>2. \A e : Signed(down[gen], e) => Signed(p, e)
        BY <1>0, <1>1, <2>4, SignedPrefix DEF Renewed
      <4>3. \A e : Signed(p, e) => Signed(Append(p, a), e)
        BY <3>2, <3>3, <3>t, SignedAppend
      <4>4. \A e : Signed(Append(p, a), e) => Signed(Append(Append(p, a), b), e)
        BY <3>3, <3>t, <4>1, SignedAppend
      <4> QED BY <4>1, <4>2, <4>3, <4>4
    <3> QED BY <2>4, <3>1, <3>4, <3>5 DEF Renewed
  <2> QED BY <2>1, <2>2, <2>3, <2>4
<1>4. \/ open' = open
      \/ open[ctl] /\ open' = [open EXCEPT ![gen] = FALSE]
  BY DEF Unsent, Added, Dropped, Renewed
<1>5. WireType'
  BY <1>0, <1>1, <1>3, <1>4 DEF RType, WireType
<1>6. \A b \in Bridges : (b # gen \/ pump # "read") => down'[b] = down[b] /\ open'[b] = open[b]
  BY <1>0, <1>1, <1>3, <1>4
<1>7. Lines'
  BY <1>2, <1>6 DEF Lines, None
<1>8. Greeted'
  <2>1. \A b \in Bridges : ep[b] = 0 => down'[b] = <<>>
    <3>1. \A b \in Bridges : ep[b] = 0 => down[b] = <<>>
      BY DEF Greeted
    <3>2. ep[ctl] # 0
      BY DEF Lines
    <3> QED BY <1>0, <1>1, <1>3, <3>1, <3>2
  <2>2. \A off \in 0..tail : off \in 0..tail'
    BY <1>0
  <2> QED BY <2>1, <2>2 DEF Greeted, Hello
<1>9. Epochs' /\ Pumped'
  BY EpochsStays, PumpedStays
<1>10. Typing'
  BY <1>2, TypingStays
<1>11. Kept'
  <2>1. CASE skipped' = TRUE
    BY <2>1 DEF Kept, Whole
  <2>2. CASE UNCHANGED <<open, ctl, skipped>>
    BY <2>2, KeptStays
  <2> QED BY <2>1, <2>2 DEF Unsent, Added, Dropped, Renewed
<1>13. Agreed'
  <2>1. gen \in Bridges /\ pump = "read" => Signed(down'[gen], ep[gen])
    BY <1>0, <1>3 DEF Agreed
  <2>2. gen \in Bridges /\ open'[gen] => open[gen]
    BY <1>0, <1>4
  <2>3. pump = "read" => gen \in Bridges
    BY DEF Lines, RType, PumpType, None
  <2> QED BY <2>1, <2>2, <2>3 DEF Agreed
<1>12. LogComplete'
  BY <1>2, LogStays
<1> QED BY <1>2, <1>5, <1>7, <1>8, <1>9, <1>10, <1>11, <1>12, <1>13

\* What the stream's parts say of the Bridge of the moment.
LEMMA StreamFacts ==
  ASSUME RType, pump = "read", gen \in Bridges
  PROVE  /\ down[gen] \in Seq(DownMessages) /\ offset \in Nat /\ tail \in Nat /\ offset <= tail
         /\ mirror \in [seq : Nat, at : Int] /\ seq \in Nat /\ base \in Nat /\ base <= tail
         /\ hello \in BOOLEAN /\ granted \in BOOLEAN /\ tail \in 0..MaxOut
<1>1. /\ tail \in 0..MaxOut /\ base \in 0..tail /\ offset \in 0..tail /\ MaxOut \in Nat
      /\ seq \in Nat /\ mirror \in [seq : Nat, at : Int] /\ hello \in BOOLEAN /\ granted \in BOOLEAN
  BY RemoteAssumption DEF RType, HolderType, ViewType, PumpType
<1>2. down[gen] \in Seq(DownMessages)
  BY DEF RType, WireType
<1> QED BY <1>1, <1>2

\* A stream nothing is written to while the Agent goes on.
LEMMA StreamWaits ==
  ASSUME RType, Lines, Stream, UNCHANGED <<down, gen, pump, hello, granted, viewVars>>,
         tail' \in {tail, tail + 1}, agent' = agent \/ agent' # "running",
           skipped' = skipped \/ skipped' = TRUE
  PROVE  Stream'
<1> SUFFICES ASSUME pump = "read"
             PROVE  StreamPart(down[gen], hello, granted, agent', offset, tail', skipped', display, mirror)
  BY DEF Stream, viewVars
<1>1. gen \in Bridges
  BY DEF Lines, RType, PumpType, None
<1>2. down[gen] \in Seq(DownMessages) /\ tail \in Nat /\ tail' \in Nat /\ tail <= tail'
  BY <1>1, StreamFacts
<1>3. StreamPart(down[gen], hello, granted, agent, offset, tail, skipped, display, mirror)
  BY DEF Stream
<1> QED BY <1>2, <1>3, PartGrows

\* A stream of which the Bridge's end leaves a part.
LEMMA StreamCut ==
  ASSUME RType, Lines, Stream, UNCHANGED <<gen, pump, hello, granted, viewVars>>, pump = "read",
         NEW p \in Prefixes(down[gen]), down' = [down EXCEPT ![gen] = p],
         tail' \in {tail, tail + 1}, agent' = agent \/ agent' # "running",
           skipped' = skipped \/ skipped' = TRUE
  PROVE  Stream'
<1> SUFFICES StreamPart(down'[gen], hello, granted, agent', offset, tail', skipped', display, mirror)
  BY DEF Stream, viewVars
<1>1. gen \in Bridges
  BY DEF Lines, RType, PumpType, None
<1>2. down[gen] \in Seq(DownMessages) /\ tail \in Nat /\ tail' \in Nat /\ tail <= tail'
  BY <1>1, StreamFacts
<1>3. StreamPart(down[gen], hello, granted, agent, offset, tail, skipped, display, mirror)
  BY DEF Stream
<1>4. StreamPart(p, hello, granted, agent, offset, tail, skipped, display, mirror) /\ p \in Seq(DownMessages)
  BY <1>2, <1>3, PartPrefix, PrefixIs
<1>5. down'[gen] = p
  BY <1>1 DEF RType, WireType
<1>6. StreamPart(p, hello, granted, agent', offset, tail', skipped', display, mirror)
  BY <1>2, <1>4, PartGrows
<1> QED BY <1>5, <1>6

\* A chunk of output is logged, shown and passed on.
LEMMA DrainPtyKeeps ==
  ASSUME RemoteIInv, ~Floods, DrainPty PROVE RemoteIInv'
<1> USE DEF agentVars, gridVars, writerVars, pumpVars, viewVars, userVars
<1>1. /\ RType /\ Lines /\ Epochs /\ Greeted /\ Pumped /\ Agreed /\ Stream /\ Tip
      /\ Typing /\ Kept /\ Real /\ LogComplete
  BY DEF RemoteIInv
<1>2. /\ tail \in 0..MaxOut /\ tail < MaxOut /\ tail' = tail + 1 /\ tail + 1 \in 0..MaxOut /\ dirty' = TRUE
      /\ seq \in Nat /\ tail \in Nat
  BY <1>1, RemoteAssumption DEF DrainPty, RType, HolderType
<1>3. /\ UNCHANGED <<agent, typed, size, epoch, base, ep, up, gen, writerVars, pumpVars, viewVars, ending>>
      /\ UNCHANGED <<userVars, losses, restarts, refused>>
  BY DEF DrainPty
<1> DEFINE m == Output(tail)
<1>m. m \in DownMessages /\ m.t = "out" /\ Numbered(m) = seq
  BY <1>2, Constructed DEF Output, Numbered
<1>5. PumpType' /\ Real'
  BY <1>1, <1>3, PumpTypeStays, RealStays DEF RType
<1>6. ViewType'
  BY <1>1, <1>2, <1>3, ViewTypeStays DEF RType
<1>7. CASE ctl = None
  <2>1. UNCHANGED <<down, seq, open, ctl, skipped>>
    BY <1>7 DEF DrainPty
  <2>2. RType'
    <3>1. HolderType'
      BY <1>1, <1>2, <1>3, <2>1 DEF RType, HolderType
    <3>2. WireType' /\ UserType'
      BY <1>1, <1>3, <2>1 DEF RType, WireType, UserType
    <3> QED BY <1>5, <1>6, <3>1, <3>2 DEF RType
  <2>3. Lines' /\ Epochs' /\ Pumped' /\ Agreed' /\ Typing' /\ Kept' /\ LogComplete'
    BY <1>1, <1>3, <2>1, LinesStays, EpochsStays, PumpedStays, AgreedStays, TypingStays, KeptStays, LogStays
  <2>4. Greeted'
    <3>1. \A off \in 0..tail : off \in 0..tail'
      BY <1>2
    <3> QED BY <1>1, <1>3, <2>1, <3>1 DEF Greeted, Hello
  <2>5. Stream'
    BY <1>1, <1>2, <1>3, <2>1, StreamWaits
  <2>6. Tip'
    BY <1>5, <1>7, <2>1, <2>3, NoTip
  <2> QED BY <1>5, <2>2, <2>3, <2>4, <2>5, <2>6 DEF RemoteIInv
<1>8. CASE ctl # None
  <2>1. Queue(ctl, m, tail + 1)
    BY <1>8 DEF DrainPty
  <2> HIDE DEF m
  <2>2. Unsent(m) \/ Added(m) \/ Dropped(m) \/ Renewed(m, tail + 1)
    BY <1>1, <1>8, <1>m, <2>1, QueueCases
  <2>3. /\ WireType' /\ Lines' /\ Epochs' /\ Greeted' /\ Pumped' /\ Agreed' /\ Typing' /\ Kept'
             /\ LogComplete'
        /\ skipped' \in BOOLEAN /\ ctl' \in {ctl, None}
    <3>1. Numbered(m) + 1 \in Nat \ {0} /\ tail' \in {tail, tail + 1}
      BY <1>2, <1>m
    <3> QED BY <1>1, <1>2, <1>3, <1>8, <1>m, <2>2, <3>1, QueueFrame
  <2>4. seq' \in Nat
    BY <1>2, <1>m, <2>2 DEF Unsent, Added, Dropped, Renewed
  <2>5. HolderType'
    BY <1>1, <1>2, <1>3, <2>3, <2>4 DEF RType, HolderType
  <2>6. UserType'
    BY <1>1, <1>3, <2>3, UserTypeStays DEF RType
  <2>7. RType'
    BY <1>5, <1>6, <2>3, <2>5, <2>6 DEF RType
  <2>8. open[ctl] => ctl = gen /\ gen \in Bridges /\ pump = "read"
    BY <1>1, <1>8, OpenIsNewest
  <2>9. Stream' /\ Tip'
    <3>1. CASE Unsent(m)
      <4>1. UNCHANGED <<down, open, ctl, skipped>> /\ ~open[ctl]
        BY <3>1 DEF Unsent
      <4>2. Stream'
        BY <1>1, <1>2, <1>3, <4>1, StreamWaits
      <4>3. Tip'
        BY <1>3, <1>5, <2>3, <4>1, NoTip
      <4> QED BY <4>2, <4>3
    <3>2. CASE Added(m)
      <4>1. ctl = gen /\ gen \in Bridges /\ pump = "read" /\ open[gen]
        BY <2>8, <3>2 DEF Added
      <4>2. /\ StreamPart(down[gen], hello, granted, agent, offset, tail, skipped, display, mirror)
            /\ TipPart(down[gen], hello, granted, offset, tail, skipped, display, mirror, seq, base, dirty)
        BY <1>1, <4>1 DEF Stream, Tip
      <4>3. down'[gen] = Append(down[gen], Output(tail)) /\ seq' = seq /\ UNCHANGED <<open, ctl, skipped>>
        BY <1>1, <1>m, <3>2, <4>1 DEF Added, RType, WireType, m
      <4>4. /\ down[gen] \in Seq(DownMessages) /\ offset \in Nat /\ tail \in Nat /\ offset <= tail
            /\ mirror \in [seq : Nat, at : Int] /\ seq \in Nat /\ base \in Nat
        BY <1>1, <4>1, StreamFacts
      <4> DEFINE x == Append(down[gen], Output(tail))
      <4>5. /\ StreamPart(x, hello, granted, agent, offset, tail + 1, skipped, display, mirror)
            /\ TipPart(x, hello, granted, offset, tail + 1, skipped, display, mirror, seq, base, dirty')
        BY <1>2, <4>2, <4>4, PushOut
      <4> QED BY <1>2, <1>3, <4>3, <4>5 DEF Stream, Tip
    <3>3. CASE Dropped(m)
      <4>1. ctl = gen /\ gen \in Bridges /\ pump = "read" /\ ctl' = None /\ skipped' = TRUE
        BY <2>8, <3>3 DEF Dropped
      <4>2. PICK p \in Prefixes(down[gen]) : down' = [down EXCEPT ![gen] = p]
        BY <3>3 DEF Dropped
      <4>3. Stream'
        BY <1>1, <1>2, <1>3, <4>1, <4>2, StreamCut
      <4>4. Tip'
        BY <1>5, <2>3, <4>1, NoTip
      <4> QED BY <4>3, <4>4
    <3>4. CASE Renewed(m, tail + 1)
      <4>1. ctl = gen /\ gen \in Bridges /\ pump = "read" /\ open[gen] /\ skipped' = TRUE /\ seq' = seq + 1
        BY <1>m, <2>8, <3>4 DEF Renewed
      <4>2. PICK p \in Prefixes(down[gen]) :
              /\ ~Essential(SubSeq(down[gen], Len(p) + 1, Len(down[gen])))
              /\ down' = [down EXCEPT ![gen] = p \o <<Error(FALSE), Snap(seq + 1, tail + 1)>>]
        BY <1>m, <3>4 DEF Renewed
      <4>3. down'[gen] = p \o <<Error(FALSE), Snap(seq + 1, tail + 1)>> /\ UNCHANGED <<open, ctl>>
        BY <1>1, <3>4, <4>1, <4>2 DEF Renewed, RType, WireType
      <4>4. /\ down[gen] \in Seq(DownMessages) /\ offset \in Nat /\ tail \in Nat /\ offset <= tail
            /\ mirror \in [seq : Nat, at : Int] /\ seq \in Nat /\ base \in Nat /\ base <= tail
        BY <1>1, <4>1, StreamFacts
      <4>5. /\ StreamPart(down[gen], hello, granted, agent, offset, tail, skipped, display, mirror)
            /\ TipPart(down[gen], hello, granted, offset, tail, skipped, display, mirror, seq, base, dirty)
        BY <1>1, <4>1 DEF Stream, Tip
      <4>6. tail + 1 \in Nat /\ tail <= tail + 1 /\ seq + 1 \in Nat /\ seq < seq + 1 /\ base <= tail + 1
        BY <4>4
      <4> DEFINE e == Error(FALSE)
                 x == p \o <<e, Snap(seq + 1, tail + 1)>>
      <4>7. /\ StreamPart(x, hello, granted, agent, offset, tail + 1, skipped', display, mirror)
            /\ TipPart(x, hello, granted, offset, tail + 1, skipped', display, mirror, seq + 1, base, dirty')
        <5> HIDE DEF e
        <5>1. e = Error(FALSE)
          BY DEF e
        <5> QED BY <1>2, <4>1, <4>2, <4>4, <4>5, <4>6, <5>1, Reseeded
      <4>8. down'[gen] = x
        BY <4>3
      <4> HIDE DEF x
      <4> QED BY <1>2, <1>3, <4>1, <4>3, <4>7, <4>8 DEF Stream, Tip
    <3> QED BY <2>2, <3>1, <3>2, <3>3, <3>4
  <2> QED BY <1>5, <2>3, <2>7, <2>9 DEF RemoteIInv
<1> QED BY <1>7, <1>8

\* The grid's changes are passed on.
LEMMA EmitGridDeltaKeeps ==
  ASSUME RemoteIInv, ~Floods, EmitGridDelta PROVE RemoteIInv'
<1> USE DEF agentVars, gridVars, writerVars, pumpVars, viewVars, userVars
<1>1. /\ RType /\ Lines /\ Epochs /\ Greeted /\ Pumped /\ Agreed /\ Stream /\ Tip
      /\ Typing /\ Kept /\ Real /\ LogComplete
  BY DEF RemoteIInv
<1>2. /\ tail \in 0..MaxOut /\ dirty' = FALSE /\ seq \in Nat /\ tail \in Nat /\ base \in 0..tail
      /\ base \in 0..MaxOut /\ tail \in 0..tail
  BY <1>1, RemoteAssumption DEF EmitGridDelta, RType, HolderType
<1>3. /\ UNCHANGED <<agentVars, epoch, ep, up, gen, writerVars, pumpVars, viewVars, ending>>
      /\ UNCHANGED <<userVars, losses, restarts, refused>>
  BY DEF EmitGridDelta
<1> DEFINE m == Delta(seq + 1)
<1>m. /\ m \in DownMessages /\ m.t = "delta" /\ m.seq = seq + 1 /\ m.base = base /\ m.at = tail
      /\ Numbered(m) = seq + 1
  <2>1. seq + 1 \in Nat \ {0}
    BY <1>2
  <2> QED BY <1>2, <2>1, Constructed DEF Delta, Numbered
<1>5. PumpType' /\ Real'
  BY <1>1, <1>3, PumpTypeStays, RealStays DEF RType
<1>6. ViewType'
  BY <1>1, <1>2, <1>3, ViewTypeStays DEF RType
<1>7. CASE ctl = None
  <2>1. UNCHANGED <<down, seq, open, ctl, skipped, base>>
    BY <1>7 DEF EmitGridDelta
  <2>2. RType'
    <3>1. HolderType'
      BY <1>1, <1>2, <1>3, <2>1 DEF RType, HolderType
    <3>2. WireType' /\ UserType'
      BY <1>1, <1>3, <2>1 DEF RType, WireType, UserType
    <3> QED BY <1>5, <1>6, <3>1, <3>2 DEF RType
  <2>3. Lines' /\ Epochs' /\ Pumped' /\ Agreed' /\ Typing' /\ Kept' /\ LogComplete'
    BY <1>1, <1>3, <2>1, LinesStays, EpochsStays, PumpedStays, AgreedStays, TypingStays, KeptStays, LogStays
  <2>4. Greeted'
    BY <1>1, <1>3, <2>1, GreetedStays
  <2>5. Stream'
    BY <1>1, <1>2, <1>3, <2>1, StreamWaits
  <2>6. Tip'
    BY <1>5, <1>7, <2>1, <2>3, NoTip
  <2> QED BY <1>5, <2>2, <2>3, <2>4, <2>5, <2>6 DEF RemoteIInv
<1>8. CASE ctl # None
  <2>1. Queue(ctl, m, tail)
    BY <1>8 DEF EmitGridDelta
  <2>b. base' = tail
    BY <1>8 DEF EmitGridDelta
  <2> HIDE DEF m
  <2>2. Unsent(m) \/ Added(m) \/ Dropped(m) \/ Renewed(m, tail)
    BY <1>1, <1>8, <1>m, <2>1, QueueCases
  <2>3. /\ WireType' /\ Lines' /\ Epochs' /\ Greeted' /\ Pumped' /\ Agreed' /\ Typing' /\ Kept'
             /\ LogComplete'
        /\ skipped' \in BOOLEAN /\ ctl' \in {ctl, None}
    <3>1. Numbered(m) + 1 \in Nat \ {0} /\ tail' \in {tail, tail + 1}
      BY <1>2, <1>3, <1>m
    <3> QED BY <1>1, <1>2, <1>3, <1>8, <1>m, <2>2, <3>1, QueueFrame
  <2>4. seq' \in Nat
    BY <1>2, <1>m, <2>2 DEF Unsent, Added, Dropped, Renewed
  <2>5. HolderType'
    BY <1>1, <1>2, <1>3, <2>3, <2>4, <2>b DEF RType, HolderType
  <2>6. UserType'
    BY <1>1, <1>3, <2>3, UserTypeStays DEF RType
  <2>7. RType'
    BY <1>5, <1>6, <2>3, <2>5, <2>6 DEF RType
  <2>8. open[ctl] => ctl = gen /\ gen \in Bridges /\ pump = "read"
    BY <1>1, <1>8, OpenIsNewest
  <2>9. Stream' /\ Tip'
    <3>1. CASE Unsent(m)
      <4>1. UNCHANGED <<down, open, ctl, skipped>> /\ ~open[ctl]
        BY <3>1 DEF Unsent
      <4>2. Stream'
        BY <1>1, <1>2, <1>3, <4>1, StreamWaits
      <4>3. Tip'
        BY <1>3, <1>5, <2>3, <4>1, NoTip
      <4> QED BY <4>2, <4>3
    <3>2. CASE Added(m)
      <4>1. ctl = gen /\ gen \in Bridges /\ pump = "read" /\ open[gen]
        BY <2>8, <3>2 DEF Added
      <4>2. /\ StreamPart(down[gen], hello, granted, agent, offset, tail, skipped, display, mirror)
            /\ TipPart(down[gen], hello, granted, offset, tail, skipped, display, mirror, seq, base, dirty)
        BY <1>1, <4>1 DEF Stream, Tip
      <4>3. down'[gen] = Append(down[gen], m) /\ seq' = seq + 1 /\ UNCHANGED <<open, ctl, skipped>>
        BY <1>1, <1>m, <3>2, <4>1 DEF Added, RType, WireType
      <4>4. /\ down[gen] \in Seq(DownMessages) /\ offset \in Nat /\ tail \in Nat /\ offset <= tail
            /\ mirror \in [seq : Nat, at : Int] /\ seq \in Nat /\ base \in Nat
        BY <1>1, <4>1, StreamFacts
      <4> DEFINE x == Append(down[gen], m)
      <4>5. /\ StreamPart(x, hello, granted, agent, offset, tail, skipped, display, mirror)
            /\ TipPart(x, hello, granted, offset, tail, skipped, display, mirror, seq + 1, tail, dirty')
        BY <1>2, <1>m, <4>2, <4>4, PushDelta
      <4> QED BY <1>2, <1>3, <2>b, <4>3, <4>5 DEF Stream, Tip
    <3>3. CASE Dropped(m)
      <4>1. ctl = gen /\ gen \in Bridges /\ pump = "read" /\ ctl' = None /\ skipped' = TRUE
        BY <2>8, <3>3 DEF Dropped
      <4>2. PICK p \in Prefixes(down[gen]) : down' = [down EXCEPT ![gen] = p]
        BY <3>3 DEF Dropped
      <4>3. Stream'
        BY <1>1, <1>2, <1>3, <4>1, <4>2, StreamCut
      <4>4. Tip'
        BY <1>5, <2>3, <4>1, NoTip
      <4> QED BY <4>3, <4>4
    <3>4. CASE Renewed(m, tail)
      <4>1. ctl = gen /\ gen \in Bridges /\ pump = "read" /\ open[gen] /\ skipped' = TRUE /\ seq' = seq + 2
        BY <1>2, <1>m, <2>8, <3>4 DEF Renewed
      <4>2. PICK p \in Prefixes(down[gen]) :
              /\ ~Essential(SubSeq(down[gen], Len(p) + 1, Len(down[gen])))
              /\ down' = [down EXCEPT ![gen] = p \o <<Error(FALSE), Snap(seq + 2, tail)>>]
        <5>1. Numbered(m) + 1 = seq + 2
          BY <1>2, <1>m
        <5> QED BY <5>1, <3>4 DEF Renewed
      <4>3. down'[gen] = p \o <<Error(FALSE), Snap(seq + 2, tail)>> /\ UNCHANGED <<open, ctl>>
        BY <1>1, <3>4, <4>1, <4>2 DEF Renewed, RType, WireType
      <4>4. /\ down[gen] \in Seq(DownMessages) /\ offset \in Nat /\ tail \in Nat /\ offset <= tail
            /\ mirror \in [seq : Nat, at : Int] /\ seq \in Nat /\ base \in Nat /\ base <= tail
        BY <1>1, <4>1, StreamFacts
      <4>5. /\ StreamPart(down[gen], hello, granted, agent, offset, tail, skipped, display, mirror)
            /\ TipPart(down[gen], hello, granted, offset, tail, skipped, display, mirror, seq, base, dirty)
        BY <1>1, <4>1 DEF Stream, Tip
      <4>6. tail <= tail /\ seq + 2 \in Nat /\ seq < seq + 2
        BY <4>4
      <4> DEFINE e == Error(FALSE)
                 x == p \o <<e, Snap(seq + 2, tail)>>
      <4>7. /\ StreamPart(x, hello, granted, agent, offset, tail, skipped', display, mirror)
            /\ TipPart(x, hello, granted, offset, tail, skipped', display, mirror, seq + 2, tail, dirty')
        <5> HIDE DEF e
        <5>1. e = Error(FALSE)
          BY DEF e
        <5> QED BY <1>2, <4>1, <4>2, <4>4, <4>5, <4>6, <5>1, Reseeded
      <4>8. down'[gen] = x
        BY <4>3
      <4> HIDE DEF x
      <4> QED BY <1>2, <1>3, <2>b, <4>1, <4>3, <4>7, <4>8 DEF Stream, Tip
    <3> QED BY <2>2, <3>1, <3>2, <3>3, <3>4
  <2> QED BY <1>5, <2>3, <2>7, <2>9 DEF RemoteIInv
<1> QED BY <1>7, <1>8

\* The Agent ends.
LEMMA RecordExitKeeps ==
  ASSUME RemoteIInv, ~Floods, RecordExit PROVE RemoteIInv'
<1> USE DEF agentVars, gridVars, writerVars, pumpVars, viewVars, userVars
<1>1. /\ RType /\ Lines /\ Epochs /\ Greeted /\ Pumped /\ Agreed /\ Stream /\ Tip
      /\ Typing /\ Kept /\ Real /\ LogComplete
  BY DEF RemoteIInv
<1>2. /\ agent = "running" /\ agent' = "exited" /\ seq \in Nat /\ tail \in Nat /\ tail \in 0..MaxOut
      /\ tail' = tail
  BY <1>1, RemoteAssumption DEF RecordExit, RType, HolderType
<1>3. /\ UNCHANGED <<tail, typed, size, epoch, base, dirty, ep, up, gen, writerVars, pumpVars, viewVars,
                     ending>>
      /\ UNCHANGED <<userVars, losses, restarts, refused>>
  BY DEF RecordExit
<1>m. Exit \in DownMessages /\ Exit.t = "exit" /\ Numbered(Exit) = seq
  BY Constructed DEF Exit, Numbered
<1>5. PumpType' /\ Real'
  BY <1>1, <1>2, <1>3, PumpTypeStays, RealStays DEF RType
<1>6. ViewType'
  BY <1>1, <1>2, <1>3, ViewTypeStays DEF RType
<1>7. CASE ctl = None
  <2>1. UNCHANGED <<down, seq, open, ctl, skipped>>
    BY <1>7 DEF RecordExit
  <2>2. RType'
    <3>1. HolderType'
      BY <1>1, <1>2, <1>3, <2>1 DEF RType, HolderType
    <3>2. WireType' /\ UserType'
      BY <1>1, <1>3, <2>1 DEF RType, WireType, UserType
    <3> QED BY <1>5, <1>6, <3>1, <3>2 DEF RType
  <2>3. Epochs' /\ Greeted' /\ Pumped' /\ Agreed' /\ Typing' /\ Kept' /\ LogComplete'
    BY <1>1, <1>2, <1>3, <2>1, EpochsStays, GreetedStays, PumpedStays, AgreedStays, TypingStays, KeptStays,
       LogStays
  <2>4. Lines'
    BY <1>1, <1>2, <1>3, <2>1 DEF Lines
  <2>5. Stream'
    BY <1>1, <1>2, <1>3, <2>1, StreamWaits
  <2>6. Tip'
    BY <1>5, <1>7, <2>1, <2>4, NoTip
  <2> QED BY <1>5, <2>2, <2>3, <2>4, <2>5, <2>6 DEF RemoteIInv
<1>8. CASE ctl # None
  <2>1. Queue(ctl, Exit, tail) /\ (~open[ctl] \/ Len(down[ctl]) < Outbound)
    BY <1>8 DEF RecordExit
  <2>2. Unsent(Exit) \/ Added(Exit)
    <3>1. ctl \in Bridges
      BY <1>1, <1>8 DEF RType, HolderType, None
    <3>2. CASE ~open[ctl]
      BY <2>1, <3>2 DEF Queue, Sent, Unsent
    <3>3. CASE open[ctl] /\ Len(down[ctl]) < Outbound
      <4>1. ctl = gen
        BY <1>1, <1>8, <3>3, OpenIsNewest
      <4>2. down[gen] \o <<Exit>> = Append(down[gen], Exit)
        BY <1>1, <1>m, <3>1, <4>1, AppendIs DEF RType, WireType
      <4> QED BY <2>1, <3>3, <4>1, <4>2 DEF Queue, Sent, Added
    <3> QED BY <2>1, <3>2, <3>3
  <2>3. /\ WireType' /\ Lines' /\ Epochs' /\ Greeted' /\ Pumped' /\ Agreed' /\ Typing' /\ Kept'
             /\ LogComplete'
        /\ skipped' \in BOOLEAN /\ ctl' \in {ctl, None}
    <3>1. Numbered(Exit) + 1 \in Nat \ {0} /\ tail' \in {tail, tail + 1}
      BY <1>2, <1>m
    <3> QED BY <1>1, <1>2, <1>3, <1>8, <1>m, <2>2, <3>1, QueueFrame
  <2>4. seq' = seq /\ UNCHANGED <<open, ctl, skipped>>
    BY <1>m, <2>2 DEF Unsent, Added
  <2>5. HolderType'
    BY <1>1, <1>2, <1>3, <2>4 DEF RType, HolderType
  <2>6. UserType'
    BY <1>1, <1>3, <2>3, UserTypeStays DEF RType
  <2>7. RType'
    BY <1>5, <1>6, <2>3, <2>5, <2>6 DEF RType
  <2>8. open[ctl] => ctl = gen /\ gen \in Bridges /\ pump = "read"
    BY <1>1, <1>8, OpenIsNewest
  <2>9. Stream' /\ Tip'
    <3>1. CASE Unsent(Exit)
      <4>1. UNCHANGED <<down, open, ctl, skipped>> /\ ~open[ctl]
        BY <3>1 DEF Unsent
      <4>2. Stream'
        BY <1>1, <1>2, <1>3, <4>1, StreamWaits
      <4>3. Tip'
        BY <1>3, <1>5, <2>3, <4>1, NoTip
      <4> QED BY <4>2, <4>3
    <3>2. CASE Added(Exit)
      <4>1. ctl = gen /\ gen \in Bridges /\ pump = "read" /\ open[gen]
        BY <2>8, <3>2 DEF Added
      <4>2. /\ StreamPart(down[gen], hello, granted, agent, offset, tail, skipped, display, mirror)
            /\ TipPart(down[gen], hello, granted, offset, tail, skipped, display, mirror, seq, base, dirty)
        BY <1>1, <4>1 DEF Stream, Tip
      <4>3. down'[gen] = Append(down[gen], Exit)
        BY <1>1, <1>m, <3>2, <4>1 DEF Added, RType, WireType
      <4>4. /\ down[gen] \in Seq(DownMessages) /\ offset \in Nat /\ tail \in Nat /\ offset <= tail
            /\ mirror \in [seq : Nat, at : Int] /\ seq \in Nat /\ base \in Nat
        BY <1>1, <4>1, StreamFacts
      <4>5. StreamPart(down[gen], hello, granted, agent', offset, tail, skipped, display, mirror)
        <5>1. tail <= tail /\ agent' # "running"
          BY <1>2
        <5> QED BY <4>2, <4>4, <5>1, PartGrows
      <4>6. /\ hello = FALSE => down[gen] # <<>>
            /\ Live(down[gen], granted, Len(down[gen])) /\ NumsUpto(down[gen], granted, mirror, seq)
        BY <4>2 DEF TipPart
      <4> DEFINE x == Append(down[gen], Exit)
      <4>7. /\ StreamPart(x, hello, granted, agent', offset, tail, skipped, display, mirror)
            /\ TipPart(x, hello, granted, offset, tail, skipped, display, mirror, seq, base, dirty)
        <5>1. agent' # "running"
          BY <1>2
        <5> QED BY <1>m, <4>2, <4>4, <4>5, <4>6, <5>1, PushOther
      <4>8. down'[gen] = x
        BY <4>3
      <4> HIDE DEF x
      <4> QED BY <1>2, <1>3, <2>4, <4>7, <4>8 DEF Stream, Tip
    <3> QED BY <2>2, <3>1, <3>2
  <2> QED BY <1>5, <2>3, <2>7, <2>9 DEF RemoteIInv
<1> QED BY <1>7, <1>8

-----------------------------------------------------------------------------
(* Bridges break.                                                          *)

\* Of what was under way to the Holder only a part is left.
Shrunk ==
  \A b \in Bridges : /\ up'[b] \in Seq(UpMessages) /\ Len(up'[b]) <= Len(up[b])
                     /\ \A i \in 1..Len(up'[b]) : up'[b][i] = up[b][i]

\* The types of all input.
LEMMA UpTypes ==
  ASSUME RType
  PROVE  /\ \A b \in Bridges : up[b] \in Seq(UpMessages) /\ Len(up[b]) \in Nat
         /\ typed \in Seq(Nat) /\ queued \in Seq(Nat) /\ size \in Nat /\ queuedSize \in Nat
         /\ keys \in Nat /\ sizes \in Nat
<1>1. MaxAsks \in Nat
  BY RemoteAssumption
<1>2. typed \in Seq(1..MaxAsks) /\ queued \in Seq(1..MaxAsks)
  BY DEF RType, HolderType, PumpType
<1>3. typed \in Seq(Nat) /\ queued \in Seq(Nat)
  BY <1>1, <1>2
<1>4. size \in Nat /\ queuedSize \in Nat /\ keys \in Nat /\ sizes \in Nat
  BY <1>1 DEF RType, HolderType, PumpType, UserType
<1>5. \A b \in Bridges : up[b] \in Seq(UpMessages)
  BY DEF RType, WireType
<1> QED BY <1>3, <1>4, <1>5

\* Losing the end of what is under way disturbs no order of input, ...
LEMMA TypingCut ==
  ASSUME RType, Typing, Shrunk, UNCHANGED <<keys, sizes, typed, size>>,
         ctl' \in {ctl, None} \/ (ctl' \in Bridges /\ up'[ctl'] = <<>>),
         queued' \in {queued, <<>>}, queuedSize' \in {queuedSize, 0}
  PROVE  Typing'
<1>1. \A b \in Bridges : up[b] \in Seq(UpMessages)
  BY UpTypes
<1>2. \A b \in Bridges : /\ Ordered(up'[b]) /\ Upto(up'[b], keys, sizes) /\ Earlier(up'[b], queued)
                         /\ queuedSize # 0 => SizesBefore(up'[b], queuedSize)
                         /\ Later(up[b], typed, size) => Later(up'[b], typed, size)
  <2> TAKE b \in Bridges
  <2>1. /\ Ordered(up[b]) /\ Upto(up[b], keys, sizes) /\ Earlier(up[b], queued)
        /\ queuedSize # 0 => SizesBefore(up[b], queuedSize)
    BY DEF Typing
  <2>2. up'[b] \in Seq(UpMessages) /\ Len(up'[b]) <= Len(up[b])
          /\ \A i \in 1..Len(up'[b]) : up'[b][i] = up[b][i]
    BY DEF Shrunk
  <2> DEFINE u == up[b]
             p == up'[b]
  <2> HIDE DEF u, p
  <2>3. /\ Ordered(u) => Ordered(p)
        /\ Upto(u, keys, sizes) => Upto(p, keys, sizes)
        /\ Earlier(u, queued) => Earlier(p, queued)
        /\ SizesBefore(u, queuedSize) => SizesBefore(p, queuedSize)
        /\ Later(u, typed, size) => Later(p, typed, size)
    BY <1>1, <2>2, UpPrefix DEF u, p
  <2> QED BY <2>1, <2>3 DEF u, p
<1>3. \A b \in Bridges : Earlier(up'[b], <<>>)
  BY DEF Earlier, Before
<1>4. Rising(queued') /\ Before(typed, queued') /\ NotAfter(queued', keys)
  <2>1. Rising(<<>>) /\ Before(typed, <<>>) /\ NotAfter(<<>>, keys)
    BY DEF Rising, Before, NotAfter
  <2> QED BY <2>1 DEF Typing
<1>5. \A b \in Bridges : Earlier(up'[b], queued')
  BY <1>2, <1>3
<1>6. /\ Rising(typed) /\ NotAfter(typed, keys) /\ size <= sizes /\ queuedSize' <= sizes
      /\ queuedSize' # 0 => queuedSize' = queuedSize /\ size < queuedSize'
  BY UpTypes DEF Typing
<1>7. ctl' # None => Later(up'[ctl'], typed, size)
  <2>1. CASE ctl' \in {ctl, None}
    BY <1>2, <2>1 DEF Typing, RType, HolderType, None
  <2>2. CASE up'[ctl'] = <<>>
    BY <2>2 DEF Later
  <2> QED BY <2>1, <2>2
<1> QED BY <1>2, <1>4, <1>5, <1>6, <1>7 DEF Typing

\* ... nor the Hello that comes first.
LEMMA GreetedCut ==
  ASSUME RType, Greeted, Shrunk, UNCHANGED <<ep, gen, tail>>, pump' = "read" => pump = "read"
           /\ offset' = offset,
         \A b \in Bridges : ep[b] = 0 => down'[b] = <<>>
  PROVE  Greeted'
<1>1. \A b \in Bridges : up[b] \in Seq(UpMessages) /\ Len(up[b]) \in Nat
  BY UpTypes
<1> SUFFICES ASSUME NEW b \in Bridges
             PROVE  /\ ep[b] = 0 => up'[b] = <<>> \/ \E off \in 0..tail : up'[b] = <<Hello(off)>>
                    /\ ep[b] # 0 => \A i \in 1..Len(up'[b]) : up'[b][i].t # "hello"
                    /\ b = gen /\ pump' = "read" /\ ep[b] = 0 /\ up'[b] # <<>> => up'[b][1].off = offset'
  BY DEF Greeted, Hello
<1>2. /\ up'[b] \in Seq(UpMessages) /\ Len(up'[b]) \in Nat /\ Len(up'[b]) <= Len(up[b])
      /\ \A i \in 1..Len(up'[b]) : up'[b][i] = up[b][i]
  BY DEF Shrunk
<1>3. ASSUME ep[b] = 0, up'[b] # <<>>
      PROVE  up'[b] = up[b] /\ \E off \in 0..tail : up'[b] = <<Hello(off)>>
  <2>1. Len(up'[b]) >= 1 /\ up[b] # <<>>
    BY <1>1, <1>2, <1>3
  <2>2. PICK off \in 0..tail : up[b] = <<Hello(off)>>
    BY <1>3, <2>1 DEF Greeted
  <2>3. Len(up'[b]) = Len(up[b])
    BY <1>1, <1>2, <2>1, <2>2
  <2>4. up'[b] = up[b]
    BY <1>1, <1>2, <2>3, SeqEqual
  <2> QED BY <2>2, <2>4
<1>4. ep[b] # 0 => \A i \in 1..Len(up'[b]) : up'[b][i].t # "hello"
  BY <1>1, <1>2 DEF Greeted
<1>5. b = gen /\ pump' = "read" /\ ep[b] = 0 /\ up'[b] # <<>> => up'[b][1].off = offset'
  BY <1>3 DEF Greeted
<1> QED BY <1>3, <1>4, <1>5

\* A Bridge loses the end of what is under way to the Holder.
LEMMA ShrunkAt ==
  ASSUME RType, gen \in Bridges, NEW u \in Prefixes(up[gen]), up' = [up EXCEPT ![gen] = u]
  PROVE  Shrunk /\ up' \in [Bridges -> Seq(UpMessages)]
<1>1. up \in [Bridges -> Seq(UpMessages)]
  BY DEF RType, WireType
<1>2. u \in Seq(UpMessages) /\ Len(u) <= Len(up[gen]) /\ \A i \in 1..Len(u) : u[i] = up[gen][i]
  BY <1>1, PrefixIs
<1>3. ASSUME NEW b \in Bridges
      PROVE  /\ up'[b] \in Seq(UpMessages) /\ Len(up'[b]) <= Len(up[b])
             /\ \A i \in 1..Len(up'[b]) : up'[b][i] = up[b][i]
  <2>1. CASE b = gen
    BY <1>1, <1>2, <2>1
  <2>2. CASE b # gen
    <3>1. up'[b] = up[b] /\ up[b] \in Seq(UpMessages) /\ Len(up[b]) \in Nat
      BY <1>1, <2>2
    <3> QED BY <3>1
  <2> QED BY <2>1, <2>2
<1>4. up' \in [Bridges -> Seq(UpMessages)]
  BY <1>1, <1>2
<1> QED BY <1>3, <1>4 DEF Shrunk

\* The Bridge's process group is ended: nothing is read from it any more.
LEMMA Disconnected ==
  ASSUME RType, Lines, Epochs, Greeted, Typing, Disconnect, gen \in Bridges,
         UNCHANGED <<agentVars, gridVars, connVars, gen, userVars>>, pump' \in {"connect", "ended"},
         queued' \in {queued, <<>>}, queuedSize' \in {queuedSize, 0}
  PROVE  /\ HolderType' /\ WireType' /\ Lines' /\ Epochs' /\ Greeted' /\ Agreed' /\ Stream' /\ Tip' /\ Typing'
         /\ wep' = 0 /\ input' = FALSE
<1> USE DEF agentVars, gridVars, connVars, userVars
<1>0. /\ down \in [Bridges -> Seq(DownMessages)] /\ open \in [Bridges -> BOOLEAN]
      /\ up \in [Bridges -> Seq(UpMessages)]
  BY DEF RType, WireType
<1>1. PICK u \in Prefixes(up[gen]) : up' = [up EXCEPT ![gen] = u]
  BY DEF Disconnect
<1>2. /\ open' = [open EXCEPT ![gen] = FALSE] /\ down' = [down EXCEPT ![gen] = <<>>]
      /\ wep' = 0 /\ input' = FALSE
  BY DEF Disconnect, Closed
<1>3. Shrunk /\ up' \in [Bridges -> Seq(UpMessages)]
  BY <1>1, ShrunkAt
<1>4. WireType'
  <2>1. <<>> \in Seq(DownMessages)
    OBVIOUS
  <2> QED BY <1>0, <1>2, <1>3, <2>1 DEF WireType
<1>5. \A b \in Bridges : ~open'[b] /\ down'[b] = <<>>
  BY <1>0, <1>2 DEF Lines
<1>6. Lines'
  <2>1. \A b \in Bridges : b > gen => up'[b] = up[b]
    <3>1. gen \in Int /\ \A b \in Bridges : b \in Int
      BY DEF Bridges
    <3>2. \A b \in Bridges : b > gen => b # gen
      BY <3>1
    <3> QED BY <1>0, <1>1, <3>2
  <2> QED BY <1>5, <2>1 DEF Lines
<1>7. Typing'
  BY <1>3, TypingCut
<1>8. Greeted'
  BY <1>3, <1>5, GreetedCut
<1>9. Stream' /\ Tip' /\ Agreed'
  BY DEF Stream, Tip, Agreed
<1>10. HolderType' /\ Epochs'
  BY HolderTypeStays, EpochsStays DEF RType
<1> QED BY <1>2, <1>4, <1>6, <1>7, <1>8, <1>9, <1>10

\* The pump goes back to connecting, and now and then inspects.
LEMMA Reconnected ==
  ASSUME RType, Lines, Epochs, Greeted, Typing, Real, LogComplete, Disconnect, Retry(TRUE), gen \in Bridges,
         UNCHANGED <<agentVars, gridVars, connVars, gen, viewVars, userVars, faultVars>>,
         queued' \in {queued, <<>>}, queuedSize' \in {queuedSize, 0}, ~Whole'
  PROVE  /\ RType' /\ Lines' /\ Epochs' /\ Greeted' /\ Pumped' /\ Agreed' /\ Stream' /\ Tip' /\ Typing'
         /\ Kept' /\ Real' /\ LogComplete'
<1> USE DEF agentVars, userVars, faultVars, viewVars
<1>1. /\ retries' = (retries + 1) % 3 /\ hello' = FALSE /\ granted' = FALSE
      /\ \/ ending' = "exited" /\ pump' = "ended" /\ agent # "running"
         \/ ending' = ending /\ pump' = "connect"
  BY DEF Retry
<1>2. /\ HolderType' /\ WireType' /\ Lines' /\ Epochs' /\ Greeted' /\ Agreed' /\ Stream' /\ Tip' /\ Typing'
      /\ wep' = 0 /\ input' = FALSE
  BY <1>1, Disconnected
<1>3. PumpType'
  <2>1. <<>> \in Seq(1..MaxAsks) /\ 0 \in 0..MaxAsks /\ 0 \in 0..MaxBridge
    BY RemoteAssumption
  <2>2. retries' \in 0..2
    BY <1>1 DEF RType, PumpType
  <2> QED BY <1>1, <1>2, <2>1, <2>2 DEF RType, PumpType
<1>4. ViewType'
  <2>1. tail \in Nat
    BY RemoteAssumption DEF RType, HolderType
  <2> QED BY <2>1, ViewTypeStays DEF RType
<1>5. UserType'
  BY <1>1 DEF RType, UserType
<1>6. Pumped' /\ Real' /\ Kept'
  BY <1>1, <1>2 DEF Pumped, Real, Kept
<1>7. LogComplete'
  BY LogStays
<1> QED BY <1>2, <1>3, <1>4, <1>5, <1>6, <1>7 DEF RType

\* The numbers from one offset to another.
LEMMA NumbersNone ==
  ASSUME NEW a \in Nat
  PROVE  Numbers(a, a) = <<>>
  BY DEF Numbers

\* One number more.
LEMMA NumbersNext ==
  ASSUME NEW a \in Nat, NEW b \in Nat, a <= b
  PROVE  Append(Numbers(a, b), b) = Numbers(a, b + 1)
<1> DEFINE x == Numbers(a, b)
           y == Numbers(a, b + 1)
           z == Append(x, b)
<1>1. x \in Seq(Nat) /\ Len(x) = b - a /\ \A i \in 1..b - a : x[i] = a + i - 1
  BY DEF Numbers
<1>2. y \in Seq(Nat) /\ Len(y) = b + 1 - a /\ \A i \in 1..b + 1 - a : y[i] = a + i - 1
  BY DEF Numbers
<1> HIDE DEF x, y
<1>3. /\ z \in Seq(Nat) /\ Len(z) = Len(x) + 1 /\ z[Len(x) + 1] = b
      /\ \A i \in 1..Len(x) : z[i] = x[i]
  BY <1>1, AppendIs
<1> HIDE DEF z
<1>4. Len(z) = Len(y)
  BY <1>1, <1>2, <1>3
<1>5. ASSUME NEW i \in 1..Len(z) PROVE z[i] = y[i]
  <2>1. CASE i \in 1..Len(x)
    BY <1>1, <1>2, <1>3, <2>1
  <2>2. CASE i = Len(x) + 1
    BY <1>1, <1>2, <1>3, <2>2
  <2> QED BY <1>1, <1>3, <2>1, <2>2
<1>6. z = y
  BY <1>2, <1>3, <1>4, <1>5, SeqEqual
<1> QED BY <1>6 DEF x, y, z

\* The pump comes to the end of a Bridge's stream.
LEMMA PumpEofKeeps ==
  ASSUME RemoteIInv, PumpEof PROVE RemoteIInv'
<1>1. /\ RType /\ Lines /\ Epochs /\ Greeted /\ Pumped /\ Agreed /\ Stream /\ Tip
      /\ Typing /\ Kept /\ Real /\ LogComplete
  BY DEF RemoteIInv
<1>2. pump = "read" /\ ~open[gen] /\ gen \in Bridges
  BY <1>1 DEF PumpEof, Lines, RType, PumpType, None
<1>3. /\ Disconnect /\ Retry(TRUE)
      /\ UNCHANGED <<agentVars, gridVars, connVars, gen, queued, queuedSize, viewVars, userVars, faultVars>>
  BY DEF PumpEof, Reconnect
<1>4. ~Whole'
  BY <1>1, <1>2, <1>3 DEF Kept, Whole, Retry, agentVars, faultVars
<1> QED BY <1>1, <1>2, <1>3, <1>4, Reconnected DEF RemoteIInv

\* The Engine is replaced: it begins at the offset that was saved.
LEMMA EngineRestartKeeps ==
  ASSUME RemoteIInv, EngineRestart PROVE RemoteIInv'
<1>1. /\ RType /\ Lines /\ Epochs /\ Greeted /\ Pumped /\ Agreed /\ Stream /\ Tip
      /\ Typing /\ Kept /\ Real /\ LogComplete
  BY DEF RemoteIInv
<1>2. gen \in Bridges /\ Disconnect /\ agent = "running" /\ pump # "ended"
  BY RemoteAssumption DEF EngineRestart, Bridges, Watched
<1>3. /\ UNCHANGED <<agentVars, gridVars, connVars, gen, ending, userVars,
                     losses, refused>> /\ restarts' = restarts + 1
      /\ queued' = <<>> /\ queuedSize' = 0 /\ pump' = "connect" /\ hello' = FALSE /\ granted' = FALSE
      /\ retries' = 0 /\ offset' = saved /\ saved' = saved /\ log' = <<>> /\ first' = saved
      /\ display' = Garbled /\ mirror' = Blank /\ skipped' = FALSE
  BY DEF EngineRestart
<1>4. /\ HolderType' /\ WireType' /\ Lines' /\ Epochs' /\ Greeted' /\ Agreed' /\ Stream' /\ Tip' /\ Typing'
      /\ wep' = 0 /\ input' = FALSE
  BY <1>1, <1>2, <1>3, Disconnected
<1>5. PumpType'
  <2>1. <<>> \in Seq(1..MaxAsks) /\ 0 \in 0..MaxAsks /\ 0 \in 0..MaxBridge
    BY RemoteAssumption
  <2>2. hello' \in BOOLEAN /\ granted' \in BOOLEAN /\ input' \in BOOLEAN
    BY <1>3, <1>4
  <2>3. retries' \in 0..2 /\ pump' \in {"connect", "read", "ended"} /\ gen' \in Bridges \cup {None}
    BY <1>2, <1>3
  <2> QED BY <1>3, <1>4, <2>1, <2>2, <2>3 DEF PumpType
<1>6. ViewType'
  <2>1. tail \in Nat /\ saved \in 0..tail /\ tail' = tail
    BY <1>1, <1>3, RemoteAssumption DEF RType, HolderType, ViewType, agentVars
  <2>2. saved \in 0..saved
    BY <2>1
  <2>3. Blank \in [seq : Nat, at : Int] /\ Blank.at = Garbled
    BY DEF Blank, Garbled
  <2> QED BY <1>3, <2>1, <2>2, <2>3 DEF ViewType
<1>7. UserType'
  <2>1. skipped' \in BOOLEAN
    BY <1>3
  <2>2. UserType /\ UNCHANGED <<ending, keys, sizes, losses, refused>> /\ restarts' = restarts + 1
    BY <1>1, <1>3 DEF RType, userVars
  <2> QED BY <2>1, <2>2 DEF UserType
<1>8. Pumped' /\ Real'
  BY <1>1, <1>2, <1>3, <1>4 DEF Pumped, Real, agentVars
<1>9. Kept'
  BY <1>1, <1>3 DEF Kept, Whole, RType, UserType
<1>10. LogComplete'
  <2>1. saved \in Nat
    BY <1>1, RemoteAssumption DEF RType, HolderType, ViewType
  <2>2. Numbers(saved, saved) = <<>>
    BY <2>1, NumbersNone
  <2> QED BY <1>3, <2>2 DEF LogComplete, Numbers
<1> QED BY <1>4, <1>5, <1>6, <1>7, <1>8, <1>9, <1>10 DEF RemoteIInv, RType

\* The network fails: either direction loses its end.
LEMMA NetworkFailsKeeps ==
  ASSUME RemoteIInv, NetworkFails PROVE RemoteIInv'
<1> USE DEF agentVars, gridVars, connVars, writerVars, pumpVars, viewVars, userVars
<1>1. /\ RType /\ Lines /\ Epochs /\ Greeted /\ Pumped /\ Agreed /\ Stream /\ Tip
      /\ Typing /\ Kept /\ Real /\ LogComplete
  BY DEF RemoteIInv
<1>2. gen \in Bridges /\ losses' = losses + 1 /\ open[gen] /\ Cut(gen)
  BY RemoteAssumption DEF NetworkFails, Bridges
<1>3. UNCHANGED <<agentVars, gridVars, connVars, gen, writerVars, pumpVars, viewVars, ending, userVars,
                  restarts, skipped, refused>>
  BY DEF NetworkFails
<1>4. PICK u \in Prefixes(up[gen]), d \in Prefixes(down[gen]) :
        /\ open' = [open EXCEPT ![gen] = FALSE]
        /\ up' = [up EXCEPT ![gen] = u] /\ down' = [down EXCEPT ![gen] = d]
  BY <1>2 DEF Cut
<1>5. Shrunk /\ up' \in [Bridges -> Seq(UpMessages)]
  BY <1>1, <1>2, <1>4, ShrunkAt
<1>6. /\ down \in [Bridges -> Seq(DownMessages)] /\ open \in [Bridges -> BOOLEAN]
      /\ up \in [Bridges -> Seq(UpMessages)] /\ d \in Seq(DownMessages) /\ Len(d) <= Len(down[gen])
  BY <1>1, <1>2, PrefixIs DEF RType, WireType
<1>7. pump = "read"
  BY <1>1, <1>2 DEF Lines
<1>8. RType'
  <2>1. HolderType' /\ PumpType'
    BY <1>1, <1>3, HolderTypeStays, PumpTypeStays DEF RType
  <2>2. ViewType'
    <3>1. tail \in Nat /\ tail' = tail
      BY <1>1, <1>3, RemoteAssumption DEF RType, HolderType
    <3> QED BY <1>1, <1>3, <3>1, ViewTypeStays DEF RType
  <2>3. UserType'
    BY <1>1, <1>2, <1>3 DEF RType, UserType
  <2>4. WireType'
    BY <1>2, <1>4, <1>5, <1>6 DEF WireType
  <2> QED BY <2>1, <2>2, <2>3, <2>4 DEF RType
<1>9. Lines'
  <2>1. \A b \in Bridges : b # gen => open'[b] = open[b] /\ down'[b] = down[b] /\ up'[b] = up[b]
    BY <1>2, <1>4, <1>6
  <2>2. \A b \in Bridges : b > gen => b # gen
    BY <1>2 DEF Bridges
  <2> QED BY <1>1, <1>3, <1>7, <2>1, <2>2 DEF Lines
<1>10. Greeted'
  <2>1. \A b \in Bridges : ep[b] = 0 => down'[b] = <<>>
    <3> TAKE b \in Bridges
    <3> HAVE ep[b] = 0
    <3>1. down[b] = <<>>
      BY <1>1 DEF Greeted
    <3>2. CASE b # gen
      BY <1>4, <1>6, <3>1, <3>2
    <3>3. CASE b = gen
      <4>1. Len(d) = 0
        BY <1>6, <3>1, <3>3
      <4> QED BY <1>2, <1>4, <1>6, <3>3, <4>1
    <3> QED BY <3>2, <3>3
  <2> QED BY <1>1, <1>3, <1>5, <2>1, GreetedCut
<1>11. Epochs' /\ Pumped' /\ Real' /\ LogComplete'
  BY <1>1, <1>3, EpochsStays, PumpedStays, RealStays, LogStays
<1>12. Agreed'
  <2>1. down'[gen] = d /\ ~open'[gen]
    BY <1>2, <1>4, <1>6
  <2>2. Signed(down[gen], ep[gen])
    BY <1>1, <1>7 DEF Agreed
  <2>3. Signed(d, ep[gen])
    BY <1>2, <1>4, <1>6, <2>2, SignedPrefix
  <2> QED BY <1>3, <2>1, <2>3 DEF Agreed
<1>13. Typing'
  BY <1>1, <1>3, <1>5, TypingCut
<1>14. Stream'
  BY <1>1, <1>3, <1>4, <1>7, StreamCut
<1>15. Tip'
  <2>1. ~open'[gen]
    BY <1>2, <1>4, <1>6
  <2> QED BY <1>3, <2>1 DEF Tip
<1>16. Kept'
  BY <1>1, <1>2 DEF Kept, Whole, RType, UserType
<1> QED BY <1>8, <1>9, <1>10, <1>11, <1>12, <1>13, <1>14, <1>15, <1>16 DEF RemoteIInv

\* The Holder dies: what it wrote may still arrive.
LEMMA HolderDiesKeeps ==
  ASSUME RemoteIInv, HolderDies PROVE RemoteIInv'
<1> USE DEF agentVars, gridVars, connVars, writerVars, pumpVars, viewVars, userVars, faultVars
<1>1. /\ RType /\ Lines /\ Epochs /\ Greeted /\ Pumped /\ Agreed /\ Stream /\ Tip
      /\ Typing /\ Kept /\ Real /\ LogComplete
  BY DEF RemoteIInv
<1>2. /\ agent' = "gone" /\ ctl' = None /\ open' = [b \in Bridges |-> FALSE]
      /\ up' = [b \in Bridges |-> <<>>] /\ dirty' = FALSE
  BY DEF HolderDies
<1>3. UNCHANGED <<tail, typed, size, epoch, seq, base, ep, gen, writerVars, pumpVars, viewVars, ending,
                  userVars, faultVars>>
  BY DEF HolderDies
<1>4. PICK d \in IF gen = None THEN {<<>>} ELSE Prefixes(down[gen]) :
        down' = [b \in Bridges |-> IF b = gen THEN d ELSE <<>>]
  BY DEF HolderDies
<1>5. gen \in Bridges => d \in Prefixes(down[gen]) /\ d \in Seq(DownMessages) /\ Len(d) <= Len(down[gen])
  <2> HAVE gen \in Bridges
  <2>1. d \in Prefixes(down[gen]) /\ down[gen] \in Seq(DownMessages)
    BY <1>1, <1>4 DEF None, Bridges, RType, WireType
  <2> QED BY <2>1, PrefixIs
<1>6. Shrunk /\ up' \in [Bridges -> Seq(UpMessages)]
  <2>1. <<>> \in Seq(UpMessages) /\ Len(<<>>) = 0
    OBVIOUS
  <2>2. \A b \in Bridges : Len(up[b]) \in Nat
    BY <1>1, UpTypes
  <2>3. \A b \in Bridges : up'[b] = <<>>
    BY <1>2
  <2>4. \A b \in Bridges : Len(up'[b]) = 0 /\ up'[b] \in Seq(UpMessages)
    BY <2>1, <2>3
  <2> QED BY <1>2, <2>1, <2>2, <2>4 DEF Shrunk
<1>7. down' \in [Bridges -> Seq(DownMessages)]
  <2>1. <<>> \in Seq(DownMessages)
    OBVIOUS
  <2> QED BY <1>4, <1>5, <2>1
<1>8. RType'
  <2>1. HolderType'
    BY <1>1, <1>2, <1>3 DEF RType, HolderType
  <2>2. PumpType'
    BY <1>1, <1>3, PumpTypeStays DEF RType
  <2>3. ViewType'
    <3>1. tail \in Nat /\ tail' = tail
      BY <1>1, <1>3, RemoteAssumption DEF RType, HolderType
    <3> QED BY <1>1, <1>3, <3>1, ViewTypeStays DEF RType
  <2>4. UserType'
    BY <1>1, <1>3 DEF RType, UserType
  <2>5. WireType'
    BY <1>2, <1>6, <1>7 DEF WireType
  <2> QED BY <2>1, <2>2, <2>3, <2>4, <2>5 DEF RType
<1>9. \A b \in Bridges : down[b] = <<>> => down'[b] = <<>>
  <2> TAKE b \in Bridges
  <2> HAVE down[b] = <<>>
  <2>1. CASE b # gen
    BY <1>4, <2>1
  <2>2. CASE b = gen
    <3>1. Len(d) = 0 /\ d \in Seq(DownMessages)
      BY <1>5, <2>2
    <3> QED BY <1>4, <2>2, <3>1
  <2> QED BY <2>1, <2>2
<1>10. Lines'
  <2>1. \A b \in Bridges : ~open'[b] /\ up'[b] = <<>>
    BY <1>2
  <2> QED BY <1>1, <1>2, <1>3, <1>9, <2>1 DEF Lines
<1>11. Greeted'
  <2>1. \A b \in Bridges : ep[b] = 0 => down'[b] = <<>>
    BY <1>1, <1>9 DEF Greeted
  <2> QED BY <1>1, <1>3, <1>6, <2>1, GreetedCut
<1>12. Epochs' /\ Pumped' /\ Real' /\ LogComplete'
  BY <1>1, <1>2, <1>3, EpochsStays, PumpedStays, RealStays, LogStays
<1>13. Typing'
  BY <1>1, <1>2, <1>3, <1>6, TypingCut
<1>14. Kept'
  BY <1>2 DEF Kept, Whole
<1>15. pump = "read" => gen \in Bridges /\ d \in Prefixes(down[gen]) /\ down'[gen] = d /\ ~open'[gen]
  <2>1. pump = "read" => gen \in Bridges
    BY <1>1 DEF Lines, RType, PumpType, None
  <2> QED BY <1>2, <1>4, <1>5, <2>1
<1>16. Agreed'
  <2>1. pump = "read" => down[gen] \in Seq(DownMessages) /\ Signed(down[gen], ep[gen])
    BY <1>1, <1>15 DEF RType, WireType, Agreed
  <2>2. pump = "read" => Signed(d, ep[gen])
    BY <1>15, <2>1, SignedPrefix
  <2> QED BY <1>3, <1>15, <2>2 DEF Agreed
<1>17. Stream'
  <2> SUFFICES ASSUME pump = "read"
               PROVE  StreamPart(d, hello, granted, agent', offset, tail, skipped, display, mirror)
    BY <1>3, <1>15 DEF Stream
  <2>1. StreamPart(down[gen], hello, granted, agent, offset, tail, skipped, display, mirror)
    BY <1>1 DEF Stream
  <2>2. down[gen] \in Seq(DownMessages) /\ tail \in Nat /\ d \in Seq(DownMessages) /\ tail <= tail
    BY <1>1, <1>5, <1>15, StreamFacts
  <2>3. StreamPart(d, hello, granted, agent, offset, tail, skipped, display, mirror)
    BY <1>15, <2>1, <2>2, PartPrefix
  <2>4. agent' # "running"
    BY <1>2
  <2> QED BY <2>2, <2>3, <2>4, PartGrows
<1>18. Tip'
  BY <1>3, <1>15 DEF Tip
<1> QED BY <1>8, <1>10, <1>11, <1>12, <1>13, <1>14, <1>16, <1>17, <1>18 DEF RemoteIInv

\* The Holder comes to the end of a Bridge's stream.
LEMMA HolderEofKeeps ==
  ASSUME RemoteIInv, NEW b \in Bridges, HolderEof(b) PROVE RemoteIInv'
<1> USE DEF agentVars, gridVars, connVars, wireVars, writerVars, pumpVars, viewVars, userVars, faultVars
<1>1. /\ RType /\ Lines /\ Epochs /\ Greeted /\ Pumped /\ Agreed /\ Stream /\ Tip
      /\ Typing /\ Kept /\ Real /\ LogComplete
  BY DEF RemoteIInv
<1>2. /\ ctl' = None
      /\ UNCHANGED <<agentVars, gridVars, ep, wireVars, gen, writerVars, pumpVars, viewVars, ending,
                     userVars, faultVars>>
  BY DEF HolderEof
<1>3. RType'
  <2>1. HolderType' /\ PumpType'
    BY <1>1, <1>2, HolderTypeStays, PumpTypeStays DEF RType
  <2>2. ViewType'
    <3>1. tail \in Nat /\ tail' = tail
      BY <1>1, <1>2, RemoteAssumption DEF RType, HolderType
    <3> QED BY <1>1, <1>2, <3>1, ViewTypeStays DEF RType
  <2>3. UserType' /\ WireType'
    BY <1>1, <1>2 DEF RType, UserType, WireType
  <2> QED BY <2>1, <2>2, <2>3 DEF RType
<1>4. Lines' /\ Epochs' /\ Greeted' /\ Pumped' /\ Agreed'
  BY <1>1, <1>2, LinesStays, EpochsStays, GreetedStays, PumpedStays, AgreedStays
<1>5. Typing' /\ Kept' /\ Real' /\ LogComplete' /\ Stream'
  BY <1>1, <1>2, TypingStays, KeptStays, RealStays, LogStays, StreamStays
<1>6. Tip'
  BY <1>2, <1>3, <1>4, NoTip DEF RType
<1> QED BY <1>3, <1>4, <1>5, <1>6 DEF RemoteIInv

\* No connection comes about.
LEMMA ConnectFailsKeeps ==
  ASSUME RemoteIInv, ConnectFails PROVE RemoteIInv'
<1> USE DEF agentVars, gridVars, connVars, wireVars, writerVars, viewVars, userVars
<1>1. /\ RType /\ Lines /\ Epochs /\ Greeted /\ Pumped /\ Agreed /\ Stream /\ Tip
      /\ Typing /\ Kept /\ Real /\ LogComplete
  BY DEF RemoteIInv
<1>2. /\ pump = "connect"
      /\ UNCHANGED <<agentVars, gridVars, connVars, wireVars, gen, writerVars, viewVars, userVars, restarts,
                     skipped, refused>>
  BY DEF ConnectFails
<1>3. /\ retries' = (retries + 1) % 3 /\ hello' = FALSE /\ granted' = FALSE
      /\ \/ ending' = "exited" /\ pump' = "ended" /\ agent # "running"
         \/ ending' = ending /\ pump' = "connect"
  BY DEF ConnectFails, Retry
<1>4. losses' = losses + 1 \/ (losses' = losses /\ agent = "gone")
  BY DEF ConnectFails
<1>5. RType'
  <2>1. HolderType'
    BY <1>1, <1>2, HolderTypeStays DEF RType
  <2>2. ViewType'
    <3>1. tail \in Nat /\ tail' = tail
      BY <1>1, <1>2, RemoteAssumption DEF RType, HolderType
    <3> QED BY <1>1, <1>2, <3>1, ViewTypeStays DEF RType
  <2>3. WireType'
    BY <1>1, <1>2 DEF RType, WireType
  <2>4. PumpType'
    <3>1. retries' \in 0..2
      BY <1>1, <1>3 DEF RType, PumpType
    <3> QED BY <1>1, <1>2, <1>3, <3>1 DEF RType, PumpType
  <2>5. UserType'
    BY <1>1, <1>2, <1>3, <1>4 DEF RType, UserType
  <2> QED BY <2>1, <2>2, <2>3, <2>4, <2>5 DEF RType
<1>6. Lines' /\ Greeted' /\ Pumped' /\ Agreed' /\ Stream' /\ Tip'
  <2>1. pump' # "read"
    BY <1>3
  <2>2. Lines'
    BY <1>1, <1>2, <2>1 DEF Lines
  <2>3. Greeted'
    BY <1>1, <1>2, <2>1 DEF Greeted, Hello
  <2>4. Pumped'
    BY <1>1, <1>2, <1>3 DEF Pumped
  <2> QED BY <2>1, <2>2, <2>3, <2>4 DEF Agreed, Stream, Tip
<1>7. Epochs' /\ Typing' /\ LogComplete'
  BY <1>1, <1>2, EpochsStays, TypingStays, LogStays
<1>8. Kept' /\ Real'
  BY <1>1, <1>2, <1>3, <1>4 DEF Kept, Whole, Real, RType, UserType
<1> QED BY <1>5, <1>6, <1>7, <1>8 DEF RemoteIInv

\* An empty queue is a stream.
LEMMA NothingSent ==
  ASSUME NEW q, q = <<>>, NEW hi, NEW gr, gr = FALSE, NEW ag, NEW off, NEW tl, NEW sk, NEW scr, NEW mir
  PROVE  StreamPart(q, hi, gr, ag, off, tl, sk, scr, mir)
<1>1. Len(q) = 0 /\ \A i \in 1..Len(q) : FALSE
  OBVIOUS
<1>2. ~Live(q, gr, 0)
  BY <1>1 DEF Live
<1>3. Form(q, hi, gr) /\ Ends(q, ag) /\ Chunks(q, off, tl) /\ NoGap(q, off)
  BY <1>1 DEF Form, Ends, Chunks, NoGap
<1>4. Screens(q, gr, scr, tl) /\ Grids(q, gr, mir, tl)
  BY <1>1, <1>2 DEF Screens, Grids
<1> QED BY <1>3, <1>4 DEF StreamPart

\* A new Bridge: its Hello tells what the Engine has.
LEMMA ConnectKeeps ==
  ASSUME RemoteIInv, Connect PROVE RemoteIInv'
<1> USE DEF agentVars, gridVars, connVars, viewVars, userVars, faultVars
<1>1. /\ RType /\ Lines /\ Epochs /\ Greeted /\ Pumped /\ Agreed /\ Stream /\ Tip
      /\ Typing /\ Kept /\ Real /\ LogComplete
  BY DEF RemoteIInv
<1>2. /\ pump = "connect" /\ agent # "gone" /\ gen' = gen + 1
      /\ open' = [open EXCEPT ![gen + 1] = TRUE] /\ up' = [up EXCEPT ![gen + 1] = <<Hello(offset)>>]
      /\ input' = TRUE /\ wep' = 0 /\ pump' = "read" /\ hello' = FALSE /\ granted' = FALSE
  BY DEF Connect
<1>3. UNCHANGED <<agentVars, gridVars, connVars, down, queued, queuedSize, retries, viewVars, ending,
                  userVars, faultVars>>
  BY DEF Connect
<1>4. gen + 1 \in Bridges /\ gen \in Nat /\ gen < MaxBridge /\ MaxBridge \in Nat
  BY <1>1, RemoteAssumption DEF Connect, RType, PumpType, Bridges, None
<1>5. /\ down \in [Bridges -> Seq(DownMessages)] /\ open \in [Bridges -> BOOLEAN]
      /\ up \in [Bridges -> Seq(UpMessages)] /\ offset \in 0..tail /\ tail \in 0..MaxOut /\ MaxOut \in Nat
  BY <1>1, RemoteAssumption DEF RType, WireType, ViewType, HolderType
<1> DEFINE h == <<Hello(offset)>>
<1>6. Hello(offset) \in UpMessages /\ Hello(offset).t = "hello" /\ Hello(offset).off = offset
  BY <1>5 DEF UpMessages, Hello
<1>7. h \in Seq(UpMessages) /\ Len(h) = 1 /\ h[1] = Hello(offset)
  BY <1>6
<1>8. /\ up'[gen + 1] = h /\ open'[gen + 1] = TRUE
      /\ \A b \in Bridges : b # gen + 1 => up'[b] = up[b] /\ open'[b] = open[b]
  BY <1>2, <1>4, <1>5
<1>9. \A b \in Bridges : b \in Nat /\ (b > gen + 1 => b > gen /\ b # gen + 1)
  BY <1>4 DEF Bridges
<1>10. ep[gen + 1] = 0 /\ up[gen + 1] = <<>> /\ gen + 1 > gen
  BY <1>1, <1>4 DEF Lines
<1>11. \A b \in Bridges : ~open[b] /\ down[b] = <<>>
  BY <1>1, <1>2 DEF Lines
<1>12. ctl # gen + 1 \/ ctl = None
  BY <1>1, <1>10 DEF Lines
<1>13. RType'
  <2>1. HolderType'
    BY <1>1, <1>3, HolderTypeStays DEF RType
  <2>2. WireType'
    BY <1>2, <1>3, <1>4, <1>5, <1>7 DEF WireType
  <2>3. PumpType'
    <3>1. gen' \in Bridges \cup {None} /\ 0 \in 0..MaxBridge
      BY <1>2, <1>4
    <3>2. hello' \in BOOLEAN /\ granted' \in BOOLEAN /\ input' \in BOOLEAN
      BY <1>2
    <3> QED BY <1>1, <1>2, <1>3, <3>1, <3>2 DEF RType, PumpType
  <2>4. ViewType'
    <3>1. tail \in Nat /\ tail' = tail
      BY <1>3, <1>5
    <3> QED BY <1>1, <1>3, <3>1, ViewTypeStays DEF RType
  <2>5. UserType'
    BY <1>1, <1>3 DEF RType, UserType
  <2> QED BY <2>1, <2>2, <2>3, <2>4, <2>5 DEF RType
<1>14. Lines'
  <2>1. gen + 1 # None
    BY <1>4 DEF None
  <2>2. \A b \in Bridges : b # gen + 1 => ~open'[b] /\ down'[b] = <<>>
    BY <1>3, <1>8, <1>11
  <2>3. \A b \in Bridges : b > gen + 1 => ep[b] = 0 /\ up'[b] = <<>>
    BY <1>1, <1>8, <1>9 DEF Lines
  <2>4. ctl # None => ep[ctl] # 0 /\ agent # "gone" /\ ctl # gen + 1
    BY <1>1, <1>12 DEF Lines
  <2> QED BY <1>2, <1>3, <2>1, <2>2, <2>3, <2>4 DEF Lines
<1>15. Greeted'
  <2> SUFFICES ASSUME NEW b \in Bridges
               PROVE  /\ ep[b] = 0 => up'[b] = <<>> \/ \E off \in 0..tail : up'[b] = <<Hello(off)>>
                      /\ ep[b] = 0 => down[b] = <<>>
                      /\ ep[b] # 0 => \A i \in 1..Len(up'[b]) : up'[b][i].t # "hello"
                      /\ b = gen + 1 /\ up'[b] # <<>> => up'[b][1].off = offset
    BY <1>2, <1>3 DEF Greeted, Hello
  <2>1. CASE b = gen + 1
    BY <1>5, <1>6, <1>7, <1>8, <1>10, <1>11, <2>1
  <2>2. CASE b # gen + 1
    BY <1>1, <1>8, <2>2 DEF Greeted
  <2> QED BY <2>1, <2>2
<1>16. Epochs' /\ Pumped' /\ Real' /\ LogComplete'
  <2>1. Pumped'
    BY <1>2 DEF Pumped
  <2>2. Real'
    BY <1>1, <1>2, <1>3 DEF Real
  <2> QED BY <1>1, <1>3, <2>1, <2>2, EpochsStays, LogStays
<1>17. Agreed'
  <2>1. Signed(down[gen + 1], ep[gen + 1])
    BY <1>4, <1>11 DEF Signed
  <2> QED BY <1>2, <1>3, <2>1 DEF Agreed
<1>18. Stream'
  <2>1. down[gen + 1] = <<>>
    BY <1>4, <1>11
  <2>2. StreamPart(down[gen + 1], hello', granted', agent, offset, tail, skipped, display, mirror)
    BY <1>2, <2>1, NothingSent
  <2> QED BY <1>2, <1>3, <2>2 DEF Stream
<1>19. Tip'
  BY <1>2, <1>3, <1>12, <1>13, <1>14, NoTip DEF RType
<1>20. Typing'
  <2>1. \A i \in 1..Len(h) : h[i].t = "hello"
    BY <1>6, <1>7
  <2> HIDE DEF h
  <2>2. Ordered(h) /\ Upto(h, keys, sizes) /\ Earlier(h, queued) /\ SizesBefore(h, queuedSize)
    BY <2>1 DEF Ordered, Upto, Earlier, SizesBefore
  <2>3. \A b \in Bridges :
          /\ Ordered(up'[b]) /\ Upto(up'[b], keys, sizes) /\ Earlier(up'[b], queued)
          /\ queuedSize # 0 => SizesBefore(up'[b], queuedSize)
    BY <1>1, <1>8, <2>2 DEF Typing
  <2>4. ctl # None => Later(up'[ctl], typed, size)
    <3> HAVE ctl # None
    <3>1. ctl \in Bridges /\ ctl # gen + 1
      BY <1>1, <1>12 DEF RType, HolderType
    <3> QED BY <1>1, <1>8, <3>1 DEF Typing
  <2> QED BY <1>1, <1>3, <2>3, <2>4 DEF Typing
<1>21. Kept'
  <2> SUFFICES ASSUME Whole' PROVE Kept'
    BY DEF Kept
  <2>1. Whole
    BY <1>2, <1>3 DEF Whole
  <2>2. gen = None /\ ctl = None
    BY <1>1, <1>2, <2>1 DEF Kept
  <2>3. gen' = 1 /\ open'[gen'] = TRUE /\ gen' <= 1
    BY <1>2, <1>8, <2>2 DEF None
  <2>4. /\ queuedSize # 0 => queuedSize = sizes
        /\ queuedSize = 0 => size = sizes
        /\ agent = "running" => \A k \in 1..keys : Has(typed, k) \/ Has(queued, k)
    BY <1>1, <2>1, <2>2 DEF Kept
  <2>5. open'[gen'] /\ ctl' \in {None, gen'} /\ pump' # "connect"
    BY <1>2, <1>3, <2>2, <2>3
  <2> QED BY <1>3, <2>3, <2>4, <2>5 DEF Kept, Size
<1> QED BY <1>13, <1>14, <1>15, <1>16, <1>17, <1>18, <1>19, <1>20, <1>21 DEF RemoteIInv

-----------------------------------------------------------------------------
(* The user asks.                                                          *)

\* What a write does: it goes out on the Bridge, or is kept.
Put(m) ==
  /\ wep # 0 /\ UNCHANGED writerVars
  /\ up' = IF open[gen] THEN [up EXCEPT ![gen] = Append(up[gen], m)] ELSE up
Held ==
  /\ up' = up /\ wep' = 0
  /\ \/ UNCHANGED <<input, wep>>
     \/ wep # 0 /\ ~open[gen] /\ input' = FALSE

\* Whatever the user asks, nothing but the input is touched.
LEMMA AskFrame ==
  ASSUME RType, Lines, Epochs, Greeted, Pumped, Agreed, Stream, Tip, Real, LogComplete,
         NEW m \in UpMessages, m.t # "hello", Put(m) \/ Held,
         UNCHANGED <<agentVars, gridVars, connVars, gen, pumpVars, viewVars, ending, faultVars, open, down>>,
         queued' \in Seq(1..MaxAsks), queuedSize' \in 0..MaxAsks
  PROVE  /\ HolderType' /\ WireType' /\ PumpType' /\ ViewType' /\ Lines' /\ Epochs' /\ Greeted' /\ Pumped'
         /\ Agreed' /\ Stream' /\ Tip' /\ Real' /\ LogComplete'
<1> USE DEF agentVars, gridVars, connVars, writerVars, pumpVars, viewVars, faultVars
<1>0. up \in [Bridges -> Seq(UpMessages)] /\ (pump = "read" => gen \in Bridges)
  BY DEF RType, WireType, Lines, PumpType, None
<1>1. \/ up' = up
      \/ wep # 0 /\ gen \in Bridges /\ ep[gen] # 0 /\ up' = [up EXCEPT ![gen] = Append(up[gen], m)]
  BY <1>0 DEF Put, Held, Pumped
<1>2. gen \in Bridges => Append(up[gen], m) \in Seq(UpMessages)
  BY <1>0, AppendIs
<1>3. HolderType' /\ WireType'
  <2>1. up' \in [Bridges -> Seq(UpMessages)]
    BY <1>0, <1>1, <1>2
  <2> QED BY <2>1, HolderTypeStays DEF RType, WireType
<1>4. \/ UNCHANGED <<input, wep>>
      \/ wep' = 0 /\ input' = FALSE /\ wep # 0 /\ ~open[gen]
  BY DEF Put, Held
<1>5. PumpType'
  <2>1. input' \in BOOLEAN /\ wep' \in 0..MaxBridge
    <3>1. 0 \in 0..MaxBridge /\ FALSE \in BOOLEAN
      BY RemoteAssumption
    <3>2. input \in BOOLEAN /\ wep \in 0..MaxBridge
      BY DEF RType, PumpType
    <3>3. wep' \in 0..MaxBridge
      BY <1>4, <3>1, <3>2
    <3>4. input' \in BOOLEAN
      BY <1>4, <3>1, <3>2, Zenon
    <3> QED BY <3>3, <3>4
  <2> QED BY <2>1 DEF RType, PumpType
<1>6. ViewType'
  <2>1. tail \in Nat /\ tail' = tail
    BY RemoteAssumption DEF RType, HolderType
  <2> QED BY <2>1, ViewTypeStays DEF RType
<1>7. \A b \in Bridges : b # gen \/ ep[b] = 0 => up'[b] = up[b]
  BY <1>0, <1>1
<1>8. Lines'
  BY <1>7 DEF Lines
<1>9. Epochs' /\ Real' /\ LogComplete' /\ Stream' /\ Tip'
  BY EpochsStays, RealStays, LogStays, StreamStays, TipStays
<1>10. Greeted'
  <2> SUFFICES ASSUME NEW b \in Bridges, ep[b] # 0, NEW i \in 1..Len(up'[b]) PROVE up'[b][i].t # "hello"
    BY <1>7 DEF Greeted, Hello
  <2>1. CASE up'[b] = up[b]
    BY <2>1 DEF Greeted
  <2>2. CASE up'[b] = Append(up[b], m)
    <3>1. up[b] \in Seq(UpMessages)
      BY <1>0
    <3>2. (i \in 1..Len(up[b]) /\ up'[b][i] = up[b][i]) \/ up'[b][i] = m
      BY <2>2, <3>1, AppendIs
    <3> QED BY <3>2 DEF Greeted
  <2> QED BY <1>0, <1>1, <2>1, <2>2
<1>11. Pumped'
  <2>1. CASE wep' = 0 /\ (wep # 0 \/ UNCHANGED <<input, wep>>)
    BY <2>1 DEF Pumped
  <2>2. CASE Put(m)
    BY <2>2 DEF Put, Pumped
  <2> QED BY <2>1, <2>2 DEF Held
<1>12. Agreed'
  BY <1>4 DEF Agreed
<1> QED BY <1>3, <1>5, <1>6, <1>8, <1>9, <1>10, <1>11, <1>12

\* A message on top of what is under way.
LEMMA CarriesAppend ==
  ASSUME NEW u \in Seq(UpMessages), NEW m \in UpMessages
  PROVE  /\ \A k : Carries(u, k) => Carries(Append(u, m), k)
         /\ \A k : m.t = "keys" /\ Has(m.ks, k) => Carries(Append(u, m), k)
         /\ \A x : (\E i \in 1..Len(u) : u[i] = x) => \E i \in 1..Len(Append(u, m)) : Append(u, m)[i] = x
         /\ \E i \in 1..Len(Append(u, m)) : Append(u, m)[i] = m
<1> DEFINE z == Append(u, m)
<1>1. /\ Len(u) \in Nat /\ Len(z) = Len(u) + 1 /\ z[Len(u) + 1] = m
      /\ \A i \in 1..Len(u) : z[i] = u[i]
  BY AppendIs
<1> HIDE DEF z
<1>2. /\ Len(u) + 1 \in 1..Len(z) /\ \A i \in 1..Len(u) : i \in 1..Len(z)
  BY <1>1
<1>3. \A k : Carries(u, k) => Carries(z, k)
  BY <1>1, <1>2 DEF Carries
<1>4. \A k : m.t = "keys" /\ Has(m.ks, k) => Carries(z, k)
  BY <1>1, <1>2 DEF Carries, Has
<1>5. \A x : (\E i \in 1..Len(u) : u[i] = x) => \E i \in 1..Len(z) : z[i] = x
  BY <1>1, <1>2
<1> QED BY <1>1, <1>2, <1>3, <1>4, <1>5 DEF z

\* One key more.
LEMMA HasAppend ==
  ASSUME NEW s \in Seq(Nat), NEW n \in Nat
  PROVE  /\ \A k : Has(s, k) => Has(Append(s, n), k)
         /\ Has(Append(s, n), n)
<1> DEFINE z == Append(s, n)
<1>1. /\ Len(s) \in Nat /\ Len(z) = Len(s) + 1 /\ z[Len(s) + 1] = n
      /\ \A i \in 1..Len(s) : z[i] = s[i]
  BY AppendIs
<1> HIDE DEF z
<1>2. /\ Len(s) + 1 \in 1..Len(z) /\ \A i \in 1..Len(s) : i \in 1..Len(z)
  BY <1>1
<1>3. (\A k : Has(s, k) => Has(z, k)) /\ Has(z, n)
  BY <1>1, <1>2 DEF Has
<1> QED BY <1>3 DEF z

\* The user types.
LEMMA WriteKeeps ==
  ASSUME RemoteIInv, ~Early, Write PROVE RemoteIInv'
<1> USE DEF agentVars, gridVars, connVars, writerVars, pumpVars, viewVars, faultVars, wireVars
<1>1. /\ RType /\ Lines /\ Epochs /\ Greeted /\ Pumped /\ Agreed /\ Stream /\ Tip
      /\ Typing /\ Kept /\ Real /\ LogComplete
  BY DEF RemoteIInv
<1>2. /\ keys' = keys + 1 /\ keys + sizes < MaxAsks /\ (wep = 0 \/ granted)
      /\ UNCHANGED <<agentVars, gridVars, connVars, gen, pumpVars, viewVars, ending, sizes, faultVars>>
  BY DEF Write, MaySend
<1>3. keys \in Nat /\ sizes \in Nat /\ MaxAsks \in Nat /\ keys + 1 \in 1..MaxAsks /\ keys + 1 \in Nat
  BY <1>1, <1>2, RemoteAssumption DEF RType, UserType
<1> DEFINE m == Keys(<<keys + 1>>)
<1>4. m \in UpMessages /\ m.t = "keys" /\ m.ks = <<keys + 1>>
  <2>1. <<keys + 1>> \in Seq(1..MaxAsks)
    BY <1>3
  <2> QED BY <2>1 DEF UpMessages, Keys
<1>5. /\ UNCHANGED <<open, down>>
      /\ \/ Put(m)
         \/ Held /\ queued' = Append(queued, keys + 1) /\ UNCHANGED queuedSize
  <2>1. CASE wep = 0 \/ ~input
    <3>1. wep = 0
      BY <1>1, <2>1 DEF Pumped
    <3> QED BY <2>1, <3>1 DEF Write, Send, Held
  <2>2. CASE ~(wep = 0 \/ ~input)
    BY <2>2 DEF Write, Send, Put, Held, Closed
  <2> QED BY <2>1, <2>2
<1> HIDE DEF m
<1>6. queued \in Seq(1..MaxAsks) /\ queuedSize \in 0..MaxAsks
  BY <1>1 DEF RType, PumpType
<1>7. queued' \in Seq(1..MaxAsks) /\ queuedSize' \in 0..MaxAsks
  <2>1. Append(queued, keys + 1) \in Seq(1..MaxAsks)
    BY <1>3, <1>6, AppendIs
  <2> QED BY <1>5, <1>6, <2>1 DEF Put
<1>8. /\ HolderType' /\ WireType' /\ PumpType' /\ ViewType' /\ Lines' /\ Epochs' /\ Greeted' /\ Pumped'
      /\ Agreed' /\ Stream' /\ Tip' /\ Real' /\ LogComplete'
  BY <1>1, <1>2, <1>4, <1>5, <1>7, AskFrame
<1>9. UserType'
  BY <1>1, <1>2, <1>3 DEF RType, UserType
<1>10. /\ \A b \in Bridges : up[b] \in Seq(UpMessages)
       /\ typed \in Seq(Nat) /\ queued \in Seq(Nat) /\ up \in [Bridges -> Seq(UpMessages)]
  BY <1>1, UpTypes DEF RType, WireType
<1>11. \A b \in Bridges : /\ Upto(up[b], keys + 1, sizes) /\ Earlier(up[b], <<keys + 1>>)
                          /\ Earlier(up[b], Append(queued, keys + 1))
  BY <1>1, <1>3, <1>10, NewKey DEF Typing
<1>12. /\ Rising(<<keys + 1>>) /\ NotAfter(<<keys + 1>>, keys + 1) /\ Before(typed, <<keys + 1>>)
       /\ NotAfter(typed, keys + 1) /\ NotAfter(queued, keys + 1)
       /\ Rising(Append(queued, keys + 1)) /\ Before(typed, Append(queued, keys + 1))
       /\ NotAfter(Append(queued, keys + 1), keys + 1)
  BY <1>1, <1>3, <1>10, NewKeyIn DEF Typing
<1>13. CASE Held /\ queued' = Append(queued, keys + 1) /\ UNCHANGED queuedSize
  <2>1. Typing'
    BY <1>1, <1>2, <1>11, <1>12, <1>13 DEF Held, Typing
  <2>2. Kept'
    <3> SUFFICES ASSUME Whole' PROVE Kept'
      BY DEF Kept
    <3>1. Whole
      BY <1>2 DEF Whole
    <3>2. ASSUME agent = "running", NEW k \in 1..keys + 1
          PROVE  Has(typed, k) \/ Has(queued', k) \/ (gen # None /\ Carries(up[gen], k))
      <4>1. CASE k = keys + 1
        BY <1>3, <1>10, <1>13, <4>1, HasAppend
      <4>2. CASE k \in 1..keys
        <5>1. Has(typed, k) \/ Has(queued, k) \/ (gen # None /\ Carries(up[gen], k))
          BY <1>1, <3>1, <3>2, <4>2 DEF Kept
        <5> QED BY <1>3, <1>10, <1>13, <5>1, HasAppend
      <4> QED BY <1>3, <4>1, <4>2
    <3> QED BY <1>1, <1>2, <1>5, <1>13, <3>1, <3>2 DEF Kept, Held, Size
  <2> QED BY <1>8, <1>9, <2>1, <2>2 DEF RemoteIInv, RType
<1>14. CASE Put(m)
  <2>1. wep # 0 /\ granted /\ pump = "read" /\ UNCHANGED <<queued, queuedSize>>
    BY <1>1, <1>2, <1>14 DEF Put, Pumped
  <2>2. queued = <<>> /\ queuedSize = 0 /\ gen \in Bridges
    BY <1>1, <2>1 DEF Pumped, Lines, RType, PumpType, None
  <2>3. \A b \in Bridges : up'[b] = up[b] \/ (b = gen /\ open[gen] /\ up'[b] = Append(up[b], m))
    BY <1>10, <1>14, <2>2 DEF Put
  <2>4. \A b \in Bridges : /\ Ordered(up'[b]) /\ Upto(up'[b], keys + 1, sizes) /\ Earlier(up'[b], queued)
                           /\ Later(up[b], typed, size) => Later(up'[b], typed, size)
    <3> TAKE b \in Bridges
    <3>1. Ordered(up[b]) /\ Earlier(up[b], queued)
      BY <1>1 DEF Typing
    <3>2. CASE up'[b] = up[b]
      BY <1>11, <3>1, <3>2
    <3>3. CASE up'[b] = Append(up[b], m)
      <4> DEFINE u == up[b]
      <4>1. u \in Seq(UpMessages) /\ Ordered(u) /\ Earlier(u, queued) /\ Upto(u, keys + 1, sizes)
              /\ Earlier(u, m.ks)
        BY <1>4, <1>10, <1>11, <3>1
      <4>2. Rising(m.ks) /\ NotAfter(m.ks, keys + 1) /\ Before(typed, m.ks) /\ m.t # "size"
        BY <1>4, <1>12
      <4>3. Before(m.ks, queued)
        BY <2>2 DEF Before
      <4> HIDE DEF u
      <4>4. Ordered(Append(u, m))
        BY <1>4, <4>1, <4>2, UpAppend
      <4>5. Upto(Append(u, m), keys + 1, sizes)
        BY <1>4, <4>1, <4>2, UpAppend
      <4>6. Earlier(Append(u, m), queued)
        BY <1>4, <4>1, <4>3, UpAppend
      <4>7. Later(u, typed, size) => Later(Append(u, m), typed, size)
        BY <1>4, <4>1, <4>2, UpAppend
      <4> QED BY <3>3, <4>4, <4>5, <4>6, <4>7 DEF u
    <3> QED BY <2>3, <3>2, <3>3
  <2>5. Typing'
    <3>1. ctl # None => Later(up'[ctl], typed, size)
      BY <1>1, <2>4 DEF Typing, RType, HolderType
    <3> QED BY <1>1, <1>2, <1>12, <2>1, <2>2, <2>4, <3>1 DEF Typing
  <2>6. Kept'
    <3> SUFFICES ASSUME Whole' PROVE Kept'
      BY DEF Kept
    <3>1. Whole
      BY <1>2 DEF Whole
    <3>2. open[gen]
      BY <1>1, <2>1, <3>1 DEF Kept
    <3>3. up'[gen] = Append(up[gen], m) /\ up[gen] \in Seq(UpMessages) /\ gen # None
      BY <1>10, <1>14, <2>2, <3>2 DEF Put, None, Bridges
    <3>4. ASSUME agent = "running", NEW k \in 1..keys + 1
          PROVE  Has(typed, k) \/ Has(queued, k) \/ (gen # None /\ Carries(up'[gen], k))
      <4>1. CASE k = keys + 1
        <5>1. Has(m.ks, k)
          BY <1>4, <4>1 DEF Has
        <5>2. \A n : m.t = "keys" /\ Has(m.ks, n) => Carries(Append(up[gen], m), n)
          BY <1>4, <3>3, CarriesAppend
        <5> QED BY <1>4, <3>3, <5>1, <5>2, Zenon
      <4>2. CASE k \in 1..keys
        <5>1. Has(typed, k) \/ Has(queued, k) \/ (gen # None /\ Carries(up[gen], k))
          BY <1>1, <3>1, <3>4, <4>2 DEF Kept
        <5> QED BY <1>4, <3>3, <5>1, CarriesAppend
      <4> QED BY <1>3, <4>1, <4>2
    <3>6. (\E i \in 1..Len(up[gen]) : up[gen][i] = Size(sizes)) =>
            \E i \in 1..Len(up'[gen]) : up'[gen][i] = Size(sizes)
      BY <1>4, <3>3, CarriesAppend
    <3>7. size = sizes \/ \E i \in 1..Len(up'[gen]) : up'[gen][i] = Size(sizes)
      BY <1>1, <2>2, <3>1, <3>6 DEF Kept
    <3>8. gen <= 1 /\ ctl \in {None, gen}
      BY <1>1, <3>1 DEF Kept
    <3> QED BY <1>2, <1>5, <2>1, <2>2, <3>2, <3>3, <3>4, <3>7, <3>8 DEF Kept, Size
  <2> QED BY <1>8, <1>9, <2>5, <2>6 DEF RemoteIInv, RType
<1> QED BY <1>5, <1>13, <1>14

\* The user resizes.
LEMMA ResizeKeeps ==
  ASSUME RemoteIInv, ~Early, Resize PROVE RemoteIInv'
<1> USE DEF agentVars, gridVars, connVars, writerVars, pumpVars, viewVars, faultVars, wireVars
<1>1. /\ RType /\ Lines /\ Epochs /\ Greeted /\ Pumped /\ Agreed /\ Stream /\ Tip
      /\ Typing /\ Kept /\ Real /\ LogComplete
  BY DEF RemoteIInv
<1>2. /\ sizes' = sizes + 1 /\ keys + sizes < MaxAsks /\ (wep = 0 \/ granted)
      /\ UNCHANGED <<agentVars, gridVars, connVars, gen, pumpVars, viewVars, ending, keys, faultVars>>
  BY DEF Resize, MaySend
<1>3. keys \in Nat /\ sizes \in Nat /\ MaxAsks \in Nat /\ sizes + 1 \in 1..MaxAsks /\ sizes + 1 \in Nat
  BY <1>1, <1>2, RemoteAssumption DEF RType, UserType
<1> DEFINE m == Size(sizes + 1)
<1>4. m \in UpMessages /\ m.t = "size" /\ m.v = sizes + 1
  BY <1>3 DEF UpMessages, Size
<1>5. /\ UNCHANGED <<open, down>>
      /\ \/ Put(m)
         \/ Held /\ queuedSize' = sizes + 1 /\ UNCHANGED queued
  <2>1. CASE wep = 0 \/ ~input
    <3>1. wep = 0
      BY <1>1, <2>1 DEF Pumped
    <3> QED BY <2>1, <3>1 DEF Resize, Send, Held
  <2>2. CASE ~(wep = 0 \/ ~input)
    BY <2>2 DEF Resize, Send, Put, Held, Closed
  <2> QED BY <2>1, <2>2
<1> HIDE DEF m
<1>6. queued \in Seq(1..MaxAsks) /\ queuedSize \in 0..MaxAsks
  BY <1>1 DEF RType, PumpType
<1>7. queued' \in Seq(1..MaxAsks) /\ queuedSize' \in 0..MaxAsks
  BY <1>3, <1>5, <1>6 DEF Put
<1>8. /\ HolderType' /\ WireType' /\ PumpType' /\ ViewType' /\ Lines' /\ Epochs' /\ Greeted' /\ Pumped'
      /\ Agreed' /\ Stream' /\ Tip' /\ Real' /\ LogComplete'
  BY <1>1, <1>2, <1>4, <1>5, <1>7, AskFrame
<1>9. UserType'
  BY <1>1, <1>2, <1>3 DEF RType, UserType
<1>10. /\ \A b \in Bridges : up[b] \in Seq(UpMessages)
       /\ typed \in Seq(Nat) /\ queued \in Seq(Nat) /\ up \in [Bridges -> Seq(UpMessages)]
       /\ size \in Nat /\ queuedSize \in Nat
  BY <1>1, UpTypes DEF RType, WireType
<1>11. \A b \in Bridges : Upto(up[b], keys, sizes + 1) /\ SizesBefore(up[b], sizes + 1)
  BY <1>1, <1>3, <1>10, NewKey DEF Typing
<1>12. size <= sizes + 1 /\ size < sizes + 1 /\ queuedSize <= sizes + 1 /\ sizes + 1 <= sizes + 1
  BY <1>1, <1>3, <1>10 DEF Typing
<1>13. CASE Held /\ queuedSize' = sizes + 1 /\ UNCHANGED queued
  <2>1. Typing'
    BY <1>1, <1>2, <1>11, <1>12, <1>13 DEF Held, Typing
  <2>2. Kept'
    <3> SUFFICES ASSUME Whole' PROVE Kept'
      BY DEF Kept
    <3>1. Whole
      BY <1>2 DEF Whole
    <3>2. queuedSize' # 0
      BY <1>3, <1>13
    <3> QED BY <1>1, <1>2, <1>5, <1>13, <3>1, <3>2 DEF Kept, Held
  <2> QED BY <1>8, <1>9, <2>1, <2>2 DEF RemoteIInv, RType
<1>14. CASE Put(m)
  <2>1. wep # 0 /\ granted /\ pump = "read" /\ UNCHANGED <<queued, queuedSize>>
    BY <1>1, <1>2, <1>14 DEF Put, Pumped
  <2>2. queued = <<>> /\ queuedSize = 0 /\ gen \in Bridges
    BY <1>1, <2>1 DEF Pumped, Lines, RType, PumpType, None
  <2>3. \A b \in Bridges : up'[b] = up[b] \/ (b = gen /\ open[gen] /\ up'[b] = Append(up[b], m))
    BY <1>10, <1>14, <2>2 DEF Put
  <2>4. \A b \in Bridges : /\ Ordered(up'[b]) /\ Upto(up'[b], keys, sizes + 1) /\ Earlier(up'[b], queued)
                           /\ Later(up[b], typed, size) => Later(up'[b], typed, size)
    <3> TAKE b \in Bridges
    <3>1. Ordered(up[b]) /\ Earlier(up[b], queued)
      BY <1>1 DEF Typing
    <3>2. CASE up'[b] = up[b]
      BY <1>11, <3>1, <3>2
    <3>3. CASE up'[b] = Append(up[b], m)
      <4> DEFINE u == up[b]
      <4>1. u \in Seq(UpMessages) /\ Ordered(u) /\ Earlier(u, queued) /\ Upto(u, keys, sizes + 1)
              /\ SizesBefore(u, m.v)
        BY <1>4, <1>10, <1>11, <3>1
      <4>2. size < m.v /\ m.v <= sizes + 1 /\ m.t # "keys"
        BY <1>4, <1>12
      <4> HIDE DEF u
      <4>4. Ordered(Append(u, m))
        BY <1>4, <4>1, <4>2, UpAppend
      <4>5. Upto(Append(u, m), keys, sizes + 1)
        BY <1>4, <4>1, <4>2, UpAppend
      <4>6. Earlier(Append(u, m), queued)
        BY <1>4, <4>1, <4>2, UpAppend
      <4>7. Later(u, typed, size) => Later(Append(u, m), typed, size)
        BY <1>4, <4>1, <4>2, UpAppend
      <4> QED BY <3>3, <4>4, <4>5, <4>6, <4>7 DEF u
    <3> QED BY <2>3, <3>2, <3>3
  <2>5. Typing'
    <3>1. ctl # None => Later(up'[ctl], typed, size)
      BY <1>1, <2>4 DEF Typing, RType, HolderType
    <3> QED BY <1>1, <1>2, <1>12, <2>1, <2>2, <2>4, <3>1 DEF Typing
  <2>6. Kept'
    <3> SUFFICES ASSUME Whole' PROVE Kept'
      BY DEF Kept
    <3>1. Whole
      BY <1>2 DEF Whole
    <3>2. open[gen]
      BY <1>1, <2>1, <3>1 DEF Kept
    <3>3. up'[gen] = Append(up[gen], m) /\ up[gen] \in Seq(UpMessages) /\ gen # None
      BY <1>10, <1>14, <2>2, <3>2 DEF Put, None, Bridges
    <3>4. ASSUME agent = "running", NEW k \in 1..keys
          PROVE  Has(typed, k) \/ Has(queued, k) \/ (gen # None /\ Carries(up'[gen], k))
      <4>1. Has(typed, k) \/ Has(queued, k) \/ (gen # None /\ Carries(up[gen], k))
        BY <1>1, <3>1, <3>4 DEF Kept
      <4> QED BY <1>4, <3>3, <4>1, CarriesAppend
    <3>6. \E i \in 1..Len(up'[gen]) : up'[gen][i] = Size(sizes + 1)
      BY <1>4, <3>3, CarriesAppend DEF m
    <3>8. gen <= 1 /\ ctl \in {None, gen}
      BY <1>1, <3>1 DEF Kept
    <3> QED BY <1>2, <1>5, <2>1, <2>2, <3>2, <3>3, <3>4, <3>6, <3>8 DEF Kept, Size
  <2> QED BY <1>8, <1>9, <2>5, <2>6 DEF RemoteIInv, RType
<1> QED BY <1>5, <1>13, <1>14

-----------------------------------------------------------------------------
(* The Holder reads.                                                       *)

\* There is an epoch for every Bridge.
LEMMA EpochRoom ==
  ASSUME RType, Epochs, NEW b \in Bridges, ep[b] = 0, \A c \in Bridges : c > b => ep[c] = 0
  PROVE  epoch + 1 <= b /\ epoch + 1 \in 0..MaxBridge /\ epoch \in Nat
<1>1. epoch \in Nat /\ b \in Nat /\ b >= 1 /\ b <= MaxBridge /\ MaxBridge \in Nat
        /\ \A c \in Bridges : c \in Nat
  BY RemoteAssumption DEF RType, HolderType, Bridges
<1>2. epoch + 1 <= b
  <2>1. CASE epoch = 0
    BY <1>1, <2>1
  <2>2. CASE epoch # 0
    <3>1. PICK c \in Bridges : ep[c] = epoch /\ epoch <= c
      BY <2>2 DEF Epochs
    <3>2. c # b /\ ~(c > b)
      BY <2>2, <3>1
    <3> QED BY <1>1, <3>1, <3>2
  <2> QED BY <2>1, <2>2
<1> QED BY <1>1, <1>2

\* The Holder reads a Hello and answers.
LEMMA HandshakeKeeps ==
  ASSUME RemoteIInv, NEW b \in Bridges, Handshake(b) PROVE RemoteIInv'
<1> USE DEF agentVars, writerVars, pumpVars, viewVars, userVars
<1>1. /\ RType /\ Lines /\ Epochs /\ Greeted /\ Pumped /\ Agreed /\ Stream /\ Tip
      /\ Typing /\ Kept /\ Real /\ LogComplete
  BY DEF RemoteIInv
<1> DEFINE off == Head(up[b]).off
<1>2. /\ agent # "gone" /\ ep[b] = 0 /\ (\A c \in Bridges : c > b => ep[c] = 0) /\ up[b] # <<>>
      /\ epoch' = epoch + 1 /\ seq' = seq + 1 /\ ep' = [ep EXCEPT ![b] = epoch + 1]
      /\ up' = [up EXCEPT ![b] = Tail(up[b])] /\ down' = Sent(b, HandshakeMessages(off))
      /\ skipped' = (skipped \/ tail - ReplayBudget > off)
  BY DEF Handshake
<1>3. UNCHANGED <<agentVars, base, dirty, gen, writerVars, pumpVars, viewVars, ending, userVars, losses,
                  restarts, refused>>
  BY DEF Handshake
<1>4. PICK o \in 0..tail : up[b] = <<Hello(o)>>
  BY <1>1, <1>2 DEF Greeted
<1>5. off = o /\ Tail(up[b]) = <<>> /\ Len(up[b]) = 1 /\ up[b][1] = Hello(o) /\ up[b][1].t = "hello"
        /\ up[b][1].off = o
  BY <1>4 DEF Hello
<1> HIDE DEF off
<1>6. epoch + 1 <= b /\ epoch + 1 \in 0..MaxBridge /\ epoch \in Nat
  BY <1>1, <1>2, EpochRoom
<1>7. /\ down \in [Bridges -> Seq(DownMessages)] /\ open \in [Bridges -> BOOLEAN]
      /\ up \in [Bridges -> Seq(UpMessages)] /\ ep \in [Bridges -> 0..MaxBridge]
      /\ tail \in Nat /\ tail \in 0..MaxOut /\ seq \in Nat /\ base \in Nat /\ base <= tail /\ o \in Nat
           /\ o <= tail
      /\ \A c \in Bridges : c \in Nat
  <2>1. /\ tail \in Nat /\ tail \in 0..MaxOut /\ seq \in Nat /\ base \in Nat /\ base <= tail
    BY <1>1, RemoteAssumption DEF RType, HolderType
  <2> QED BY <1>1, <2>1 DEF RType, WireType, HolderType, Bridges
<1>8. gen \in Nat /\ ~(b > gen)
  BY <1>1, <1>2 DEF Lines, RType, PumpType, Bridges, None
<1>9. /\ up'[b] = <<>> /\ ep'[b] = epoch + 1
      /\ \A c \in Bridges : c # b => up'[c] = up[c] /\ ep'[c] = ep[c]
  BY <1>2, <1>5, <1>7
<1>10. ctl # None => ctl \in Bridges /\ ctl # b /\ ctl # gen
  <2> HAVE ctl # None
  <2>1. ctl \in Bridges /\ ep[ctl] # 0
    BY <1>1 DEF Lines, RType, HolderType
  <2>2. CASE b = gen
    BY <1>2, <2>1, <2>2
  <2>3. CASE b # gen
    <3>1. gen > b \/ gen \notin Bridges
      BY <1>7, <1>8, <2>3
    <3> QED BY <1>2, <2>1, <3>1
  <2> QED BY <2>2, <2>3
<1>11. skipped' \in BOOLEAN /\ (skipped' = skipped \/ skipped' = TRUE)
  <2>1. skipped \in BOOLEAN
    BY <1>1 DEF RType, UserType
  <2>2. skipped' \in BOOLEAN
    BY <1>2
  <2>3. skipped' = skipped \/ skipped' = TRUE
    BY <1>2, <2>1, <2>2, Zenon
  <2> QED BY <2>2, <2>3
<1>12. ~skipped' => ~skipped /\ ~(tail - ReplayBudget > o)
  BY <1>2, <1>5
<1>13. Shrunk /\ up' \in [Bridges -> Seq(UpMessages)]
  <2>1. <<>> \in Seq(UpMessages) /\ Len(<<>>) = 0
    OBVIOUS
  <2>2. up' \in [Bridges -> Seq(UpMessages)]
    BY <1>2, <1>5, <1>7, <2>1
  <2>3. ASSUME NEW c \in Bridges
        PROVE  /\ up'[c] \in Seq(UpMessages) /\ Len(up'[c]) <= Len(up[c])
               /\ \A i \in 1..Len(up'[c]) : up'[c][i] = up[c][i]
    <3>1. up[c] \in Seq(UpMessages) /\ Len(up[c]) \in Nat
      BY <1>7
    <3>2. CASE c = b
      <4>1. up'[c] = <<>> /\ Len(up'[c]) = 0 /\ up'[c] \in Seq(UpMessages)
        BY <1>9, <2>1, <3>2
      <4> QED BY <3>1, <4>1
    <3>3. CASE c # b
      BY <1>9, <3>1, <3>3
    <3> QED BY <3>2, <3>3
  <2> QED BY <2>2, <2>3 DEF Shrunk
<1>14. Epochs'
  <2>1. \A c \in Bridges : ep'[c] <= epoch + 1
    <3> TAKE c \in Bridges
    <3>1. ep[c] \in Nat /\ ep[c] <= epoch
      BY <1>1, <1>7, RemoteAssumption DEF Epochs
    <3> QED BY <1>6, <1>9, <3>1
  <2> QED BY <1>2, <1>6, <1>9, <2>1 DEF Epochs
<1>15. ViewType' /\ PumpType' /\ UserType' /\ Real' /\ LogComplete'
  <2>1. tail' = tail
    BY <1>3
  <2> QED BY <1>1, <1>3, <1>7, <1>11, <1>12, <2>1, ViewTypeStays, PumpTypeStays, UserTypeStays, RealStays,
             LogStays DEF RType
<1>16. Pumped'
  <2>1. pump = "read" /\ hello => ep'[gen] # 0
    <3> HAVE pump = "read" /\ hello
    <3>1. gen \in Bridges /\ ep[gen] # 0
      BY <1>1 DEF Pumped, Lines, RType, PumpType, None
    <3> QED BY <1>2, <1>9, <3>1
  <2> QED BY <1>1, <1>3, <2>1 DEF Pumped
<1>17. b = gen /\ pump = "read" => ~hello /\ ~granted /\ down[b] = <<>> /\ o = offset
  BY <1>1, <1>2, <1>5 DEF Pumped, Greeted
<1>18. ep' \in [Bridges -> 0..MaxBridge] /\ epoch' \in 0..MaxBridge /\ seq' \in Nat
  BY <1>2, <1>6, <1>7
<1>19. ASSUME Whole'
       PROVE  /\ Whole /\ b = gen /\ pump = "read" /\ open[gen] /\ gen # None /\ gen <= 1
              /\ queuedSize = 0 => size = sizes
              /\ queuedSize # 0 => queuedSize = sizes
              /\ agent = "running" => \A k \in 1..keys : Has(typed, k) \/ Has(queued, k)
  <2>1. Whole
    BY <1>3, <1>12, <1>19 DEF Whole
  <2>2. gen <= 1 /\ (pump = "connect" => gen = None) /\ (pump = "read" => open[gen])
    BY <1>1, <2>1 DEF Kept
  <2>3. b = gen /\ gen # None
    BY <1>7, <1>8, <2>2 DEF Bridges, None
  <2>4. pump = "read"
    BY <1>1, <2>1, <2>2, <2>3 DEF Whole, RType, PumpType
  <2>5. \A i \in 1..Len(up[gen]) : up[gen][i].t = "hello"
    BY <1>5, <2>3
  <2>6. /\ ~\E i \in 1..Len(up[gen]) : up[gen][i] = Size(sizes)
        /\ \A k : ~Carries(up[gen], k)
    BY <2>5 DEF Size, Carries
  <2> QED BY <1>1, <2>1, <2>2, <2>3, <2>4, <2>6 DEF Kept
<1>20. CASE ~(b = gen /\ pump = "read" /\ open[gen])
  <2>1. ~open[b]
    BY <1>1, <1>20 DEF Lines
  <2>2. UNCHANGED <<ctl, open, down>>
    BY <1>2, <1>5, <2>1 DEF Handshake, Sent
  <2>3. RType'
    <3>1. HolderType'
      BY <1>1, <1>3, <1>18, <2>2 DEF RType, HolderType
    <3>2. WireType'
      BY <1>7, <1>13, <2>2 DEF WireType
    <3> QED BY <1>15, <3>1, <3>2 DEF RType
  <2>4. Lines'
    <3>1. \A c \in Bridges : c > gen => ep'[c] = 0 /\ up'[c] = <<>>
      <4> TAKE c \in Bridges
      <4> HAVE c > gen
      <4>1. c # b
        BY <1>7, <1>8
      <4> QED BY <1>1, <1>9, <4>1 DEF Lines
    <3>2. ctl # None => ep'[ctl] # 0 /\ ctl # gen
      BY <1>1, <1>9, <1>10 DEF Lines
    <3> QED BY <1>1, <1>3, <2>2, <3>1, <3>2 DEF Lines
  <2>5. Greeted'
    <3> SUFFICES ASSUME NEW c \in Bridges
                 PROVE  /\ ep'[c] = 0 => up'[c] = <<>> \/ \E x \in 0..tail : up'[c] = <<Hello(x)>>
                        /\ ep'[c] = 0 => down[c] = <<>>
                        /\ ep'[c] # 0 => \A i \in 1..Len(up'[c]) : up'[c][i].t # "hello"
                        /\ c = gen /\ pump = "read" /\ ep'[c] = 0 /\ up'[c] # <<>> => up'[c][1].off = offset
      BY <1>3, <2>2 DEF Greeted, Hello
    <3>1. CASE c = b
      <4>1. up'[c] = <<>> /\ ep'[c] # 0
        BY <1>6, <1>9, <3>1
      <4> QED BY <4>1
    <3>2. CASE c # b
      BY <1>1, <1>9, <3>2 DEF Greeted
    <3> QED BY <3>1, <3>2
  <2>6. Agreed'
    <3> SUFFICES ASSUME pump = "read"
                 PROVE  Signed(down[gen], ep'[gen]) /\ (open[gen] => input /\ (hello => wep = ep'[gen]))
      BY <1>3, <2>2 DEF Agreed
    <3>1. gen \in Bridges
      BY <1>1 DEF Lines, RType, PumpType, None
    <3>2. CASE b = gen
      <4>1. ~open[gen] /\ down[gen] = <<>>
        BY <1>17, <1>20, <3>2
      <4> QED BY <4>1 DEF Signed
    <3>3. CASE b # gen
      BY <1>1, <1>9, <3>1, <3>3 DEF Agreed
    <3> QED BY <3>2, <3>3
  <2>7. Stream'
    BY <1>1, <1>3, <1>11, <2>2, StreamWaits
  <2>8. Tip'
    <3>1. ctl' # gen' \/ ctl' = None
      BY <1>3, <1>10, <2>2
    <3> QED BY <1>15, <2>4, <3>1, NoTip
  <2>9. Typing'
    BY <1>1, <1>3, <1>13, <2>2, TypingCut
  <2>10. Kept'
    BY <1>19, <1>20 DEF Kept
  <2> QED BY <1>14, <1>15, <1>16, <2>3, <2>4, <2>5, <2>6, <2>7, <2>8, <2>9, <2>10 DEF RemoteIInv
<1>21. CASE b = gen /\ pump = "read" /\ open[gen]
  <2> DEFINE q == HandshakeMessages(o)
             s == Max2(o, tail - ReplayBudget)
  <2>1. /\ ctl' = gen /\ open' \in [Bridges -> BOOLEAN] /\ \A c \in Bridges : open'[c] = open[c]
    <3>1. ctl' = b /\ open' = IF ctl # None THEN [open EXCEPT ![ctl] = FALSE] ELSE open
      BY <1>21 DEF Handshake
    <3>2. ctl # None => ~open[ctl] /\ ctl \in Bridges
      BY <1>1, <1>10 DEF Lines
    <3>3. open' \in [Bridges -> BOOLEAN]
      BY <1>7, <3>1, <3>2
    <3>4. ASSUME NEW c \in Bridges PROVE open'[c] = open[c]
      <4>1. CASE ctl # None /\ c = ctl
        <5>1. open'[c] = FALSE /\ ~open[c] /\ open[c] \in BOOLEAN
          BY <1>7, <3>1, <3>2, <4>1
        <5> QED BY <5>1
      <4>2. CASE ~(ctl # None /\ c = ctl)
        BY <1>7, <3>1, <3>2, <4>2
      <4> QED BY <4>1, <4>2
    <3> QED BY <1>21, <3>1, <3>3, <3>4
  <2>2. /\ q \in Seq(DownMessages)
        /\ Answer(q, o, s, tail - s, epoch + 1, seq + 1, tail)
        /\ tail - ReplayBudget <= o => s = o
    BY <1>6, <1>7, HandshakeShape
  <2>3. ReplayBudget \in Int
    BY RemoteAssumption
  <2>4. ~skipped' => s = o
    BY <1>7, <1>12, <2>2, <2>3
  <2> HIDE DEF q, s
  <2>5. down' = [down EXCEPT ![gen] = q]
    BY <1>2, <1>5, <1>21 DEF Sent, q
  <2>6. down'[gen] = q /\ down' \in [Bridges -> Seq(DownMessages)]
          /\ \A c \in Bridges : c # gen => down'[c] = down[c]
    BY <1>7, <1>21, <2>2, <2>5
  <2>7. RType'
    <3>1. HolderType'
      BY <1>1, <1>3, <1>18, <1>21, <2>1 DEF RType, HolderType
    <3>2. WireType'
      BY <1>13, <2>1, <2>6 DEF WireType
    <3> QED BY <1>15, <3>1, <3>2 DEF RType
  <2>8. Lines'
    <3>1. \A c \in Bridges : c > gen => ep'[c] = 0 /\ up'[c] = <<>>
      <4> TAKE c \in Bridges
      <4> HAVE c > gen
      <4>1. c # b
        BY <1>7, <1>8
      <4> QED BY <1>1, <1>9, <4>1 DEF Lines
    <3>2. \A c \in Bridges : c # gen => ~open'[c] /\ down'[c] = <<>>
      BY <1>1, <2>1, <2>6 DEF Lines
    <3>3. ep'[gen] = epoch' /\ epoch' # 0 /\ gen # None
      BY <1>1, <1>2, <1>6, <1>9, <1>21 DEF Lines
    <3> QED BY <1>2, <1>3, <1>21, <2>1, <3>1, <3>2, <3>3 DEF Lines
  <2>9. Greeted'
    <3> SUFFICES ASSUME NEW c \in Bridges
                 PROVE  /\ ep'[c] = 0 => up'[c] = <<>> \/ \E x \in 0..tail : up'[c] = <<Hello(x)>>
                        /\ ep'[c] = 0 => down'[c] = <<>>
                        /\ ep'[c] # 0 => \A i \in 1..Len(up'[c]) : up'[c][i].t # "hello"
                        /\ c = gen /\ pump = "read" /\ ep'[c] = 0 /\ up'[c] # <<>> => up'[c][1].off = offset
      BY <1>3 DEF Greeted, Hello
    <3>1. CASE c = b
      <4>1. up'[c] = <<>> /\ ep'[c] # 0
        BY <1>6, <1>9, <3>1
      <4> QED BY <4>1
    <3>2. CASE c # b
      BY <1>1, <1>9, <1>21, <2>6, <3>2 DEF Greeted
    <3> QED BY <3>1, <3>2
  <2>10. Agreed'
    <3>1. Signed(q, epoch + 1)
      BY <2>2, AnswerSigned
    <3>2. input /\ ~hello /\ ep'[gen] = epoch + 1
      BY <1>1, <1>9, <1>17, <1>21 DEF Agreed
    <3> QED BY <1>3, <2>6, <3>1, <3>2 DEF Agreed
  <2>11. Stream' /\ Tip'
    <3>1. hello = FALSE /\ granted = FALSE /\ o = offset
      BY <1>1, <1>17, <1>21 DEF RType, PumpType
    <3>2. skipped' = FALSE => s = o
      BY <2>4
    <3>3. seq + 1 \in Nat \ {0}
      BY <1>7
    <3>4. /\ StreamPart(q, hello, granted, agent, o, tail, skipped', display, mirror)
          /\ TipPart(q, hello, granted, o, tail, skipped', display, mirror, seq + 1, base, dirty)
      BY <1>7, <2>2, <3>1, <3>2, <3>3, Fresh
    <3> QED BY <1>2, <1>3, <2>6, <3>1, <3>4 DEF Stream, Tip
  <2>12. Typing'
    <3>1. ctl' \in Bridges /\ up'[ctl'] = <<>>
      BY <1>9, <1>21, <2>1
    <3> QED BY <1>1, <1>3, <1>13, <3>1, TypingCut
  <2>13. Kept'
    <3> SUFFICES ASSUME Whole' PROVE Kept'
      BY DEF Kept
    <3>1. open'[gen]
      BY <1>21, <2>1
    <3> QED BY <1>3, <1>19, <2>1, <3>1 DEF Kept, Size
  <2> QED BY <1>14, <1>15, <1>16, <2>7, <2>8, <2>9, <2>10, <2>11, <2>12, <2>13 DEF RemoteIInv
<1> QED BY <1>20, <1>21

\* A message is read: what the message says of the Holder is handled elsewhere.
LEMMA ReadFrame ==
  ASSUME RType, Lines, Epochs, Greeted, Pumped, Agreed, Real, LogComplete, ctl \in Bridges, up[ctl] # <<>>,
         up' = [up EXCEPT ![ctl] = Tail(up[ctl])],
         UNCHANGED <<agent, tail, epoch, base, dirty, ep, gen, writerVars, pumpVars, viewVars, ending,
                     userVars, losses, restarts, skipped>>, refused' = refused \/ refused' = TRUE,
         ctl' \in {ctl, None}, \A b \in Bridges : ep[b] = 0 => down'[b] = <<>>,
         \A b \in Bridges : (open'[b] => open[b]) /\ (b # gen \/ pump # "read" => down'[b] = down[b])
  PROVE  Lines' /\ Epochs' /\ Greeted' /\ Pumped' /\ Real' /\ LogComplete' /\ PumpType' /\ ViewType'
           /\ UserType'
<1> USE DEF writerVars, pumpVars, viewVars, userVars
<1>1. up \in [Bridges -> Seq(UpMessages)] /\ up[ctl] \in Seq(UpMessages) /\ ep[ctl] # 0 /\ ctl # None
  BY DEF RType, WireType, Lines, Bridges, None
<1>2. /\ \A b \in Bridges : b # ctl => up'[b] = up[b]
      /\ up'[ctl] = Tail(up[ctl])
  BY <1>1
<1>3. Epochs' /\ Pumped' /\ Real' /\ LogComplete' /\ PumpType'
  BY EpochsStays, PumpedStays, RealStays, LogStays, PumpTypeStays DEF RType
<1>4. ViewType' /\ UserType'
  <2>1. tail \in Nat /\ tail' = tail /\ skipped \in BOOLEAN
    BY RemoteAssumption DEF RType, HolderType, UserType
  <2> QED BY <2>1, ViewTypeStays, UserTypeStays DEF RType
<1>5. Lines'
  <2>1. \A b \in Bridges : b > gen => b # ctl
    BY <1>1 DEF Lines
  <2> QED BY <1>2, <2>1 DEF Lines
<1>6. Greeted'
  <2> SUFFICES ASSUME NEW b \in Bridges
               PROVE  /\ ep[b] = 0 => up'[b] = <<>> \/ \E off \in 0..tail : up'[b] = <<Hello(off)>>
                      /\ ep[b] = 0 => down'[b] = <<>>
                      /\ ep[b] # 0 => \A i \in 1..Len(up'[b]) : up'[b][i].t # "hello"
                      /\ b = gen /\ pump = "read" /\ ep[b] = 0 /\ up'[b] # <<>> => up'[b][1].off = offset
    BY DEF Greeted, Hello
  <2>1. ep[b] = 0 => down'[b] = <<>>
    OBVIOUS
  <2>2. CASE b # ctl
    BY <1>2, <2>1, <2>2 DEF Greeted
  <2>3. CASE b = ctl
    <3>1. \A i \in 1..Len(Tail(up[ctl])) : Tail(up[ctl])[i] = up[ctl][i + 1] /\ i + 1 \in 1..Len(up[ctl])
      BY <1>1, TailIs
    <3> QED BY <1>1, <1>2, <2>3, <3>1 DEF Greeted
  <2> QED BY <2>2, <2>3
<1> QED BY <1>3, <1>4, <1>5, <1>6

\* What a Bridge carries is in the message that is read or in the rest.
LEMMA CarriesTail ==
  ASSUME NEW u \in Seq(UpMessages), u # <<>>
  PROVE  /\ \A k : Carries(u, k) => (u[1].t = "keys" /\ Has(u[1].ks, k)) \/ Carries(Tail(u), k)
         /\ \A x : (\E i \in 1..Len(u) : u[i] = x) => u[1] = x \/ \E i \in 1..Len(Tail(u)) : Tail(u)[i] = x
<1> DEFINE p == Tail(u)
<1>1. /\ Len(u) \in Nat /\ Len(u) >= 1 /\ Len(p) = Len(u) - 1
      /\ \A i \in 1..Len(p) : p[i] = u[i + 1]
  BY TailIs
<1> HIDE DEF p
<1>2. ASSUME NEW i \in 1..Len(u), i # 1 PROVE i - 1 \in 1..Len(p) /\ p[i - 1] = u[i]
  <2>1. i - 1 \in 1..Len(p) /\ (i - 1) + 1 = i
    BY <1>1, <1>2
  <2> QED BY <1>1, <2>1
<1>3. ASSUME NEW k, Carries(u, k) PROVE (u[1].t = "keys" /\ Has(u[1].ks, k)) \/ Carries(p, k)
  <2>1. PICK i \in 1..Len(u) : u[i].t = "keys" /\ \E j \in 1..Len(u[i].ks) : u[i].ks[j] = k
    BY <1>3 DEF Carries
  <2>2. CASE i = 1
    BY <2>1, <2>2 DEF Has
  <2>3. CASE i # 1
    BY <1>2, <2>1, <2>3 DEF Carries
  <2> QED BY <2>2, <2>3
<1>4. ASSUME NEW x, NEW i \in 1..Len(u), u[i] = x PROVE u[1] = x \/ \E j \in 1..Len(p) : p[j] = x
  BY <1>2, <1>4
<1> QED BY <1>3, <1>4 DEF p

\* The keys of two sequences.
LEMMA HasJoin ==
  ASSUME NEW s \in Seq(Nat), NEW z \in Seq(Nat), NEW k, Has(s, k) \/ Has(z, k)
  PROVE  Has(s \o z, k)
<1>1. /\ Len(s) \in Nat /\ Len(z) \in Nat /\ Len(s \o z) = Len(s) + Len(z)
      /\ \A i \in 1..Len(s) : (s \o z)[i] = s[i]
      /\ \A i \in 1..Len(z) : (s \o z)[Len(s) + i] = z[i]
  OBVIOUS
<1> DEFINE w == s \o z
<1> HIDE DEF w
<1>2. CASE Has(s, k)
  <2>1. PICK i \in 1..Len(s) : s[i] = k
    BY <1>2 DEF Has
  <2>2. i \in 1..Len(w) /\ w[i] = k
    BY <1>1, <2>1 DEF w
  <2> QED BY <2>2 DEF Has, w
<1>3. CASE Has(z, k)
  <2>1. PICK i \in 1..Len(z) : z[i] = k
    BY <1>3 DEF Has
  <2>2. Len(s) + i \in 1..Len(w) /\ w[Len(s) + i] = k
    BY <1>1, <2>1 DEF w
  <2> QED BY <2>2 DEF Has, w
<1> QED BY <1>2, <1>3

\* What is read was typed after all the Agent was given, and before the rest.
LEMMA TypingRead ==
  ASSUME RType, Typing, ctl \in Bridges, up[ctl] # <<>>, up' = [up EXCEPT ![ctl] = Tail(up[ctl])],
         UNCHANGED <<keys, sizes, queued, queuedSize>>, NEW m, m = up[ctl][1],
         \/ ctl' = None /\ UNCHANGED <<typed, size>>
         \/ /\ ctl' = ctl /\ (typed' = typed \/ (m.t = "keys" /\ typed' = typed \o m.ks))
            /\ size' = IF m.t = "size" THEN m.v ELSE size
  PROVE  Typing'
<1> DEFINE u == up[ctl]
<1>1. /\ \A b \in Bridges : up[b] \in Seq(UpMessages)
      /\ typed \in Seq(Nat) /\ queued \in Seq(Nat) /\ size \in Nat /\ queuedSize \in Nat
      /\ keys \in Nat /\ sizes \in Nat
  BY UpTypes
<1>2. /\ \A b \in Bridges : b # ctl => up'[b] = up[b]
      /\ up'[ctl] = Tail(u)
  BY DEF RType, WireType
<1>3. u \in Seq(UpMessages) /\ u # <<>> /\ u[1] = m /\ m \in UpMessages /\ 1 \in 1..Len(u)
  BY <1>1, TailIs
<1>4. /\ Ordered(u) /\ Upto(u, keys, sizes) /\ Earlier(u, queued)
      /\ queuedSize # 0 => SizesBefore(u, queuedSize)
  BY DEF Typing
<1>l. ctl # None => Later(u, typed, size)
  BY DEF Typing
<1>n. ctl # None
  BY DEF None, Bridges
<1> HIDE DEF u
<1>5. /\ Ordered(Tail(u)) /\ Upto(Tail(u), keys, sizes) /\ Earlier(Tail(u), queued)
      /\ queuedSize # 0 => SizesBefore(Tail(u), queuedSize)
  BY <1>3, <1>4, UpTail
<1>6. \A b \in Bridges : /\ Ordered(up'[b]) /\ Upto(up'[b], keys, sizes) /\ Earlier(up'[b], queued)
                         /\ queuedSize # 0 => SizesBefore(up'[b], queuedSize)
  BY <1>2, <1>5 DEF Typing
<1>7. m.t = "keys" => /\ m.ks \in Seq(Nat) /\ Rising(m.ks) /\ Before(typed, m.ks) /\ Before(m.ks, queued)
                      /\ NotAfter(m.ks, keys)
  <2> HAVE m.t = "keys"
  <2>1. m.ks \in Seq(1..MaxAsks)
    BY <1>3, UpFields
  <2>2. m.ks \in Seq(Nat)
    BY <2>1, RemoteAssumption
  <2>3. Rising(m.ks) /\ Before(m.ks, queued) /\ Before(typed, m.ks)
    BY <1>3, <1>4, <1>l, <1>n DEF Ordered, Earlier, Later
  <2>4. NotAfter(m.ks, keys)
    BY <1>3, <1>4 DEF Upto, NotAfter
  <2> QED BY <2>2, <2>3, <2>4
<1>8. Rising(typed') /\ Before(typed', queued) /\ NotAfter(typed', keys)
  <2>1. Rising(typed) /\ Before(typed, queued) /\ NotAfter(typed, keys)
    BY DEF Typing
  <2>2. CASE typed' = typed
    BY <2>1, <2>2
  <2>3. CASE m.t = "keys" /\ typed' = typed \o m.ks
    BY <1>1, <1>7, <2>1, <2>3, RisingJoin
  <2> QED BY <2>2, <2>3
<1>9. size' <= sizes /\ (queuedSize # 0 => size' < queuedSize)
  <2>1. m.t = "size" => m.v \in Nat /\ m.v <= sizes /\ (queuedSize # 0 => m.v < queuedSize)
    <3> HAVE m.t = "size"
    <3>1. m.v \in Nat
      BY <1>3, UpFields, RemoteAssumption
    <3> QED BY <1>3, <1>4, <3>1 DEF Upto, SizesBefore
  <2>2. size <= sizes /\ (queuedSize # 0 => size < queuedSize)
    BY DEF Typing
  <2> QED BY <2>1, <2>2
<1>10. ctl' # None => Later(up'[ctl'], typed', size')
  <2> HAVE ctl' # None
  <2>1. /\ ctl' = ctl /\ (typed' = typed \/ (m.t = "keys" /\ typed' = typed \o m.ks))
        /\ size' = IF m.t = "size" THEN m.v ELSE size
    OBVIOUS
  <2>2. /\ Later(Tail(u), typed, size)
        /\ m.t = "keys" => Later(Tail(u), typed \o m.ks, size)
        /\ m.t = "size" => Later(Tail(u), typed, m.v)
    BY <1>1, <1>3, <1>4, <1>l, <1>n, LaterTail
  <2>3. m.t = "keys" => m.t # "size"
    OBVIOUS
  <2> QED BY <1>2, <2>1, <2>2, <2>3
<1>11. Rising(queued) /\ NotAfter(queued, keys) /\ queuedSize <= sizes
  BY DEF Typing
<1> QED BY <1>6, <1>8, <1>9, <1>10, <1>11 DEF Typing

\* The Holder reads the controller's input.
LEMMA HandleMessageKeeps ==
  ASSUME RemoteIInv, Quiet, NEW b \in Bridges, HandleMessage(b) PROVE RemoteIInv'
<1> USE DEF writerVars, pumpVars, viewVars, userVars
<1>1. /\ RType /\ Lines /\ Epochs /\ Greeted /\ Pumped /\ Agreed /\ Stream /\ Tip
      /\ Typing /\ Kept /\ Real /\ LogComplete
  BY DEF RemoteIInv
<1> DEFINE m == up[b][1]
<1>0. up[b] \in Seq(UpMessages) /\ up \in [Bridges -> Seq(UpMessages)] /\ up[b] # <<>>
  BY <1>1 DEF HandleMessage, RType, WireType
<1>m. Head(up[b]) = m /\ m \in UpMessages /\ Tail(up[b]) \in Seq(UpMessages)
  BY <1>0, TailIs
<1>2. ctl = b /\ ctl \in Bridges /\ ctl # None /\ up' = [up EXCEPT ![b] = Tail(up[b])]
  BY DEF HandleMessage, None, Bridges
<1>3. UNCHANGED <<agent, tail, epoch, base, dirty, ep, gen, writerVars, pumpVars, viewVars, ending,
                  userVars, losses, restarts, skipped>>
  BY DEF HandleMessage
<1>4. /\ down \in [Bridges -> Seq(DownMessages)] /\ open \in [Bridges -> BOOLEAN]
      /\ tail \in Nat /\ tail \in 0..MaxOut /\ seq \in Nat
  BY <1>1, RemoteAssumption DEF RType, WireType, HolderType
<1>5. up' \in [Bridges -> Seq(UpMessages)] /\ up'[b] = Tail(up[b])
  BY <1>0, <1>2, <1>m
<1>6. open[b] => b = gen /\ pump = "read"
  BY <1>1, <1>2, OpenIsNewest
<1>7. CASE ep[b] # epoch
  <2>1. b # gen /\ ~open[b]
    BY <1>1, <1>2, <1>6, <1>7 DEF Lines
  <2>2. /\ down' = down /\ open' = [open EXCEPT ![b] = FALSE] /\ ctl' = None
        /\ UNCHANGED <<typed, size, seq, refused>>
    BY <1>7, <2>1 DEF HandleMessage, Sent
  <2>3. open' \in [Bridges -> BOOLEAN] /\ \A c \in Bridges : open'[c] = open[c]
    BY <1>4, <2>1, <2>2
  <2>4. Lines' /\ Epochs' /\ Greeted' /\ Pumped' /\ Real' /\ LogComplete' /\ PumpType' /\ ViewType'
          /\ UserType'
    <3>1. \A c \in Bridges : ep[c] = 0 => down'[c] = <<>>
      BY <1>1, <2>2 DEF Greeted
    <3>2. \A c \in Bridges : open'[c] = open[c] /\ (c # gen \/ pump # "read" => down'[c] = down[c])
      BY <2>2, <2>3
    <3>3. ctl' \in {ctl, None} /\ up[ctl] # <<>> /\ up' = [up EXCEPT ![ctl] = Tail(up[ctl])]
      BY <1>0, <1>2, <2>2
    <3> QED BY <1>1, <1>2, <1>3, <2>2, <3>1, <3>2, <3>3, ReadFrame
  <2>5. RType'
    <3>1. HolderType'
      BY <1>1, <1>3, <2>2 DEF RType, HolderType
    <3>2. WireType'
      BY <1>4, <1>5, <2>2, <2>3 DEF WireType
    <3> QED BY <2>4, <3>1, <3>2 DEF RType
  <2>6. Typing'
    <3>1. m = up[ctl][1] /\ up[ctl] # <<>> /\ up' = [up EXCEPT ![ctl] = Tail(up[ctl])]
      BY <1>0, <1>2
    <3> HIDE DEF m
    <3> QED BY <1>1, <1>2, <1>3, <2>2, <3>1, TypingRead
  <2>7. Stream'
    BY <1>1, <1>3, <2>2, StreamStays
  <2>8. Tip'
    BY <2>2, <2>4, NoTip
  <2>9. Agreed'
    <3>1. pump = "read" => gen \in Bridges
      BY <1>1 DEF Lines, RType, PumpType, None
    <3> QED BY <1>1, <1>3, <2>2, <2>3, <3>1 DEF Agreed
  <2>10. Kept'
    <3>1. ~Whole'
      BY <1>1, <1>2, <1>3, <2>1, <2>2 DEF Kept, Whole
    <3> QED BY <3>1 DEF Kept
  <2> QED BY <2>4, <2>5, <2>6, <2>7, <2>8, <2>9, <2>10 DEF RemoteIInv
<1>8. CASE /\ ep[b] = epoch
           /\ typed' = IF m.t = "keys" /\ agent = "running" THEN typed \o m.ks ELSE typed
           /\ size' = IF m.t = "size" THEN m.v ELSE size
           /\ seq' = IF m.t = "size" THEN seq + 1 ELSE seq
           /\ down' = IF m.t = "size" THEN Sent(b, down[b] \o <<Snap(seq + 1, tail)>>) ELSE down
           /\ UNCHANGED <<open, ctl, refused>>
  <2>1. /\ typed' = IF m.t = "keys" /\ agent = "running" THEN typed \o m.ks ELSE typed
        /\ size' = IF m.t = "size" THEN m.v ELSE size
        /\ seq' = IF m.t = "size" THEN seq + 1 ELSE seq
        /\ down' = IF m.t = "size" THEN Sent(b, down[b] \o <<Snap(seq + 1, tail)>>) ELSE down
        /\ UNCHANGED <<open, ctl, refused>>
    BY <1>8
  <2> DEFINE w == Snap(seq + 1, tail)
  <2>2. w \in DownMessages /\ w.t = "snap" /\ seq + 1 \in Nat
    <3>1. seq + 1 \in Nat \ {0}
      BY <1>4
    <3> QED BY <1>4, <3>1, Constructed DEF Snap
  <2>3. \/ down' = down /\ (m.t # "size" \/ ~open[b])
        \/ open[b] /\ m.t = "size" /\ down' = [down EXCEPT ![b] = Append(down[b], w)]
    <3>1. down[b] \o <<w>> = Append(down[b], w)
      BY <1>4, <2>2, AppendIs
    <3> HIDE DEF w
    <3> QED BY <2>1, <3>1 DEF Sent, w
  <2>4. Append(down[b], w) \in Seq(DownMessages)
    BY <1>4, <2>2, AppendIs
  <2> HIDE DEF w
  <2>5. down' \in [Bridges -> Seq(DownMessages)] /\ \A c \in Bridges : c # b => down'[c] = down[c]
    BY <1>4, <2>3, <2>4
  <2>6. Lines' /\ Epochs' /\ Greeted' /\ Pumped' /\ Real' /\ LogComplete' /\ PumpType' /\ ViewType'
          /\ UserType'
    <3>1. \A c \in Bridges : ep[c] = 0 => down'[c] = <<>>
      BY <1>1, <1>2, <2>5 DEF Greeted, Lines
    <3>2. \A c \in Bridges : open'[c] = open[c] /\ (c # gen \/ pump # "read" => down'[c] = down[c])
      BY <1>6, <2>1, <2>3, <2>5
    <3>3. ctl' \in {ctl, None} /\ up[ctl] # <<>> /\ up' = [up EXCEPT ![ctl] = Tail(up[ctl])]
      BY <1>0, <1>2, <2>1
    <3> QED BY <1>1, <1>2, <1>3, <2>1, <3>1, <3>2, <3>3, ReadFrame
  <2>7. m.t = "keys" => m.ks \in Seq(1..MaxAsks)
    BY <1>m, UpFields
  <2>8. m.t = "size" => m.v \in 1..MaxAsks /\ m.v \in 0..MaxAsks /\ m.v \in Nat
    BY <1>m, UpFields, RemoteAssumption
  <2>9. RType'
    <3>1. typed' \in Seq(1..MaxAsks) /\ size' \in 0..MaxAsks /\ seq' \in Nat
      <4>1. typed \in Seq(1..MaxAsks) /\ size \in 0..MaxAsks
        BY <1>1 DEF RType, HolderType
      <4>2. m.t = "keys" => typed \o m.ks \in Seq(1..MaxAsks)
        BY <2>7, <4>1
      <4> HIDE DEF m
      <4> QED BY <1>4, <2>1, <2>2, <2>8, <4>1, <4>2
    <3>2. HolderType'
      BY <1>1, <1>3, <2>1, <3>1 DEF RType, HolderType
    <3>3. WireType'
      BY <1>4, <1>5, <2>1, <2>5 DEF WireType
    <3> QED BY <2>6, <3>2, <3>3 DEF RType
  <2>10. Typing'
    <3>1. m = up[ctl][1] /\ up[ctl] # <<>> /\ up' = [up EXCEPT ![ctl] = Tail(up[ctl])]
      BY <1>0, <1>2
    <3>2. /\ ctl' = ctl /\ (typed' = typed \/ (m.t = "keys" /\ typed' = typed \o m.ks))
          /\ size' = IF m.t = "size" THEN m.v ELSE size
      BY <2>1
    <3> HIDE DEF m
    <3> QED BY <1>1, <1>2, <1>3, <3>1, <3>2, TypingRead
  <2>11. Agreed'
    <3> SUFFICES ASSUME pump = "read" PROVE Signed(down'[gen], ep[gen])
      BY <1>1, <1>3, <2>1 DEF Agreed
    <3>1. gen \in Bridges /\ Signed(down[gen], ep[gen]) /\ down[gen] \in Seq(DownMessages)
      BY <1>1, <1>4 DEF Lines, RType, PumpType, None, Agreed
    <3>2. CASE down'[gen] = down[gen]
      BY <3>1, <3>2
    <3>3. CASE down'[gen] = Append(down[gen], w)
      BY <2>2, <3>1, <3>3, SignedAppend
    <3> QED BY <1>4, <2>3, <3>1, <3>2, <3>3
  <2>12. Stream' /\ Tip'
    <3>1. CASE down' = down /\ m.t # "size"
      <4>1. seq' = seq
        BY <2>1, <3>1
      <4> QED BY <1>1, <1>3, <2>1, <3>1, <4>1, StreamStays, TipStays
    <3>2. CASE down' = down /\ ~open[b]
      <4>1. ctl' # gen' \/ ~open[gen]'
        BY <1>2, <1>3, <2>1, <3>2
      <4> QED BY <1>1, <1>3, <2>1, <2>6, <3>2, <4>1, StreamStays, NoTip
    <3>3. CASE open[b] /\ m.t = "size" /\ down' = [down EXCEPT ![b] = Append(down[b], w)]
      <4>1. b = gen /\ gen \in Bridges /\ pump = "read" /\ open[gen] /\ ctl = gen /\ seq' = seq + 1
        BY <1>2, <1>6, <2>1, <3>3
      <4>2. /\ StreamPart(down[gen], hello, granted, agent, offset, tail, skipped, display, mirror)
            /\ TipPart(down[gen], hello, granted, offset, tail, skipped, display, mirror, seq, base, dirty)
        BY <1>1, <4>1 DEF Stream, Tip
      <4>3. /\ down[gen] \in Seq(DownMessages) /\ offset \in Nat /\ tail \in Nat /\ offset <= tail
            /\ mirror \in [seq : Nat, at : Int] /\ seq \in Nat /\ base \in Nat /\ base <= tail
        BY <1>1, <4>1, StreamFacts
      <4>4. /\ hello = FALSE => down[gen] # <<>>
            /\ Live(down[gen], granted, Len(down[gen])) /\ NumsUpto(down[gen], granted, mirror, seq)
            /\ skipped = FALSE => tail = tail /\ AllSent(down[gen], offset, tail)
        BY <4>2 DEF TipPart
      <4>5. tail <= tail /\ seq < seq + 1
        BY <4>3
      <4> DEFINE x == Append(down[gen], Snap(seq + 1, tail))
      <4>6. /\ StreamPart(x, hello, granted, agent, offset, tail, skipped, display, mirror)
            /\ TipPart(x, hello, granted, offset, tail, skipped, display, mirror, seq + 1, base, dirty)
        BY <1>4, <2>2, <4>2, <4>3, <4>4, <4>5, PushSnap
      <4>7. down'[gen] = x
        BY <1>4, <3>3, <4>1 DEF w
      <4> HIDE DEF x
      <4> QED BY <1>3, <2>1, <4>1, <4>6, <4>7 DEF Stream, Tip
    <3> QED BY <2>3, <3>1, <3>2, <3>3
  <2>13. Kept'
    <3> SUFFICES ASSUME Whole' PROVE Kept'
      BY DEF Kept
    <3>1. Whole
      BY <1>3, <2>1 DEF Whole
    <3>2. b = gen /\ gen # None
      BY <1>1, <1>2, <3>1 DEF Kept
    <3>3. queuedSize = 0 => size' = sizes \/ \E i \in 1..Len(up'[gen]) : up'[gen][i] = Size(sizes)
      <4> HAVE queuedSize = 0
      <4>1. size = sizes \/ \E i \in 1..Len(up[b]) : up[b][i] = Size(sizes)
        BY <1>1, <3>1, <3>2 DEF Kept
      <4>2. CASE size = sizes
        <5>1. m.t # "size"
          <6> SUFFICES ASSUME m.t = "size" PROVE FALSE
            OBVIOUS
          <6>1. 1 \in 1..Len(up[b])
            BY <1>0
          <6>2. size < m.v /\ m.v <= sizes
            BY <1>1, <1>2, <6>1 DEF Typing, Later, Upto
          <6>3. size \in Nat /\ sizes \in Nat
            BY <1>1, UpTypes
          <6> HIDE DEF m
          <6> QED BY <2>8, <4>2, <6>2, <6>3
        <5> QED BY <2>1, <4>2, <5>1
      <4>3. CASE \E i \in 1..Len(up[b]) : up[b][i] = Size(sizes)
        <5>1. m = Size(sizes) \/ \E i \in 1..Len(Tail(up[b])) : Tail(up[b])[i] = Size(sizes)
          BY <1>0, <4>3, CarriesTail
        <5>2. m = Size(sizes) => size' = sizes
          BY <2>1 DEF Size
        <5> QED BY <1>5, <3>2, <5>1, <5>2
      <4> QED BY <4>1, <4>2, <4>3
    <3>4. ASSUME agent = "running", NEW k \in 1..keys
          PROVE  Has(typed', k) \/ Has(queued, k) \/ Carries(up'[gen], k)
      <4>1. Has(typed, k) \/ Has(queued, k) \/ Carries(up[b], k)
        BY <1>1, <3>1, <3>2, <3>4 DEF Kept
      <4>2. Carries(up[b], k) => (m.t = "keys" /\ Has(m.ks, k)) \/ Carries(Tail(up[b]), k)
        BY <1>0, CarriesTail
      <4>3. typed \in Seq(Nat) /\ (m.t = "keys" => m.ks \in Seq(Nat))
        BY <1>1, <2>7, UpTypes, RemoteAssumption, SMTT(30)
      <4>4. CASE m.t = "keys"
        <5>1. typed' = typed \o m.ks
          BY <2>1, <3>4, <4>4
        <5>2. Has(typed, k) \/ Has(m.ks, k) => Has(typed', k)
          BY <4>3, <4>4, <5>1, HasJoin
        <5> QED BY <1>5, <3>2, <4>1, <4>2, <5>2
      <4>5. CASE m.t # "keys"
        BY <1>5, <2>1, <3>2, <4>1, <4>2, <4>5
      <4> QED BY <4>4, <4>5
    <3>5. /\ gen <= 1 /\ (pump = "connect" => gen = None) /\ (pump = "read" => open[gen])
          /\ ctl \in {None, gen} /\ (queuedSize # 0 => queuedSize = sizes)
      BY <1>1, <3>1 DEF Kept
    <3> QED BY <1>3, <2>1, <3>2, <3>3, <3>4, <3>5 DEF Kept, Size
  <2> QED BY <2>6, <2>9, <2>10, <2>11, <2>12, <2>13 DEF RemoteIInv
<1>9. CASE ep[b] = epoch /\ m.t = "keys" /\ RefuseInput(b)
  <2>1. /\ refused' = TRUE /\ open' = [open EXCEPT ![b] = FALSE] /\ ctl' = None
        /\ UNCHANGED <<typed, size, seq>>
    BY <1>9 DEF RefuseInput
  <2>2. PICK p \in Prefixes(down[b]) :
          \E notice \in {<<>>, <<Error(TRUE)>>} : down' = Sent(b, p \o notice)
    BY <1>9 DEF RefuseInput
  <2> DEFINE w == Error(TRUE)
  <2>3. w \in DownMessages /\ w.t = "error"
    BY Constructed DEF Error
  <2>4. p \in Seq(DownMessages)
    BY <1>4, PrefixIs
  <2>5. p \o <<>> = p /\ p \o <<w>> = Append(p, w) /\ Append(p, w) \in Seq(DownMessages)
    <3> HIDE DEF w
    <3> QED BY <2>3, <2>4, AppendIs
  <2>6. \/ ~open[b] /\ down' = down
        \/ open[b] /\ down' = [down EXCEPT ![b] = p]
        \/ open[b] /\ down' = [down EXCEPT ![b] = Append(p, w)]
    <3>1. PICK n \in {<<>>, <<w>>} : down' = Sent(b, p \o n)
      BY <2>2
    <3>2. CASE n = <<>>
      BY <2>5, <3>1, <3>2 DEF Sent
    <3>3. CASE n = <<w>>
      <4> HIDE DEF w
      <4> QED BY <2>5, <3>1, <3>3 DEF Sent
    <3> QED BY <3>2, <3>3
  <2> HIDE DEF w
  <2>7. down' \in [Bridges -> Seq(DownMessages)] /\ \A c \in Bridges : c # b => down'[c] = down[c]
    BY <1>4, <2>4, <2>5, <2>6
  <2>8. open' \in [Bridges -> BOOLEAN] /\ (\A c \in Bridges : open'[c] => open[c]) /\ ~open'[b]
    BY <1>4, <2>1
  <2>9. Lines' /\ Epochs' /\ Greeted' /\ Pumped' /\ Real' /\ LogComplete' /\ PumpType' /\ ViewType'
          /\ UserType'
    <3>1. \A c \in Bridges : ep[c] = 0 => down'[c] = <<>>
      BY <1>1, <1>2, <2>7 DEF Greeted, Lines
    <3>2. \A c \in Bridges : (open'[c] => open[c]) /\ (c # gen \/ pump # "read" => down'[c] = down[c])
      BY <1>6, <2>6, <2>7, <2>8
    <3>3. ctl' \in {ctl, None} /\ up[ctl] # <<>> /\ up' = [up EXCEPT ![ctl] = Tail(up[ctl])]
      BY <1>0, <1>2, <2>1
    <3> QED BY <1>1, <1>2, <1>3, <2>1, <3>1, <3>2, <3>3, ReadFrame
  <2>10. RType'
    <3>1. HolderType'
      BY <1>1, <1>3, <2>1 DEF RType, HolderType
    <3>2. WireType'
      BY <1>5, <2>7, <2>8 DEF WireType
    <3> QED BY <2>9, <3>1, <3>2 DEF RType
  <2>11. Typing'
    <3>1. m = up[ctl][1] /\ up[ctl] # <<>> /\ up' = [up EXCEPT ![ctl] = Tail(up[ctl])]
      BY <1>0, <1>2
    <3>2. m.t # "size"
      BY <1>9
    <3> HIDE DEF m
    <3> QED BY <1>1, <1>2, <1>3, <2>1, <3>1, <3>2, TypingRead
  <2>12. Tip' /\ Kept'
    BY <2>1, <2>9, NoTip DEF Kept, Whole
  <2>13. pump = "read" => gen \in Bridges
    BY <1>1 DEF Lines, RType, PumpType, None
  <2>14. Agreed'
    <3> SUFFICES ASSUME pump = "read" PROVE Signed(down'[gen], ep[gen])
      BY <1>1, <1>3, <2>8, <2>13 DEF Agreed
    <3>1. Signed(down[gen], ep[gen]) /\ down[gen] \in Seq(DownMessages)
      BY <1>1, <1>4, <2>13 DEF Agreed
    <3>2. CASE down'[gen] = down[gen]
      BY <3>1, <3>2
    <3>3. CASE b = gen /\ down'[gen] \in {p, Append(p, w)}
      <4>1. Signed(p, ep[gen])
        BY <3>1, <3>3, SignedPrefix
      <4>2. Signed(Append(p, w), ep[gen])
        BY <2>3, <2>4, <4>1, SignedAppend
      <4> QED BY <3>3, <4>1, <4>2
    <3> QED BY <1>4, <1>6, <2>6, <2>13, <3>2, <3>3
  <2>15. Stream'
    <3>1. CASE down' = down
      BY <1>1, <1>3, <3>1, StreamStays
    <3>2. CASE open[b] /\ down' # down
      <4>1. b = gen /\ gen \in Bridges /\ pump = "read" /\ open[gen] /\ ctl = gen
        BY <1>2, <1>6, <3>2
      <4>2. granted = TRUE /\ hello = TRUE
        <5>1. ep[gen] # 0 /\ up[gen] # <<>>
          BY <1>0, <1>1, <1>2, <4>1 DEF Lines
        <5> QED BY <1>1, <4>1, <5>1 DEF Quiet, Pumped, RType, PumpType
      <4>3. /\ StreamPart(down[gen], hello, granted, agent, offset, tail, skipped, display, mirror)
            /\ NumsUpto(down[gen], granted, mirror, seq)
        BY <1>1, <4>1 DEF Stream, Tip, TipPart
      <4>4. /\ down[gen] \in Seq(DownMessages) /\ offset \in Nat /\ tail \in Nat
            /\ mirror \in [seq : Nat, at : Int] /\ seq \in Nat
        BY <1>1, <4>1, StreamFacts
      <4>5. /\ StreamPart(p, hello, granted, agent, offset, tail, skipped, display, mirror)
            /\ NumsUpto(p, granted, mirror, seq)
        <5>1. Len(p) <= Len(down[gen]) /\ \A i \in 1..Len(p) : p[i] = down[gen][i]
          BY <4>1, <4>4, PrefixIs
        <5> QED BY <2>4, <4>1, <4>3, <4>4, <5>1, PartPrefix, NumsPrefix
      <4>6. Live(p, granted, Len(p))
        BY <4>2 DEF Live
      <4>7. StreamPart(Append(p, w), hello, granted, agent, offset, tail, skipped, display, mirror)
        BY <2>3, <2>4, <4>2, <4>4, <4>5, <4>6, PushOther
      <4>8. down'[gen] \in {p, Append(p, w)}
        BY <1>4, <2>6, <3>2, <4>1
      <4> QED BY <1>3, <4>1, <4>5, <4>7, <4>8 DEF Stream
    <3> QED BY <2>6, <3>1, <3>2
  <2> QED BY <2>9, <2>10, <2>11, <2>12, <2>14, <2>15 DEF RemoteIInv
<1> QED
  <2>1. ep[b] = epoch =>
          \/ /\ typed' = IF m.t = "keys" /\ agent = "running" THEN typed \o m.ks ELSE typed
             /\ size' = IF m.t = "size" THEN m.v ELSE size
             /\ seq' = IF m.t = "size" THEN seq + 1 ELSE seq
             /\ down' = IF m.t = "size" THEN Sent(b, down[b] \o <<Snap(seq + 1, tail)>>) ELSE down
             /\ UNCHANGED <<open, ctl, refused>>
          \/ m.t = "keys" /\ RefuseInput(b)
    <3> HIDE DEF m
    <3> QED BY <1>m DEF HandleMessage
  <2> QED BY <1>7, <1>8, <1>9, <2>1

-----------------------------------------------------------------------------
(* The pump reads.                                                         *)

\* The pump takes the first message: what the views show is what it says.
Popped ==
  /\ pump = "read" /\ gen \in Bridges /\ down[gen] # <<>> /\ down' = [down EXCEPT ![gen] = Tail(down[gen])]
  /\ UNCHANGED <<open, pump, retries, ending, agentVars, gridVars, connVars, gen, userVars, faultVars>>
Seen ==
  /\ hello' = TRUE
  /\ granted' = IF down[gen][1].t = "granted" THEN TRUE ELSE granted
  /\ offset' = IF down[gen][1].t = "out" THEN down[gen][1].at + 1 ELSE offset
  /\ Live(down[gen], granted, 1) =>
       display' = IF Content(down[gen], 1) THEN Shows(down[gen], display, 1) ELSE display
  /\ mirror' \in [seq : Nat, at : Int]
  /\ Live(down[gen], granted, 1) =>
       IF IsUpdate(down[gen], 1)
       THEN mirror'.seq = Num(down[gen], mirror, 1) /\ mirror'.at = Covers(down[gen], mirror, 1)
       ELSE mirror' = mirror

\* What holds after it, whatever the message was.
LEMMA PoppedFrame ==
  ASSUME RType, Lines, Epochs, Greeted, Agreed, Stream, Tip, Real, Popped, Seen,
         \A b \in Bridges : \/ up'[b] = up[b]
                            \/ b = gen /\ \A i \in 1..Len(up'[b]) : up'[b][i].t # "hello"
  PROVE  /\ HolderType' /\ UserType' /\ Lines' /\ Epochs' /\ Greeted' /\ Stream' /\ Tip' /\ Real'
         /\ down' \in [Bridges -> Seq(DownMessages)] /\ Signed(down'[gen], ep[gen]) /\ ep[gen] # 0
<1> USE DEF agentVars, gridVars, connVars, userVars, faultVars
<1>1. pump = "read" /\ gen \in Bridges /\ down[gen] # <<>>
  BY DEF Popped
<1>2. /\ down[gen] \in Seq(DownMessages) /\ offset \in Nat /\ tail \in Nat /\ offset <= tail
      /\ mirror \in [seq : Nat, at : Int] /\ seq \in Nat /\ base \in Nat /\ base <= tail
      /\ hello \in BOOLEAN /\ granted \in BOOLEAN /\ tail \in 0..MaxOut
  BY <1>1, StreamFacts
<1>3. down \in [Bridges -> Seq(DownMessages)] /\ Tail(down[gen]) \in Seq(DownMessages)
  BY <1>1, <1>2, TailIs DEF RType, WireType
<1>4. /\ down' \in [Bridges -> Seq(DownMessages)] /\ down'[gen] = Tail(down[gen])
      /\ \A b \in Bridges : b # gen => down'[b] = down[b]
  BY <1>1, <1>3 DEF Popped
<1>5. UNCHANGED <<open, pump, retries, ending, agentVars, gridVars, connVars, gen, userVars, faultVars>>
  BY DEF Popped
<1>6. ep[gen] # 0
  BY <1>1 DEF Greeted
<1>7. Lines'
  <2>1. \A b \in Bridges : b > gen => up'[b] = up[b]
    <3>1. gen \in Int /\ \A b \in Bridges : b \in Int
      BY <1>1 DEF Bridges
    <3>2. \A b \in Bridges : b > gen => b # gen
      BY <3>1
    <3> QED BY <3>2
  <2> QED BY <1>1, <1>4, <1>5, <2>1 DEF Lines
<1>8. Greeted'
  <2> SUFFICES ASSUME NEW b \in Bridges
               PROVE  /\ ep[b] = 0 => up'[b] = <<>> \/ \E off \in 0..tail : up'[b] = <<Hello(off)>>
                      /\ ep[b] = 0 => down'[b] = <<>>
                      /\ ep[b] # 0 => \A i \in 1..Len(up'[b]) : up'[b][i].t # "hello"
                      /\ b = gen /\ pump = "read" /\ ep[b] = 0 /\ up'[b] # <<>> => up'[b][1].off = offset'
    BY <1>5 DEF Greeted, Hello
  <2>1. CASE b = gen
    BY <1>6, <2>1 DEF Greeted
  <2>2. CASE b # gen
    BY <1>4, <2>2 DEF Greeted
  <2> QED BY <2>1, <2>2
<1>9. Signed(down'[gen], ep[gen])
  <2>1. /\ Len(down[gen]) \in Nat /\ Len(Tail(down[gen])) = Len(down[gen]) - 1
        /\ \A i \in 1..Len(Tail(down[gen])) : Tail(down[gen])[i] = down[gen][i + 1]
    BY <1>1, <1>2, TailIs
  <2>2. Signed(down[gen], ep[gen])
    BY <1>1 DEF Agreed
  <2>3. \A i \in 1..Len(Tail(down[gen])) : i + 1 \in 1..Len(down[gen])
    BY <2>1
  <2> QED BY <1>4, <2>1, <2>2, <2>3 DEF Signed
<1>10. StreamPart(down[gen], hello, granted, agent, offset, tail, skipped, display, mirror)
  BY <1>1 DEF Stream
<1>11. /\ hello' = TRUE
       /\ granted' = IF down[gen][1].t = "granted" THEN TRUE ELSE granted
       /\ offset' = IF down[gen][1].t = "out" THEN down[gen][1].at + 1 ELSE offset
       /\ Live(down[gen], granted, 1) =>
            display' = IF Content(down[gen], 1) THEN Shows(down[gen], display, 1) ELSE display
       /\ mirror' \in [seq : Nat, at : Int]
       /\ Live(down[gen], granted, 1) =>
            IF IsUpdate(down[gen], 1)
            THEN mirror'.seq = Num(down[gen], mirror, 1) /\ mirror'.at = Covers(down[gen], mirror, 1)
            ELSE mirror' = mirror
  BY DEF Seen
<1>12. /\ StreamPart(Tail(down[gen]), hello', granted', agent, offset', tail, skipped, display', mirror')
       /\ \A dr : \A sq, bs \in Nat :
            TipPart(down[gen], hello, granted, offset, tail, skipped, display, mirror, sq, bs, dr) =>
            TipPart(Tail(down[gen]), hello', granted', offset', tail, skipped, display', mirror', sq, bs, dr)
  <2>1. Popping(down[gen], hello, hello', granted, granted', agent, offset, offset', tail, skipped,
                display, display', mirror, mirror')
    BY <1>1, <1>2, <1>10, <1>11 DEF Popping
  <2> QED BY <2>1, PopParts
<1>13. Stream'
  BY <1>4, <1>5, <1>12 DEF Stream
<1>14. Tip'
  <2>1. open[gen] /\ ctl = gen =>
          TipPart(down[gen], hello, granted, offset, tail, skipped, display, mirror, seq, base, dirty)
    BY <1>1 DEF Tip
  <2>2. open[gen] /\ ctl = gen =>
          TipPart(Tail(down[gen]), hello', granted', offset', tail, skipped, display', mirror', seq, base,
                  dirty)
    BY <1>2, <1>12, <2>1
  <2> QED BY <1>4, <1>5, <2>2 DEF Tip
<1>15. HolderType' /\ UserType' /\ Epochs' /\ Real'
  <2>1. skipped' \in BOOLEAN
    BY <1>5 DEF RType, UserType
  <2> QED BY <1>5, <2>1, HolderTypeStays, UserTypeStays, EpochsStays, RealStays DEF RType
<1> QED BY <1>4, <1>6, <1>7, <1>8, <1>9, <1>13, <1>14, <1>15

\* A message that only concerns the views.
LEMMA ViewKeeps ==
  ASSUME RemoteIInv, Popped, Seen, hello, UNCHANGED <<up, writerVars, hello, granted>>, ViewType',
         LogComplete'
  PROVE  RemoteIInv'
<1> USE DEF agentVars, gridVars, connVars, userVars, faultVars, writerVars
<1>1. /\ RType /\ Lines /\ Epochs /\ Greeted /\ Pumped /\ Agreed /\ Stream /\ Tip
      /\ Typing /\ Kept /\ Real /\ LogComplete
  BY DEF RemoteIInv
<1>2. /\ HolderType' /\ UserType' /\ Lines' /\ Epochs' /\ Greeted' /\ Stream' /\ Tip' /\ Real'
      /\ down' \in [Bridges -> Seq(DownMessages)] /\ Signed(down'[gen], ep[gen]) /\ ep[gen] # 0
  BY <1>1, PoppedFrame
<1>3. UNCHANGED <<open, pump, retries, ending, agentVars, gridVars, connVars, gen, userVars, faultVars>>
  BY DEF Popped
<1>4. WireType' /\ PumpType'
  BY <1>1, <1>2, <1>3, PumpTypeStays DEF RType, WireType, pumpVars
<1>5. Pumped' /\ Typing' /\ Kept'
  BY <1>1, <1>3, PumpedStays, TypingStays, KeptStays
<1>6. Agreed'
  BY <1>1, <1>2, <1>3 DEF Agreed
<1> QED BY <1>2, <1>4, <1>5, <1>6 DEF RemoteIInv, RType

\* The session is held for ended: nothing is read any more.
LEMMA EndedKeeps ==
  ASSUME RemoteIInv, pump = "read", gen \in Bridges, NEW how, End(how),
         (how = "exited" /\ agent # "running") \/ (how = "failed" /\ refused),
         UNCHANGED <<queued, queuedSize, viewVars, agentVars, gridVars, connVars, gen, userVars, faultVars>>
  PROVE  RemoteIInv'
<1> USE DEF agentVars, userVars, faultVars, viewVars
<1>1. /\ RType /\ Lines /\ Epochs /\ Greeted /\ Pumped /\ Agreed /\ Stream /\ Tip
      /\ Typing /\ Kept /\ Real /\ LogComplete
  BY DEF RemoteIInv
<1>2. Disconnect /\ ending' = how /\ pump' = "ended" /\ UNCHANGED <<hello, granted, retries>>
  BY DEF End
<1>3. /\ HolderType' /\ WireType' /\ Lines' /\ Epochs' /\ Greeted' /\ Agreed' /\ Stream' /\ Tip' /\ Typing'
      /\ wep' = 0 /\ input' = FALSE
  BY <1>1, <1>2, Disconnected
<1>4. PumpType'
  <2>1. 0 \in 0..MaxBridge
    BY RemoteAssumption
  <2>2. PumpType /\ input' \in BOOLEAN /\ hello' \in BOOLEAN /\ granted' \in BOOLEAN
    BY <1>1, <1>2, <1>3 DEF RType, PumpType
  <2> QED BY <1>2, <1>3, <2>1, <2>2 DEF PumpType
<1>5. ViewType'
  <2>1. tail \in Nat
    BY <1>1, RemoteAssumption DEF RType, HolderType
  <2> QED BY <1>1, <2>1, ViewTypeStays DEF RType
<1>6. UserType'
  BY <1>1, <1>2 DEF RType, UserType
<1>7. Pumped' /\ Real' /\ Kept'
  BY <1>1, <1>2, <1>3 DEF Pumped, Real, Kept, Whole
<1>8. LogComplete'
  BY <1>1, LogStays
<1> QED BY <1>3, <1>4, <1>5, <1>6, <1>7, <1>8 DEF RType, RemoteIInv

\* The first message, and what the stream says of it.
LEMMA FirstMessage ==
  ASSUME RemoteIInv, pump = "read", down[gen] # <<>>
  PROVE  /\ gen \in Bridges /\ Head(down[gen]) = down[gen][1] /\ down[gen][1] \in DownMessages
         /\ down[gen] \in Seq(DownMessages) /\ 1 \in 1..Len(down[gen]) /\ Len(down[gen]) \in Nat
         /\ Form(down[gen], hello, granted) /\ Ends(down[gen], agent) /\ Chunks(down[gen], offset, tail)
         /\ skipped = FALSE => NoGap(down[gen], offset)
         /\ Screens(down[gen], granted, display, tail) /\ Grids(down[gen], granted, mirror, tail)
<1>1. RType /\ Lines /\ Stream
  BY DEF RemoteIInv
<1>2. gen \in Bridges
  BY <1>1 DEF Lines, RType, PumpType, None
<1>3. down[gen] \in Seq(DownMessages)
  BY <1>1, <1>2 DEF RType, WireType
<1>4. StreamPart(down[gen], hello, granted, agent, offset, tail, skipped, display, mirror)
  BY <1>1 DEF Stream
<1>5. /\ Form(down[gen], hello, granted) /\ Ends(down[gen], agent) /\ Chunks(down[gen], offset, tail)
      /\ skipped = FALSE => NoGap(down[gen], offset)
      /\ Screens(down[gen], granted, display, tail) /\ Grids(down[gen], granted, mirror, tail)
  BY <1>4 DEF StreamPart
<1>6. Head(down[gen]) = down[gen][1] /\ down[gen][1] \in DownMessages /\ Len(down[gen]) \in Nat
        /\ Len(down[gen]) >= 1
  BY <1>3, TailIs
<1>7. 1 \in 1..Len(down[gen])
  BY <1>6
<1> QED BY <1>2, <1>3, <1>5, <1>6, <1>7

\* A chunk of output.
LEMMA OutKeeps ==
  ASSUME RemoteIInv, Popped, hello, UNCHANGED <<up, writerVars, hello, granted, first, mirror>>,
         NEW m, m = down[gen][1], m.t = "out", ApplyOutput(m.at)
  PROVE  RemoteIInv'
<1>1. pump = "read" /\ down[gen] # <<>>
  BY DEF Popped
<1>2. /\ gen \in Bridges /\ Head(down[gen]) = down[gen][1] /\ down[gen][1] \in DownMessages
      /\ down[gen] \in Seq(DownMessages) /\ 1 \in 1..Len(down[gen]) /\ Len(down[gen]) \in Nat
      /\ Form(down[gen], hello, granted) /\ Ends(down[gen], agent) /\ Chunks(down[gen], offset, tail)
      /\ skipped = FALSE => NoGap(down[gen], offset)
      /\ Screens(down[gen], granted, display, tail) /\ Grids(down[gen], granted, mirror, tail)
  BY <1>1, FirstMessage
<1>3. RType /\ LogComplete
  BY DEF RemoteIInv
<1>4. /\ offset \in Nat /\ tail \in Nat /\ offset <= tail /\ mirror \in [seq : Nat, at : Int]
      /\ hello \in BOOLEAN
  BY <1>1, <1>2, <1>3, StreamFacts
<1>5. m.at \in Nat /\ offset <= m.at /\ m.at < tail
  <2>1. m.at \in Nat
    BY <1>2, DownFields
  <2> QED BY <1>2, <2>1 DEF Chunks
<1>6. /\ offset' = m.at + 1 /\ log' = Append(log, m.at)
      /\ display' = IF m.at = display THEN m.at + 1 ELSE Garbled
      /\ saved' = IF Max2(offset, m.at + 1) - saved >= PersistEvery THEN Max2(offset, m.at + 1) ELSE saved
  <2>1. ~(m.at < offset)
    BY <1>4, <1>5
  <2> QED BY <2>1 DEF ApplyOutput
<1>7. Live(down[gen], granted, 1) => display' = m.at + 1
  <2> HAVE Live(down[gen], granted, 1)
  <2>1. m.at = display
    BY <1>1, <1>2, HeadOut
  <2> QED BY <1>6, <2>1
<1>8. Content(down[gen], 1) /\ Shows(down[gen], display, 1) = m.at + 1 /\ ~IsUpdate(down[gen], 1)
  BY DEF Content, Shows, IsUpdate
<1>9. Seen
  <2>1. hello' = TRUE
    BY <1>4
  <2>2. down[gen][1].t # "granted" /\ down[gen][1].t = "out"
    OBVIOUS
  <2> QED BY <1>4, <1>6, <1>7, <1>8, <2>1, <2>2 DEF Seen
<1>10. ViewType'
  <2>1. /\ saved \in 0..offset /\ first \in 0..offset /\ mirror.at \in 0..tail \cup {Garbled}
    BY <1>3 DEF RType, ViewType
  <2>2. Max2(offset, m.at + 1) = m.at + 1
    BY <1>4, <1>5 DEF Max2
  <2>3. offset' \in 0..tail /\ first' \in 0..offset'
    BY <1>4, <1>5, <1>6, <2>1, SMTT(30)
  <2>4. saved' \in 0..offset'
    <3>1. saved' = m.at + 1 \/ saved' = saved
      BY <1>6, <2>2
    <3>2. offset' = m.at + 1 /\ saved \in Nat /\ saved <= m.at + 1
      BY <1>4, <1>5, <1>6, <2>1
    <3>3. m.at + 1 \in 0..m.at + 1 /\ saved \in 0..m.at + 1
      BY <1>5, <3>2
    <3> QED BY <3>1, <3>2, <3>3
  <2>5. display' \in 0..tail \cup {Garbled}
    BY <1>4, <1>5, <1>6
  <2>6. tail' = tail
    BY DEF Popped, agentVars
  <2> QED BY <1>4, <2>1, <2>3, <2>4, <2>5, <2>6 DEF ViewType
<1>11. LogComplete'
  <2> SUFFICES ASSUME ~skipped' PROVE log' = Numbers(first', offset')
    BY DEF LogComplete, Numbers
  <2>1. ~skipped /\ skipped = FALSE
    BY <1>3 DEF Popped, faultVars, RType, UserType
  <2>2. m.at = offset
    <3>1. (1 - 1) = 0 /\ \A n \in offset..m.at - 1 : \E j \in 1..0 : down[gen][j].t = "out"
            /\ down[gen][j].at = n
      BY <1>2, <2>1 DEF NoGap
    <3> QED BY <1>4, <1>5, <3>1
  <2>3. log = Numbers(first, offset) /\ first \in Nat /\ first <= offset /\ first' = first
    BY <1>3, <1>4, <2>1 DEF LogComplete, RType, ViewType
  <2>4. Append(Numbers(first, offset), offset) = Numbers(first, offset + 1)
    BY <1>4, <2>3, NumbersNext
  <2> QED BY <1>6, <2>2, <2>3, <2>4
<1> QED BY <1>9, <1>10, <1>11, ViewKeeps

\* A snapshot.
LEMMA SnapKeeps ==
  ASSUME RemoteIInv, Popped, hello, UNCHANGED <<up, writerVars, hello, granted, offset, saved, log, first>>,
         NEW m, m = down[gen][1], m.t = "snap", display' = m.at, mirror' = [seq |-> m.seq, at |-> m.at]
  PROVE  RemoteIInv'
<1>1. pump = "read" /\ down[gen] # <<>>
  BY DEF Popped
<1>2. /\ gen \in Bridges /\ down[gen][1] \in DownMessages /\ 1 \in 1..Len(down[gen])
      /\ Screens(down[gen], granted, display, tail)
  BY <1>1, FirstMessage
<1>3. RType /\ LogComplete
  BY DEF RemoteIInv
<1>4. tail \in Nat /\ hello \in BOOLEAN
  BY <1>1, <1>2, <1>3, StreamFacts
<1>5. m.at \in Nat /\ m.seq \in Nat /\ m.at <= tail
  <2>1. m.at \in Nat /\ m.seq \in Nat
    BY <1>2, DownFields
  <2> QED BY <1>2, <2>1 DEF Screens
<1>6. /\ Content(down[gen], 1) /\ Shows(down[gen], display, 1) = m.at /\ IsUpdate(down[gen], 1)
      /\ Num(down[gen], mirror, 1) = m.seq /\ Covers(down[gen], mirror, 1) = m.at
  BY DEF Content, Shows, IsUpdate, Num, Covers
<1>7. mirror' \in [seq : Nat, at : Int] /\ mirror'.seq = m.seq /\ mirror'.at = m.at
  BY <1>5
<1>8. Seen
  <2>1. hello' = TRUE
    BY <1>4
  <2>2. down[gen][1].t # "granted" /\ down[gen][1].t # "out"
    OBVIOUS
  <2> QED BY <1>6, <1>7, <2>1, <2>2 DEF Seen
<1>9. ViewType'
  <2>1. tail' = tail
    BY DEF Popped, agentVars
  <2>2. m.at \in 0..tail
    BY <1>4, <1>5
  <2> QED BY <1>3, <1>7, <2>1, <2>2 DEF RType, ViewType
<1>10. LogComplete'
  BY <1>3, LogStays DEF Popped, faultVars
<1> QED BY <1>8, <1>9, <1>10, ViewKeeps

\* A delta: the Holder sends it right behind what it builds on.
LEMMA DeltaKeeps ==
  ASSUME RemoteIInv, Popped, hello, UNCHANGED <<up, writerVars, hello, granted, offset, saved, log, first,
         display>>,
         NEW m, m = down[gen][1], m.t = "delta", mirror' = Apply(m)
  PROVE  RemoteIInv'
<1>1. pump = "read" /\ down[gen] # <<>>
  BY DEF Popped
<1>2. /\ gen \in Bridges /\ down[gen][1] \in DownMessages /\ 1 \in 1..Len(down[gen])
      /\ down[gen] \in Seq(DownMessages) /\ Form(down[gen], hello, granted)
      /\ Screens(down[gen], granted, display, tail) /\ Grids(down[gen], granted, mirror, tail)
  BY <1>1, FirstMessage
<1>3. RType /\ LogComplete
  BY DEF RemoteIInv
<1>4. tail \in Nat /\ hello \in BOOLEAN
  BY <1>1, <1>2, <1>3, StreamFacts
<1>5. m.at \in Nat /\ m.seq \in Nat /\ m.at <= tail
  <2>1. m.at \in Nat /\ m.seq \in Nat
    BY <1>2, DownFields
  <2> QED BY <1>2, <2>1 DEF Screens
<1>6. mirror.at >= m.base
  BY <1>1, <1>2, HeadDelta
<1>7. mirror' = [seq |-> m.seq, at |-> m.at]
  BY <1>6 DEF Apply
<1>8. /\ ~Content(down[gen], 1) /\ IsUpdate(down[gen], 1)
      /\ Num(down[gen], mirror, 1) = m.seq /\ Covers(down[gen], mirror, 1) = m.at
  BY DEF Content, IsUpdate, Num, Covers
<1>9. mirror' \in [seq : Nat, at : Int] /\ mirror'.seq = m.seq /\ mirror'.at = m.at
  BY <1>5, <1>7
<1>10. Seen
  <2>1. hello' = TRUE
    BY <1>4
  <2>2. down[gen][1].t # "granted" /\ down[gen][1].t # "out"
    OBVIOUS
  <2> QED BY <1>8, <1>9, <2>1, <2>2 DEF Seen
<1>11. ViewType'
  <2>1. tail' = tail
    BY DEF Popped, agentVars
  <2>2. m.at \in 0..tail
    BY <1>4, <1>5
  <2> QED BY <1>3, <1>9, <2>1, <2>2 DEF RType, ViewType
<1>12. LogComplete'
  BY <1>3, LogStays DEF Popped, faultVars
<1> QED BY <1>10, <1>11, <1>12, ViewKeeps

\* A message that is only told to the user.
LEMMA ErrorKeeps ==
  ASSUME RemoteIInv, Popped, hello, UNCHANGED <<up, writerVars, hello, granted, viewVars>>,
         NEW m, m = down[gen][1], m.t = "error"
  PROVE  RemoteIInv'
<1> USE DEF viewVars
<1>1. pump = "read" /\ down[gen] # <<>>
  BY DEF Popped
<1>2. gen \in Bridges
  BY <1>1, FirstMessage
<1>3. RType /\ LogComplete
  BY DEF RemoteIInv
<1>4. tail \in Nat /\ hello \in BOOLEAN /\ mirror \in [seq : Nat, at : Int]
  BY <1>1, <1>2, <1>3, StreamFacts
<1>5. ~Content(down[gen], 1) /\ ~IsUpdate(down[gen], 1)
  BY DEF Content, IsUpdate
<1>6. Seen
  <2>1. hello' = TRUE
    BY <1>4
  <2>2. down[gen][1].t # "granted" /\ down[gen][1].t # "out"
    OBVIOUS
  <2> QED BY <1>4, <1>5, <2>1, <2>2 DEF Seen
<1>7. ViewType' /\ LogComplete'
  BY <1>3, <1>4, ViewTypeStays, LogStays DEF Popped, faultVars, agentVars, RType
<1> QED BY <1>6, <1>7, ViewKeeps

\* The handshake is answered: the writer learns its epoch.
LEMMA AckKeeps ==
  ASSUME RemoteIInv, Popped, ~hello, hello' = TRUE, NEW m, m = down[gen][1], m.t = "ack", wep' = m.e,
         UNCHANGED <<input, up, granted, queued, queuedSize, viewVars>>
  PROVE  RemoteIInv'
<1> USE DEF viewVars
<1>1. pump = "read" /\ down[gen] # <<>>
  BY DEF Popped
<1>2. gen \in Bridges /\ down[gen][1] \in DownMessages /\ 1 \in 1..Len(down[gen])
  BY <1>1, FirstMessage
<1>3. /\ RType /\ Lines /\ Epochs /\ Greeted /\ Pumped /\ Agreed /\ Stream /\ Tip
      /\ Typing /\ Kept /\ Real /\ LogComplete
  BY DEF RemoteIInv
<1>4. tail \in Nat /\ mirror \in [seq : Nat, at : Int]
  BY <1>1, <1>2, <1>3, StreamFacts
<1>5. ~Content(down[gen], 1) /\ ~IsUpdate(down[gen], 1)
  BY DEF Content, IsUpdate
<1>6. Seen
  <2>1. down[gen][1].t # "granted" /\ down[gen][1].t # "out"
    OBVIOUS
  <2> QED BY <1>4, <1>5, <2>1 DEF Seen
<1>7. /\ HolderType' /\ UserType' /\ Lines' /\ Epochs' /\ Greeted' /\ Stream' /\ Tip' /\ Real'
      /\ down' \in [Bridges -> Seq(DownMessages)] /\ Signed(down'[gen], ep[gen]) /\ ep[gen] # 0
  BY <1>3, <1>6, PoppedFrame
<1>8. UNCHANGED <<open, pump, retries, ending, agentVars, gridVars, connVars, gen, userVars, faultVars>>
  BY DEF Popped
<1>9. m.e = ep[gen] /\ m.e \in 0..MaxBridge
  BY <1>1, <1>2, <1>3, DownFields DEF Agreed, Signed
<1>10. input /\ ~granted
  BY <1>1, <1>3 DEF Pumped
<1>11. PumpType'
  <2>1. hello' \in BOOLEAN /\ granted' \in BOOLEAN /\ input' \in BOOLEAN
    BY <1>3 DEF RType, PumpType
  <2> QED BY <1>3, <1>8, <1>9, <2>1 DEF RType, PumpType
<1>12. WireType'
  BY <1>3, <1>7, <1>8 DEF RType, WireType
<1>13. ViewType' /\ LogComplete'
  BY <1>3, <1>4, <1>8, ViewTypeStays, LogStays DEF faultVars, agentVars, RType
<1>14. Typing' /\ Kept'
  BY <1>3, <1>8, TypingStays, KeptStays DEF connVars, userVars, faultVars, agentVars
<1>15. Pumped'
  BY <1>1, <1>7, <1>8, <1>10 DEF Pumped, connVars
<1>16. Agreed'
  BY <1>3, <1>7, <1>8, <1>9, <1>10 DEF Agreed, connVars
<1> QED BY <1>7, <1>11, <1>12, <1>13, <1>14, <1>15, <1>16 DEF RemoteIInv, RType

\* What may be under way to the Holder.
Fit(u, qd, ks, vs) == /\ u \in Seq(UpMessages) /\ Ordered(u) /\ Upto(u, ks, vs) /\ Earlier(u, qd)

\* The size that waited goes out, ...
LEMMA SizeGoes ==
  ASSUME NEW u, NEW qd, NEW ks, NEW vs, NEW v \in 1..MaxAsks, Fit(u, qd, ks, vs), SizesBefore(u, v), v <= vs,
         NEW ty, NEW sz, sz < v
  PROVE  /\ Fit(Append(u, Size(v)), qd, ks, vs)
         /\ Later(u, ty, sz) => Later(Append(u, Size(v)), ty, sz)
<1> DEFINE m == Size(v)
<1>1. m \in UpMessages /\ m.t = "size" /\ m.v = v /\ m.t # "keys"
  BY DEF UpMessages, Size
<1> HIDE DEF m
<1>2. u \in Seq(UpMessages) /\ Ordered(u) /\ Upto(u, ks, vs) /\ Earlier(u, qd)
  BY DEF Fit
<1>3. Append(u, m) \in Seq(UpMessages)
  BY <1>1, <1>2, AppendIs
<1>4. Ordered(Append(u, m))
  BY <1>1, <1>2, UpAppend
<1>5. Upto(Append(u, m), ks, vs)
  BY <1>1, <1>2, UpAppend
<1>6. Earlier(Append(u, m), qd)
  BY <1>1, <1>2, UpAppend
<1>7. Later(u, ty, sz) => Later(Append(u, m), ty, sz)
  BY <1>1, <1>2, UpAppend
<1> QED BY <1>3, <1>4, <1>5, <1>6, <1>7 DEF Fit, m

\* ... and the keys behind it.
LEMMA KeysGo ==
  ASSUME NEW u, NEW qd \in Seq(1..MaxAsks), NEW ks, NEW vs, Fit(u, qd, ks, vs), Rising(qd), NotAfter(qd, ks),
         NEW ty, NEW sz, Before(ty, qd)
  PROVE  /\ Fit(Append(u, Keys(qd)), <<>>, ks, vs)
         /\ Later(u, ty, sz) => Later(Append(u, Keys(qd)), ty, sz)
<1> DEFINE m == Keys(qd)
<1>1. m \in UpMessages /\ m.t = "keys" /\ m.ks = qd /\ m.t # "size"
  BY DEF UpMessages, Keys
<1> HIDE DEF m
<1>2. u \in Seq(UpMessages) /\ Ordered(u) /\ Upto(u, ks, vs) /\ Earlier(u, qd)
  BY DEF Fit
<1>3. Append(u, m) \in Seq(UpMessages)
  BY <1>1, <1>2, AppendIs
<1>4. Ordered(Append(u, m))
  BY <1>1, <1>2, UpAppend
<1>5. Upto(Append(u, m), ks, vs)
  BY <1>1, <1>2, UpAppend
<1>6. Earlier(Append(u, m), <<>>)
  BY DEF Earlier, Before
<1>7. Later(u, ty, sz) => Later(Append(u, m), ty, sz)
  BY <1>1, <1>2, UpAppend
<1> QED BY <1>3, <1>4, <1>5, <1>6, <1>7 DEF Fit, m

\* All that waited, behind what is under way.
LEMMA WaitingGoes ==
  ASSUME RType, Typing, gen \in Bridges, NEW x, x = up[gen] \o Waiting
  PROVE  /\ Fit(x, <<>>, keys, sizes)
         /\ Later(up[gen], typed, size) => Later(x, typed, size)
         /\ (\A i \in 1..Len(up[gen]) : up[gen][i].t # "hello") => \A i \in 1..Len(x) : x[i].t # "hello"
         /\ \A k : Carries(up[gen], k) \/ Has(queued, k) => Carries(x, k)
         /\ \A s : (\E i \in 1..Len(up[gen]) : up[gen][i] = s) => \E i \in 1..Len(x) : x[i] = s
         /\ queuedSize # 0 => \E i \in 1..Len(x) : x[i] = Size(queuedSize)
<1> DEFINE u == up[gen]
           a == Size(queuedSize)
           b == Keys(queued)
           y == IF queuedSize # 0 THEN Append(u, a) ELSE u
           z == IF queued # <<>> THEN Append(y, b) ELSE y
<1>1. /\ queued \in Seq(1..MaxAsks) /\ queuedSize \in 0..MaxAsks /\ MaxAsks \in Nat /\ u \in Seq(UpMessages)
      /\ (queuedSize # 0 => queuedSize \in 1..MaxAsks) /\ size \in Nat
  <2>1. queued \in Seq(1..MaxAsks) /\ queuedSize \in 0..MaxAsks /\ MaxAsks \in Nat /\ u \in Seq(UpMessages)
    BY RemoteAssumption DEF RType, PumpType, WireType
  <2>2. size \in Nat
    BY UpTypes
  <2> QED BY <2>1, <2>2
<1>2. /\ queuedSize # 0 => a \in UpMessages
      /\ b \in UpMessages
  BY <1>1 DEF UpMessages, Size, Keys
<1>3. a.t = "size" /\ b.t = "keys" /\ b.ks = queued
  BY DEF Size, Keys
<1> HIDE DEF a, b, u
<1>4. y \in Seq(UpMessages)
  BY <1>1, <1>2, AppendIs
<1> HIDE DEF y
<1>5. x = z
  <2>1. Waiting = (IF queuedSize # 0 THEN <<a>> ELSE <<>>) \o (IF queued # <<>> THEN <<b>> ELSE <<>>)
    BY DEF Waiting, a, b
  <2>2. x = u \o Waiting
    BY DEF u
  <2>3. CASE queuedSize # 0 /\ queued # <<>>
    <3>1. x = u \o (<<a>> \o <<b>>)
      BY <2>1, <2>2, <2>3
    <3>2. a \in UpMessages /\ b \in UpMessages /\ <<a>> \in Seq(UpMessages) /\ <<b>> \in Seq(UpMessages)
      BY <1>2, <2>3
    <3>3. u \o (<<a>> \o <<b>>) = (u \o <<a>>) \o <<b>>
      BY <1>1, <3>2, ConcatAssociative
    <3>4. u \o <<a>> = Append(u, a) /\ Append(u, a) \in Seq(UpMessages)
      BY <1>1, <3>2, AppendIs
    <3>5. Append(u, a) \o <<b>> = Append(Append(u, a), b)
      BY <3>2, <3>4, AppendIs
    <3> QED BY <2>3, <3>1, <3>3, <3>4, <3>5 DEF y, z
  <2>4. CASE queuedSize # 0 /\ queued = <<>>
    <3>1. a \in UpMessages /\ <<a>> \in Seq(UpMessages) /\ <<a>> \o <<>> = <<a>>
      BY <1>2, <2>4
    <3>2. u \o <<a>> = Append(u, a)
      BY <1>1, <3>1, AppendIs
    <3> QED BY <2>1, <2>2, <2>4, <3>1, <3>2 DEF y, z
  <2>5. CASE queuedSize = 0 /\ queued # <<>>
    <3>1. b \in UpMessages /\ <<b>> \in Seq(UpMessages) /\ <<>> \o <<b>> = <<b>>
      BY <1>2, <2>5
    <3>2. u \o <<b>> = Append(u, b)
      BY <1>1, <3>1, AppendIs
    <3> QED BY <2>1, <2>2, <2>5, <3>1, <3>2 DEF y, z
  <2>6. CASE queuedSize = 0 /\ queued = <<>>
    <3>1. u \o (<<>> \o <<>>) = u
      BY <1>1
    <3> QED BY <2>1, <2>2, <2>6, <3>1 DEF y, z
  <2> QED BY <2>3, <2>4, <2>5, <2>6
<1>6. /\ Ordered(u) /\ Upto(u, keys, sizes) /\ Earlier(u, queued)
           /\ (queuedSize # 0 => SizesBefore(u, queuedSize))
      /\ Rising(queued) /\ NotAfter(queued, keys) /\ Before(typed, queued) /\ queuedSize <= sizes
      /\ queuedSize # 0 => size < queuedSize
  BY DEF Typing, u
<1>7. Fit(y, queued, keys, sizes) /\ (Later(u, typed, size) => Later(y, typed, size))
  <2>1. Fit(u, queued, keys, sizes)
    BY <1>1, <1>6 DEF Fit
  <2>2. CASE queuedSize = 0
    BY <2>1, <2>2 DEF y
  <2>3. CASE queuedSize # 0
    BY <1>1, <1>6, <2>1, <2>3, SizeGoes DEF y, a
  <2> QED BY <2>2, <2>3
<1>8. Fit(z, <<>>, keys, sizes) /\ (Later(u, typed, size) => Later(z, typed, size))
  <2>1. CASE queued = <<>>
    BY <1>7, <2>1
  <2>2. CASE queued # <<>>
    <3>1. /\ Fit(Append(y, Keys(queued)), <<>>, keys, sizes)
          /\ Later(y, typed, size) => Later(Append(y, Keys(queued)), typed, size)
      BY <1>1, <1>6, <1>7, KeysGo
    <3> QED BY <1>7, <2>2, <3>1 DEF b
  <2> QED BY <2>1, <2>2
<1>9. (\A i \in 1..Len(u) : u[i].t # "hello") => \A i \in 1..Len(z) : z[i].t # "hello"
  <2> HAVE \A i \in 1..Len(u) : u[i].t # "hello"
  <2>1. \A i \in 1..Len(y) : y[i].t # "hello"
    <3>1. CASE queuedSize = 0
      BY <3>1 DEF y
    <3>2. CASE queuedSize # 0
      <4>1. /\ Len(u) \in Nat /\ Len(y) = Len(u) + 1 /\ y[Len(u) + 1] = a
            /\ \A i \in 1..Len(u) : y[i] = u[i]
        BY <1>1, <1>2, <3>2, AppendIs DEF y
      <4>2. \A i \in 1..Len(y) : i \in 1..Len(u) \/ i = Len(u) + 1
        BY <4>1
      <4> QED BY <1>3, <4>1, <4>2
    <3> QED BY <3>1, <3>2
  <2>2. CASE queued = <<>>
    BY <2>1, <2>2
  <2>3. CASE queued # <<>>
    <3>1. /\ Len(y) \in Nat /\ Len(z) = Len(y) + 1 /\ z[Len(y) + 1] = b
          /\ \A i \in 1..Len(y) : z[i] = y[i]
      BY <1>2, <1>4, <2>3, AppendIs
    <3>2. \A i \in 1..Len(z) : i \in 1..Len(y) \/ i = Len(y) + 1
      BY <3>1
    <3> QED BY <1>3, <2>1, <3>1, <3>2
  <2> QED BY <2>2, <2>3
<1>10. /\ \A k : Carries(u, k) => Carries(y, k)
       /\ \A s : (\E i \in 1..Len(u) : u[i] = s) => \E i \in 1..Len(y) : y[i] = s
       /\ queuedSize # 0 => \E i \in 1..Len(y) : y[i] = a
  <2>1. CASE queuedSize = 0
    BY <2>1 DEF y
  <2>2. CASE queuedSize # 0
    BY <1>1, <1>2, <2>2, CarriesAppend DEF y
  <2> QED BY <2>1, <2>2
<1>11. /\ \A k : Carries(y, k) => Carries(z, k)
       /\ \A k : Has(queued, k) => Carries(z, k)
       /\ \A s : (\E i \in 1..Len(y) : y[i] = s) => \E i \in 1..Len(z) : z[i] = s
  <2>1. CASE queued = <<>>
    BY <2>1 DEF Has
  <2>2. CASE queued # <<>>
    BY <1>2, <1>3, <1>4, <2>2, CarriesAppend
  <2> QED BY <2>1, <2>2
<1> HIDE DEF z
<1>12. /\ \A k : Carries(u, k) \/ Has(queued, k) => Carries(z, k)
       /\ \A s : (\E i \in 1..Len(u) : u[i] = s) => \E i \in 1..Len(z) : z[i] = s
       /\ queuedSize # 0 => \E i \in 1..Len(z) : z[i] = a
  BY <1>10, <1>11
<1> QED BY <1>5, <1>8, <1>9, <1>12 DEF u, a

\* Control is granted, and what waited is written.
LEMMA GrantKeeps ==
  ASSUME RemoteIInv, Popped, hello, NEW m, m = down[gen][1], m.t = "granted",
         up' = IF open[gen] THEN [up EXCEPT ![gen] = up[gen] \o Waiting] ELSE up,
         queued' = <<>>, queuedSize' = 0, granted' = TRUE, UNCHANGED <<input, wep, hello, viewVars>>
  PROVE  RemoteIInv'
<1> USE DEF viewVars
<1>1. pump = "read" /\ down[gen] # <<>>
  BY DEF Popped
<1>2. gen \in Bridges /\ down[gen][1] \in DownMessages /\ 1 \in 1..Len(down[gen])
  BY <1>1, FirstMessage
<1>3. /\ RType /\ Lines /\ Epochs /\ Greeted /\ Pumped /\ Agreed /\ Stream /\ Tip
      /\ Typing /\ Kept /\ Real /\ LogComplete
  BY DEF RemoteIInv
<1>4. tail \in Nat /\ mirror \in [seq : Nat, at : Int] /\ hello \in BOOLEAN
  BY <1>1, <1>2, <1>3, StreamFacts
<1>5. ~Content(down[gen], 1) /\ ~IsUpdate(down[gen], 1)
  BY DEF Content, IsUpdate
<1>6. Seen
  <2>1. hello' = TRUE
    BY <1>4
  <2>2. down[gen][1].t = "granted" /\ down[gen][1].t # "out"
    OBVIOUS
  <2> QED BY <1>4, <1>5, <2>1, <2>2 DEF Seen
<1> DEFINE x == up[gen] \o Waiting
<1>7. /\ Fit(x, <<>>, keys, sizes)
      /\ Later(up[gen], typed, size) => Later(x, typed, size)
      /\ (\A i \in 1..Len(up[gen]) : up[gen][i].t # "hello") => \A i \in 1..Len(x) : x[i].t # "hello"
      /\ \A k : Carries(up[gen], k) \/ Has(queued, k) => Carries(x, k)
      /\ \A s : (\E i \in 1..Len(up[gen]) : up[gen][i] = s) => \E i \in 1..Len(x) : x[i] = s
      /\ queuedSize # 0 => \E i \in 1..Len(x) : x[i] = Size(queuedSize)
  BY <1>2, <1>3, WaitingGoes
<1> HIDE DEF x
<1>8. up' = IF open[gen] THEN [up EXCEPT ![gen] = x] ELSE up
  BY DEF x
<1>9. up \in [Bridges -> Seq(UpMessages)] /\ x \in Seq(UpMessages)
  BY <1>3, <1>7 DEF RType, WireType, Fit
<1>10. /\ up' \in [Bridges -> Seq(UpMessages)]
       /\ \A b \in Bridges : up'[b] = up[b] \/ (b = gen /\ up'[b] = x)
       /\ open[gen] => up'[gen] = x
  BY <1>2, <1>8, <1>9
<1>11. ep[gen] # 0
  BY <1>1, <1>2, <1>3 DEF Greeted
<1>12. \A b \in Bridges : \/ up'[b] = up[b]
                          \/ b = gen /\ \A i \in 1..Len(up'[b]) : up'[b][i].t # "hello"
  <2>1. \A i \in 1..Len(up[gen]) : up[gen][i].t # "hello"
    BY <1>2, <1>3, <1>11 DEF Greeted
  <2>2. \A i \in 1..Len(x) : x[i].t # "hello"
    BY <1>7, <2>1
  <2> QED BY <1>10, <2>2
<1>13. /\ HolderType' /\ UserType' /\ Lines' /\ Epochs' /\ Greeted' /\ Stream' /\ Tip' /\ Real'
       /\ down' \in [Bridges -> Seq(DownMessages)] /\ Signed(down'[gen], ep[gen])
  BY <1>3, <1>6, <1>12, PoppedFrame
<1>14. UNCHANGED <<open, pump, retries, ending, agentVars, gridVars, connVars, gen, userVars, faultVars>>
  BY DEF Popped
<1>15. PumpType'
  <2>1. hello' \in BOOLEAN /\ granted' \in BOOLEAN /\ input' \in BOOLEAN
    BY <1>3, <1>4 DEF RType, PumpType
  <2>2. queued' \in Seq(1..MaxAsks) /\ queuedSize' \in 0..MaxAsks
    <3>1. <<>> \in Seq(1..MaxAsks) /\ 0 \in 0..MaxAsks
      BY RemoteAssumption
    <3> QED BY <3>1
  <2> QED BY <1>3, <1>14, <2>1, <2>2 DEF RType, PumpType
<1>16. WireType'
  BY <1>3, <1>10, <1>13, <1>14 DEF RType, WireType
<1>17. ViewType' /\ LogComplete'
  BY <1>3, <1>4, <1>14, ViewTypeStays, LogStays DEF faultVars, agentVars, RType
<1>18. Pumped'
  BY <1>1, <1>3, <1>11, <1>14 DEF Pumped, connVars
<1>19. Agreed'
  BY <1>3, <1>13, <1>14 DEF Agreed, connVars
<1>20. Typing'
  <2>1. \A b \in Bridges : Ordered(up'[b]) /\ Upto(up'[b], keys, sizes)
    BY <1>3, <1>7, <1>10 DEF Typing, Fit
  <2>2. \A b \in Bridges : Earlier(up'[b], <<>>)
    BY DEF Earlier, Before
  <2>3. ctl # None => Later(up'[ctl], typed, size)
    <3>1. ctl # None => ctl \in Bridges /\ Later(up[ctl], typed, size)
      BY <1>3 DEF Typing, RType, HolderType
    <3> QED BY <1>7, <1>10, <3>1
  <2>4. Rising(<<>>) /\ Before(typed, <<>>) /\ NotAfter(<<>>, keys)
    BY DEF Rising, Before, NotAfter
  <2>5. Rising(typed) /\ NotAfter(typed, keys) /\ size <= sizes /\ 0 <= sizes
    BY <1>3, UpTypes DEF Typing
  <2> QED BY <1>14, <2>1, <2>2, <2>3, <2>4, <2>5 DEF Typing, agentVars, connVars, userVars
<1>21. Kept'
  <2> SUFFICES ASSUME Whole' PROVE Kept'
    BY DEF Kept
  <2>1. Whole /\ gen # None
    BY <1>2, <1>14 DEF Whole, faultVars, agentVars, Bridges, None
  <2>2. /\ gen <= 1 /\ open[gen] /\ ctl \in {None, gen} /\ (queuedSize # 0 => queuedSize = sizes)
        /\ queuedSize = 0 => size = sizes \/ \E i \in 1..Len(up[gen]) : up[gen][i] = Size(sizes)
        /\ agent = "running" => \A k \in 1..keys : Has(typed, k) \/ Has(queued, k) \/ Carries(up[gen], k)
    BY <1>1, <1>3, <2>1 DEF Kept
  <2>3. up'[gen] = x
    BY <1>10, <2>2
  <2>4. size = sizes \/ \E i \in 1..Len(x) : x[i] = Size(sizes)
    BY <1>7, <2>2
  <2>5. agent = "running" => \A k \in 1..keys : Has(typed, k) \/ Carries(x, k)
    BY <1>7, <2>2
  <2> QED BY <1>1, <1>14, <2>1, <2>2, <2>3, <2>4, <2>5 DEF Kept, agentVars, connVars, userVars, Size
<1> QED BY <1>13, <1>15, <1>16, <1>17, <1>18, <1>19, <1>20, <1>21 DEF RemoteIInv, RType

\* The pump handles a message.
LEMMA HandleRemoteMessageKeeps ==
  ASSUME RemoteIInv, Warned, HandleRemoteMessage PROVE RemoteIInv'
<1> DEFINE m == down[gen][1]
<1>1. pump = "read" /\ down[gen] # <<>>
  BY DEF HandleRemoteMessage
<1>2. /\ gen \in Bridges /\ Head(down[gen]) = m /\ m \in DownMessages
      /\ down[gen] \in Seq(DownMessages) /\ 1 \in 1..Len(down[gen]) /\ Len(down[gen]) \in Nat
      /\ Form(down[gen], hello, granted) /\ Ends(down[gen], agent) /\ Grids(down[gen], granted, mirror, tail)
  BY <1>1, FirstMessage
<1>3. /\ RType /\ Lines /\ Epochs /\ Greeted /\ Pumped /\ Agreed /\ Stream /\ Tip
      /\ Typing /\ Kept /\ Real /\ LogComplete
  BY DEF RemoteIInv
<1>4. UNCHANGED <<agentVars, gridVars, connVars, gen, userVars, faultVars>>
  BY DEF HandleRemoteMessage
<1>5. /\ hello \in BOOLEAN /\ (m.t = "ack" <=> hello = FALSE)
      /\ m.t \in {"ack", "out", "snap", "delta", "granted", "exit", "error"}
  <2>1. hello \in BOOLEAN
    BY <1>3 DEF RType, PumpType
  <2>2. m.t = "ack" <=> hello = FALSE
    BY <1>2 DEF Form
  <2> QED BY <1>2, <2>1, <2>2, DownFields
<1>6. \/ /\ m.t = "ack" /\ ~hello
         /\ IF m.exited THEN End("exited")
            ELSE /\ wep' = m.e /\ hello' = TRUE /\ Continue /\ UNCHANGED <<input, up, granted>>
         /\ UNCHANGED <<queued, queuedSize, viewVars>>
      \/ /\ m.t = "out" /\ hello /\ ApplyOutput(m.at)
         /\ Continue /\ UNCHANGED <<up, writerVars, hello, granted, first, mirror>>
      \/ /\ m.t = "snap" /\ hello
         /\ display' = m.at /\ mirror' = [seq |-> m.seq, at |-> m.at]
         /\ Continue /\ UNCHANGED <<up, writerVars, hello, granted, offset, saved, log, first>>
      \/ /\ m.t = "delta" /\ hello
         /\ IF InSequence(m)
            THEN /\ mirror' = Apply(m) /\ Continue
                 /\ UNCHANGED <<up, writerVars, hello, granted>>
            ELSE Reconnect /\ UNCHANGED <<queued, queuedSize, mirror>>
         /\ UNCHANGED <<offset, saved, log, first, display>>
      \/ /\ m.t = "granted" /\ hello
         /\ IF input /\ wep = m.e THEN GrantControl
            ELSE Reconnect /\ UNCHANGED <<queued, queuedSize>>
         /\ UNCHANGED viewVars
      \/ /\ m.t = "exit" /\ hello
         /\ End("exited") /\ UNCHANGED <<queued, queuedSize, viewVars>>
      \/ /\ m.t = "error" /\ hello
         /\ IF m.fatal THEN End("failed") /\ UNCHANGED <<queued, queuedSize>>
            ELSE Continue /\ UNCHANGED <<up, writerVars, hello, granted>>
         /\ UNCHANGED viewVars
  <2>1. ~(IF m.t = "ack" THEN hello ELSE ~hello)
    BY <1>5
  <2> HIDE DEF m
  <2> QED BY <1>2, <2>1 DEF HandleRemoteMessage
<1> HIDE DEF m
<1>7. Continue => Popped
  BY <1>1, <1>2, <1>4 DEF Continue, Popped
<1>m. m = down[gen][1]
  BY DEF m
<1>8. CASE /\ m.t = "ack" /\ ~hello
           /\ IF m.exited THEN End("exited")
              ELSE /\ wep' = m.e /\ hello' = TRUE /\ Continue /\ UNCHANGED <<input, up, granted>>
           /\ UNCHANGED <<queued, queuedSize, viewVars>>
  <2>1. CASE m.exited
    <3>1. m.exited = TRUE
      BY <1>2, <1>8, <2>1, DownFields
    <3>2. agent # "running"
      BY <1>2, <1>8, <1>m, <3>1 DEF Ends
    <3> QED BY <1>1, <1>2, <1>4, <1>8, <2>1, <3>2, EndedKeeps
  <2>2. CASE ~m.exited
    BY <1>7, <1>8, <1>m, <2>2, AckKeeps
  <2> QED BY <2>1, <2>2
<1>9. CASE /\ m.t = "out" /\ hello /\ ApplyOutput(m.at)
           /\ Continue /\ UNCHANGED <<up, writerVars, hello, granted, first, mirror>>
  BY <1>7, <1>9, <1>m, OutKeeps
<1>10. CASE /\ m.t = "snap" /\ hello
            /\ display' = m.at /\ mirror' = [seq |-> m.seq, at |-> m.at]
            /\ Continue /\ UNCHANGED <<up, writerVars, hello, granted, offset, saved, log, first>>
  BY <1>7, <1>10, <1>m, SnapKeeps
<1>11. CASE /\ m.t = "delta" /\ hello
            /\ IF InSequence(m)
               THEN /\ mirror' = Apply(m) /\ Continue
                    /\ UNCHANGED <<up, writerVars, hello, granted>>
               ELSE Reconnect /\ UNCHANGED <<queued, queuedSize, mirror>>
            /\ UNCHANGED <<offset, saved, log, first, display>>
  <2>1. InSequence(m)
    <3>1. mirror.seq # 0 /\ mirror.seq + 1 = m.seq
      BY <1>1, <1>2, <1>11, <1>m, HeadDelta
    <3> QED BY <3>1 DEF InSequence
  <2> QED BY <1>7, <1>11, <1>m, <2>1, DeltaKeeps
<1>12. CASE /\ m.t = "granted" /\ hello
            /\ IF input /\ wep = m.e THEN GrantControl
               ELSE Reconnect /\ UNCHANGED <<queued, queuedSize>>
            /\ UNCHANGED viewVars
  <2>1. ASSUME Disconnect, Retry(TRUE), ~open[gen], queued' \in {queued, <<>>},
               queuedSize' \in {queuedSize, 0}
        PROVE  RemoteIInv'
    <3>1. ~Whole'
      BY <1>1, <1>3, <1>4, <2>1 DEF Kept, Whole, Retry, agentVars, faultVars
    <3> QED BY <1>2, <1>3, <1>4, <1>12, <2>1, <3>1, Reconnected DEF RemoteIInv
  <2>2. CASE ~(input /\ wep = m.e)
    <3>1. ~open[gen]
      <4>1. m.e = ep[gen]
        BY <1>1, <1>2, <1>3, <1>12, <1>m DEF Agreed, Signed
      <4> QED BY <1>1, <1>3, <1>12, <2>2, <4>1 DEF Agreed
    <3> QED BY <1>12, <2>1, <2>2, <3>1 DEF Reconnect
  <2>3. CASE GrantControl
    <3>1. CASE /\ up' = IF open[gen] THEN [up EXCEPT ![gen] = @ \o Waiting] ELSE up
               /\ queued' = <<>> /\ queuedSize' = 0
               /\ granted' = TRUE /\ Continue /\ UNCHANGED <<input, wep, hello>>
      BY <1>7, <1>12, <1>m, <3>1, GrantKeeps
    <3>2. CASE /\ ~open[gen] /\ Waiting # <<>>
               /\ queuedSize' = 0 /\ queued' = IF queuedSize # 0 THEN queued ELSE <<>>
               /\ Reconnect
      BY <2>1, <3>2 DEF Reconnect
    <3> QED BY <2>3, <3>1, <3>2 DEF GrantControl
  <2> QED BY <1>12, <2>2, <2>3
<1>13. CASE /\ m.t = "exit" /\ hello
            /\ End("exited") /\ UNCHANGED <<queued, queuedSize, viewVars>>
  <2>1. agent # "running"
    BY <1>2, <1>13, <1>m DEF Ends
  <2> QED BY <1>1, <1>2, <1>4, <1>13, <2>1, EndedKeeps
<1>14. CASE /\ m.t = "error" /\ hello
            /\ IF m.fatal THEN End("failed") /\ UNCHANGED <<queued, queuedSize>>
               ELSE Continue /\ UNCHANGED <<up, writerVars, hello, granted>>
            /\ UNCHANGED viewVars
  <2>1. CASE m.fatal
    <3>1. m.fatal # FALSE
      BY <1>2, <1>14, <2>1, DownFields
    <3>2. refused
      BY <1>1, <1>2, <1>14, <1>m, <3>1 DEF Warned, Mild
    <3> QED BY <1>1, <1>2, <1>4, <1>14, <2>1, <3>2, EndedKeeps
  <2>2. CASE ~m.fatal
    BY <1>7, <1>14, <1>m, <2>2, ErrorKeeps
  <2> QED BY <2>1, <2>2
<1> QED BY <1>6, <1>8, <1>9, <1>10, <1>11, <1>12, <1>13, <1>14

-----------------------------------------------------------------------------
(* Before the grant, and fatal errors.                                     *)

\* A queue of which the end is lost, the head is taken, or another message added.
LEMMA MildQueue ==
  ASSUME NEW q \in Seq(DownMessages), NEW rf \in BOOLEAN, Mild(q, rf)
  PROVE  /\ \A p \in Prefixes(q) : Mild(p, rf)
         /\ q # <<>> => Mild(Tail(q), rf)
         /\ \A m \in DownMessages : (m.t = "error" => m.fatal = FALSE) => Mild(Append(q, m), rf)
<1>1. ASSUME NEW p \in Prefixes(q) PROVE Mild(p, rf)
  <2>1. Len(p) \in Nat /\ Len(q) \in Nat /\ Len(p) <= Len(q) /\ \A i \in 1..Len(p) : p[i] = q[i]
    BY <1>1, PrefixIs
  <2> QED BY <2>1 DEF Mild
<1>2. ASSUME q # <<>> PROVE Mild(Tail(q), rf)
  <2> DEFINE z == Tail(q)
  <2>1. Len(q) \in Nat /\ Len(z) = Len(q) - 1 /\ \A i \in 1..Len(z) : z[i] = q[i + 1]
    BY <1>2, TailIs
  <2> HIDE DEF z
  <2>2. Mild(z, rf)
    BY <2>1 DEF Mild
  <2> QED BY <2>2 DEF z
<1>3. ASSUME NEW m \in DownMessages, m.t = "error" => m.fatal = FALSE PROVE Mild(Append(q, m), rf)
  <2> DEFINE z == Append(q, m)
  <2>1. /\ Len(q) \in Nat /\ Len(z) = Len(q) + 1 /\ z[Len(q) + 1] = m
        /\ \A i \in 1..Len(q) : z[i] = q[i]
    BY <1>3, AppendIs
  <2> HIDE DEF z
  <2>2. \A i \in 1..Len(z) : i \in 1..Len(q) \/ z[i] = m
    BY <2>1
  <2>3. Mild(z, rf)
    BY <1>3, <2>1, <2>2 DEF Mild
  <2> QED BY <2>3 DEF z
<1> QED BY <1>1, <1>2, <1>3

\* What the Holder queues is no fatal error.
LEMMA QueuedMild ==
  ASSUME RType, Lines, Warned, ~Floods, ctl # None, NEW m \in DownMessages, m.t # "error", NEW shows,
         Queue(ctl, m, shows), Numbered(m) + 1 \in Nat \ {0}, shows \in 0..MaxOut,
         UNCHANGED <<pump, gen, refused>>
  PROVE  Warned'
<1> SUFFICES ASSUME pump = "read" PROVE Mild(down'[gen], refused)
  BY DEF Warned
<1>1. gen \in Bridges /\ down \in [Bridges -> Seq(DownMessages)] /\ refused \in BOOLEAN
  BY DEF Lines, RType, PumpType, WireType, UserType, None
<1>2. Mild(down[gen], refused) /\ down[gen] \in Seq(DownMessages)
  BY <1>1 DEF Warned
<1>3. Unsent(m) \/ Added(m) \/ Dropped(m) \/ Renewed(m, shows)
  BY QueueCases
<1>4. CASE Unsent(m)
  BY <1>2, <1>4 DEF Unsent
<1>5. CASE Added(m)
  <2>1. Mild(Append(down[gen], m), refused)
    BY <1>1, <1>2, MildQueue
  <2> QED BY <1>1, <1>5, <2>1 DEF Added
<1>6. CASE Dropped(m)
  <2>1. PICK p \in Prefixes(down[gen]) : down' = [down EXCEPT ![gen] = p]
    BY <1>6 DEF Dropped
  <2>2. Mild(p, refused)
    BY <1>1, <1>2, MildQueue
  <2> QED BY <1>1, <2>1, <2>2
<1>7. CASE Renewed(m, shows)
  <2> DEFINE a == Error(FALSE)
             b == Snap(Numbered(m) + 1, shows)
  <2>1. PICK p \in Prefixes(down[gen]) : down' = [down EXCEPT ![gen] = p \o <<a, b>>]
    BY <1>7 DEF Renewed
  <2>2. a \in DownMessages /\ b \in DownMessages
    BY Constructed
  <2>3. a.fatal = FALSE /\ b.t = "snap"
    BY DEF Error, Snap
  <2> HIDE DEF a, b
  <2>4. p \in Seq(DownMessages) /\ Mild(p, refused)
    BY <1>1, <1>2, MildQueue, PrefixIs
  <2>5. Append(p, a) \in Seq(DownMessages) /\ Mild(Append(p, a), refused)
    BY <1>1, <2>2, <2>3, <2>4, MildQueue, AppendIs
  <2>6. Mild(Append(Append(p, a), b), refused)
    BY <1>1, <2>2, <2>3, <2>5, MildQueue
  <2>7. p \o <<a, b>> = Append(Append(p, a), b)
    BY <2>2, <2>4, AppendTwo
  <2> QED BY <1>1, <2>1, <2>6, <2>7
<1> QED BY <1>3, <1>4, <1>5, <1>6, <1>7

\* Nobody writes to the Holder before the grant.
LEMMA QuietStep ==
  ASSUME RemoteIInv, Quiet, ~Early, [Next]_vars PROVE Quiet'
<1> USE DEF vars, agentVars, gridVars, connVars, wireVars, writerVars, pumpVars, viewVars, userVars, faultVars
<1> SUFFICES ASSUME pump' = "read", ep'[gen'] # 0, ~granted' PROVE up'[gen'] = <<>>
  BY DEF Quiet
<1>1. /\ RType /\ Lines /\ Greeted /\ Pumped /\ up \in [Bridges -> Seq(UpMessages)]
      /\ ep \in [Bridges -> 0..MaxBridge] /\ (pump = "read" => gen \in Bridges)
  BY DEF RemoteIInv, RType, WireType, HolderType, Lines, PumpType, None
<1>2. CASE UNCHANGED <<pump, gen, granted, ep, up>>
  BY <1>2 DEF Quiet
<1>3. CASE UNCHANGED vars \/ DrainPty \/ EmitGridDelta \/ RecordExit
  BY <1>2, <1>3 DEF DrainPty, EmitGridDelta, RecordExit
<1>4. CASE HolderDies
  BY <1>1, <1>4 DEF HolderDies
<1>5. ASSUME NEW b \in Bridges, Handshake(b) PROVE up'[gen'] = <<>>
  <2>1. /\ ep[b] = 0 /\ up[b] # <<>> /\ up' = [up EXCEPT ![b] = Tail(up[b])]
        /\ ep' = [ep EXCEPT ![b] = epoch + 1] /\ UNCHANGED <<pump, gen, granted>>
    BY <1>5 DEF Handshake
  <2>2. PICK o \in 0..tail : up[b] = <<Hello(o)>>
    BY <1>1, <2>1 DEF Greeted
  <2>3. Tail(up[b]) = <<>>
    BY <2>2
  <2> QED BY <1>1, <2>1, <2>3 DEF Quiet
<1>6. ASSUME NEW b \in Bridges, HandleMessage(b) \/ HolderEof(b) PROVE up'[gen'] = <<>>
  <2>1. /\ UNCHANGED <<pump, gen, granted, ep>> /\ ctl = b /\ b # None
        /\ up' = up \/ (up[b] # <<>> /\ up' = [up EXCEPT ![b] = Tail(up[b])])
    BY <1>6 DEF HandleMessage, HolderEof, None, Bridges
  <2> QED BY <1>1, <2>1 DEF Quiet
<1>7. CASE Connect
  <2>1. gen' = gen + 1 /\ gen + 1 \in Bridges /\ gen + 1 > gen /\ ep' = ep
    BY <1>1, <1>7, RemoteAssumption DEF Connect, RType, PumpType, Bridges, None
  <2> QED BY <1>1, <2>1 DEF Lines
<1>8. CASE ConnectFails \/ PumpEof \/ EngineRestart
  BY <1>8 DEF ConnectFails, PumpEof, EngineRestart, Reconnect, Retry
<1>9. CASE HandleRemoteMessage
  <2>1. UNCHANGED <<gen, ep>> /\ pump = "read"
    BY <1>9 DEF HandleRemoteMessage
  <2>2. Continue
    BY <1>9 DEF HandleRemoteMessage, GrantControl, Reconnect, Retry, End
  <2>3. UNCHANGED pump
    BY <2>2 DEF Continue
  <2>4. ~End("failed") /\ ~End("exited") /\ ~Reconnect
    BY <2>1, <2>3 DEF Reconnect, Retry, End
  <2>5. UNCHANGED <<granted, up>>
    BY <1>9, <2>4, SMTT(30) DEF HandleRemoteMessage, GrantControl
  <2> QED BY <1>2, <2>1, <2>3, <2>5
<1>10. CASE Write \/ Resize
  <2>1. UNCHANGED <<pump, gen, granted, ep>> /\ MaySend
    BY <1>10 DEF Write, Resize
  <2>2. wep = 0
    BY <2>1 DEF MaySend
  <2>3. up' = up
    BY <1>10, <2>2 DEF Write, Resize, Send
  <2> QED BY <1>2, <2>1, <2>3
<1>11. CASE NetworkFails
  <2>1. UNCHANGED <<pump, gen, granted, ep>> /\ gen \in Bridges
    BY <1>1, <1>11 DEF NetworkFails
  <2>2. PICK u \in Prefixes(up[gen]) : up' = [up EXCEPT ![gen] = u]
    BY <1>11 DEF NetworkFails, Cut
  <2>3. up[gen] = <<>> /\ up[gen] \in Seq(UpMessages)
    BY <1>1, <2>1 DEF Quiet
  <2>4. u \in Seq(UpMessages) /\ Len(u) <= Len(up[gen])
    BY <1>1, <2>1, PrefixIs
  <2>5. u = <<>>
    BY <2>3, <2>4
  <2> QED BY <1>1, <2>1, <2>2, <2>5
<1> QED BY <1>3, <1>4, <1>5, <1>6, <1>7, <1>8, <1>9, <1>10, <1>11 DEF Next, Holder, Pump

\* A fatal error is queued only with a refusal.
LEMMA WarnedStep ==
  ASSUME RemoteIInv, Warned, ~Floods, [Next]_vars PROVE Warned'
<1> USE DEF vars, agentVars, gridVars, connVars, wireVars, writerVars, pumpVars, viewVars, userVars, faultVars
<1> SUFFICES ASSUME pump' = "read" PROVE Warned'
  BY DEF Warned
<1>1. /\ RType /\ Lines /\ Epochs /\ Greeted /\ down \in [Bridges -> Seq(DownMessages)]
      /\ refused \in BOOLEAN /\ (pump = "read" => gen \in Bridges)
      /\ open \in [Bridges -> BOOLEAN] /\ seq \in Nat /\ tail \in Nat /\ tail \in 0..MaxOut
      /\ base \in 0..MaxOut /\ MaxOut \in Nat
  <2>1. RType /\ Lines /\ Epochs /\ Greeted /\ MaxOut \in Nat
    BY RemoteAssumption DEF RemoteIInv
  <2>2. tail \in 0..MaxOut /\ base \in 0..tail
    BY <2>1 DEF RType, HolderType
  <2> QED BY <2>1, <2>2 DEF RType, WireType, UserType, HolderType, Lines, PumpType, None
<1>2. CASE UNCHANGED <<pump, gen, down, refused>>
  BY <1>2 DEF Warned
<1>q. ASSUME UNCHANGED <<pump, gen, refused>>, ctl # None, NEW m \in DownMessages, m.t # "error",
             NEW shows \in 0..MaxOut, Numbered(m) + 1 \in Nat \ {0}, Queue(ctl, m, shows)
      PROVE  Warned'
  BY <1>1, <1>q, QueuedMild
<1>3. CASE UNCHANGED vars
  BY <1>2, <1>3
<1>4. CASE DrainPty
  <2> DEFINE m == Output(tail)
  <2>1. m \in DownMessages /\ m.t = "out" /\ Numbered(m) = seq /\ tail + 1 \in 0..MaxOut
    BY <1>1, <1>4, Constructed DEF Output, Numbered, DrainPty
  <2>2. UNCHANGED <<pump, gen, refused>> /\ (ctl # None => Queue(ctl, m, tail + 1)) /\ (ctl = None => UNCHANGED down)
    BY <1>4 DEF DrainPty
  <2> HIDE DEF m
  <2>3. Numbered(m) + 1 \in Nat \ {0}
    BY <1>1, <2>1
  <2> QED BY <1>1, <1>2, <1>q, <2>1, <2>2, <2>3
<1>5. CASE EmitGridDelta
  <2> DEFINE m == Delta(seq + 1)
  <2>1. m \in DownMessages /\ m.t = "delta" /\ Numbered(m) + 1 \in Nat \ {0}
    <3>1. seq + 1 \in Nat \ {0} /\ seq + 1 + 1 \in Nat \ {0}
      BY <1>1
    <3> QED BY <1>1, <3>1, Constructed DEF Delta, Numbered
  <2>2. UNCHANGED <<pump, gen, refused>> /\ (ctl # None => Queue(ctl, m, tail)) /\ (ctl = None => UNCHANGED down)
    BY <1>5 DEF EmitGridDelta
  <2> HIDE DEF m
  <2> QED BY <1>1, <1>2, <1>q, <2>1, <2>2
<1>6. CASE RecordExit
  <2> DEFINE m == Exit
  <2>1. m \in DownMessages /\ m.t = "exit" /\ Numbered(m) = seq
    BY Constructed DEF Exit, Numbered
  <2>2. UNCHANGED <<pump, gen, refused>> /\ (ctl # None => Queue(ctl, m, tail)) /\ (ctl = None => UNCHANGED down)
    BY <1>6 DEF RecordExit
  <2> HIDE DEF m
  <2>3. Numbered(m) + 1 \in Nat \ {0}
    BY <1>1, <2>1
  <2> QED BY <1>1, <1>2, <1>q, <2>1, <2>2, <2>3
<1>c. ASSUME UNCHANGED <<pump, gen, refused>>, NEW p \in Prefixes(down[gen]), down'[gen] = p PROVE Warned'
  <2>1. gen \in Bridges /\ down[gen] \in Seq(DownMessages) /\ Mild(down[gen], refused)
    BY <1>1, <1>c DEF Warned
  <2>2. Mild(p, refused)
    BY <1>1, <1>c, <2>1, MildQueue
  <2> QED BY <1>c, <2>2 DEF Warned
<1>7. CASE HolderDies
  <2>1. UNCHANGED <<pump, gen, refused>> /\ gen \in Bridges /\ gen # None
    BY <1>1, <1>7 DEF HolderDies, Lines
  <2>2. \E p \in Prefixes(down[gen]) : down' = [b \in Bridges |-> IF b = gen THEN p ELSE <<>>]
    BY <1>7, <2>1 DEF HolderDies
  <2>3. PICK p \in Prefixes(down[gen]) : down' = [b \in Bridges |-> IF b = gen THEN p ELSE <<>>]
    BY <2>2
  <2>4. down'[gen] = p
    BY <2>1, <2>3
  <2> QED BY <1>c, <2>1, <2>4
<1>8. CASE NetworkFails
  <2>1. UNCHANGED <<pump, gen, refused>> /\ gen \in Bridges
    BY <1>1, <1>8 DEF NetworkFails
  <2>2. PICK p \in Prefixes(down[gen]) : down' = [down EXCEPT ![gen] = p]
    BY <1>8 DEF NetworkFails, Cut
  <2>3. down'[gen] = p
    BY <1>1, <2>1, <2>2
  <2> QED BY <1>c, <2>1, <2>3
<1>9. ASSUME NEW b \in Bridges, Handshake(b) PROVE Warned'
  <2>0. UNCHANGED <<pump, gen, refused>>
    BY <1>9 DEF Handshake
  <2>1. ep[b] = 0 /\ up[b] # <<>> /\ \A c \in Bridges : c > b => ep[c] = 0
    BY <1>9 DEF Handshake
  <2>2. PICK o \in 0..tail : up[b] = <<Hello(o)>>
    BY <1>1, <2>1 DEF Greeted
  <2>3. Head(up[b]).off = o
    BY <2>2 DEF Hello
  <2> DEFINE q == HandshakeMessages(o)
  <2>4. down' = Sent(b, q)
    BY <1>9, <2>3 DEF Handshake
  <2>5. epoch + 1 \in 0..MaxBridge /\ o \in Nat /\ o <= tail
    BY <1>1, <2>1, EpochRoom
  <2>6. \E s : Answer(q, o, s, tail - s, epoch + 1, seq + 1, tail)
    BY <1>1, <2>5, HandshakeShape
  <2> HIDE DEF q
  <2>7. PICK s : Answer(q, o, s, tail - s, epoch + 1, seq + 1, tail)
    BY <2>6
  <2>8. \A i \in 1..Len(q) : q[i].t # "error"
    <3> DEFINE n == tail - s
    <3>0. Answer(q, o, s, n, epoch + 1, seq + 1, tail)
      BY <2>7
    <3> HIDE DEF n
    <3>1. /\ n \in Nat /\ Len(q) = n + 3
          /\ q[1] = Ack(epoch + 1) /\ q[n + 2] = Snap(seq + 1, tail) /\ q[n + 3] = Granted(epoch + 1)
          /\ \A i \in 2..n + 1 : q[i] = Output(s + i - 2)
      BY <3>0 DEF Answer
    <3>2. q[1].t = "ack" /\ q[n + 2].t = "snap" /\ q[n + 3].t = "granted"
      <4>1. Ack(epoch + 1).t = "ack" /\ Snap(seq + 1, tail).t = "snap" /\ Granted(epoch + 1).t = "granted"
        BY DEF Ack, Snap, Granted
      <4> QED BY <3>1, <4>1
    <3>3. \A i \in 2..n + 1 : q[i].t = "out"
      <4>1. \A k : Output(k).t = "out"
        BY DEF Output
      <4> QED BY <3>1, <4>1, Zenon
    <3>4. \A i \in 1..n + 3 : i = 1 \/ i \in 2..n + 1 \/ i = n + 2 \/ i = n + 3
      BY <3>1
    <3> QED BY <3>1, <3>2, <3>3, <3>4
  <2>9. CASE b = gen /\ open[b]
    <3>1. down'[gen] = q
      BY <1>1, <2>4, <2>9 DEF Sent
    <3> QED BY <2>0, <2>8, <3>1 DEF Warned, Mild
  <2>10. CASE b # gen \/ ~open[b]
    <3>1. down'[gen] = down[gen]
      BY <1>1, <2>0, <2>4, <2>10 DEF Sent
    <3> QED BY <2>0, <3>1 DEF Warned
  <2> QED BY <2>9, <2>10
<1>10. ASSUME NEW b \in Bridges, HandleMessage(b) PROVE Warned'
  <2>1. UNCHANGED <<pump, gen>> /\ gen \in Bridges /\ ctl = b /\ b # None
    BY <1>1, <1>10 DEF HandleMessage, Bridges, None
  <2>2. CASE refused' = TRUE
    BY <2>2 DEF Warned, Mild
  <2>3. CASE refused' = refused /\ ep[b] # epoch
    <3>1. ~open[b]
      BY <1>1, <2>1, <2>3, OpenIsNewest DEF Lines
    <3>2. down' = down
      BY <1>10, <2>3, <3>1 DEF HandleMessage, RefuseInput, Sent
    <3> QED BY <1>2, <2>1, <2>3, <3>2
  <2>4. CASE refused' = refused /\ ~refused /\ ep[b] = epoch
    <3> DEFINE w == Snap(seq + 1, tail)
    <3>1. w \in DownMessages /\ w.t = "snap"
      <4>1. seq + 1 \in Nat \ {0}
        BY <1>1
      <4> QED BY <1>1, <4>1, Constructed DEF Snap
    <3>2. down' = down \/ down' = Sent(b, down[b] \o <<w>>)
      BY <1>10, <2>4 DEF HandleMessage, RefuseInput
    <3> HIDE DEF w
    <3>3. down[b] \o <<w>> = Append(down[b], w)
      BY <1>1, <3>1, AppendIs
    <3>4. down'[gen] = down[gen] \/ down'[gen] = Append(down[gen], w)
      BY <1>1, <2>1, <3>2, <3>3 DEF Sent
    <3>5. Mild(down[gen], refused) /\ down[gen] \in Seq(DownMessages)
      BY <1>1, <2>1 DEF Warned
    <3>6. Mild(Append(down[gen], w), refused)
      BY <1>1, <3>1, <3>5, MildQueue
    <3> QED BY <2>1, <2>4, <3>4, <3>5, <3>6 DEF Warned
  <2>5. refused' = TRUE \/ refused' = refused
    BY <1>10 DEF HandleMessage, RefuseInput
  <2> QED BY <1>1, <2>2, <2>3, <2>4, <2>5
<1>11. ASSUME NEW b \in Bridges, HolderEof(b) PROVE Warned'
  BY <1>2, <1>11 DEF HolderEof
<1>12. CASE Connect
  <2>1. gen' = gen + 1 /\ gen + 1 \in Bridges /\ gen + 1 # gen /\ down' = down
    BY <1>1, <1>12, RemoteAssumption DEF Connect, RType, PumpType, Bridges, None
  <2>2. down[gen + 1] = <<>>
    BY <1>1, <2>1 DEF Lines
  <2> QED BY <2>1, <2>2 DEF Warned, Mild
<1>13. CASE ConnectFails \/ PumpEof \/ EngineRestart
  BY <1>13 DEF ConnectFails, PumpEof, EngineRestart, Reconnect, Retry
<1>14. CASE HandleRemoteMessage
  <2>1. UNCHANGED <<gen, refused>> /\ pump = "read" /\ down[gen] # <<>>
    BY <1>14 DEF HandleRemoteMessage
  <2>2. Continue
    BY <1>14 DEF HandleRemoteMessage, GrantControl, Reconnect, Retry, End
  <2>3. down'[gen] = Tail(down[gen])
    BY <1>1, <2>1, <2>2 DEF Continue
  <2>4. Mild(Tail(down[gen]), refused)
    BY <1>1, <2>1, MildQueue DEF Warned
  <2> QED BY <2>1, <2>3, <2>4 DEF Warned
<1>15. CASE Write \/ Resize
  <2>1. UNCHANGED <<pump, gen, refused, down>>
    BY <1>15 DEF Write, Resize, Send
  <2> QED BY <1>2, <2>1
<1> QED BY <1>3, <1>4, <1>5, <1>6, <1>7, <1>8, <1>9, <1>10, <1>11, <1>12, <1>13, <1>14, <1>15
        DEF Next, Holder, Pump

-----------------------------------------------------------------------------
(* The theorem.                                                            *)

\* At the start nothing is under way.
LEMMA RemoteStart ==
  ASSUME Init PROVE RemoteIInv
<1> USE DEF Init, None
<1>1. \A b \in Bridges : ep[b] = 0 /\ open[b] = FALSE /\ up[b] = <<>> /\ down[b] = <<>>
  OBVIOUS
<1>2. MaxBridge \in Nat /\ MaxOut \in Nat /\ MaxAsks \in Nat
  BY RemoteAssumption
<1>3. HolderType
  <2>1. <<>> \in Seq(1..MaxAsks) /\ 0 \in 0..MaxAsks /\ 0 \in 0..MaxBridge /\ 0 \in 0..MaxOut /\ 0 \in 0..0
    BY <1>2
  <2>2. ep \in [Bridges -> 0..MaxBridge]
    BY <2>1
  <2> QED BY <2>1, <2>2 DEF HolderType
<1>4. WireType
  <2>1. <<>> \in Seq(UpMessages) /\ <<>> \in Seq(DownMessages)
    OBVIOUS
  <2> QED BY <2>1 DEF WireType
<1>5. PumpType
  <2>1. <<>> \in Seq(1..MaxAsks) /\ 0 \in 0..MaxAsks /\ 0 \in 0..MaxBridge /\ 0 \in 0..2
    BY <1>2
  <2>2. input \in BOOLEAN /\ hello \in BOOLEAN /\ granted \in BOOLEAN
    OBVIOUS
  <2> QED BY <2>1, <2>2 DEF PumpType
<1>6. ViewType
  <2>1. Blank \in [seq : Nat, at : Int] /\ Blank.at = Garbled /\ 0 \in 0..0
    BY DEF Blank, Garbled
  <2> QED BY <2>1 DEF ViewType
<1>7. UserType
  <2>1. skipped \in BOOLEAN /\ refused \in BOOLEAN
    OBVIOUS
  <2> QED BY <1>2, <2>1 DEF UserType
<1>8. Lines /\ Epochs /\ Greeted
  BY <1>1 DEF Lines, Epochs, Greeted
<1>9. Pumped /\ Agreed /\ Stream /\ Tip /\ Real
  BY DEF Pumped, Agreed, Stream, Tip, Real
<1>10. Typing
  <2>1. /\ Ordered(<<>>) /\ Upto(<<>>, 0, 0) /\ Earlier(<<>>, <<>>)
        /\ Rising(<<>>) /\ Before(<<>>, <<>>) /\ NotAfter(<<>>, 0)
    BY DEF Ordered, Upto, Earlier, Rising, Before, NotAfter
  <2> QED BY <1>1, <2>1 DEF Typing
<1>11. Kept
  BY DEF Kept
<1>12. LogComplete
  BY NumbersNone DEF LogComplete
<1> QED BY <1>3, <1>4, <1>5, <1>6, <1>7, <1>8, <1>9, <1>10, <1>11, <1>12 DEF RemoteIInv, RType

\* Nothing happens.
LEMMA RemoteRests ==
  ASSUME RemoteIInv, UNCHANGED vars PROVE RemoteIInv'
<1> USE DEF vars, agentVars, gridVars, connVars, wireVars, writerVars, pumpVars, viewVars, userVars, faultVars
<1>1. /\ RType /\ Lines /\ Epochs /\ Greeted /\ Pumped /\ Agreed /\ Stream /\ Tip
      /\ Typing /\ Kept /\ Real /\ LogComplete
  BY DEF RemoteIInv
<1>2. Lines' /\ Epochs' /\ Greeted' /\ Pumped' /\ Agreed'
  BY <1>1, LinesStays, EpochsStays, GreetedStays, PumpedStays, AgreedStays
<1>3. Stream' /\ Tip' /\ Typing' /\ Kept'
  BY <1>1, StreamStays, TipStays, TypingStays, KeptStays
<1>4. Real' /\ LogComplete'
  BY <1>1, RealStays, LogStays
<1>5. RType'
  <2>1. HolderType' /\ PumpType'
    BY <1>1, HolderTypeStays, PumpTypeStays DEF RType
  <2>2. WireType' /\ ViewType' /\ UserType'
    BY <1>1 DEF RType, WireType, ViewType, UserType
  <2> QED BY <2>1, <2>2 DEF RType
<1> QED BY <1>2, <1>3, <1>4, <1>5 DEF RemoteIInv

\* One step of anyone.
LEMMA RemoteStep ==
  ASSUME RemoteIInv, Quiet, Warned, ~Early, ~Floods, Next PROVE RemoteIInv'
<1>1. CASE Holder
  <2>1. CASE EmitGridDelta
    BY <2>1, EmitGridDeltaKeeps
  <2>2. ASSUME NEW b \in Bridges, Handshake(b) \/ HandleMessage(b) \/ HolderEof(b) PROVE RemoteIInv'
    BY <2>2, HandshakeKeeps, HandleMessageKeeps, HolderEofKeeps
  <2> QED BY <1>1, <2>1, <2>2 DEF Holder
<1>2. CASE DrainPty
  BY <1>2, DrainPtyKeeps
<1>3. CASE RecordExit
  BY <1>3, RecordExitKeeps
<1>4. CASE HolderDies
  BY <1>4, HolderDiesKeeps
<1>5. CASE Pump
  BY <1>5, ConnectKeeps, ConnectFailsKeeps, HandleRemoteMessageKeeps, PumpEofKeeps DEF Pump
<1>6. CASE Write
  BY <1>6, WriteKeeps
<1>7. CASE Resize
  BY <1>7, ResizeKeeps
<1>8. CASE NetworkFails
  BY <1>8, NetworkFailsKeeps
<1>9. CASE EngineRestart
  BY <1>9, EngineRestartKeeps
<1> QED BY <1>1, <1>2, <1>3, <1>4, <1>5, <1>6, <1>7, <1>8, <1>9 DEF Next

\* What the invariant says of the views, the input and the end.
LEMMA RemoteImplied ==
  ASSUME RemoteIInv PROVE RemoteInv
<1>1. /\ RType /\ Lines /\ Epochs /\ Greeted /\ Pumped /\ Agreed /\ Stream /\ Tip
      /\ Typing /\ Kept /\ Real /\ LogComplete
  BY DEF RemoteIInv
<1>2. TypeOK
  BY <1>1 DEF TypeOK, RType, HolderType, WireType, PumpType, ViewType, UserType
<1>3. tail \in Nat /\ (pump = "read" => gen \in Bridges /\ gen # None)
  BY <1>1, RemoteAssumption DEF RType, HolderType, PumpType, Lines, None
<1>4. ScreenTrue
  <2> SUFFICES ASSUME pump = "read", granted PROVE display # Garbled /\ mirror.at # Garbled
    BY DEF ScreenTrue
  <2>1. Screens(down[gen], granted, display, tail) /\ Grids(down[gen], granted, mirror, tail)
    BY <1>1 DEF Stream, StreamPart
  <2>2. granted = TRUE
    BY <1>1 DEF RType, PumpType
  <2>3. Live(down[gen], granted, 0)
    BY <2>2 DEF Live
  <2>4. display \in 0..tail /\ mirror.at \in 0..tail
    BY <2>1, <2>3 DEF Screens, Grids
  <2> QED BY <1>3, <2>4 DEF Garbled
<1>5. ScreenCurrent
  <2> SUFFICES ASSUME Settled PROVE display = tail /\ (dirty \/ mirror = [seq |-> seq, at |-> tail])
    BY DEF ScreenCurrent
  <2>1. pump = "read" /\ ctl = gen /\ open[gen] /\ down[gen] = <<>>
    BY DEF Settled
  <2>2. TipPart(down[gen], hello, granted, offset, tail, skipped, display, mirror, seq, base, dirty)
    BY <1>1, <2>1 DEF Tip
  <2>3. /\ ShowsAll(down[gen], granted, display, tail)
        /\ Newest(down[gen], granted, mirror, seq, base, dirty, tail)
    BY <2>2 DEF TipPart
  <2>4. \A j \in 0..Len(down[gen]) : j = 0
    BY <2>1
  <2>5. display = tail
    BY <2>3, <2>4 DEF ShowsAll, Shows
  <2>6. mirror.seq = seq /\ (dirty = TRUE \/ mirror.at = tail)
    BY <2>3, <2>4 DEF Newest, Num, Covers
  <2>7. mirror \in [seq : Nat, at : Int]
    BY <1>1 DEF RType, ViewType
  <2>8. dirty \/ mirror = [seq |-> seq, at |-> tail]
    BY <2>6, <2>7
  <2> QED BY <2>5, <2>8
<1>6. EndIsReal
  BY <1>1 DEF EndIsReal, Real
<1>7. InputInOrder
  BY <1>1 DEF InputInOrder, Typing, Rising
<1>8. KeysKept
  <2> DEFINE W == {x \in UNION {ToSet(up[b]) : b \in Bridges} : x.t = "keys"}
  <2> SUFFICES ASSUME losses = 0, restarts = 0, ~skipped, ~refused, agent = "running", NEW k \in 1..keys
               PROVE  k \in ToSet(typed) \cup ToSet(queued) \cup UNION {ToSet(m.ks) : m \in W}
    BY DEF KeysKept
  <2>1. Whole
    BY <1>1 DEF Whole, Real
  <2>2. Has(typed, k) \/ Has(queued, k) \/ (gen # None /\ Carries(up[gen], k))
    BY <1>1, <2>1 DEF Kept
  <2>3. ASSUME NEW S, NEW s \in Seq(S), NEW i \in 1..Len(s) PROVE s[i] \in ToSet(s)
    BY <2>3 DEF ToSet
  <2>4. typed \in Seq(Nat) /\ queued \in Seq(Nat) /\ \A b \in Bridges : up[b] \in Seq(UpMessages)
    BY <1>1, UpTypes
  <2>5. CASE Has(typed, k)
    <3>1. PICK i \in 1..Len(typed) : typed[i] = k
      BY <2>5 DEF Has
    <3> QED BY <2>3, <2>4, <3>1
  <2>6. CASE Has(queued, k)
    <3>1. PICK i \in 1..Len(queued) : queued[i] = k
      BY <2>6 DEF Has
    <3> QED BY <2>3, <2>4, <3>1
  <2>7. CASE gen # None /\ Carries(up[gen], k)
    <3>1. gen \in Bridges /\ up[gen] \in Seq(UpMessages)
      BY <1>1, <2>4, <2>7 DEF RType, PumpType
    <3>2. PICK i \in 1..Len(up[gen]) :
            up[gen][i].t = "keys" /\ \E j \in 1..Len(up[gen][i].ks) : up[gen][i].ks[j] = k
      BY <2>7 DEF Carries
    <3> DEFINE x == up[gen][i]
    <3>3. x \in ToSet(up[gen]) /\ x \in UpMessages /\ x.t = "keys"
      BY <2>3, <3>1, <3>2
    <3>4. x \in W
      BY <3>1, <3>3
    <3>5. PICK j \in 1..Len(x.ks) : x.ks[j] = k
      BY <3>2
    <3>6. x.ks \in Seq(1..MaxAsks)
      BY <3>3, UpFields
    <3> HIDE DEF x, W
    <3>7. k \in ToSet(x.ks)
      BY <2>3, <3>5, <3>6
    <3> QED BY <3>4, <3>7
  <2> QED BY <2>2, <2>5, <2>6, <2>7
<1>9. SizeIsLast
  <2> SUFFICES ASSUME Settled, losses = 0, restarts = 0, ~skipped, ~refused, up[gen] = <<>>,
                      queuedSize = 0
               PROVE  size = sizes
    BY DEF SizeIsLast
  <2>1. Whole
    BY <1>1, <1>3 DEF Whole, Settled, Lines
  <2>2. size = sizes \/ \E i \in 1..Len(up[gen]) : up[gen][i] = Size(sizes)
    BY <1>1, <2>1 DEF Kept
  <2>3. 1..Len(up[gen]) = {}
    OBVIOUS
  <2> QED BY <2>2, <2>3
<1> QED BY <1>1, <1>2, <1>4, <1>5, <1>6, <1>7, <1>8, <1>9 DEF RemoteInv

\* Through any number of Bridges, losses and Engine restarts, whatever the limits of the
\* Holder: the log is the Holder's output, both views are the Holder's screen, keys and the
\* last size come through and the end is real, but for what a refusal of input excuses
\* (RemoteInv) -- if nobody types between HelloAck and ControlGranted and no
\* backlog that is given up holds the handshake or the exit.
THEOREM RemoteSafe ==
  ASSUME ~Early, ~Floods PROVE Spec => []RemoteInv
<1>1. Init => RemoteIInv /\ Quiet /\ Warned
  BY RemoteStart DEF Init, Quiet, Warned
<1>2. RemoteIInv /\ Quiet /\ Warned /\ [Next]_vars => (RemoteIInv /\ Quiet /\ Warned)'
  BY RemoteRests, RemoteStep, QuietStep, WarnedStep
<1>3. RemoteIInv => RemoteInv
  BY RemoteImplied
<1> QED BY <1>1, <1>2, <1>3, PTL DEF Spec

===============================================================================
