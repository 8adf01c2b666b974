------------------------------- MODULE MCHeld -------------------------------
(***************************************************************************)
(* A held session, for TLC: its launch, input and end (DeferredLaunch),    *)
(* what the Engine makes of its output across restarts (HeldSession), the  *)
(* log the holder writes and rotates and the Engine follows (OutputLog),   *)
(* and its hibernation (Governor).  HeldSession takes the log as a         *)
(* sequence that can be read at any offset, which is what OutputLog shows  *)
(* of it.  The parts share no state, and a behaviour plays one while the   *)
(* others rest.                                                            *)
(***************************************************************************)
EXTENDS HeldSession

CONSTANTS
  Capacity, MaxChunk, MaxAppend, MaxTail, MayOutrun, HasWatcher, EarlyRotation,
  Sizes, Estimate, MaxInputs, MaxResizes, SlowHolder,
  Sessions, IdleThreshold, MinIdle, HardMemory, MemoryBudget, Footprints, MaxPokes, MaxCrashes,
  MaxFails

VARIABLES
  base, tail, handle, retired, ringStart, armed, note, rpc, at, lost,
  launched, cancelled, pending, queued, lpc, chosen, handoff, child, typed, ptySize,
  screenSize, hibernated, asleep, exited, stop, resizing, tpc, result, sent, resizes, wanted,
  idle, quiet, age, hib, flag, stopped, viewer, saved, unsaved, forgone, fails, gpc, snap, todo, hot, cand,
  total, pokes, falls,
  scene         \* which part is played

logVars == <<base, tail, handle, retired, ringStart, armed, note, rpc, at, lost>>
launchVars == <<launched, cancelled, pending, queued, lpc, chosen, handoff, child, typed, ptySize,
                screenSize, hibernated, asleep, exited, stop, resizing, tpc, result, sent, resizes,
                wanted>>
governorVars == <<idle, quiet, age, hib, flag, stopped, viewer, saved, unsaved, forgone, fails, gpc, snap,
                  todo, hot, cand, total, pokes, falls>>
Log == INSTANCE OutputLog WITH offset <- at
L == INSTANCE DeferredLaunch WITH exit <- exited
Gov == INSTANCE Governor WITH Budget <- MemoryBudget, dirty <- unsaved, crashes <- falls

ASSUME SessionAssumption == L!LaunchConstants /\ Gov!GovernorConstants
ASSUME LogBounds ==
  /\ Capacity \in Nat /\ MaxChunk \in Nat /\ MaxAppend \in Nat
  /\ MaxTail \in Nat /\ Capacity <= MaxTail

MCInit ==
  /\ scene \in {"launch", "held", "log", "governor"}
  /\ Init /\ Log!Init /\ L!Init /\ Gov!Init
  /\ scene # "log" => tail = 0   \* one way to rest

MCNext ==
  /\ UNCHANGED scene
  /\ \/ scene = "launch" /\ L!Next /\ UNCHANGED <<vars, logVars, governorVars>>
     \/ scene = "held" /\ Next /\ UNCHANGED <<logVars, launchVars, governorVars>>
     \/ scene = "log" /\ Log!Next /\ UNCHANGED <<vars, launchVars, governorVars>>
     \/ scene = "governor" /\ Gov!Next /\ UNCHANGED <<vars, logVars, launchVars>>

\* The fairness of each part, while it is the one that is played.
MCFairness ==
  /\ WF_vars(scene = "held" /\ Holder) /\ WF_vars(scene = "held" /\ Pump)
  /\ WF_logVars(scene = "log" /\ Log!Rotate)
  /\ WF_logVars(scene = "log" /\ (Log!Arm \/ Log!Read \/ Log!Wait))
  /\ WF_launchVars(scene = "launch" /\ L!Launcher)
  /\ WF_launchVars(scene = "launch" /\ L!ResizeScreen)
  /\ WF_launchVars(scene = "launch" /\ L!Terminating)
  /\ WF_governorVars(scene = "governor" /\ Gov!Sweep)
  /\ WF_governorVars(scene = "governor" /\ Gov!Flush)
  /\ WF_governorVars(scene = "governor" /\ Gov!Elapse)

MCSpec == MCInit /\ [][MCNext]_<<vars, logVars, launchVars, governorVars, scene>> /\ MCFairness

-----------------------------------------------------------------------------
\* log.rs and pump.rs: a reader less than half a capacity behind misses
\* nothing, whatever file it has open while the log rotates under it.
NothingLost == Log!TypeOK /\ Log!NothingLost

\* Whatever is appended reaches the reader in the end, across rotations.
ReaderCatchesUp == Log!ReaderCatchesUp

\* lifecycle.rs: whatever the launcher, the clients and terminate do to each
\* other, no child is left behind and no input is lost.
LaunchInv == L!LaunchInv

\* terminate and drop return, even when they meet the launcher half way.
TerminateReturns == L!TerminateReturns

\* governor.rs: a session that a client views is never stopped behind the
\* daemon's back.
GovernorInv == Gov!GovernorInv

\* What stays idle and unattended ends up hibernated, and a freeze that lasts in
\* the state file, after writes that fail as well.
GovernorSettles == Gov!IdleIsReclaimed /\ Gov!FreezeIsSaved

=============================================================================
