---------------------------- MODULE DeferredLaunch ----------------------------
(***************************************************************************)
(* One holder-backed session from its spawn to its end: the launcher       *)
(* thread that waits for a settled client size and then execs the child    *)
(* (homie-engine/src/session/lifecycle.rs), the input and sizes that       *)
(* arrive meanwhile, hibernation (session/pty.rs, registry.rs) and         *)
(* terminate.                                                              *)
(*                                                                         *)
(* Client operations run under the registry lock, one at a time; the       *)
(* launcher does not take that lock, so its steps fall between theirs and  *)
(* into them.  Input is numbered in the order it was typed.  The deadline  *)
(* may pass at any time after the last proposal: Settle.                   *)
(***************************************************************************)
EXTENDS Integers, Sequences

CONSTANTS
  Sizes,         \* sizes a client may ask for
  Estimate,      \* the size in the spec, used when nobody asked
  MaxInputs,     \* bound: inputs typed
  MaxResizes,    \* bound: sizes asked for
  SlowHolder     \* may a launched holder miss the 5 s of wait_for_holder?

LaunchConstants ==
  /\ MaxInputs \in Nat /\ MaxResizes \in Nat /\ SlowHolder \in BOOLEAN

VARIABLES
  launched, cancelled, pending, queued,  \* DeferredState
  lpc, chosen, handoff,                  \* the launcher, later the pump
  child, typed, ptySize,                 \* the child and its terminal
  screenSize,                            \* the emulator
  hibernated, asleep,                    \* hibernation and its input queue
  exit, stop,                            \* Shared
  resizing,                              \* a resize between terminal and emulator
  tpc, result,                           \* terminate, and the exit it returns
  sent, resizes, wanted                  \* what the clients did

deferredVars == <<launched, cancelled, pending, queued>>
launcherVars == <<lpc, chosen, handoff>>
sleepVars    == <<hibernated, asleep>>
termVars     == <<tpc, result>>
clientVars   == <<sent, resizes, wanted>>
vars == <<deferredVars, launcherVars, child, typed, ptySize, screenSize, sleepVars,
          exit, stop, resizing, termVars, clientVars>>

NoSize == "no_size"
NoExit == "no_exit"
AnySize == Sizes \cup {Estimate}
Alive == child \in {"running", "stopped"}

InputQueue == UNION {[1..n -> 1..MaxInputs] : n \in 0..MaxInputs}

TypeOK ==
  /\ launched \in BOOLEAN /\ cancelled \in BOOLEAN
  /\ pending \in Sizes \cup {NoSize} /\ queued \in InputQueue
  /\ lpc \in {"wait", "exec", "started", "flush", "late", "late_screen", "pump", "kill", "gone"}
  /\ chosen \in AnySize /\ screenSize \in AnySize /\ ptySize \in AnySize
  /\ handoff \in [input : InputQueue, size : Sizes \cup {NoSize}]
  /\ child \in {"none", "running", "stopped", "dead"}
  /\ typed \in InputQueue /\ asleep \in InputQueue /\ hibernated \in BOOLEAN
  /\ exit \in {NoExit, "code", "127"} /\ stop \in BOOLEAN
  /\ resizing \in Sizes \cup {NoSize} /\ wanted \in AnySize
  /\ tpc \in {"idle", "kill", "await", "join", "done", "drop", "dropped"}
  /\ result \in {NoExit, "code", "127", "SIGKILL"}
  /\ sent \in 0..MaxInputs /\ resizes \in 0..MaxResizes

Init ==
  /\ launched = FALSE /\ cancelled = FALSE /\ pending = NoSize /\ queued = <<>>
  /\ lpc = "wait" /\ chosen = Estimate /\ handoff = [input |-> <<>>, size |-> NoSize]
  /\ child = "none" /\ typed = <<>> /\ ptySize = Estimate /\ screenSize = Estimate
  /\ hibernated = FALSE /\ asleep = <<>>
  /\ exit = NoExit /\ stop = FALSE
  /\ resizing = NoSize
  /\ tpc = "idle" /\ result = NoExit
  /\ sent = 0 /\ resizes = 0 /\ wanted = Estimate

-----------------------------------------------------------------------------
(* The launcher thread.                                                    *)

\* wait_for_launch_size: the debounce window closes.
Settle ==
  /\ lpc = "wait" /\ ~cancelled
  /\ lpc' = "exec"
  /\ chosen' = IF pending = NoSize THEN Estimate ELSE pending
  /\ screenSize' = chosen'
  /\ UNCHANGED <<deferredVars, handoff, child, typed, ptySize, sleepVars, exit, stop,
                 resizing, termVars, clientVars>>

SettleCancelled ==
  /\ lpc = "wait" /\ cancelled
  /\ lpc' = "gone"
  /\ UNCHANGED <<deferredVars, chosen, handoff, child, typed, ptySize, screenSize,
                 sleepVars, exit, stop, resizing, termVars, clientVars>>

\* HolderLauncher::launch and wait_for_holder succeed.
Exec ==
  /\ lpc = "exec"
  /\ lpc' = "started" /\ child' = "running" /\ ptySize' = chosen
  /\ UNCHANGED <<deferredVars, chosen, handoff, typed, screenSize, sleepVars, exit, stop,
                 resizing, termVars, clientVars>>

\* One of them fails: mark_launch_failed.  With a slow holder there is a
\* child all the same.
ExecFails ==
  /\ lpc = "exec"
  /\ lpc' = "gone" /\ exit' = "127"
  /\ child' \in {"none"} \cup (IF SlowHolder THEN {"running"} ELSE {})
  /\ UNCHANGED <<deferredVars, chosen, handoff, typed, ptySize, screenSize, sleepVars,
                 stop, resizing, termVars, clientVars>>

\* Mutant: a cancel that raced the launch is not noticed.
FinishLaunchIgnoresCancel ==
  /\ lpc = "started"
  /\ lpc' = "flush" /\ launched' = TRUE /\ queued' = <<>>
  /\ handoff' = [input |-> queued, size |-> IF pending = chosen THEN NoSize ELSE pending]
  /\ UNCHANGED <<cancelled, pending, chosen, child, typed, ptySize, screenSize, sleepVars,
                 exit, stop, resizing, termVars, clientVars>>

\* finish_launch: from here on clients write and resize directly.
FinishLaunch ==
  /\ lpc = "started"
  /\ IF cancelled THEN lpc' = "kill" /\ UNCHANGED <<launched, queued, handoff>>
     ELSE /\ lpc' = "flush" /\ launched' = TRUE /\ queued' = <<>>
          /\ handoff' = [input |-> queued, size |-> IF pending = chosen THEN NoSize ELSE pending]
  /\ UNCHANGED <<cancelled, pending, chosen, child, typed, ptySize, screenSize, sleepVars,
                 exit, stop, resizing, termVars, clientVars>>

\* The launcher owns the child a terminate did not know of.
KillRaced ==
  /\ lpc = "kill"
  /\ lpc' = "gone" /\ child' = "dead"
  /\ UNCHANGED <<deferredVars, chosen, handoff, typed, ptySize, screenSize, sleepVars,
                 exit, stop, resizing, termVars, clientVars>>

\* The queued input is written, whatever happened since finish_launch.
FlushQueued ==
  /\ lpc = "flush"
  /\ lpc' = "late"
  /\ typed' = IF Alive THEN typed \o handoff.input ELSE typed
  /\ UNCHANGED <<deferredVars, chosen, handoff, child, ptySize, screenSize, sleepVars,
                 exit, stop, resizing, termVars, clientVars>>

\* A size proposed during the exec: the terminal first, ...
LateResize ==
  /\ lpc = "late"
  /\ IF handoff.size = NoSize THEN lpc' = "pump" /\ UNCHANGED ptySize
     ELSE lpc' = "late_screen" /\ ptySize' = IF Alive THEN handoff.size ELSE ptySize
  /\ UNCHANGED <<deferredVars, chosen, handoff, child, typed, screenSize, sleepVars,
                 exit, stop, resizing, termVars, clientVars>>

\* ... then the emulator.
LateResizeScreen ==
  /\ lpc = "late_screen"
  /\ lpc' = "pump" /\ screenSize' = handoff.size
  /\ UNCHANGED <<deferredVars, chosen, handoff, child, typed, ptySize, sleepVars,
                 exit, stop, resizing, termVars, clientVars>>

\* pump_held ends when it has seen the exit or is told to stop.
PumpEnds ==
  /\ lpc = "pump" /\ (child = "dead" \/ stop)
  /\ lpc' = "gone"
  /\ exit' = IF child = "dead" THEN "code" ELSE exit
  /\ UNCHANGED <<deferredVars, chosen, handoff, child, typed, ptySize, screenSize,
                 sleepVars, stop, resizing, termVars, clientVars>>

ChildExits ==
  /\ child = "running"
  /\ child' = "dead"
  /\ UNCHANGED <<deferredVars, launcherVars, typed, ptySize, screenSize, sleepVars,
                 exit, stop, resizing, termVars, clientVars>>

-----------------------------------------------------------------------------
(* Client operations, each under the registry lock.                        *)

Unlocked == tpc = "idle" /\ resizing = NoSize

\* write_raw and write_input: before the exec, frozen, or through.  An input
\* for a dead child is an error and is not counted.
Write(inputs, frozen) ==
  IF ~launched THEN queued' = queued \o inputs /\ UNCHANGED <<asleep, typed>>
  ELSE IF frozen THEN asleep' = asleep \o inputs /\ UNCHANGED <<queued, typed>>
  ELSE typed' = typed \o inputs /\ UNCHANGED <<queued, asleep>>

\* Input that wakes nobody: the prompt injector, MCP.
WriteInput ==
  /\ Unlocked /\ sent < MaxInputs /\ (launched => Alive)
  /\ sent' = sent + 1
  /\ Write(<<sent'>>, hibernated)
  /\ UNCHANGED <<launched, cancelled, pending, launcherVars, child, ptySize, screenSize,
                 hibernated, exit, stop, resizing, termVars, resizes, wanted>>

\* ensure_session_awake: SIGCONT, then the queue, then what the caller writes.
Wake(inputs) ==
  /\ child' = IF child = "stopped" THEN "running" ELSE child
  /\ hibernated' = FALSE
  /\ asleep' = <<>>
  /\ IF ~launched THEN queued' = queued \o asleep \o inputs /\ UNCHANGED typed
     ELSE typed' = typed \o asleep \o inputs /\ UNCHANGED queued

\* wake_session and ensure_session_awake: the wake request, an attach.
WakeSession ==
  /\ Unlocked /\ hibernated /\ Alive
  /\ Wake(<<>>)
  /\ UNCHANGED <<launched, cancelled, pending, launcherVars, ptySize, screenSize,
                 exit, stop, resizing, termVars, clientVars>>

\* Input that wakes first: an attached client, session.send_text.
WriteWaking ==
  /\ Unlocked /\ sent < MaxInputs /\ hibernated /\ Alive
  /\ sent' = sent + 1
  /\ Wake(<<sent'>>)
  /\ UNCHANGED <<launched, cancelled, pending, launcherVars, ptySize, screenSize,
                 exit, stop, resizing, termVars, resizes, wanted>>

\* hibernate: an error while no holder answers.
Hibernate ==
  /\ Unlocked /\ Alive
  /\ child' = "stopped" /\ hibernated' = TRUE
  /\ UNCHANGED <<deferredVars, launcherVars, typed, ptySize, screenSize, asleep,
                 exit, stop, resizing, termVars, clientVars>>

\* resize: a proposal before the exec; after it the terminal, ...
Resize(size) ==
  /\ Unlocked /\ resizes < MaxResizes /\ (launched => Alive)
  /\ resizes' = resizes + 1 /\ wanted' = size
  /\ IF launched THEN ptySize' = size /\ resizing' = size /\ UNCHANGED pending
     ELSE pending' = size /\ UNCHANGED <<ptySize, resizing>>
  /\ UNCHANGED <<launched, cancelled, queued, launcherVars, child, typed, screenSize,
                 sleepVars, exit, stop, termVars, sent>>

\* ... then the emulator.
ResizeScreen ==
  /\ resizing # NoSize
  /\ screenSize' = resizing /\ resizing' = NoSize
  /\ UNCHANGED <<deferredVars, launcherVars, child, typed, ptySize, sleepVars,
                 exit, stop, termVars, clientVars>>

\* Mutant: the launcher is joined but not told.
TerminateForgetsCancel ==
  /\ Unlocked
  /\ tpc' = IF launched THEN "kill" ELSE "join"
  /\ result' = IF launched THEN result ELSE "SIGKILL"
  /\ UNCHANGED <<deferredVars, launcherVars, child, typed, ptySize, screenSize,
                 sleepVars, exit, stop, resizing, clientVars>>

\* terminate: cancel the launch, unless there has been one.
Terminate ==
  /\ Unlocked
  /\ tpc' = IF launched THEN "kill" ELSE "join"
  /\ cancelled' = ~launched
  /\ stop' = ~launched
  /\ result' = IF launched THEN result ELSE "SIGKILL"
  /\ UNCHANGED <<launched, pending, queued, launcherVars, child, typed, ptySize,
                 screenSize, sleepVars, exit, resizing, clientVars>>

\* Session::drop: the watch ends, a launched child is left to its holder.
DropSession ==
  /\ Unlocked
  /\ tpc' = "drop"
  /\ stop' = TRUE /\ cancelled' = ~launched
  /\ UNCHANGED <<launched, pending, queued, launcherVars, child, typed, ptySize,
                 screenSize, sleepVars, exit, resizing, result, clientVars>>

TerminateKill ==
  /\ tpc = "kill"
  /\ tpc' = "await" /\ child' = "dead"
  /\ UNCHANGED <<deferredVars, launcherVars, typed, ptySize, screenSize, sleepVars,
                 exit, stop, resizing, result, clientVars>>

\* The exit was recorded, or the grace is over.
TerminateAwait ==
  /\ tpc = "await"
  /\ tpc' = "join" /\ stop' = TRUE
  /\ result' = IF exit = NoExit THEN "SIGKILL" ELSE exit
  /\ UNCHANGED <<deferredVars, launcherVars, child, typed, ptySize, screenSize,
                 sleepVars, exit, resizing, clientVars>>

Join ==
  /\ tpc \in {"join", "drop"} /\ lpc = "gone"
  /\ tpc' = IF tpc = "join" THEN "done" ELSE "dropped"
  /\ UNCHANGED <<deferredVars, launcherVars, child, typed, ptySize, screenSize,
                 sleepVars, exit, stop, resizing, result, clientVars>>

-----------------------------------------------------------------------------
Launcher ==
  Settle \/ SettleCancelled \/ Exec \/ ExecFails \/ FinishLaunch \/ KillRaced
    \/ FlushQueued \/ LateResize \/ LateResizeScreen \/ PumpEnds

Terminating == TerminateKill \/ TerminateAwait \/ Join

Next ==
  \/ Launcher
  \/ ChildExits
  \/ WriteInput \/ WriteWaking \/ WakeSession \/ Hibernate
  \/ (\E size \in Sizes : Resize(size)) \/ ResizeScreen
  \/ Terminate \/ DropSession \/ Terminating

\* Running threads go on; nobody has to type, resize, hibernate or terminate.
Fairness == WF_vars(Launcher) /\ WF_vars(ResizeScreen) /\ WF_vars(Terminating)

Spec == Init /\ [][Next]_vars /\ Fairness

-----------------------------------------------------------------------------
\* Terminating never leaves a child behind, and dropping the session none that
\* was not launched, however the cancel and the launch race: "the launcher
\* (which double-checks under the same lock, killing a child it raced into
\* existence)".
NoOrphan == tpc = "done" \/ (tpc = "dropped" /\ ~launched) => ~Alive

\* The launch and every hibernation are over and the child reads its terminal.
Settled == lpc = "pump" /\ child = "running" /\ ~hibernated /\ resizing = NoSize

\* No input is lost or written twice between the queue of the launch, the
\* queue of the hibernation and the terminal.
InputDelivered ==
  Settled => /\ Len(typed) = sent
             /\ \A i \in 1..sent : \E p \in 1..sent : typed[p] = i

\* terminate and drop join the launcher while they hold the registry lock: they
\* return.
TerminateReturns == tpc # "idle" ~> tpc \in {"done", "dropped"}

\* "Input typed before the child exists, flushed right after exec": the child
\* reads its input in the order it was typed.
InputInOrder == \A p \in 1..(Len(typed) - 1) : typed[p] < typed[p + 1]

\* A late size is applied "as an ordinary resize": terminal and emulator end
\* up with the size that was asked for last.
LastSizeWins == Settled => ptySize = wanted /\ screenSize = wanted

\* "Never write into a stopped tree's PTY (nobody drains the slave ...)".
StoppedTreeNotWritten == [][child = "stopped" => typed' = typed \/ child' = "running"]_vars

\* A failed launch is reported as "exit 127, the spawn-failure convention".
LaunchFailureKept == tpc = "done" /\ exit = "127" => result = "127"

\* Whatever the state of its launch, no child survives a termination, and no
\* input is lost on its way to it.
LaunchInv == TypeOK /\ NoOrphan /\ InputDelivered

=============================================================================
