----------------------------- MODULE HeldSession -----------------------------
(***************************************************************************)
(* A session whose child is owned by a holder and outlives the daemon:     *)
(* the holder (homie-engine/src/holder/server.rs) under its manager        *)
(* (holder/manager.rs), the output log with the exit marker in it, and     *)
(* the daemon's pump (session/pump.rs, pump_held), which follows the log,  *)
(* keeps screen checkpoints (checkpoint.rs) and probes the holder.  The    *)
(* daemon may stop or crash at any moment, and adopts what is alive when   *)
(* it comes back (registry.rs, restore).                                   *)
(*                                                                         *)
(* The log is a sequence of tokens: output, and the head and the tail of   *)
(* an exit marker, each tagged with the incarnation that wrote it.  The    *)
(* pump takes one token per step; a chunk is several steps.  Rotation is   *)
(* the subject of OutputLog.                                               *)
(***************************************************************************)
EXTENDS Integers, Sequences, FiniteSets

CONSTANTS
  MaxInc,       \* bound: incarnations of the session
  MaxOut,       \* bound: outputs of each incarnation
  MaxDown,      \* bound: times the daemon goes down
  MaxCrash,     \* bound: holders that die without a marker
  Budget,       \* replay budget: how much of the log is replayed at most
  ResumeAtOnce, \* may a launch come before the old holder thread has left?
  TornWrites    \* may a crash cut a marker in two?

ASSUME HeldAssumption ==
  /\ MaxInc \in Nat /\ MaxOut \in Nat /\ MaxDown \in Nat /\ MaxCrash \in Nat
  /\ Budget \in Nat /\ ResumeAtOnce \in BOOLEAN /\ TornWrites \in BOOLEAN

VARIABLES
  log,                  \* the output log
  hpc, inc, epoch,      \* the holder: phase, incarnation, epoch_offset
  outs, unread,         \* ... output of its child, and what is not logged yet
  active,               \* the manager: the session's thread is still there
  crashes,              \* holders that died without a marker
  up, downs,            \* the daemon
  ppc,                  \* its pump, "none" without a session
  floor, offset, mbuf,  \* exit_marker_floor, read offset, marker_buffer
  shown, from, dirty,   \* the emulator: output fed, since where, not checkpointed
  exit,                 \* the exit the session reports
  asked,                \* the incarnation it was launched or adopted for
  tail0,                \* pre_spawn_tail
  ckpt,                 \* the screen checkpoint
  rec                   \* the record: Live, or how the session ended

holderVars == <<hpc, inc, epoch, outs, unread, active, crashes>>
pumpVars   == <<floor, offset, mbuf, shown, from, dirty, exit, asked, tail0>>
vars == <<log, holderVars, up, downs, ppc, pumpVars, ckpt, rec>>

NoExit  == 0
Unknown == -1
DaemonRestart == -2
Live == -3
LaunchFailed == -4
NoCkpt  == [offset |-> -1, mbuf |-> <<>>, shown |-> <<>>, from |-> 0]
Token(kind) == [inc |-> inc, kind |-> kind]
Tokens == [inc : 1..MaxInc, kind : {"out", "head", "tail"}]
Answering == hpc \in {"serving", "finished", "drained", "marked"}   \* stat answers
IsAlive == hpc = "serving"                                          \* ... with alive

IsTokens(s) == \A i \in 1..Len(s) : s[i] \in Tokens

TypeOK ==
  /\ IsTokens(log) /\ IsTokens(mbuf) /\ IsTokens(shown)
  /\ hpc \in {"none", "serving", "finished", "drained", "marked", "closed"}
  /\ inc \in 0..MaxInc /\ epoch \in 0..Len(log) /\ outs \in 0..MaxOut
  /\ unread \in 0..outs /\ active \in BOOLEAN /\ crashes \in 0..MaxCrash
  /\ up \in BOOLEAN /\ downs \in 0..MaxDown
  /\ ppc \in {"none", "launching", "read", "quiet", "look", "exited"}
  /\ floor \in 0..Len(log) /\ offset \in 0..Len(log) /\ from \in 0..offset
  /\ dirty \in BOOLEAN /\ exit \in Unknown..MaxInc /\ asked \in 0..MaxInc
  /\ tail0 \in 0..Len(log)
  /\ ckpt.offset \in -1..Len(log) /\ IsTokens(ckpt.mbuf) /\ IsTokens(ckpt.shown)
  /\ rec \in LaunchFailed..MaxInc

Init ==
  /\ log = <<>>
  /\ hpc = "none" /\ inc = 0 /\ epoch = 0 /\ outs = 0 /\ unread = 0
  /\ active = FALSE /\ crashes = 0
  /\ up = TRUE /\ downs = 0
  /\ ppc = "none" /\ floor = 0 /\ offset = 0 /\ mbuf = <<>>
  /\ shown = <<>> /\ from = 0 /\ dirty = FALSE /\ exit = NoExit /\ asked = 0 /\ tail0 = 0
  /\ ckpt = NoCkpt /\ rec = NoExit

-----------------------------------------------------------------------------
(* The holder.                                                             *)

ChildWrites ==
  /\ hpc = "serving" /\ outs < MaxOut
  /\ outs' = outs + 1 /\ unread' = unread + 1
  /\ UNCHANGED <<log, hpc, inc, epoch, active, crashes, up, downs, ppc, pumpVars, ckpt, rec>>

Outputs(n) == [i \in 1..n |-> Token("out")]

\* pump_pty
PumpPty ==
  /\ hpc = "serving" /\ unread > 0
  /\ log' = log \o Outputs(unread) /\ unread' = 0
  /\ UNCHANGED <<hpc, inc, epoch, outs, active, crashes, up, downs, ppc, pumpVars, ckpt, rec>>

\* watch_exit reaps the child and sets finished, ...
ChildExits ==
  /\ hpc = "serving"
  /\ hpc' = "finished"
  /\ UNCHANGED <<log, inc, epoch, outs, unread, active, crashes, up, downs, ppc, pumpVars, ckpt, rec>>

\* ... drains the terminal, ...
FinalDrain ==
  /\ hpc = "finished"
  /\ hpc' = "drained" /\ log' = log \o Outputs(unread) /\ unread' = 0
  /\ UNCHANGED <<inc, epoch, outs, active, crashes, up, downs, ppc, pumpVars, ckpt, rec>>

\* ... appends the marker, ...
AppendMarker ==
  /\ hpc = "drained"
  /\ hpc' = "marked" /\ log' = log \o <<Token("head"), Token("tail")>>
  /\ UNCHANGED <<inc, epoch, outs, unread, active, crashes, up, downs, ppc, pumpVars, ckpt, rec>>

\* ... and removes the control files.
CloseHolder ==
  /\ hpc = "marked"
  /\ hpc' = "closed"
  /\ UNCHANGED <<log, inc, epoch, outs, unread, active, crashes, up, downs, ppc, pumpVars, ckpt, rec>>

\* The manager forgets the session when its thread ends.
ThreadEnds ==
  /\ hpc = "closed"
  /\ hpc' = "none" /\ active' = FALSE
  /\ UNCHANGED <<log, inc, epoch, outs, unread, crashes, up, downs, ppc, pumpVars, ckpt, rec>>

TornAt == IF TornWrites THEN {"drained"} ELSE {}

\* The holder process dies, perhaps in the middle of a marker.
HolderCrash ==
  /\ hpc \in {"serving", "finished", "drained"} /\ crashes < MaxCrash
  /\ hpc' = "none" /\ active' = FALSE /\ unread' = 0 /\ crashes' = crashes + 1
  /\ log' \in {log} \cup {Append(log, Token("head")) : x \in {hpc} \cap TornAt}
  /\ UNCHANGED <<inc, epoch, outs, up, downs, ppc, pumpVars, ckpt, rec>>

-----------------------------------------------------------------------------
(* Launching and attaching.                                                *)

\* HolderLauncher::launch and the manager: a new holder, unless one is alive
\* or the thread of an old one has not ended.
Launch ==
  /\ up /\ ppc \in {"none", "exited"} /\ inc < MaxInc
  /\ active => ResumeAtOnce
  /\ IF IsAlive \/ active THEN UNCHANGED holderVars
     ELSE /\ inc' = inc + 1 /\ epoch' = Len(log) /\ hpc' = "serving" /\ active' = TRUE
          /\ outs' = 0 /\ unread' = 0 /\ UNCHANGED crashes
  /\ ppc' = "launching" /\ asked' = inc + 1 /\ tail0' = Len(log)
  /\ rec' = Live /\ exit' = NoExit
  /\ UNCHANGED <<log, up, downs, floor, offset, mbuf, shown, from, dirty, ckpt>>

\* A checkpoint within the budget seeds the emulator, else the tail is replayed
\* (a reader has no sync points: only the writer records them).
Usable == ckpt.offset >= 0 /\ ckpt.offset <= Len(log) /\ Len(log) - ckpt.offset <= Budget

ReplayStart == IF Len(log) > Budget THEN Len(log) - Budget ELSE 0

StartPump(f) ==
  /\ ppc' = "read" /\ floor' = f /\ exit' = NoExit /\ dirty' = FALSE
  /\ IF Usable
       THEN offset' = ckpt.offset /\ mbuf' = ckpt.mbuf /\ shown' = ckpt.shown /\ from' = ckpt.from
       ELSE offset' = ReplayStart /\ mbuf' = <<>> /\ shown' = <<>> /\ from' = ReplayStart

\* Mutant: the floor of a restart is the start of the log.
AttachWithoutFloor ==
  /\ up /\ ppc = "launching" /\ Answering
  /\ StartPump(0)
  /\ UNCHANGED <<log, holderVars, up, downs, asked, tail0, ckpt, rec>>

\* wait_for_holder: any stat answer attaches, ...
Attach ==
  /\ up /\ ppc = "launching" /\ Answering
  /\ StartPump(epoch)
  /\ UNCHANGED <<log, holderVars, up, downs, asked, tail0, ckpt, rec>>

\* ... and so does a log that has grown, ...
AttachByEvidence ==
  /\ up /\ ppc = "launching" /\ ~Answering /\ Len(log) > tail0
  /\ StartPump(tail0)
  /\ UNCHANGED <<log, holderVars, up, downs, asked, tail0, ckpt, rec>>

\* ... or the spawn fails.
AttachFails ==
  /\ up /\ ppc = "launching" /\ ~Answering /\ Len(log) = tail0
  /\ ppc' = "none" /\ rec' = LaunchFailed
  /\ UNCHANGED <<log, holderVars, up, downs, pumpVars, ckpt>>

-----------------------------------------------------------------------------
(* The pump.                                                               *)

Checkpoint == [offset |-> offset, mbuf |-> mbuf, shown |-> shown, from |-> from]

\* HolderExitMarker::drain for one more token: what stays in the buffer, what
\* is output, and the exit that was decoded.
Drained(buffer, t) ==
  IF buffer = <<>>
    THEN IF t.kind = "head"
           THEN [buffer |-> <<t>>, output |-> <<>>, exit |-> NoExit]
           ELSE [buffer |-> <<>>, output |-> <<t>>, exit |-> NoExit]
  ELSE IF t.kind = "tail"
    THEN [buffer |-> <<>>, output |-> <<>>,
          exit |-> IF Len(buffer) = 1 THEN t.inc ELSE NoExit]
  ELSE [buffer |-> Append(buffer, t), output |-> <<>>, exit |-> NoExit]

\* Below the floor an exit is not honoured, and a marker ends at the floor.
\* The last token of the incarnation ends the pump, with a checkpoint.
PumpRead ==
  /\ up /\ ppc = "read" /\ offset < Len(log)
  /\ LET d == Drained(mbuf, log[offset + 1])
         stale == offset < floor
     IN /\ offset' = offset + 1
        /\ mbuf' = IF offset + 1 = floor THEN <<>> ELSE d.buffer
        /\ shown' = shown \o d.output
        /\ exit' = IF stale THEN NoExit ELSE d.exit
        /\ IF exit' = NoExit
             THEN ppc' = "read" /\ dirty' = (dirty \/ d.output # <<>>) /\ UNCHANGED ckpt
             ELSE /\ ppc' = "exited" /\ dirty' = FALSE
                  /\ ckpt' = IF dirty THEN [offset |-> offset + 1, mbuf |-> d.buffer,
                                             shown |-> shown, from |-> from]
                             ELSE ckpt
  /\ UNCHANGED <<log, holderVars, up, downs, floor, from, asked, tail0, rec>>

\* An empty chunk: a checkpoint once the screen has settled.
PumpQuiet ==
  /\ up /\ ppc = "read" /\ offset = Len(log)
  /\ ppc' = "quiet"
  /\ \/ UNCHANGED <<dirty, ckpt>>
     \/ dirty /\ dirty' = FALSE /\ ckpt' = Checkpoint
  /\ UNCHANGED <<log, holderVars, up, downs, floor, offset, mbuf, shown, from, exit, asked, tail0, rec>>

\* Mutant: a dead holder is not probed for.
PumpNoProbe ==
  /\ up /\ ppc = "quiet"
  /\ ppc' = "read"
  /\ UNCHANGED <<log, holderVars, up, downs, pumpVars, ckpt, rec>>

\* The liveness probe, when it is due, or the watcher's wake on new bytes.
PumpProbe ==
  /\ up /\ ppc = "quiet"
  /\ \/ ppc' = IF IsAlive THEN "read" ELSE "look"
     \/ offset < Len(log) /\ ppc' = "read"
  /\ UNCHANGED <<log, holderVars, up, downs, pumpVars, ckpt, rec>>

\* One last look: nothing new is a death without a marker.
PumpLook ==
  /\ up /\ ppc = "look"
  /\ IF offset < Len(log) THEN ppc' = "read" /\ UNCHANGED <<exit, dirty, ckpt>>
     ELSE /\ ppc' = "exited" /\ exit' = Unknown /\ dirty' = FALSE
          /\ ckpt' = IF dirty THEN Checkpoint ELSE ckpt
  /\ UNCHANGED <<log, holderVars, up, downs, floor, offset, mbuf, shown, from, asked, tail0, rec>>

\* The record follows the session and is saved.
PersistExit ==
  /\ up /\ ppc = "exited" /\ rec # exit
  /\ rec' = exit
  /\ UNCHANGED <<log, holderVars, up, downs, ppc, pumpVars, ckpt>>

-----------------------------------------------------------------------------
(* The daemon.                                                             *)

\* It stops, with a last checkpoint, or crashes, without.
DaemonDown ==
  /\ up /\ downs < MaxDown
  /\ up' = FALSE /\ downs' = downs + 1
  /\ ppc' = "none" /\ exit' = NoExit /\ dirty' = FALSE
  /\ \/ UNCHANGED ckpt
     \/ dirty /\ ckpt' = Checkpoint
  /\ UNCHANGED <<log, holderVars, floor, offset, mbuf, shown, from, asked, tail0, rec>>

\* restore adopts a holder that answers and is alive, ...
Adopt ==
  /\ ~up /\ IsAlive
  /\ up' = TRUE
  /\ StartPump(epoch)
  /\ asked' = inc
  /\ UNCHANGED <<log, holderVars, downs, tail0, ckpt, rec>>

\* ... and reap_orphans writes off the record of any other.
Reap ==
  /\ ~up /\ ~IsAlive
  /\ up' = TRUE
  /\ rec' = IF rec = Live THEN DaemonRestart ELSE rec
  /\ UNCHANGED <<log, holderVars, downs, ppc, pumpVars, ckpt>>

-----------------------------------------------------------------------------
Holder == PumpPty \/ FinalDrain \/ AppendMarker \/ CloseHolder \/ ThreadEnds
Pump == Attach \/ AttachByEvidence \/ AttachFails \/ PumpRead \/ PumpQuiet \/ PumpProbe \/ PumpLook

Next ==
  \/ Holder \/ ChildWrites \/ ChildExits \/ HolderCrash
  \/ Launch \/ Pump \/ PersistExit
  \/ DaemonDown \/ Adopt \/ Reap

\* The holder's threads and the pump run; a child may run for ever.
Fairness == WF_vars(Holder) /\ WF_vars(Pump)

Spec == Init /\ [][Next]_vars /\ Fairness

-----------------------------------------------------------------------------
\* What the emulator must show of the log between two offsets: where the output
\* is, and the end of a marker that replay started in the middle of.
Visible(lo, hi) ==
  {i \in (lo + 1)..hi : log[i].kind = "out" \/ (i = lo + 1 /\ log[i].kind = "tail")}

\* Those tokens, in their order, and no others.
Shows(s, lo, hi) ==
  /\ Len(s) = Cardinality(Visible(lo, hi))
  /\ \A i \in Visible(lo, hi) : s[Cardinality(Visible(lo, i))] = log[i]

\* Through crashes, restarts and checkpoints the emulator has been fed exactly
\* the output of the log up to the pump's offset: nothing twice, no gap.
ScreenIsLog == ppc \in {"read", "quiet", "look", "exited"} => Shows(shown, from, offset)

\* "honoring only markers at or beyond exit_marker_floor": a session reports
\* the exit of its own incarnation, never one of an earlier child that is
\* still in the log.
OwnExitOnly == exit > NoExit => exit = asked

\* A session whose child is gone learns it while the daemon runs.
ExitNoticed ==
  (ppc = "read" /\ ~IsAlive) ~> (ppc = "exited" \/ ~up)

\* "One last look for a marker that raced the probe": an exit is unknown only
\* when the holder died without a marker.
UnknownOnlyAfterCrash == exit = Unknown => crashes > 0

\* "an exit that happens while no daemon is running is still observed later"
ExitWhileDownObserved ==
  rec = DaemonRestart => \A i \in 1..Len(log) : ~(log[i].kind = "tail" /\ log[i].inc = inc)

\* The exit a session reports is its own, and its screen is the log's.
HeldInv == TypeOK /\ OwnExitOnly /\ ScreenIsLog

=============================================================================
