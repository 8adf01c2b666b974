---------------------------- MODULE StatusReducer ----------------------------
(***************************************************************************)
(* homie-engine/src/status/mod.rs: the per-session status state machine.   *)
(* Every signal the daemon gets about one session is one action.  The      *)
(* reducer has no clock: the caller passes `now`.  The three instants it   *)
(* keeps are modelled by their ages in ticks, saturated at the threshold   *)
(* they are compared with, and Elapse lets one tick of time pass.          *)
(*                                                                         *)
(* Left out: responding_since and pending_needs_input, which are written   *)
(* and never read, and the wording of a detail.  A screen's content_seq is *)
(* abstracted to whether it differs from the last one judged.              *)
(***************************************************************************)
EXTENDS SessionStatus, Integers

CONSTANTS
  Authorities,        \* the authority modes a behaviour may start in
  Subagents,          \* subagent ids
  IdleConfirmations,  \* weak idle frames needed to leave Working
  IdleConfirmCap,     \* ... or this age of the candidacy
  StartupGrace,       \* Starting is held this long against weak evidence
  BlockerClearScans,  \* consecutive misses that release a visible blocker
  StalenessTimeout    \* silence after which Working becomes Unknown

HooksPrimary  == "hooks_primary"
ScreenPrimary == "screen_primary"
ProcessOnly   == "process_only"

ASSUME TimingAssumption ==
  /\ Authorities \subseteq {HooksPrimary, ScreenPrimary, ProcessOnly}
  /\ IdleConfirmations \in Nat \ {0}
  /\ BlockerClearScans \in Nat \ {0}
  /\ IdleConfirmCap \in Nat \ {0}
  /\ StartupGrace \in Nat
  /\ StalenessTimeout \in Nat

\* What a frame of the screen can be read as (detect::ManifestState).
Skip        == "skip"
NoBelief    == "none"
ScreenState == {Working, Idle, Permission, Question, Skip}

VARIABLES
  authority,      \* who leads: fixed when the session starts
  status,         \* the canonical answer
  turnInFlight,   \* a turn is in flight
  subagents,      \* running subagents, bookkeeping only
  idleSince,      \* age of the idle candidacy, or NoAge
  idleConfirms,   \* idle-confirming observations so far
  idleStrong,     \* an end-of-turn signal backs the candidacy
  pendingDone,    \* fire turn_completed at the next commit
  blockerActive,  \* a prompt is believed to be on the screen
  blockerMisses,  \* consecutive frames that did not show it
  belief,         \* how the last judged frame read
  skipActive,     \* a skip screen is held
  sinceSpawn,     \* age of spawned_at, saturated at StartupGrace
  quiet,          \* age of last_signal_at, saturated past StalenessTimeout
  turnCompleted,  \* outcome: the step just taken completed a turn
  detail,         \* outcome: kind of the detail it produced, or NoDetail
  ended,          \* history: an end of turn was signalled since the last work
  idleFrames,     \* history: idle frames counted since the last work or prompt
  missRun         \* history: frames judged since the last one showing a prompt

candVars    == <<idleSince, idleConfirms, idleStrong, pendingDone>>
blockerVars == <<blockerActive, blockerMisses>>
screenVars  == <<belief, skipActive>>
ageVars     == <<sinceSpawn, quiet>>
outVars     == <<turnCompleted, detail>>
histVars    == <<ended, idleFrames, missRun>>
vars == <<authority, status, turnInFlight, subagents, candVars, blockerVars,
          screenVars, ageVars, outVars, histVars>>

NoAge    == -1
NoDetail == "none"
AtMost(n, bound) == IF n <= bound THEN n ELSE bound

\* TypeOK in the three kinds of value, which proofs take one at a time.
EnumTypes ==
  /\ authority \in Authorities
  /\ status \in Status
  /\ subagents \subseteq Subagents
  /\ belief \in (ScreenState \ {Skip}) \cup {NoBelief}
  /\ detail \in NeedsInput \cup {NoDetail}

FlagTypes ==
  /\ turnInFlight \in BOOLEAN
  /\ idleStrong \in BOOLEAN
  /\ pendingDone \in BOOLEAN
  /\ blockerActive \in BOOLEAN
  /\ skipActive \in BOOLEAN
  /\ turnCompleted \in BOOLEAN
  /\ ended \in BOOLEAN

CountTypes ==
  /\ idleSince \in 0..IdleConfirmCap \cup {NoAge}
  /\ idleConfirms \in 0..IdleConfirmations
  /\ blockerMisses \in 0..BlockerClearScans
  /\ sinceSpawn \in 0..StartupGrace
  /\ quiet \in 0..StalenessTimeout + 1
  /\ idleFrames \in 0..IdleConfirmations
  /\ missRun \in 0..BlockerClearScans

\* Every counter and age stays within the threshold it is compared with.
TypeOK == EnumTypes /\ FlagTypes /\ CountTypes

Init ==
  /\ authority \in Authorities
  /\ status = Starting
  /\ turnInFlight = FALSE
  /\ subagents = {}
  /\ idleSince = NoAge /\ idleConfirms = 0
  /\ idleStrong = FALSE /\ pendingDone = FALSE
  /\ blockerActive = FALSE /\ blockerMisses = 0
  /\ belief = NoBelief /\ skipActive = FALSE
  /\ sinceSpawn \in {0, StartupGrace}     \* a launch, or an adoption
  /\ quiet = 0
  /\ turnCompleted = FALSE /\ detail = NoDetail
  /\ ended = FALSE /\ idleFrames = 0 /\ missRun = 0

-----------------------------------------------------------------------------
(* The pieces the handlers share. *)

NoOutcome == turnCompleted' = FALSE /\ detail' = NoDetail
KeepTurn == UNCHANGED <<status, turnInFlight, candVars, ended, idleFrames>>
KeepBlocker == UNCHANGED <<blockerVars, missRun>>

CancelIdleCandidacy ==
  /\ idleSince' = NoAge /\ idleConfirms' = 0
  /\ idleStrong' = FALSE /\ pendingDone' = FALSE

\* Mutant: work resumes without withdrawing the idle candidacy.
GoWorkingKeepsCandidacy ==
  /\ UNCHANGED candVars
  /\ turnInFlight' = TRUE
  /\ status' = Working
  /\ quiet' = 0
  /\ ended' = FALSE /\ idleFrames' = 0
  /\ NoOutcome

\* go_working: a positive work signal.  A caller may also clear a blocker.
GoWorking ==
  /\ CancelIdleCandidacy
  /\ turnInFlight' = TRUE
  /\ status' = Working
  /\ quiet' = 0
  /\ ended' = FALSE /\ idleFrames' = 0
  /\ NoOutcome

\* `fire` is pending_turn_completed at the moment of the commit.
CommitIdle(fire) ==
  /\ status' = Idle
  /\ turnInFlight' = FALSE
  /\ turnCompleted' = fire /\ detail' = NoDetail
  /\ CancelIdleCandidacy
  /\ quiet' = 0

\* A prompt was announced, by a hook or by the screen.
GoNeedsInput(kind) ==
  /\ CancelIdleCandidacy
  /\ status' = kind
  /\ detail' = kind /\ turnCompleted' = FALSE
  /\ quiet' = 0
  /\ idleFrames' = 0
  /\ UNCHANGED <<turnInFlight, ended>>

\* The canonical status alone moves.
Settle(s) ==
  /\ status' = s
  /\ UNCHANGED <<turnInFlight, candVars, ended, idleFrames>>
  /\ NoOutcome /\ quiet' = 0

\* handle_strong_idle: a definitive end of turn.  It commits at once when
\* the screen already reads idle, otherwise it waits for one confirmation.
StrongIdle ==
  \/ status = Starting /\ Settle(Idle)
  \/ status \notin {Starting, Working} /\ Settle(status)
  \/ /\ status = Working /\ belief = Idle
     /\ CommitIdle(turnInFlight)
     /\ ended' = TRUE /\ UNCHANGED idleFrames
  \/ /\ status = Working /\ belief # Idle
     /\ idleStrong' = TRUE /\ pendingDone' = turnInFlight
     /\ idleSince' = IF idleSince = NoAge THEN 0 ELSE idleSince
     /\ ended' = TRUE
     /\ UNCHANGED <<idleConfirms, status, turnInFlight, idleFrames>>
     /\ NoOutcome /\ quiet' = 0

\* One idle frame counted; `enough` decides whether it commits.
CountIdle(confirms, enough) ==
  /\ idleFrames' = AtMost(idleFrames + 1, IdleConfirmations)
  /\ UNCHANGED ended
  /\ \/ enough /\ CommitIdle(pendingDone)
     \/ /\ ~enough
        /\ idleConfirms' = confirms
        /\ idleSince' = IF idleSince = NoAge THEN 0 ELSE idleSince
        /\ UNCHANGED <<idleStrong, pendingDone, status, turnInFlight>>
        /\ NoOutcome /\ quiet' = 0

Confirms == (IF idleSince = NoAge THEN 0 ELSE idleConfirms) + 1

\* Mutant: the count is off by one.
ConfirmIdleOneTooSoon == CountIdle(Confirms, Confirms + 1 >= IdleConfirmations)

\* confirm_idle: one idle frame while Working.
ConfirmIdle ==
  LET required == IF idleStrong THEN 1 ELSE IdleConfirmations
  IN CountIdle(Confirms, Confirms >= required \/ idleSince >= IdleConfirmCap)

-----------------------------------------------------------------------------
(* The signals.  Exited is absorbing: reduce returns before looking.       *)

\* Mutant: the early return for a dead session is missing.
DeadOrAlive == TRUE

Alive == status # Exited
FullModel == Alive /\ authority # ProcessOnly

ProcessExit ==
  /\ Alive
  /\ status' = Exited
  /\ NoOutcome
  /\ UNCHANGED <<authority, turnInFlight, subagents, candVars, blockerVars,
                 screenVars, ageVars, histVars>>

\* For a ProcessOnly agent the first output means Working; for the others
\* output only refreshes recency.
PtyOutputActivity ==
  /\ Alive
  /\ quiet' = 0
  /\ NoOutcome
  /\ IF authority = ProcessOnly /\ status = Starting
       THEN status' = Working /\ turnInFlight' = TRUE
       ELSE UNCHANGED <<status, turnInFlight>>
  /\ UNCHANGED <<authority, subagents, candVars, blockerVars, screenVars,
                 sinceSpawn, histVars>>

UserKeystroke ==
  /\ FullModel
  /\ quiet' = 0
  /\ NoOutcome /\ KeepTurn
  /\ UNCHANGED <<authority, subagents, screenVars, sinceSpawn>> /\ KeepBlocker

HookFrame == UNCHANGED <<authority, screenVars, sinceSpawn>>

\* SubagentStart and SubagentStop, and every other event that carries an
\* agent id: bookkeeping only.
SubagentHook ==
  /\ FullModel
  /\ \/ \E a \in Subagents : subagents' \in {subagents \cup {a}, subagents \ {a}}
     \/ UNCHANGED subagents
  /\ quiet' = 0
  /\ NoOutcome /\ KeepTurn /\ KeepBlocker /\ HookFrame

\* SessionStart ends the startup grace.
SessionStartHook ==
  /\ FullModel
  /\ Settle(IF status = Starting THEN Idle ELSE status)
  /\ UNCHANGED subagents /\ KeepBlocker /\ HookFrame

\* Mutant: a work hook leaves the on-screen blocker in force.
WorkHookKeepsBlocker ==
  /\ FullModel
  /\ GoWorking
  /\ UNCHANGED subagents /\ KeepBlocker /\ HookFrame

\* UserPromptSubmit and PreToolUse.
WorkHook ==
  /\ FullModel
  /\ GoWorking
  /\ blockerActive' = FALSE /\ blockerMisses' = 0
  /\ UNCHANGED <<subagents, missRun>> /\ HookFrame

\* PermissionRequest, and the notifications that ask for something.
PromptHook(kind) ==
  /\ FullModel
  /\ GoNeedsInput(kind)
  /\ UNCHANGED subagents /\ KeepBlocker /\ HookFrame

\* Stop, the agent_completed notification, and Codex's turn-complete notify.
EndOfTurn ==
  /\ FullModel
  /\ StrongIdle
  /\ UNCHANGED subagents /\ KeepBlocker /\ HookFrame

\* SessionEnd and unrecognised notifications are hints: recency only.
HintHook ==
  /\ FullModel
  /\ Settle(status)
  /\ UNCHANGED subagents /\ KeepBlocker /\ HookFrame

-----------------------------------------------------------------------------
(* handle_screen.  A skip screen holds everything, an unchanged frame only *)
(* ends a skip, and every other frame is judged.                           *)

ScreenFrame == UNCHANGED <<authority, subagents, sinceSpawn>>

ScreenSkip ==
  /\ FullModel
  /\ skipActive' = TRUE
  /\ Settle(status)
  /\ UNCHANGED belief /\ KeepBlocker /\ ScreenFrame

ScreenUnchanged ==
  /\ FullModel
  /\ belief # NoBelief               \* some content_seq was judged before
  /\ skipActive' = FALSE
  /\ Settle(status)
  /\ UNCHANGED belief /\ KeepBlocker /\ ScreenFrame

Judge(seen) == skipActive' = FALSE /\ belief' = seen /\ ScreenFrame

\* A visible blocker beats everything except process exit.
ScreenBlocker(kind) ==
  /\ FullModel
  /\ Judge(kind)
  /\ blockerActive' = TRUE /\ blockerMisses' = 0 /\ missRun' = 0
  /\ GoNeedsInput(kind)

\* apply_non_blocker_screen.  `cleared`: this frame released a blocker.
NonBlocker(seen, cleared) ==
  \/ seen = Working /\ GoWorking
  \/ seen = Idle /\ status = Working /\ ConfirmIdle
  \/ seen = Idle /\ status = Starting /\ Settle(Idle)
  \/ /\ seen = Idle /\ status \in NeedsInput /\ cleared
     /\ CancelIdleCandidacy
     /\ status' = Idle
     /\ NoOutcome /\ quiet' = 0
     /\ UNCHANGED <<turnInFlight, ended, idleFrames>>
  \/ /\ seen = Idle /\ status \notin {Working, Starting}
     /\ ~(status \in NeedsInput /\ cleared)
     /\ Settle(status)

\* A frame without the prompt while a prompt is held: one stray frame must
\* not clear a prompt the user is still looking at.
BlockerMissed ==
  /\ blockerActive
  /\ blockerMisses + 1 < BlockerClearScans
  /\ blockerMisses' = blockerMisses + 1
  /\ UNCHANGED blockerActive
  /\ Settle(status)

\* Mutant: the first miss releases the blocker.
BlockerReleasedAtOnce(seen) ==
  /\ blockerActive
  /\ blockerActive' = FALSE /\ blockerMisses' = 0
  /\ NonBlocker(seen, TRUE)

\* The last miss releases the blocker, and its frame counts.
BlockerReleased(seen) ==
  /\ blockerActive
  /\ blockerMisses + 1 >= BlockerClearScans
  /\ blockerActive' = FALSE /\ blockerMisses' = 0
  /\ NonBlocker(seen, TRUE)

\* Startup grace holds Starting unless the frame is definitive.
HeldByGrace(seen) ==
  /\ status = Starting
  /\ sinceSpawn < StartupGrace
  /\ ~(authority = ScreenPrimary /\ seen = Working)

PlainFrame(seen) ==
  /\ ~blockerActive
  /\ UNCHANGED blockerVars
  /\ \/ HeldByGrace(seen) /\ Settle(status)
     \/ ~HeldByGrace(seen) /\ NonBlocker(seen, FALSE)

ScreenPlain(seen) ==
  /\ FullModel
  /\ Judge(seen)
  /\ missRun' = AtMost(missRun + 1, BlockerClearScans)
  /\ BlockerMissed \/ BlockerReleased(seen) \/ PlainFrame(seen)

-----------------------------------------------------------------------------
(* handle_tick. *)

TickFrame == UNCHANGED <<authority, subagents, screenVars, sinceSpawn>> /\ KeepBlocker

\* A belief remembered inside the grace is reconsidered when it expires.
TickGraceOver ==
  /\ FullModel
  /\ status = Starting /\ ~skipActive /\ sinceSpawn >= StartupGrace
  /\ \/ belief = Working /\ GoWorking
     \/ /\ belief = Idle
        /\ status' = Idle
        /\ UNCHANGED <<turnInFlight, candVars, quiet, ended, idleFrames>>
        /\ NoOutcome
  /\ TickFrame

\* Running but unreadable for long enough.
TickStale ==
  /\ FullModel
  /\ status = Working /\ quiet > StalenessTimeout
  /\ status' = Unknown
  /\ NoOutcome
  /\ UNCHANGED <<turnInFlight, candVars, quiet, ended, idleFrames>>
  /\ TickFrame

\* Mutant: the tick asks for an idle screen as well.
TickConfirmIfScreenIdle ==
  /\ FullModel
  /\ status = Working /\ quiet <= StalenessTimeout
  /\ idleStrong /\ idleSince # NoAge /\ belief = Idle
  /\ CommitIdle(pendingDone)
  /\ UNCHANGED <<ended, idleFrames>>
  /\ TickFrame

\* The single confirmation a strong idle still needs.
TickConfirm ==
  /\ FullModel
  /\ status = Working /\ quiet <= StalenessTimeout
  /\ idleStrong /\ idleSince # NoAge
  /\ CommitIdle(pendingDone)
  /\ UNCHANGED <<ended, idleFrames>>
  /\ TickFrame

Tick == TickGraceOver \/ TickStale \/ TickConfirm

\* One tick of wall-clock time.
Elapse ==
  /\ sinceSpawn' = AtMost(sinceSpawn + 1, StartupGrace)
  /\ quiet' = AtMost(quiet + 1, StalenessTimeout + 1)
  /\ idleSince' = IF idleSince = NoAge THEN NoAge
                  ELSE AtMost(idleSince + 1, IdleConfirmCap)
  /\ NoOutcome
  /\ UNCHANGED <<authority, status, turnInFlight, subagents, idleConfirms,
                 idleStrong, pendingDone, blockerVars, screenVars, histVars>>

Next ==
  \/ ProcessExit
  \/ PtyOutputActivity
  \/ UserKeystroke
  \/ SubagentHook
  \/ SessionStartHook
  \/ WorkHook
  \/ \E kind \in NeedsInput : PromptHook(kind)
  \/ EndOfTurn
  \/ HintHook
  \/ ScreenSkip
  \/ ScreenUnchanged
  \/ \E kind \in NeedsInput : ScreenBlocker(kind)
  \/ \E seen \in {Working, Idle} : ScreenPlain(seen)
  \/ Tick
  \/ Elapse

\* The pump ticks at least once a second for as long as the session is
\* watched (session/mod.rs, IDLE_TICK_INTERVAL), and time passes.
Fairness == WF_vars(Tick) /\ WF_vars(Elapse)

Spec == Init /\ [][Next]_vars /\ Fairness

-----------------------------------------------------------------------------
(* What the reducer promises. *)

\* The candidacy and blocker bookkeeping agrees with the status: a prompt is
\* held only while the status says so, an idle candidacy only outlives
\* Working in a session that went stale or died, and a completion is owed
\* only for a turn that is in flight and was announced as over.  Every
\* handler relies on it: commit_idle fires, and a miss releases, without
\* looking at the status again.
BlockerBook ==
  /\ blockerActive => status \in NeedsInput \cup {Exited}
  /\ ~blockerActive => blockerMisses = 0
  /\ blockerMisses < BlockerClearScans
  /\ blockerMisses <= missRun

CandidacyBook ==
  /\ idleSince # NoAge => status \in {Working, Unknown, Exited}
  /\ idleSince = NoAge => idleConfirms = 0 /\ ~idleStrong
  /\ idleConfirms < IdleConfirmations
  /\ idleConfirms <= idleFrames

TurnBook ==
  /\ idleStrong => ended
  /\ pendingDone => idleStrong /\ turnInFlight
  /\ status = Working => turnInFlight

BookkeepingInv == BlockerBook /\ CandidacyBook /\ TurnBook

\* The counters stay below the thresholds they are compared with because the
\* bookkeeping resets them in time: TypeOK and BookkeepingInv hold together.
Inv == TypeOK /\ BookkeepingInv

\* turn_completed fires once per turn, on a commit from Working to Idle, and
\* only if the end of the turn was announced after the last sign of work:
\* work that resumes between a Stop and its confirmation withdraws it.
CompletionFollowsEnd ==
  [][turnCompleted' => /\ status = Working /\ status' = Idle
                       /\ ended' /\ turnInFlight /\ ~turnInFlight']_vars

\* Anti-flicker: a working session reads idle only after an announced end of
\* turn, or IdleConfirmations idle frames since it last worked, or an idle
\* candidacy that has lasted IdleConfirmCap.
NoIdleFlicker ==
  [][status = Working /\ status' = Idle =>
       \/ ended'
       \/ idleFrames' >= IdleConfirmations
       \/ idleSince >= IdleConfirmCap]_vars

\* A prompt seen on the screen is taken down by the screen only after
\* BlockerClearScans frames in a row did not show it.
PromptSurvivesStrayFrames ==
  [][(\E seen \in {Working, Idle} : ScreenPlain(seen))
       /\ blockerActive /\ status \in NeedsInput /\ status' \notin NeedsInput
       => missRun' >= BlockerClearScans]_vars

\* The reducer implements the abstract status machine.
Abstract == INSTANCE StatusSpec
ImplementsStatusSpec == Abstract!Spec

\* A frame read inside the startup grace is not forgotten: a session whose
\* screen is readable does not stay Starting for ever.
StartingEnds ==
  []<>(status # Starting \/ belief = NoBelief \/ skipActive)

\* An announced end of turn settles, unless work resumes.
EndOfTurnSettles ==
  (status = Working /\ idleStrong) ~> (status # Working \/ ~ended)

\* A working session that stays silent is not reported Working for ever.
SilenceIsNoticed ==
  []<>(status # Working \/ quiet = 0 \/ authority = ProcessOnly)

\* The ticks alone take a session out of every status that time must end.
TicksSettle == StartingEnds /\ EndOfTurnSettles /\ SilenceIsNoticed

=============================================================================
