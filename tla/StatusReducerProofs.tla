------------------------- MODULE StatusReducerProofs -------------------------
(***************************************************************************)
(* Theorems about the status reducer, for every set of authorities and     *)
(* subagents and every timing that satisfies TimingAssumption.             *)
(*                                                                         *)
(* The inductive invariant is Inv.  TypeOK alone is not inductive: it      *)
(* bounds idleConfirms and blockerMisses only because the bookkeeping says *)
(* that a counter at its threshold has been reset.  One lemma per action   *)
(* shows that the action preserves Inv, part by part.                      *)
(***************************************************************************)
EXTENDS StatusReducer, TLAPS

USE DEF Starting, Working, Idle, Permission, Question, Unknown, Exited,
        NeedsInput, Status, NoAge, NoDetail, NoBelief, Skip, ScreenState,
        HooksPrimary, ScreenPrimary, ProcessOnly

\* The parts of Inv, in one name each.
LEMMA InvParts ==
  Inv <=> /\ EnumTypes /\ FlagTypes /\ CountTypes
          /\ BlockerBook /\ CandidacyBook /\ TurnBook
BY DEF Inv, TypeOK, BookkeepingInv

\* StatusReducer::new and finish_startup_grace start with no candidacy, no
\* blocker and no turn.
LEMMA InitInv == Init => Inv
<1> SUFFICES ASSUME Init PROVE Inv
  OBVIOUS
<1>1. EnumTypes
  BY DEF Init, EnumTypes
<1>2. FlagTypes
  BY DEF Init, FlagTypes
<1>3. CountTypes
  BY TimingAssumption DEF TimingAssumption, Init, CountTypes
<1>4. BlockerBook /\ CandidacyBook /\ TurnBook
  BY TimingAssumption
     DEF TimingAssumption, Init, BlockerBook, CandidacyBook, TurnBook
<1> QED
  BY <1>1, <1>2, <1>3, <1>4, InvParts

\* A step that changes nothing.
LEMMA StutterInv == ASSUME Inv, UNCHANGED vars PROVE Inv'
<1> USE DEF vars, candVars, blockerVars, screenVars, ageVars, outVars, histVars
<1>1. EnumTypes' /\ FlagTypes'
  BY DEF Inv, TypeOK, EnumTypes, FlagTypes
<1>2. CountTypes'
  BY DEF Inv, TypeOK, CountTypes
<1>3. BookkeepingInv'
  BY DEF Inv, BookkeepingInv, BlockerBook, CandidacyBook, TurnBook
<1> QED
  BY <1>1, <1>2, <1>3 DEF Inv, TypeOK

\* The exit changes the status alone.
LEMMA ProcessExitInv == ASSUME Inv, ProcessExit PROVE Inv'
<1> USE TimingAssumption, InvParts
    DEF TimingAssumption, ProcessExit, NoOutcome, candVars, blockerVars, screenVars, ageVars,
        histVars
<1>1. EnumTypes'
  BY DEF EnumTypes
<1>2. FlagTypes'
  BY DEF FlagTypes
<1>3. CountTypes'
  BY DEF CountTypes, CandidacyBook, BlockerBook
<1>4. BlockerBook'
  BY DEF BlockerBook, EnumTypes, FlagTypes, CountTypes
<1>5. CandidacyBook'
  BY DEF CandidacyBook, EnumTypes, FlagTypes, CountTypes
<1>6. TurnBook'
  BY DEF TurnBook, CandidacyBook, EnumTypes, FlagTypes
<1> QED
  BY <1>1, <1>2, <1>3, <1>4, <1>5, <1>6 DEF Inv, TypeOK, BookkeepingInv

\* Output moves only a ProcessOnly session, from Starting to Working.
LEMMA PtyOutputActivityInv == ASSUME Inv, PtyOutputActivity PROVE Inv'
<1> USE TimingAssumption, InvParts
    DEF TimingAssumption, PtyOutputActivity, Alive, NoOutcome, candVars, blockerVars,
        screenVars, histVars
<1>1. EnumTypes'
  BY DEF EnumTypes
<1>2. FlagTypes'
  BY DEF FlagTypes
<1>3. CountTypes'
  BY DEF CountTypes, CandidacyBook, BlockerBook
<1>4. BlockerBook'
  BY DEF BlockerBook, EnumTypes, FlagTypes, CountTypes
<1>5. CandidacyBook'
  BY DEF CandidacyBook, EnumTypes, FlagTypes, CountTypes
<1>6. TurnBook'
  BY DEF TurnBook, CandidacyBook, EnumTypes, FlagTypes
<1> QED
  BY <1>1, <1>2, <1>3, <1>4, <1>5, <1>6 DEF Inv, TypeOK, BookkeepingInv

\* A keystroke only refreshes recency.
LEMMA UserKeystrokeInv == ASSUME Inv, UserKeystroke PROVE Inv'
<1> USE TimingAssumption, InvParts
    DEF TimingAssumption, UserKeystroke, NoOutcome, KeepTurn, KeepBlocker, candVars,
        blockerVars, screenVars
<1>1. EnumTypes'
  BY DEF EnumTypes
<1>2. FlagTypes'
  BY DEF FlagTypes
<1>3. CountTypes'
  BY DEF CountTypes, CandidacyBook, BlockerBook
<1>4. BlockerBook'
  BY DEF BlockerBook, EnumTypes, FlagTypes, CountTypes
<1>5. CandidacyBook'
  BY DEF CandidacyBook, EnumTypes, FlagTypes, CountTypes
<1>6. TurnBook'
  BY DEF TurnBook, CandidacyBook, EnumTypes, FlagTypes
<1> QED
  BY <1>1, <1>2, <1>3, <1>4, <1>5, <1>6 DEF Inv, TypeOK, BookkeepingInv

\* A subagent event touches the subagent set and recency.
LEMMA SubagentHookInv == ASSUME Inv, SubagentHook PROVE Inv'
<1> USE TimingAssumption, InvParts
    DEF TimingAssumption, SubagentHook, NoOutcome, KeepTurn, KeepBlocker, HookFrame, candVars,
        blockerVars, screenVars
<1>1. EnumTypes'
  BY DEF EnumTypes
<1>2. FlagTypes'
  BY DEF FlagTypes
<1>3. CountTypes'
  BY DEF CountTypes, CandidacyBook, BlockerBook
<1>4. BlockerBook'
  BY DEF BlockerBook, EnumTypes, FlagTypes, CountTypes
<1>5. CandidacyBook'
  BY DEF CandidacyBook, EnumTypes, FlagTypes, CountTypes
<1>6. TurnBook'
  BY DEF TurnBook, CandidacyBook, EnumTypes, FlagTypes
<1> QED
  BY <1>1, <1>2, <1>3, <1>4, <1>5, <1>6 DEF Inv, TypeOK, BookkeepingInv

\* SessionStart can only end Starting, which holds no candidacy.
LEMMA SessionStartHookInv == ASSUME Inv, SessionStartHook PROVE Inv'
<1> USE TimingAssumption, InvParts
    DEF TimingAssumption, SessionStartHook, FullModel, Alive, Settle, NoOutcome, KeepBlocker,
        HookFrame, candVars, blockerVars, screenVars
<1>1. EnumTypes'
  BY DEF EnumTypes
<1>2. FlagTypes'
  BY DEF FlagTypes
<1>3. CountTypes'
  BY DEF CountTypes, CandidacyBook, BlockerBook
<1>4. BlockerBook'
  BY DEF BlockerBook, EnumTypes, FlagTypes, CountTypes
<1>5. CandidacyBook'
  BY DEF CandidacyBook, EnumTypes, FlagTypes, CountTypes
<1>6. TurnBook'
  BY DEF TurnBook, CandidacyBook, EnumTypes, FlagTypes
<1> QED
  BY <1>1, <1>2, <1>3, <1>4, <1>5, <1>6 DEF Inv, TypeOK, BookkeepingInv

\* A work hook resets both the candidacy and the blocker.
LEMMA WorkHookInv == ASSUME Inv, WorkHook PROVE Inv'
<1> USE TimingAssumption, InvParts
    DEF TimingAssumption, WorkHook, GoWorking, CancelIdleCandidacy, NoOutcome, HookFrame,
        screenVars
<1>1. EnumTypes'
  BY DEF EnumTypes
<1>2. FlagTypes'
  BY DEF FlagTypes
<1>3. CountTypes'
  BY DEF CountTypes, CandidacyBook, BlockerBook
<1>4. BlockerBook'
  BY DEF BlockerBook, EnumTypes, FlagTypes, CountTypes
<1>5. CandidacyBook'
  BY DEF CandidacyBook, EnumTypes, FlagTypes, CountTypes
<1>6. TurnBook'
  BY DEF TurnBook, CandidacyBook, EnumTypes, FlagTypes
<1> QED
  BY <1>1, <1>2, <1>3, <1>4, <1>5, <1>6 DEF Inv, TypeOK, BookkeepingInv

\* A prompt resets the candidacy; a held blocker stays legitimate.
LEMMA PromptHookInv == ASSUME Inv, NEW k \in NeedsInput, PromptHook(k) PROVE Inv'
<1> USE TimingAssumption, InvParts
    DEF TimingAssumption, PromptHook, GoNeedsInput, CancelIdleCandidacy, KeepBlocker, HookFrame,
        blockerVars, screenVars
<1>1. EnumTypes'
  BY DEF EnumTypes
<1>2. FlagTypes'
  BY DEF FlagTypes
<1>3. CountTypes'
  BY DEF CountTypes, CandidacyBook, BlockerBook
<1>4. BlockerBook'
  BY DEF BlockerBook, EnumTypes, FlagTypes, CountTypes
<1>5. CandidacyBook'
  BY DEF CandidacyBook, EnumTypes, FlagTypes, CountTypes
<1>6. TurnBook'
  BY DEF TurnBook, CandidacyBook, EnumTypes, FlagTypes
<1> QED
  BY <1>1, <1>2, <1>3, <1>4, <1>5, <1>6 DEF Inv, TypeOK, BookkeepingInv

\* An end of turn opens a strong candidacy or commits one.
LEMMA EndOfTurnInv == ASSUME Inv, EndOfTurn PROVE Inv'
<1> USE TimingAssumption, InvParts
    DEF TimingAssumption, EndOfTurn, FullModel, Alive, StrongIdle, Settle, CommitIdle,
        CancelIdleCandidacy, NoOutcome, KeepBlocker, HookFrame, candVars,
        blockerVars, screenVars
<1>1. EnumTypes'
  BY DEF EnumTypes
<1>2. FlagTypes'
  BY DEF FlagTypes
<1>3. CountTypes'
  BY DEF CountTypes, CandidacyBook, BlockerBook
<1>4. BlockerBook'
  BY DEF BlockerBook, EnumTypes, FlagTypes, CountTypes
<1>5. CandidacyBook'
  BY DEF CandidacyBook, EnumTypes, FlagTypes, CountTypes
<1>6. TurnBook'
  BY DEF TurnBook, CandidacyBook, EnumTypes, FlagTypes
<1> QED
  BY <1>1, <1>2, <1>3, <1>4, <1>5, <1>6 DEF Inv, TypeOK, BookkeepingInv

\* A hint only refreshes recency.
LEMMA HintHookInv == ASSUME Inv, HintHook PROVE Inv'
<1> USE TimingAssumption, InvParts
    DEF TimingAssumption, HintHook, Settle, NoOutcome, KeepBlocker, HookFrame, candVars,
        blockerVars, screenVars
<1>1. EnumTypes'
  BY DEF EnumTypes
<1>2. FlagTypes'
  BY DEF FlagTypes
<1>3. CountTypes'
  BY DEF CountTypes, CandidacyBook, BlockerBook
<1>4. BlockerBook'
  BY DEF BlockerBook, EnumTypes, FlagTypes, CountTypes
<1>5. CandidacyBook'
  BY DEF CandidacyBook, EnumTypes, FlagTypes, CountTypes
<1>6. TurnBook'
  BY DEF TurnBook, CandidacyBook, EnumTypes, FlagTypes
<1> QED
  BY <1>1, <1>2, <1>3, <1>4, <1>5, <1>6 DEF Inv, TypeOK, BookkeepingInv

\* A skip screen holds everything.
LEMMA ScreenSkipInv == ASSUME Inv, ScreenSkip PROVE Inv'
<1> USE TimingAssumption, InvParts
    DEF TimingAssumption, ScreenSkip, Settle, NoOutcome, KeepBlocker, ScreenFrame, candVars,
        blockerVars
<1>1. EnumTypes'
  BY DEF EnumTypes
<1>2. FlagTypes'
  BY DEF FlagTypes
<1>3. CountTypes'
  BY DEF CountTypes, CandidacyBook, BlockerBook
<1>4. BlockerBook'
  BY DEF BlockerBook, EnumTypes, FlagTypes, CountTypes
<1>5. CandidacyBook'
  BY DEF CandidacyBook, EnumTypes, FlagTypes, CountTypes
<1>6. TurnBook'
  BY DEF TurnBook, CandidacyBook, EnumTypes, FlagTypes
<1> QED
  BY <1>1, <1>2, <1>3, <1>4, <1>5, <1>6 DEF Inv, TypeOK, BookkeepingInv

\* An unchanged frame only ends a skip.
LEMMA ScreenUnchangedInv == ASSUME Inv, ScreenUnchanged PROVE Inv'
<1> USE TimingAssumption, InvParts
    DEF TimingAssumption, ScreenUnchanged, Settle, NoOutcome, KeepBlocker, ScreenFrame,
        candVars, blockerVars
<1>1. EnumTypes'
  BY DEF EnumTypes
<1>2. FlagTypes'
  BY DEF FlagTypes
<1>3. CountTypes'
  BY DEF CountTypes, CandidacyBook, BlockerBook
<1>4. BlockerBook'
  BY DEF BlockerBook, EnumTypes, FlagTypes, CountTypes
<1>5. CandidacyBook'
  BY DEF CandidacyBook, EnumTypes, FlagTypes, CountTypes
<1>6. TurnBook'
  BY DEF TurnBook, CandidacyBook, EnumTypes, FlagTypes
<1> QED
  BY <1>1, <1>2, <1>3, <1>4, <1>5, <1>6 DEF Inv, TypeOK, BookkeepingInv

\* A visible prompt raises the blocker and resets the candidacy.
LEMMA ScreenBlockerInv == ASSUME Inv, NEW k \in NeedsInput, ScreenBlocker(k) PROVE Inv'
<1> USE TimingAssumption, InvParts
    DEF TimingAssumption, ScreenBlocker, Judge, ScreenFrame, GoNeedsInput, CancelIdleCandidacy
<1>1. EnumTypes'
  BY DEF EnumTypes
<1>2. FlagTypes'
  BY DEF FlagTypes
<1>3. CountTypes'
  BY DEF CountTypes, CandidacyBook, BlockerBook
<1>4. BlockerBook'
  BY DEF BlockerBook, EnumTypes, FlagTypes, CountTypes
<1>5. CandidacyBook'
  BY DEF CandidacyBook, EnumTypes, FlagTypes, CountTypes
<1>6. TurnBook'
  BY DEF TurnBook, CandidacyBook, EnumTypes, FlagTypes
<1> QED
  BY <1>1, <1>2, <1>3, <1>4, <1>5, <1>6 DEF Inv, TypeOK, BookkeepingInv

\* A plain frame counts a miss, releases the blocker, or is judged.
LEMMA ScreenPlainInv == ASSUME Inv, NEW k \in {Working, Idle}, ScreenPlain(k) PROVE Inv'
<1> USE TimingAssumption, InvParts
    DEF TimingAssumption, ScreenPlain, FullModel, Alive, Judge, ScreenFrame, BlockerMissed,
        BlockerReleased, PlainFrame, HeldByGrace, NonBlocker, Settle,
        GoWorking, ConfirmIdle, CountIdle, Confirms, CommitIdle,
        CancelIdleCandidacy, NoOutcome, AtMost, candVars, blockerVars
<1>1. EnumTypes'
  BY DEF EnumTypes
<1>2. FlagTypes'
  BY DEF FlagTypes
<1>3. CountTypes'
  BY DEF CountTypes, CandidacyBook, BlockerBook
<1>4. BlockerBook'
  BY DEF BlockerBook, EnumTypes, FlagTypes, CountTypes
<1>5. CandidacyBook'
  BY DEF CandidacyBook, EnumTypes, FlagTypes, CountTypes
<1>6. TurnBook'
  BY DEF TurnBook, CandidacyBook, EnumTypes, FlagTypes
<1> QED
  BY <1>1, <1>2, <1>3, <1>4, <1>5, <1>6 DEF Inv, TypeOK, BookkeepingInv

\* The end of the grace acts on the remembered frame.
LEMMA TickGraceOverInv == ASSUME Inv, TickGraceOver PROVE Inv'
<1> USE TimingAssumption, InvParts
    DEF TimingAssumption, TickGraceOver, GoWorking, CancelIdleCandidacy, NoOutcome, TickFrame,
        KeepBlocker, candVars, blockerVars, screenVars
<1>1. EnumTypes'
  BY DEF EnumTypes
<1>2. FlagTypes'
  BY DEF FlagTypes
<1>3. CountTypes'
  BY DEF CountTypes, CandidacyBook, BlockerBook
<1>4. BlockerBook'
  BY DEF BlockerBook, EnumTypes, FlagTypes, CountTypes
<1>5. CandidacyBook'
  BY DEF CandidacyBook, EnumTypes, FlagTypes, CountTypes
<1>6. TurnBook'
  BY DEF TurnBook, CandidacyBook, EnumTypes, FlagTypes
<1> QED
  BY <1>1, <1>2, <1>3, <1>4, <1>5, <1>6 DEF Inv, TypeOK, BookkeepingInv

\* A stale session keeps its candidacy, which Unknown allows.
LEMMA TickStaleInv == ASSUME Inv, TickStale PROVE Inv'
<1> USE TimingAssumption, InvParts
    DEF TimingAssumption, TickStale, NoOutcome, TickFrame, KeepBlocker, candVars, blockerVars,
        screenVars
<1>1. EnumTypes'
  BY DEF EnumTypes
<1>2. FlagTypes'
  BY DEF FlagTypes
<1>3. CountTypes'
  BY DEF CountTypes, CandidacyBook, BlockerBook
<1>4. BlockerBook'
  BY DEF BlockerBook, EnumTypes, FlagTypes, CountTypes
<1>5. CandidacyBook'
  BY DEF CandidacyBook, EnumTypes, FlagTypes, CountTypes
<1>6. TurnBook'
  BY DEF TurnBook, CandidacyBook, EnumTypes, FlagTypes
<1> QED
  BY <1>1, <1>2, <1>3, <1>4, <1>5, <1>6 DEF Inv, TypeOK, BookkeepingInv

\* The tick commits a strong candidacy.
LEMMA TickConfirmInv == ASSUME Inv, TickConfirm PROVE Inv'
<1> USE TimingAssumption, InvParts
    DEF TimingAssumption, TickConfirm, CommitIdle, CancelIdleCandidacy, TickFrame, KeepBlocker,
        blockerVars, screenVars
<1>1. EnumTypes'
  BY DEF EnumTypes
<1>2. FlagTypes'
  BY DEF FlagTypes
<1>3. CountTypes'
  BY DEF CountTypes, CandidacyBook, BlockerBook
<1>4. BlockerBook'
  BY DEF BlockerBook, EnumTypes, FlagTypes, CountTypes
<1>5. CandidacyBook'
  BY DEF CandidacyBook, EnumTypes, FlagTypes, CountTypes
<1>6. TurnBook'
  BY DEF TurnBook, CandidacyBook, EnumTypes, FlagTypes
<1> QED
  BY <1>1, <1>2, <1>3, <1>4, <1>5, <1>6 DEF Inv, TypeOK, BookkeepingInv

\* Ages saturate at the threshold they are compared with.
LEMMA ElapseInv == ASSUME Inv, Elapse PROVE Inv'
<1> USE TimingAssumption, InvParts
    DEF TimingAssumption, Elapse, NoOutcome, AtMost, blockerVars, screenVars, histVars
<1>1. EnumTypes'
  BY DEF EnumTypes
<1>2. FlagTypes'
  BY DEF FlagTypes
<1>3. CountTypes'
  BY DEF CountTypes, CandidacyBook, BlockerBook
<1>4. BlockerBook'
  BY DEF BlockerBook, EnumTypes, FlagTypes, CountTypes
<1>5. CandidacyBook'
  BY DEF CandidacyBook, EnumTypes, FlagTypes, CountTypes
<1>6. TurnBook'
  BY DEF TurnBook, CandidacyBook, EnumTypes, FlagTypes
<1> QED
  BY <1>1, <1>2, <1>3, <1>4, <1>5, <1>6 DEF Inv, TypeOK, BookkeepingInv

\* Every signal preserves the inductive invariant.
LEMMA NextInv == ASSUME Inv, [Next]_vars PROVE Inv'
<1>1. CASE UNCHANGED vars
  BY <1>1, StutterInv
<1>2. CASE Next
  <2>1. CASE ProcessExit
    BY <2>1, ProcessExitInv
  <2>2. CASE PtyOutputActivity
    BY <2>2, PtyOutputActivityInv
  <2>3. CASE UserKeystroke
    BY <2>3, UserKeystrokeInv
  <2>4. CASE SubagentHook
    BY <2>4, SubagentHookInv
  <2>5. CASE SessionStartHook
    BY <2>5, SessionStartHookInv
  <2>6. CASE WorkHook
    BY <2>6, WorkHookInv
  <2>7. CASE \E k \in NeedsInput : PromptHook(k)
    BY <2>7, PromptHookInv
  <2>8. CASE EndOfTurn
    BY <2>8, EndOfTurnInv
  <2>9. CASE HintHook
    BY <2>9, HintHookInv
  <2>10. CASE ScreenSkip
    BY <2>10, ScreenSkipInv
  <2>11. CASE ScreenUnchanged
    BY <2>11, ScreenUnchangedInv
  <2>12. CASE \E k \in NeedsInput : ScreenBlocker(k)
    BY <2>12, ScreenBlockerInv
  <2>13. CASE \E k \in {Working, Idle} : ScreenPlain(k)
    BY <2>13, ScreenPlainInv
  <2>14. CASE TickGraceOver
    BY <2>14, TickGraceOverInv
  <2>15. CASE TickStale
    BY <2>15, TickStaleInv
  <2>16. CASE TickConfirm
    BY <2>16, TickConfirmInv
  <2>17. CASE Elapse
    BY <2>17, ElapseInv
  <2> QED
    BY <1>2, <2>1, <2>2, <2>3, <2>4, <2>5, <2>6, <2>7, <2>8, <2>9, <2>10,
       <2>11, <2>12, <2>13, <2>14, <2>15, <2>16, <2>17 DEF Next, Tick
<1> QED
  BY <1>1, <1>2

\* The reducer's counters and ages never pass the thresholds they are
\* compared with, whatever signals arrive.
THEOREM TypeCorrect == Spec => []TypeOK
<1>1. Inv => TypeOK
  BY DEF Inv
<1> QED
  BY <1>1, InitInv, NextInv, PTL DEF Spec

\* The candidacy, blocker and turn bookkeeping always agrees with the status.
THEOREM Bookkeeping == Spec => []Inv
  BY InitInv, NextInv, PTL DEF Spec

-----------------------------------------------------------------------------
(* The action properties.  Only three actions can commit an idle, so the    *)
(* others are dismissed once.                                               *)

Commits ==
  \/ EndOfTurn
  \/ \E k \in {Working, Idle} : ScreenPlain(k)
  \/ TickConfirm

\* Every other signal completes no turn and takes no working session to Idle.
LEMMA OnlyCommits ==
  ASSUME Inv, Next, ~Commits
  PROVE  ~turnCompleted' /\ ~(status = Working /\ status' = Idle)
<1> USE DEF NoOutcome, Settle, GoWorking, GoNeedsInput, CancelIdleCandidacy
<1>1. CASE ProcessExit \/ PtyOutputActivity \/ UserKeystroke
  BY <1>1 DEF ProcessExit, PtyOutputActivity, UserKeystroke, KeepTurn
<1>2. CASE SubagentHook \/ SessionStartHook \/ WorkHook \/ HintHook
  BY <1>2 DEF SubagentHook, SessionStartHook, WorkHook, HintHook, KeepTurn
<1>3. CASE ScreenSkip \/ ScreenUnchanged
  BY <1>3 DEF ScreenSkip, ScreenUnchanged
<1>4. ASSUME NEW k \in NeedsInput, PromptHook(k) \/ ScreenBlocker(k)
      PROVE  ~turnCompleted' /\ ~(status = Working /\ status' = Idle)
  BY <1>4 DEF PromptHook, ScreenBlocker
<1>5. CASE TickGraceOver \/ TickStale \/ Elapse
  BY <1>5 DEF TickGraceOver, TickStale, Elapse
<1> QED
  BY <1>1, <1>2, <1>3, <1>4, <1>5 DEF Next, Tick, Commits

\* While a prompt is held no turn completes: a release comes from NeedsInput.
LEMMA ReleaseIsNoCommit ==
  ASSUME Inv, NEW k \in {Working, Idle}, ScreenPlain(k),
         turnCompleted' \/ (status = Working /\ status' = Idle)
  PROVE  /\ ~blockerActive /\ status = Working
         /\ ConfirmIdle
<1>1. ~BlockerMissed
  BY DEF BlockerMissed, Settle, NoOutcome
<1>2. ~BlockerReleased(k)
  BY InvParts DEF BlockerReleased, NonBlocker, BlockerBook, ScreenPlain,
     FullModel, Alive, GoWorking, Settle, NoOutcome, EnumTypes
<1>3. PlainFrame(k) /\ ~HeldByGrace(k)
  BY <1>1, <1>2 DEF ScreenPlain, PlainFrame, Settle, NoOutcome
<1> QED
  BY <1>3 DEF PlainFrame, NonBlocker, GoWorking, Settle, NoOutcome

\* turn_completed fires only on a commit from Working to Idle, and only for
\* an end of turn announced since the last sign of work.
THEOREM CompletionCorrect == Spec => CompletionFollowsEnd
<1> DEFINE Step ==
      turnCompleted' => /\ status = Working /\ status' = Idle
                        /\ ended' /\ turnInFlight /\ ~turnInFlight'
<1>1. ASSUME Inv, Next PROVE Step
  <2> SUFFICES ASSUME turnCompleted', Commits PROVE Step
    BY <1>1, OnlyCommits
  <2>1. CASE EndOfTurn
    BY <1>1, <2>1, InvParts
       DEF EndOfTurn, StrongIdle, CommitIdle, Settle, NoOutcome, TurnBook
  <2>2. ASSUME NEW k \in {Working, Idle}, ScreenPlain(k) PROVE Step
    BY <1>1, <2>2, InvParts, ReleaseIsNoCommit
       DEF ConfirmIdle, CountIdle, CommitIdle, NoOutcome, TurnBook
  <2>3. CASE TickConfirm
    BY <1>1, <2>3, InvParts DEF TickConfirm, CommitIdle, TurnBook
  <2> QED
    BY <2>1, <2>2, <2>3 DEF Commits
<1> QED
  BY <1>1, InitInv, NextInv, PTL DEF Spec, CompletionFollowsEnd

\* A working session reads idle only after an announced end of turn, enough
\* idle frames, or a candidacy as old as the cap.
THEOREM FlickerCorrect == Spec => NoIdleFlicker
<1> DEFINE Step ==
      status = Working /\ status' = Idle =>
        ended' \/ idleFrames' >= IdleConfirmations \/ idleSince >= IdleConfirmCap
<1>1. ASSUME Inv, Next PROVE Step
  <2> SUFFICES ASSUME status = Working, status' = Idle, Commits PROVE Step
    BY <1>1, OnlyCommits
  <2>1. CASE EndOfTurn
    BY <2>1 DEF EndOfTurn, StrongIdle, Settle
  <2>2. ASSUME NEW k \in {Working, Idle}, ScreenPlain(k) PROVE Step
    <3>1. ConfirmIdle
      BY <1>1, <2>2, ReleaseIsNoCommit
    <3>2. CASE idleStrong
      BY <1>1, <3>1, <3>2, InvParts DEF ConfirmIdle, CountIdle, TurnBook
    <3>3. CASE ~idleStrong
      BY <1>1, <3>1, <3>3, InvParts, TimingAssumption
         DEF TimingAssumption, ConfirmIdle, CountIdle, Confirms, AtMost,
             CandidacyBook, CountTypes
    <3> QED
      BY <3>2, <3>3
  <2>3. CASE TickConfirm
    BY <1>1, <2>3, InvParts DEF TickConfirm, TurnBook
  <2> QED
    BY <2>1, <2>2, <2>3 DEF Commits
<1> QED
  BY <1>1, InitInv, NextInv, PTL DEF Spec, NoIdleFlicker

\* The screen takes a prompt down only after BlockerClearScans frames in a
\* row did not show it.
THEOREM PromptCorrect == Spec => PromptSurvivesStrayFrames
<1> DEFINE Step ==
      (\E seen \in {Working, Idle} : ScreenPlain(seen))
        /\ blockerActive /\ status \in NeedsInput /\ status' \notin NeedsInput
        => missRun' >= BlockerClearScans
<1>1. ASSUME Inv PROVE Step
  <2> SUFFICES ASSUME NEW seen \in {Working, Idle}, ScreenPlain(seen),
                      blockerActive, status \in NeedsInput,
                      status' \notin NeedsInput
               PROVE  missRun' >= BlockerClearScans
    OBVIOUS
  <2>1. BlockerReleased(seen)
    BY DEF ScreenPlain, BlockerMissed, PlainFrame, Settle
  <2>2. blockerMisses + 1 >= BlockerClearScans /\ blockerMisses <= missRun
    BY <1>1, <2>1, InvParts DEF BlockerReleased, BlockerBook
  <2> QED
    BY <1>1, <2>2, InvParts, TimingAssumption
       DEF TimingAssumption, ScreenPlain, AtMost, CountTypes
<1> QED
  BY <1>1, InitInv, NextInv, PTL DEF Spec, PromptSurvivesStrayFrames

-----------------------------------------------------------------------------
(* Refinement. *)

\* The instance's vocabulary is this module's.
LEMMA SameMoves ==
  /\ Abstract!Starting = Starting
  /\ \A s \in Status : Abstract!After(s) = After(s)
BY DEF After, Abstract!After, Abstract!Starting, Abstract!Working,
   Abstract!Idle, Abstract!Permission, Abstract!Question, Abstract!Unknown,
   Abstract!Exited, Abstract!NeedsInput, Abstract!Status

\* Every signal makes one of the moves of StatusSpec, or none.
LEMMA StepRefines ==
  ASSUME Inv, [Next]_vars PROVE [Abstract!Next]_status
<1> SUFFICES ASSUME Next, status' # status PROVE status' \in After(status)
  BY SameMoves, InvParts DEF vars, Abstract!Next, EnumTypes
<1> USE DEF After, NoOutcome, Settle, GoWorking, GoNeedsInput, CommitIdle,
            FullModel, Alive, EnumTypes, KeepTurn
<1>1. CASE ProcessExit \/ PtyOutputActivity \/ UserKeystroke
  BY <1>1, InvParts DEF ProcessExit, PtyOutputActivity, UserKeystroke
<1>2. CASE SubagentHook \/ SessionStartHook \/ WorkHook \/ HintHook
  BY <1>2, InvParts DEF SubagentHook, SessionStartHook, WorkHook, HintHook
<1>3. CASE EndOfTurn \/ ScreenSkip \/ ScreenUnchanged
  BY <1>3, InvParts DEF EndOfTurn, StrongIdle, ScreenSkip, ScreenUnchanged
<1>4. ASSUME NEW k \in NeedsInput, PromptHook(k) \/ ScreenBlocker(k)
      PROVE  status' \in After(status)
  BY <1>4, InvParts DEF PromptHook, ScreenBlocker
<1>5. ASSUME NEW k \in {Working, Idle}, ScreenPlain(k)
      PROVE  status' \in After(status)
  BY <1>5, InvParts DEF ScreenPlain, BlockerMissed, BlockerReleased, PlainFrame,
     NonBlocker, ConfirmIdle, CountIdle, BlockerBook
<1>6. CASE Tick \/ Elapse
  BY <1>6, InvParts DEF Tick, TickGraceOver, TickStale, TickConfirm, Elapse
<1> QED
  BY <1>1, <1>2, <1>3, <1>4, <1>5, <1>6 DEF Next

\* The reducer implements the abstract status machine: Starting is never
\* re-entered, Exited never left, and a stale session settles only through
\* positive evidence.
THEOREM Refinement == Spec => ImplementsStatusSpec
<1>1. Init => Abstract!Init
  BY SameMoves DEF Init, Abstract!Init
<1> QED
  BY <1>1, InitInv, NextInv, StepRefines, PTL
     DEF Spec, ImplementsStatusSpec, Abstract!Spec

=============================================================================
