------------------------------ MODULE HeldProofs ------------------------------
(***************************************************************************)
(* The safety of a held session, for any bounds: the output log            *)
(* (LogSafe), hibernation (GovernorSafe), launch, input and end            *)
(* (LaunchSafe), and what the Engine makes of the log across restarts      *)
(* (HeldSafe).                                                             *)
(***************************************************************************)
EXTENDS MCHeld, SequenceTheorems, FiniteSetTheorems, TLAPS

(***************************************************************************)
(* The output log.                                                         *)
(***************************************************************************)

\* The reader is not behind the start of the file at the path, nor of the one it
\* has open.
LogIInv ==
  /\ Log!TypeOK /\ lost = 0
  /\ base <= tail /\ base <= at /\ retired.base <= at

\* A reader opened on a log with some history.
LEMMA LogInit == Log!Init => LogIInv
<1> SUFFICES ASSUME Log!Init PROVE LogIInv
  OBVIOUS
<1>1. note \in BOOLEAN
  BY Zenon DEF Log!Init
<1>2. tail \in 0..MaxTail /\ at \in 0..MaxTail
  BY LogBounds DEF Log!Init
<1> QED BY LogBounds, <1>1, <1>2 DEF Log!Init, LogIInv, Log!TypeOK, Log!Offset, Log!Span

\* Appending, rotating and reading preserve it.
LEMMA LogNext ==
  ASSUME ~MayOutrun, LogIInv, [Log!Next]_(Log!vars)
  PROVE  LogIInv'
<1> USE LogBounds DEF LogIInv, Log!TypeOK, Log!Offset, Log!Span, Log!file, Log!reader, Log!watcher
<1>1. ASSUME NEW n \in 1..MaxAppend, Log!Append(n) PROVE LogIInv'
  BY <1>1 DEF Log!Append
<1>2. CASE Log!Rotate
  <2> DEFINE half == Capacity \div 2
  <2>1. half \in Nat /\ half <= Capacity
    OBVIOUS
  <2>2. Log!NewBase = tail - half
    BY <2>1 DEF Log!NewBase
  <2>3. base' = tail - half /\ base' \in Log!Offset /\ base' <= at /\ base' <= tail
    <3> HIDE DEF half
    <3> QED BY <1>2, <2>1, <2>2 DEF Log!Rotate, Log!Full
  <2>4. note' \in BOOLEAN
    <3>1. TRUE \in BOOLEAN
      BY Zenon
    <3> QED BY <1>2, <3>1 DEF Log!Rotate
  <2> QED BY <1>2, <2>3, <2>4 DEF Log!Rotate
<1>3. CASE Log!Arm
  BY <1>3 DEF Log!Arm
<1>4. CASE Log!Read
  <2>1. Log!View \in Log!Span /\ Log!View.base <= at
    BY DEF Log!View
  <2>2. /\ Log!DiskStart \in Nat /\ Log!DiskStart = at
        /\ Log!ReadEnd \in Int /\ Log!ReadEnd <= Log!View.tail
    BY <2>1 DEF Log!DiskStart, Log!ReadStart, Log!ReadEnd, Log!MinOf, Log!MaxOf
  <2> QED BY <1>4, <2>1, <2>2 DEF Log!Read, Log!MaxOf
<1>5. CASE Log!Wait
  BY <1>5 DEF Log!Wait
<1>6. CASE UNCHANGED Log!vars
  BY <1>6 DEF Log!vars
<1> QED BY <1>1, <1>2, <1>3, <1>4, <1>5, <1>6 DEF Log!Next

\* log.rs and pump.rs: a reader that no rotation overtakes is handed every byte
\* in its turn, whichever file it has open while the log rotates under it and
\* whether the log is watched or not.
THEOREM LogSafe == ASSUME ~MayOutrun PROVE Log!Spec => []NothingLost
<1>1. LogIInv => NothingLost
  BY DEF LogIInv, NothingLost, Log!NothingLost
<1> QED BY <1>1, LogInit, LogNext, PTL DEF Log!Spec

(***************************************************************************)
(* Hibernation.                                                            *)
(***************************************************************************)

\* From the moment a client attaches, a stopped tree is known to be stopped.
AttachedFreezeIsKnown == \A s \in Sessions : viewer[s] # "none" /\ stopped[s] => Gov!Known(s)

\* While the sweep samples, its candidates have been sampled.
CandidatesSampled == gpc \in {"sample", "hard"} => \A c \in cand : c.id \notin todo

\* The invariant the governor's induction carries.
GovernorIInv == Gov!TypeOK /\ AttachedFreezeIsKnown /\ CandidatesSampled

\* All awake, nobody attached.
LEMMA GovernorInit == Gov!Init => GovernorIInv
<1> SUFFICES ASSUME Gov!Init PROVE GovernorIInv
  OBVIOUS
<1>1. /\ idle \in [Sessions -> BOOLEAN] /\ hib \in [Sessions -> BOOLEAN]
      /\ flag \in [Sessions -> BOOLEAN] /\ stopped \in [Sessions -> BOOLEAN]
      /\ saved \in [Sessions -> BOOLEAN] /\ unsaved \in BOOLEAN /\ forgone \in BOOLEAN
      /\ FALSE \in BOOLEAN
  BY Zenon DEF Gov!Init
<1>2. 0 \in Gov!Ages
  BY SessionAssumption DEF Gov!GovernorConstants, Gov!Ages, Gov!MaxAge
<1>3. Gov!NoCopy \in Gov!Copy
  BY <1>1, <1>2 DEF Gov!NoCopy, Gov!Copy
<1>4. Gov!TypeOK
  BY <1>1, <1>2, <1>3, SessionAssumption DEF Gov!Init, Gov!TypeOK, Gov!GovernorConstants
<1> QED BY <1>4 DEF Gov!Init, GovernorIInv, AttachedFreezeIsKnown, CandidatesSampled

\* The types of the records, and of what is saved of them.
RecordType ==
  /\ age \in [Sessions -> Gov!Ages] /\ hib \in [Sessions -> BOOLEAN]
  /\ flag \in [Sessions -> BOOLEAN] /\ stopped \in [Sessions -> BOOLEAN]
SaveType ==
  /\ saved \in [Sessions -> BOOLEAN] /\ unsaved \in BOOLEAN
  /\ forgone \in BOOLEAN /\ fails \in 0..MaxFails

\* hibernate of registry.rs: the tree it stops is known to be stopped.
LEMMA HibernateIs ==
  ASSUME Gov!TypeOK, NEW s \in Sessions, Gov!Hibernate(s)
  PROVE  /\ RecordType'
         /\ \A t \in Sessions : stopped'[t] => Gov!Known(t)' \/ (stopped[t] /\ ~Gov!Known(t))
<1>1. 0 \in Gov!Ages
  BY SessionAssumption DEF Gov!GovernorConstants, Gov!Ages, Gov!MaxAge
<1> QED BY <1>1 DEF Gov!Hibernate, Gov!TypeOK, RecordType, Gov!Known

\* ensure_session_awake continues the tree, so nothing is left to be known.
LEMMA EnsureAwakeIs ==
  ASSUME Gov!TypeOK, NEW s \in Sessions, NEW seen, Gov!EnsureAwake(s, seen)
  PROVE  /\ RecordType' /\ ~stopped'[s]
         /\ \A t \in Sessions : stopped'[t] => Gov!Known(t)' \/ (stopped[t] /\ ~Gov!Known(t))
<1>1. 0 \in Gov!Ages
  BY SessionAssumption DEF Gov!GovernorConstants, Gov!Ages, Gov!MaxAge
<1>2. age' \in [Sessions -> Gov!Ages]
  BY <1>1 DEF Gov!EnsureAwake, Gov!TypeOK
<1> QED BY <1>2 DEF Gov!EnsureAwake, Gov!TypeOK, RecordType, Gov!Known

\* wake_session leaves alone what is not known to be stopped.
LEMMA WakeSessionIs ==
  ASSUME Gov!TypeOK, NEW s \in Sessions, Gov!WakeSession(s)
  PROVE  /\ RecordType'
         /\ \A t \in Sessions : stopped'[t] => Gov!Known(t)' \/ (stopped[t] /\ ~Gov!Known(t))
<1>1. CASE Gov!EnsureAwake(s, FALSE)
  BY <1>1, EnsureAwakeIs
<1>2. CASE UNCHANGED Gov!recordVars
  BY <1>2 DEF Gov!recordVars, Gov!TypeOK, RecordType, Gov!Known
<1> QED BY <1>1, <1>2 DEF Gov!WakeSession

\* persist_now writes the records, or nothing.
LEMMA PersistNowIs == ASSUME Gov!TypeOK, hib' \in [Sessions -> BOOLEAN], Gov!PersistNow PROVE SaveType'
<1>1. /\ unsaved \in BOOLEAN /\ saved \in [Sessions -> BOOLEAN] /\ forgone \in BOOLEAN
      /\ fails \in 0..MaxFails /\ MaxFails \in Nat
  BY SessionAssumption DEF Gov!TypeOK, Gov!GovernorConstants
<1>2. FALSE \in BOOLEAN /\ (~unsaved) \in BOOLEAN
  BY <1>1, Zenon
<1>3. saved' \in [Sessions -> BOOLEAN] /\ unsaved' \in BOOLEAN /\ forgone' \in BOOLEAN
  BY <1>1, <1>2, Zenon DEF Gov!PersistNow
<1>4. fails' \in 0..MaxFails
  BY <1>1 DEF Gov!PersistNow
<1> QED BY <1>3, <1>4 DEF SaveType

\* persist writes the records, now or later, or not at all.
LEMMA PersistIs == ASSUME Gov!TypeOK, RecordType', Gov!Persist PROVE SaveType'
<1>1. TRUE \in BOOLEAN /\ FALSE \in BOOLEAN
  BY Zenon
<1>2. CASE Gov!PersistNow
  BY <1>2, PersistNowIs DEF RecordType
<1> QED BY <1>1, <1>2 DEF Gov!Persist, Gov!TypeOK, RecordType, SaveType

\* An age is one a tick later.
LEMMA OlderIs == ASSUME NEW n \in Gov!Ages PROVE Gov!Older(n) \in Gov!Ages
BY SessionAssumption DEF Gov!Older, Gov!Ages, Gov!MaxAge, Gov!GovernorConstants

\* Every step of a client, of a session, of the sweep, of the flusher and of the
\* clock preserves the invariant, and so does a crash.
LEMMA GovernorNext == ASSUME GovernorIInv, [Gov!Next]_(Gov!vars) PROVE GovernorIInv'
<1> USE SessionAssumption DEF GovernorIInv, AttachedFreezeIsKnown, CandidatesSampled, Gov!TypeOK,
     RecordType, SaveType, Gov!GovernorConstants, Gov!recordVars, Gov!saveVars, Gov!sweepVars,
     Gov!bounds
<1>0. /\ UNCHANGED Gov!recordVars =>
           /\ RecordType'
           /\ \A t \in Sessions :
                stopped'[t] => Gov!Known(t)' \/ (stopped[t] /\ ~Gov!Known(t))
      /\ UNCHANGED Gov!saveVars => SaveType'
      /\ TRUE \in BOOLEAN /\ FALSE \in BOOLEAN
      /\ 0 \in Gov!Ages
  <2>1. TRUE \in BOOLEAN /\ FALSE \in BOOLEAN
    BY Zenon
  <2> QED BY <2>1 DEF Gov!Known, Gov!Ages, Gov!MaxAge
<1>1. ASSUME NEW s \in Sessions, Gov!TurnBegins(s) \/ Gov!TurnEnds(s) PROVE GovernorIInv'
  <2>1. idle' \in [Sessions -> BOOLEAN]
    <3>1. PICK b \in {TRUE, FALSE} : idle' = [idle EXCEPT ![s] = b]
      BY <1>1 DEF Gov!TurnBegins, Gov!TurnEnds
    <3>2. b \in BOOLEAN /\ idle \in [Sessions -> BOOLEAN]
      BY <1>0
    <3> QED BY <3>1, <3>2
  <2>2. quiet' \in [Sessions -> 0..IdleThreshold]
    BY <1>1, <1>0 DEF Gov!TurnBegins, Gov!TurnEnds
  <2> QED BY <1>1, <1>0, <2>1, <2>2 DEF Gov!TurnBegins, Gov!TurnEnds
<1>2. ASSUME NEW s \in Sessions, Gov!AttachSeen(s) PROVE GovernorIInv'
  <2>1. /\ RecordType' /\ ~stopped'[s]
        /\ \A t \in Sessions : stopped'[t] => Gov!Known(t)' \/ (stopped[t] /\ ~Gov!Known(t))
    BY <1>2, EnsureAwakeIs DEF Gov!AttachSeen
  <2>2. SaveType'
    BY <1>2, <2>1, PersistIs DEF Gov!AttachSeen
  <2> QED BY <1>2, <2>1, <2>2 DEF Gov!AttachSeen
<1>3. ASSUME NEW s \in Sessions, Gov!AttachServe(s) PROVE GovernorIInv'
  BY <1>3, <1>0, WakeSessionIs DEF Gov!AttachServe
<1>4. ASSUME NEW s \in Sessions, Gov!AttachRegister(s) \/ Gov!Detach(s) PROVE GovernorIInv'
  BY <1>4, <1>0 DEF Gov!AttachRegister, Gov!Detach
<1>5. ASSUME NEW s \in Sessions, Gov!Type(s) PROVE GovernorIInv'
  BY <1>5, <1>0, WakeSessionIs DEF Gov!Type
<1>6. ASSUME NEW s \in Sessions, Gov!SendText(s) PROVE GovernorIInv'
  BY <1>6, <1>0, WakeSessionIs DEF Gov!SendText
<1>7. ASSUME NEW s \in Sessions, Gov!HibernateManually(s) PROVE GovernorIInv'
  BY <1>7, HibernateIs, PersistIs DEF Gov!HibernateManually
<1>8. ASSUME NEW s \in Sessions, Gov!WakeManually(s) PROVE GovernorIInv'
  BY <1>8, WakeSessionIs, PersistIs DEF Gov!WakeManually
<1>9. CASE Gov!SweepBegin
  <2>1. snap' \in [Sessions -> Gov!Copy]
    BY <1>9 DEF Gov!SweepBegin, Gov!Copy
  <2> QED BY <1>9, <1>0, <2>1 DEF Gov!SweepBegin
<1>10. CASE Gov!SweepSampled
  <2>1. todo' \subseteq Sessions
    BY <1>10 DEF Gov!SweepSampled, Gov!Cand
  <2> QED BY <1>10, <1>0, <2>1 DEF Gov!SweepSampled
<1>11. CASE Gov!SweepIdleDone
  BY <1>11, <1>0 DEF Gov!SweepIdleDone
<1>12. CASE Gov!SweepEnd
  <2>1. snap' \in [Sessions -> Gov!Copy]
    <3>1. FALSE \in BOOLEAN
      BY Zenon
    <3> QED BY <1>12, <1>0, <3>1 DEF Gov!SweepEnd, Gov!NoCopy, Gov!Copy
  <2> QED BY <1>12, <1>0, <2>1 DEF Gov!SweepEnd
<1>13. ASSUME NEW s \in Sessions, Gov!SweepHard(s) PROVE GovernorIInv'
  BY <1>13, HibernateIs, PersistIs DEF Gov!SweepHard
<1>14. ASSUME NEW s \in Sessions, Gov!SweepIdle(s) PROVE GovernorIInv'
  BY <1>14, HibernateIs, PersistIs DEF Gov!SweepIdle
<1>15. ASSUME NEW s \in Sessions, NEW f \in Footprints, Gov!Sample(s, f) PROVE GovernorIInv'
  <2> DEFINE c == [id |-> s, age |-> snap[s].age, footprint |-> f]
  <2>1. c \in Gov!Cand /\ c.id = s
    BY DEF Gov!Cand, Gov!Copy
  <2>2. cand' \subseteq cand \cup {c}
    BY <1>15 DEF Gov!Sample
  <2>3. total' \in Nat
    BY <1>15 DEF Gov!Sample
  <2> HIDE DEF c
  <2> QED BY <1>15, <1>0, <2>1, <2>2, <2>3 DEF Gov!Sample
<1>16. ASSUME NEW c \in cand, Gov!SweepBudget(c) PROVE GovernorIInv'
  <2>1. c.id \in Sessions /\ c.footprint \in Nat
    BY DEF Gov!Cand
  <2> QED BY <1>16, <2>1, HibernateIs, PersistIs DEF Gov!SweepBudget
<1>17. CASE Gov!Flush
  <2>1. SaveType'
    BY <1>17, PersistNowIs DEF Gov!Flush
  <2> QED BY <1>17, <1>0, <2>1 DEF Gov!Flush
<1>18. CASE Gov!Elapse
  <2>1. quiet' \in [Sessions -> 0..IdleThreshold] /\ age' \in [Sessions -> Gov!Ages]
    BY <1>18, <1>0, OlderIs DEF Gov!Elapse
  <2>2. snap' \in [Sessions -> Gov!Copy]
    <3>1. ASSUME NEW s \in Sessions PROVE [snap[s] EXCEPT !.age = Gov!Older(@)] \in Gov!Copy
      BY OlderIs DEF Gov!Copy
    <3> QED BY <1>18, <3>1 DEF Gov!Elapse
  <2>3. /\ cand' \subseteq Gov!Cand
        /\ \A c, d \in cand' : c.id = d.id => c = d
        /\ gpc' \in {"sample", "hard"} => \A c \in cand' : c.id \notin todo'
    <3>1. CASE cand' = cand
      BY <1>18, <3>1 DEF Gov!Elapse
    <3>2. CASE cand' = {[c EXCEPT !.age = Gov!Older(@)] : c \in cand}
      <4> DEFINE aged(c) == [c EXCEPT !.age = Gov!Older(@)]
      <4>1. \A c \in cand : aged(c) \in Gov!Cand /\ aged(c).id = c.id
        BY OlderIs DEF Gov!Cand
      <4>2. cand' = {aged(c) : c \in cand}
        BY <3>2
      <4> HIDE DEF aged
      <4>3. cand' \subseteq Gov!Cand
        BY <4>1, <4>2
      <4>4. \A c, d \in cand' : c.id = d.id => c = d
        BY <4>1, <4>2
      <4>5. gpc' \in {"sample", "hard"} => \A c \in cand' : c.id \notin todo'
        BY <1>18, <4>1, <4>2 DEF Gov!Elapse
      <4> QED BY <4>3, <4>4, <4>5
    <3> QED BY <1>18, <3>1, <3>2 DEF Gov!Elapse
  <2> QED BY <1>18, <2>1, <2>2, <2>3 DEF Gov!Elapse, Gov!Known
<1>19. CASE Gov!Crash
  <2>1. snap' \in [Sessions -> Gov!Copy] /\ unsaved' \in BOOLEAN /\ forgone' \in BOOLEAN
    <3>1. FALSE \in BOOLEAN
      BY Zenon
    <3> QED BY <1>19, <1>0, <3>1 DEF Gov!Crash, Gov!NoCopy, Gov!Copy
  <2> QED BY <1>19, <1>0, <2>1 DEF Gov!Crash
<1>20. CASE UNCHANGED Gov!vars
  BY <1>20, <1>0 DEF Gov!vars
<1> HIDE DEF GovernorIInv
<1> QED BY <1>1, <1>2, <1>3, <1>4, <1>5, <1>6, <1>7, <1>8, <1>9, <1>10, <1>11, <1>12, <1>13, <1>14,
     <1>15, <1>16, <1>17, <1>18, <1>19, <1>20 DEF Gov!Next, Gov!Sweep, Gov!Attach

\* governor.rs, registry.rs and attach.rs: a session a client views is never
\* stopped without the Engine knowing it, not even after a crash that lost the
\* record of its freeze, so the next keystroke wakes it.
THEOREM GovernorSafe == Gov!Spec => []GovernorInv
<1>1. GovernorIInv => GovernorInv
  BY DEF GovernorIInv, GovernorInv, Gov!GovernorInv, Gov!ViewedFreezeIsKnown, AttachedFreezeIsKnown
<1> QED BY <1>1, GovernorInit, GovernorNext, PTL DEF Gov!Spec

(***************************************************************************)
(* Launch, input and end.                                                  *)
(***************************************************************************)

Inputs == Seq(1..MaxInputs)
Has(q, i) == \E p \in 1..Len(q) : q[p] = i

\* What finish_launch took from the queue and has not written.
InHand == IF lpc = "flush" THEN handoff.input ELSE <<>>

Held == Len(queued) + Len(InHand) + Len(asleep) + Len(typed)
Kept(i) == Has(queued, i) \/ Has(InHand, i) \/ Has(asleep, i) \/ Has(typed, i)

LaunchType ==
  /\ launched \in BOOLEAN /\ cancelled \in BOOLEAN
  /\ pending \in Sizes \cup {L!NoSize} /\ queued \in Inputs
  /\ lpc \in {"wait", "exec", "started", "flush", "late", "late_screen", "pump", "kill", "gone"}
  /\ chosen \in L!AnySize /\ screenSize \in L!AnySize /\ ptySize \in L!AnySize
  /\ handoff \in [input : Inputs, size : Sizes \cup {L!NoSize}] /\ Len(handoff.input) <= MaxInputs
  /\ child \in {"none", "running", "stopped", "dead"}
  /\ typed \in Inputs /\ asleep \in Inputs /\ hibernated \in BOOLEAN
  /\ exited \in {L!NoExit, "code", "127"} /\ stop \in BOOLEAN
  /\ resizing \in Sizes \cup {L!NoSize} /\ wanted \in L!AnySize
  /\ tpc \in {"idle", "kill", "await", "join", "done", "drop", "dropped"}
  /\ result \in {L!NoExit, "code", "127", "SIGKILL"}
  /\ sent \in 0..MaxInputs /\ resizes \in 0..MaxResizes

\* An input is in one of the queues or was written, for as long as the child may
\* still read it.
InputKept ==
  /\ Held <= sent
  /\ child # "dead" => Held = sent /\ \A i \in 1..sent : Kept(i)
  /\ launched => queued = <<>>
  /\ ~hibernated => asleep = <<>>

\* Where the launcher and terminate are, and what that says of the child.
LaunchPlace ==
  /\ lpc \in {"wait", "exec"} => child = "none"
  /\ lpc \in {"wait", "exec", "started", "kill"} => ~launched
  /\ lpc \in {"flush", "late", "late_screen", "pump"} => launched /\ child # "none"
  /\ lpc = "started" => child # "none"
  /\ lpc = "late_screen" => handoff.size \in Sizes
  /\ lpc = "gone" /\ ~launched => ~L!Alive
  /\ cancelled => ~launched
  /\ tpc \in {"kill", "await"} => launched
  /\ tpc = "await" => child = "dead"
  /\ tpc \in {"join", "done"} => cancelled \/ child = "dead"
  /\ tpc \in {"done", "dropped"} => lpc = "gone"

\* The invariant the induction over the launch carries.
LaunchIInv == LaunchType /\ InputKept /\ LaunchPlace

\* A sequence has a length.
LEMMA LenNat == ASSUME NEW q \in Inputs PROVE Len(q) \in Nat
BY LenProperties DEF Inputs

\* A queue of the model is a short sequence.
LEMMA InputQueueIs == ASSUME NEW q \in Inputs, Len(q) <= MaxInputs PROVE q \in L!InputQueue
<1>1. Len(q) \in 0..MaxInputs
  BY SessionAssumption DEF L!LaunchConstants, Inputs
<1>2. q \in [1..Len(q) -> 1..MaxInputs]
  BY LenProperties DEF Inputs
<1> QED BY <1>1, <1>2 DEF L!InputQueue

\* What one sequence has after another has.
LEMMA HasConcat ==
  ASSUME NEW q \in Inputs, NEW r \in Inputs
  PROVE  /\ q \o r \in Inputs /\ Len(q \o r) = Len(q) + Len(r)
         /\ \A i : Has(q \o r, i) <=> Has(q, i) \/ Has(r, i)
<1>1. /\ q \o r \in Inputs /\ Len(q \o r) = Len(q) + Len(r)
      /\ \A p \in 1..Len(q) + Len(r) :
           (q \o r)[p] = IF p <= Len(q) THEN q[p] ELSE r[p - Len(q)]
  BY ConcatProperties DEF Inputs
<1>2. ASSUME NEW i, Has(q \o r, i) PROVE Has(q, i) \/ Has(r, i)
  <2>1. PICK p \in 1..Len(q) + Len(r) : (q \o r)[p] = i
    BY <1>1, <1>2 DEF Has
  <2>2. CASE p <= Len(q)
    BY <1>1, <2>1, <2>2 DEF Has, Inputs
  <2>3. CASE ~(p <= Len(q))
    <3>1. p - Len(q) \in 1..Len(r)
      BY <2>3 DEF Inputs
    <3> QED BY <1>1, <2>1, <2>3, <3>1 DEF Has
  <2> QED BY <2>2, <2>3
<1>3. ASSUME NEW i, Has(q, i) PROVE Has(q \o r, i)
  <2>1. PICK p \in 1..Len(q) : q[p] = i
    BY <1>3 DEF Has
  <2>2. p \in 1..Len(q) + Len(r) /\ p <= Len(q)
    BY DEF Inputs
  <2> QED BY <1>1, <2>1, <2>2 DEF Has
<1>4. ASSUME NEW i, Has(r, i) PROVE Has(q \o r, i)
  <2>1. PICK p \in 1..Len(r) : r[p] = i
    BY <1>4 DEF Has
  <2>2. Len(q) + p \in 1..Len(q) + Len(r) /\ ~(Len(q) + p <= Len(q)) /\ Len(q) + p - Len(q) = p
    BY DEF Inputs
  <2> QED BY <1>1, <2>1, <2>2 DEF Has
<1> QED BY <1>1, <1>2, <1>3, <1>4

\* One input.
LEMMA HasOne ==
  ASSUME NEW n \in 1..MaxInputs
  PROVE  <<n>> \in Inputs /\ Len(<<n>>) = 1 /\ \A i : Has(<<n>>, i) <=> i = n
<1>1. <<n>> \in Inputs /\ Len(<<n>>) = 1 /\ <<n>>[1] = n
  BY DEF Inputs
<1> QED BY <1>1 DEF Has

\* None.
LEMMA HasNone == <<>> \in Inputs /\ Len(<<>>) = 0 /\ \A i : ~Has(<<>>, i)
<1>1. <<>> \in Inputs /\ Len(<<>>) = 0
  BY DEF Inputs
<1> QED BY <1>1 DEF Has

\* A step that writes nothing leaves all inputs where they are.
LEMMA Unmoved ==
  ASSUME InputKept, UNCHANGED <<queued, asleep, typed, handoff, sent, launched, hibernated>>,
         lpc' = "flush" <=> lpc = "flush", child = "dead" => child' = "dead"
  PROVE  InputKept'
<1>1. InHand' = InHand
  BY DEF InHand
<1> QED BY <1>1 DEF InputKept, Held, Kept

\* The initial state.
LEMMA LaunchInit == L!Init => LaunchIInv
<1> SUFFICES ASSUME L!Init PROVE LaunchIInv
  OBVIOUS
<1>1. /\ launched \in BOOLEAN /\ cancelled \in BOOLEAN /\ hibernated \in BOOLEAN /\ stop \in BOOLEAN
  BY Zenon DEF L!Init
<1>2. handoff \in [input : Inputs, size : Sizes \cup {L!NoSize}] /\ Len(handoff.input) <= MaxInputs
  BY HasNone, SessionAssumption DEF L!Init, L!LaunchConstants
<1>3. LaunchType
  BY <1>1, <1>2, HasNone, SessionAssumption DEF L!Init, L!LaunchConstants, LaunchType, L!AnySize
<1>4. InputKept
  BY HasNone DEF L!Init, InputKept, Held, InHand
<1> QED BY <1>3, <1>4 DEF L!Init, LaunchIInv, LaunchPlace, L!Alive

\* Every step of the launcher, of the child, of a client and of terminate
\* preserves the invariant.
LEMMA LaunchNext ==
  ASSUME ~SlowHolder, LaunchIInv, [L!Next]_(L!vars)
  PROVE  LaunchIInv'
<1> USE SessionAssumption DEF LaunchIInv, LaunchType, LaunchPlace, L!LaunchConstants, L!AnySize,
     L!Alive, L!deferredVars, L!launcherVars, L!sleepVars, L!termVars, L!clientVars
<1>0. /\ InHand \in Inputs /\ Len(InHand) \in Nat /\ Len(handoff.input) \in Nat
      /\ Len(queued) \in Nat /\ Len(asleep) \in Nat /\ Len(typed) \in Nat
  BY LenNat, HasNone DEF InHand
<1>1. CASE L!Settle
  BY <1>1, Unmoved DEF L!Settle
<1>2. CASE L!SettleCancelled
  BY <1>2, Unmoved DEF L!SettleCancelled
<1>3. CASE L!Exec
  BY <1>3, Unmoved DEF L!Exec
<1>4. CASE L!ExecFails
  BY <1>4, Unmoved DEF L!ExecFails
<1>5. CASE L!FinishLaunch
  <2>1. CASE cancelled
    BY <1>5, <2>1, Unmoved DEF L!FinishLaunch
  <2>2. CASE ~cancelled
    <3>1. /\ lpc = "started" /\ lpc' = "flush" /\ launched' = TRUE /\ queued' = <<>>
          /\ handoff' = [input |-> queued, size |-> IF pending = chosen THEN L!NoSize ELSE pending]
          /\ UNCHANGED <<cancelled, pending, chosen, child, typed, ptySize, screenSize, hibernated,
                         asleep, exited, stop, resizing, tpc, result, sent, resizes, wanted>>
      BY <1>5, <2>2 DEF L!FinishLaunch
    <3>2. InHand = <<>> /\ InHand' = queued
      BY <3>1 DEF InHand
    <3>3. InputKept'
      BY <3>1, <3>2, HasNone, <1>0 DEF InputKept, Held, Kept
    <3>4. Len(queued) <= MaxInputs
      BY <3>2, HasNone DEF InputKept, Held, Inputs
    <3>5. LaunchType'
      BY <3>1, <3>4, HasNone
    <3> QED BY <2>2, <3>1, <3>3, <3>5
  <2> QED BY <2>1, <2>2
<1>6. CASE L!KillRaced
  BY <1>6, Unmoved DEF L!KillRaced
<1>7. CASE L!FlushQueued
  <2>1. /\ lpc = "flush" /\ lpc' = "late" /\ typed' = IF L!Alive THEN typed \o handoff.input ELSE typed
        /\ UNCHANGED <<launched, cancelled, pending, queued, chosen, handoff, child, ptySize,
                       screenSize, hibernated, asleep, exited, stop, resizing, tpc, result, sent,
                       resizes, wanted>>
    BY <1>7 DEF L!FlushQueued
  <2>2. InHand = handoff.input /\ InHand' = <<>>
    BY <2>1 DEF InHand
  <2>3. InputKept' /\ typed' \in Inputs
    <3>1. CASE L!Alive
      <4>1. /\ typed' \in Inputs /\ Len(typed') = Len(typed) + Len(handoff.input)
            /\ \A i : Has(typed', i) <=> Has(typed, i) \/ Has(handoff.input, i)
        BY <2>1, <3>1, HasConcat
      <4>2. Held' = Held /\ \A i : Kept(i)' <=> Kept(i)
        <5>1. /\ Held = Len(queued) + Len(handoff.input) + Len(asleep) + Len(typed)
              /\ Held' = Len(queued) + Len(<<>>) + Len(asleep) + Len(typed')
          BY <2>1, <2>2 DEF Held
        <5>2. ASSUME NEW i PROVE Kept(i)' <=> Kept(i)
          BY <2>1, <2>2, <4>1, HasNone DEF Kept
        <5> QED BY <4>1, <5>1, <5>2, <1>0, HasNone
      <4> QED BY <2>1, <4>1, <4>2 DEF InputKept
    <3>2. CASE ~L!Alive
      <4>1. child \in {"none", "dead"} /\ typed' = typed
        BY <2>1, <3>2
      <4>2. child = "dead"
        BY <2>1, <4>1
      <4>3. /\ Held = Len(queued) + Len(handoff.input) + Len(asleep) + Len(typed)
            /\ Held' = Len(queued) + Len(<<>>) + Len(asleep) + Len(typed)
        BY <2>1, <2>2, <4>1 DEF Held
      <4>4. Held \in Nat /\ Held' \in Nat /\ Held' <= Held
        BY <4>3, <1>0, HasNone
      <4> QED BY <2>1, <4>1, <4>2, <4>3, <4>4 DEF InputKept
    <3> QED BY <3>1, <3>2
  <2> QED BY <2>1, <2>3
<1>8. CASE L!LateResize
  <2>1. InputKept' /\ ptySize' \in L!AnySize
    BY <1>8, Unmoved DEF L!LateResize
  <2> QED BY <1>8, <2>1 DEF L!LateResize
<1>9. CASE L!LateResizeScreen
  BY <1>9, Unmoved DEF L!LateResizeScreen
<1>10. CASE L!PumpEnds
  BY <1>10, Unmoved DEF L!PumpEnds
<1>11. CASE L!ChildExits
  BY <1>11, Unmoved DEF L!ChildExits
<1>12. CASE L!WriteInput
  <2>1. /\ sent' = sent + 1 /\ sent' \in 1..MaxInputs
        /\ L!Write(<<sent'>>, hibernated) /\ (launched => L!Alive)
        /\ UNCHANGED <<launched, cancelled, pending, lpc, chosen, handoff, child, ptySize, screenSize,
                       hibernated, exited, stop, resizing, tpc, result, resizes, wanted>>
    BY <1>12 DEF L!WriteInput
  <2>2. InHand' = InHand
    BY <2>1 DEF InHand
  <2>3. /\ queued' \in Inputs /\ asleep' \in Inputs /\ typed' \in Inputs
        /\ Held' = Held + 1 /\ \A i : Kept(i)' <=> Kept(i) \/ i = sent'
        /\ (launched => queued' = queued) /\ (~hibernated => asleep' = asleep)
    <3>1. CASE queued' = queued \o <<sent'>> /\ UNCHANGED <<asleep, typed>> /\ ~launched
      BY <2>1, <2>2, <3>1, HasConcat, HasOne, <1>0 DEF Held, Kept
    <3>2. CASE asleep' = asleep \o <<sent'>> /\ UNCHANGED <<queued, typed>> /\ hibernated
      BY <2>1, <2>2, <3>2, HasConcat, HasOne, <1>0 DEF Held, Kept
    <3>3. CASE typed' = typed \o <<sent'>> /\ UNCHANGED <<queued, asleep>>
      BY <2>1, <2>2, <3>3, HasConcat, HasOne, <1>0 DEF Held, Kept
    <3> QED BY <2>1, <3>1, <3>2, <3>3 DEF L!Write
  <2>4. InputKept'
    BY <2>1, <2>3, <1>0 DEF InputKept, Held
  <2> QED BY <2>1, <2>3, <2>4
<1>13. ASSUME NEW r \in Inputs, NEW n \in 0..1, Len(r) = n, \A i : Has(r, i) <=> n = 1 /\ i = sent',
              sent' = sent + n, sent' <= MaxInputs, hibernated, L!Alive, L!Wake(r),
              UNCHANGED <<launched, cancelled, pending, lpc, chosen, handoff, ptySize, screenSize,
                          exited, stop, resizing, tpc, result, resizes, wanted>>
       PROVE  LaunchIInv'
  <2>1. InHand' = InHand
    BY <1>13 DEF InHand
  <2>2. asleep' = <<>> /\ hibernated' = FALSE /\ child' \in {"running", "stopped"} /\ L!Alive'
    BY <1>13 DEF L!Wake
  <2>3. /\ queued' \in Inputs /\ typed' \in Inputs /\ (launched => queued' = queued)
        /\ Held' = Held + n /\ \A i : Kept(i)' <=> Kept(i) \/ Has(r, i)
    <3>1. CASE queued' = queued \o asleep \o r /\ UNCHANGED typed /\ ~launched
      <4>1. /\ queued' \in Inputs /\ Len(queued') = Len(queued) + Len(asleep) + n
            /\ \A i : Has(queued', i) <=> Has(queued, i) \/ Has(asleep, i) \/ Has(r, i)
        <5>1. queued \o asleep \in Inputs
          BY HasConcat
        <5> QED BY <1>13, <3>1, <5>1, HasConcat
      <4> QED BY <2>1, <2>2, <3>1, <4>1, HasNone, <1>0 DEF Held, Kept
    <3>2. CASE typed' = typed \o asleep \o r /\ UNCHANGED queued
      <4>1. /\ typed' \in Inputs /\ Len(typed') = Len(typed) + Len(asleep) + n
            /\ \A i : Has(typed', i) <=> Has(typed, i) \/ Has(asleep, i) \/ Has(r, i)
        <5>1. typed \o asleep \in Inputs
          BY HasConcat
        <5> QED BY <1>13, <3>2, <5>1, HasConcat
      <4> QED BY <2>1, <2>2, <3>2, <4>1, HasNone, <1>0 DEF Held, Kept
    <3> QED BY <1>13, <3>1, <3>2 DEF L!Wake
  <2>4. InputKept'
    BY <1>13, <2>2, <2>3, <1>0 DEF InputKept, Held
  <2>5. LaunchType'
    <3>1. hibernated' \in BOOLEAN
      BY <2>2, Zenon
    <3>2. sent' \in 0..MaxInputs
      BY <1>13
    <3> QED BY <1>13, <2>2, <2>3, <3>1, <3>2, HasNone
  <2> QED BY <1>13, <2>2, <2>4, <2>5
<1>14. CASE L!WriteWaking
  <2>1. sent' \in 1..MaxInputs
    BY <1>14 DEF L!WriteWaking
  <2> QED BY <1>13, <1>14, <2>1, HasOne DEF L!WriteWaking
<1>24. CASE L!WakeSession
  BY <1>13, <1>24, HasNone DEF L!WakeSession
<1>15. CASE L!Hibernate
  <2>1. InputKept'
    BY <1>15 DEF L!Hibernate, InputKept, Held, Kept, InHand
  <2> QED BY <1>15, <2>1 DEF L!Hibernate
<1>16. ASSUME NEW size \in Sizes, L!Resize(size) PROVE LaunchIInv'
  BY <1>16, Unmoved DEF L!Resize
<1>17. CASE L!ResizeScreen
  BY <1>17, Unmoved DEF L!ResizeScreen
<1>18. CASE L!Terminate
  <2>1. InputKept' /\ cancelled' \in BOOLEAN /\ stop' \in BOOLEAN
    BY <1>18, Unmoved DEF L!Terminate
  <2>2. tpc = "idle" /\ (cancelled' <=> ~launched) /\ tpc' = IF launched THEN "kill" ELSE "join"
    BY <1>18 DEF L!Terminate, L!Unlocked
  <2>3. LaunchType'
    BY <1>18, <2>1 DEF L!Terminate
  <2>4. LaunchPlace'
    BY <1>18, <2>2 DEF L!Terminate
  <2> QED BY <2>1, <2>3, <2>4
<1>19. CASE L!DropSession
  BY <1>19, Unmoved DEF L!DropSession, L!Unlocked
<1>20. CASE L!TerminateKill
  BY <1>20, Unmoved DEF L!TerminateKill
<1>21. CASE L!TerminateAwait
  BY <1>21, Unmoved DEF L!TerminateAwait
<1>22. CASE L!Join
  BY <1>22, Unmoved DEF L!Join
<1>23. CASE UNCHANGED L!vars
  BY <1>23, Unmoved DEF L!vars
<1> HIDE DEF LaunchIInv
<1> QED BY <1>1, <1>2, <1>3, <1>4, <1>5, <1>6, <1>7, <1>8, <1>9, <1>10, <1>11, <1>12, <1>13, <1>14,
     <1>15, <1>16, <1>17, <1>18, <1>19, <1>20, <1>21, <1>22, <1>23, <1>24
     DEF L!Next, L!Launcher, L!Terminating

\* lifecycle.rs: however the launcher, the clients, the governor and terminate
\* interleave, terminate leaves no child behind, drop none that was not launched,
\* and an input is neither lost nor written twice on its way through the queues;
\* as long as a holder that was launched answers within the five seconds it has.
THEOREM LaunchSafe == ASSUME ~SlowHolder PROVE L!Spec => []LaunchInv
<1>1. LaunchIInv => LaunchInv
  <2> SUFFICES ASSUME LaunchIInv PROVE LaunchInv
    OBVIOUS
  <2>1. InHand \in Inputs
    BY HasNone DEF InHand, LaunchIInv, LaunchType
  <2>2. Len(queued) <= MaxInputs /\ Len(asleep) <= MaxInputs /\ Len(typed) <= MaxInputs
    BY <2>1, SessionAssumption DEF LaunchIInv, LaunchType, InputKept, Held, Inputs,
       L!LaunchConstants
  <2>3. L!TypeOK
    BY <2>2, InputQueueIs DEF LaunchIInv, LaunchType, L!TypeOK
  <2>4. L!NoOrphan
    BY DEF LaunchIInv, LaunchPlace, L!NoOrphan, L!Alive
  <2>5. L!InputDelivered
    <3> SUFFICES ASSUME L!Settled
                 PROVE  Len(typed) = sent /\ \A i \in 1..sent : \E p \in 1..sent : typed[p] = i
      BY DEF L!InputDelivered
    <3>1. queued = <<>> /\ InHand = <<>> /\ asleep = <<>> /\ child # "dead"
      BY DEF L!Settled, LaunchIInv, LaunchPlace, InputKept, InHand
    <3>2. Len(typed) = sent /\ \A i \in 1..sent : Has(typed, i)
      BY <3>1, HasNone DEF LaunchIInv, LaunchType, InputKept, Held, Kept
    <3> QED BY <3>2 DEF Has
  <2> QED BY <2>3, <2>4, <2>5 DEF LaunchInv, L!LaunchInv
<1> QED BY <1>1, LaunchInit, LaunchNext, PTL DEF L!Spec

(***************************************************************************)
(* What the Engine makes of the log.                                       *)
(***************************************************************************)

TokenSeq == Seq(Tokens)
Pumping == {"read", "quiet", "look", "exited"}

HeldType ==
  /\ log \in TokenSeq /\ mbuf \in TokenSeq /\ shown \in TokenSeq
  /\ hpc \in {"none", "serving", "finished", "drained", "marked", "closed"}
  /\ inc \in 0..MaxInc /\ epoch \in 0..Len(log) /\ outs \in 0..MaxOut
  /\ unread \in 0..outs /\ active \in BOOLEAN /\ crashes \in 0..MaxCrash
  /\ up \in BOOLEAN /\ downs \in 0..MaxDown
  /\ ppc \in {"none", "launching", "read", "quiet", "look", "exited"}
  /\ floor \in 0..Len(log) /\ offset \in 0..Len(log) /\ from \in 0..offset
  /\ dirty \in BOOLEAN /\ exit \in Unknown..MaxInc /\ asked \in 0..MaxInc
  /\ tail0 \in 0..Len(log)
  /\ ckpt \in [offset : -1..Len(log), mbuf : TokenSeq, shown : TokenSeq, from : Nat]
  /\ rec \in LaunchFailed..MaxInc

\* A marker is in the log with its head and its tail.
MarkersWhole ==
  \A i \in 1..Len(log) :
    /\ log[i].kind = "head" => i < Len(log) /\ log[i + 1].kind = "tail"
    /\ log[i].kind = "tail" => i > 1 /\ log[i - 1].kind = "head"

\* Neither the epoch nor a floor cuts one in two.
Between(n) == n > 0 => log[n].kind # "head"
FloorsBetween == Between(epoch) /\ Between(tail0) /\ Between(floor)

\* From its epoch on the log is the incarnation's own.
OwnTokens == \A i \in 1..Len(log) : i > epoch => log[i].inc = inc

\* A reader that started at lo and is at hi: its marker buffer and its screen.
Follows(b, s, lo, hi) ==
  /\ b = IF lo < hi /\ log[hi].kind = "head" THEN <<log[hi]>> ELSE <<>>
  /\ Shows(s, lo, hi)

\* The pump is one, and the checkpoint is of one.
ReadersFollow ==
  /\ ppc \in Pumping => Follows(mbuf, shown, from, offset)
  /\ ckpt.offset >= 0 => /\ Follows(ckpt.mbuf, ckpt.shown, ckpt.from, ckpt.offset)
                         /\ ckpt.from <= ckpt.offset

\* Whose exit the session waits for.
OwnIncarnation ==
  /\ active <=> hpc # "none"
  /\ active => inc > 0
  /\ ~up => ppc = "none"
  /\ ppc # "none" => asked = inc
  /\ ppc = "launching" => tail0 >= epoch
  /\ ppc \in {"read", "quiet", "look"} => floor >= epoch
  /\ exit > NoExit => ppc = "exited" /\ exit = asked
  /\ dirty => ppc \in {"read", "quiet", "look"}

\* The invariant the induction over the held session carries.
HeldIInv ==
  HeldType /\ MarkersWhole /\ FloorsBetween /\ OwnTokens /\ ReadersFollow /\ OwnIncarnation

\* The tokens to be shown are finitely many.
LEMMA VisibleFinite ==
  ASSUME NEW lo \in Nat, NEW hi \in Nat
  PROVE  IsFiniteSet(Visible(lo, hi)) /\ Cardinality(Visible(lo, hi)) \in Nat
<1>1. IsFiniteSet((lo + 1)..hi)
  BY FS_Interval
<1>2. Visible(lo, hi) \subseteq (lo + 1)..hi
  BY DEF Visible
<1> QED BY <1>1, <1>2, FS_Subset, FS_CardinalityType

\* One more token is shown, or it is not.
LEMMA ShowsNext ==
  ASSUME log \in TokenSeq, NEW lo \in Nat, NEW hi \in Nat, lo <= hi, hi < Len(log),
         NEW s \in TokenSeq, Shows(s, lo, hi)
  PROVE  /\ hi + 1 \in Visible(lo, hi + 1) => Shows(s \o <<log[hi + 1]>>, lo, hi + 1)
         /\ hi + 1 \notin Visible(lo, hi + 1) => Shows(s, lo, hi + 1)
<1> DEFINE V == Visible(lo, hi)
           n == Cardinality(V)
<1>1. IsFiniteSet(V) /\ n \in Nat /\ Len(s) = n /\ hi + 1 \notin V
  BY VisibleFinite DEF Shows, Visible
<1>2. ASSUME NEW i \in V PROVE Cardinality(Visible(lo, i)) \in 1..n
  <2>1. i \in Nat /\ i <= hi /\ i \in Visible(lo, i) /\ Visible(lo, i) \subseteq V
    BY DEF Visible
  <2>2. IsFiniteSet(Visible(lo, i)) /\ Cardinality(Visible(lo, i)) \in Nat
    BY <2>1, VisibleFinite
  <2>3. Cardinality(Visible(lo, i)) # 0
    BY <2>1, <2>2, FS_EmptySet
  <2>4. Cardinality(Visible(lo, i)) <= n
    BY <1>1, <2>1, FS_Subset
  <2> QED BY <1>1, <2>2, <2>3, <2>4
<1>3. ASSUME hi + 1 \notin Visible(lo, hi + 1) PROVE Shows(s, lo, hi + 1)
  <2>1. Visible(lo, hi + 1) = V
    BY <1>3 DEF Visible
  <2> QED BY <2>1 DEF Shows
<1>4. ASSUME hi + 1 \in Visible(lo, hi + 1) PROVE Shows(s \o <<log[hi + 1]>>, lo, hi + 1)
  <2> DEFINE t == log[hi + 1]
             r == s \o <<t>>
  <2>1. Visible(lo, hi + 1) = V \cup {hi + 1}
    BY <1>4 DEF Visible
  <2>2. Cardinality(Visible(lo, hi + 1)) = n + 1
    BY <1>1, <2>1, FS_AddElement
  <2>3. t \in Tokens
    BY ElementOfSeq DEF TokenSeq
  <2>4. Len(r) = n + 1 /\ r[n + 1] = t /\ \A k \in 1..n : r[k] = s[k]
    <3>1. <<t>> \in TokenSeq /\ Len(<<t>>) = 1 /\ <<t>>[1] = t
      BY <2>3 DEF TokenSeq
    <3> HIDE DEF t
    <3> QED BY <1>1, <3>1, ConcatProperties DEF TokenSeq
  <2> HIDE DEF r, t, V, n
  <2>5. ASSUME NEW i \in Visible(lo, hi + 1) PROVE r[Cardinality(Visible(lo, i))] = log[i]
    <3>1. CASE i = hi + 1
      BY <2>2, <2>4, <3>1 DEF t
    <3>2. CASE i \in V
      BY <1>2, <2>4, <3>2 DEF Shows, V
    <3> QED BY <2>1, <3>1, <3>2
  <2>6. Shows(r, lo, hi + 1)
    BY <2>2, <2>4, <2>5 DEF Shows
  <2> QED BY <2>6 DEF r, t
<1> QED BY <1>3, <1>4

\* The log goes on, and what it was it stays.
GoesOn == Len(log') >= Len(log) /\ \A i \in 1..Len(log) : log'[i] = log[i]

\* A reader of it still follows.
LEMMA FollowsKept ==
  ASSUME log \in TokenSeq, log' \in TokenSeq, GoesOn, NEW b, NEW s, NEW lo \in Nat,
         NEW hi \in 0..Len(log), Follows(b, s, lo, hi)
  PROVE  Follows(b, s, lo, hi)'
<1>0. Len(log) \in Nat
  BY LenProperties DEF TokenSeq
<1>1. ASSUME NEW k \in 0..hi PROVE Visible(lo, k)' = Visible(lo, k)
  BY <1>0 DEF Visible, GoesOn
<1>2. Visible(lo, hi)' = Visible(lo, hi) /\ \A i \in Visible(lo, hi) : Visible(lo, i)' = Visible(lo, i)
  BY <1>0, <1>1 DEF Visible
<1>3. \A i \in Visible(lo, hi) : log'[i] = log[i]
  BY <1>0 DEF Visible, GoesOn
<1>4. Shows(s, lo, hi)'
  BY <1>2, <1>3 DEF Follows, Shows
<1>5. lo < hi => log'[hi] = log[hi]
  BY <1>0 DEF GoesOn
<1> QED BY <1>4, <1>5 DEF Follows

\* Nothing was appended.
LEMMA FollowsSame ==
  ASSUME log' = log, NEW b, NEW s, NEW lo, NEW hi, Follows(b, s, lo, hi)
  PROVE  Follows(b, s, lo, hi)'
<1>1. \A l, h : Visible(l, h)' = Visible(l, h)
  BY DEF Visible
<1>2. Shows(s, lo, hi)'
  BY <1>1 DEF Follows, Shows
<1> QED BY <1>2 DEF Follows

\* A reader that starts has shown nothing.
LEMMA FollowsFromHere == ASSUME NEW lo \in Nat PROVE Follows(<<>>, <<>>, lo, lo)
<1>1. Visible(lo, lo) = {}
  BY DEF Visible
<1>2. Cardinality({}) = 0
  BY FS_EmptySet
<1> QED BY <1>1, <1>2 DEF Follows, Shows

\* What the holder appends: output of its own child, or a whole marker.
Appended(m) ==
  /\ m \in TokenSeq /\ \A k \in 1..Len(m) : m[k].inc = inc
  /\ \/ \A k \in 1..Len(m) : m[k].kind = "out"
     \/ Len(m) = 2 /\ m[1].kind = "head" /\ m[2].kind = "tail"

\* Appending preserves what is said of the log and of those who read it.
LEMMA HolderAppends ==
  ASSUME HeldIInv, NEW m, Appended(m), log' = log \o m,
         UNCHANGED <<inc, epoch, ppc, floor, offset, mbuf, shown, from, tail0, ckpt>>
  PROVE  /\ log' \in TokenSeq /\ Len(log') \in Nat /\ Len(log') >= Len(log)
         /\ MarkersWhole' /\ FloorsBetween' /\ OwnTokens' /\ ReadersFollow'
<1> DEFINE n == Len(log)
<1>0. n \in Nat /\ Len(m) \in Nat /\ log \in TokenSeq
  BY LenProperties DEF HeldIInv, HeldType, TokenSeq, Appended
<1>1. /\ log' \in TokenSeq /\ Len(log') = n + Len(m)
      /\ \A i \in 1..n : log'[i] = log[i]
      /\ \A k \in 1..Len(m) : log'[n + k] = m[k]
  <2>1. /\ log' \in TokenSeq /\ Len(log') = n + Len(m)
        /\ \A i \in 1..n + Len(m) : log'[i] = IF i <= n THEN log[i] ELSE m[i - n]
    BY <1>0, ConcatProperties DEF TokenSeq, Appended
  <2>2. ASSUME NEW k \in 1..Len(m) PROVE log'[n + k] = m[k]
    <3>1. n + k \in 1..n + Len(m) /\ ~(n + k <= n) /\ (n + k) - n = k
      BY <1>0
    <3> QED BY <2>1, <3>1
  <2> QED BY <1>0, <2>1, <2>2
<1>2. \A i \in 1..Len(log') : i \in 1..n \/ (i - n \in 1..Len(m) /\ log'[i] = m[i - n])
  <2>1. ASSUME NEW i \in 1..Len(log'), i \notin 1..n PROVE i - n \in 1..Len(m) /\ log'[i] = m[i - n]
    <3>1. i - n \in 1..Len(m) /\ n + (i - n) = i
      BY <1>0, <1>1, <2>1
    <3> QED BY <1>1, <3>1
  <2> QED BY <2>1
<1> HIDE DEF n
<1>3. MarkersWhole'
  <2> SUFFICES ASSUME NEW i \in 1..Len(log')
               PROVE  /\ log'[i].kind = "head" => i < Len(log') /\ log'[i + 1].kind = "tail"
                      /\ log'[i].kind = "tail" => i > 1 /\ log'[i - 1].kind = "head"
    BY DEF MarkersWhole
  <2>1. CASE i \in 1..n
    <3>1. /\ log[i].kind = "head" => i < n /\ log[i + 1].kind = "tail"
          /\ log[i].kind = "tail" => i > 1 /\ log[i - 1].kind = "head"
      BY <2>1 DEF HeldIInv, MarkersWhole, n
    <3>2. log'[i] = log[i] /\ (i < n => log'[i + 1] = log[i + 1]) /\ (i > 1 => log'[i - 1] = log[i - 1])
      BY <1>0, <1>1, <2>1
    <3> QED BY <1>0, <1>1, <2>1, <3>1, <3>2
  <2>2. CASE i - n \in 1..Len(m) /\ log'[i] = m[i - n]
    <3>1. CASE \A k \in 1..Len(m) : m[k].kind = "out"
      BY <2>2, <3>1
    <3>2. CASE Len(m) = 2 /\ m[1].kind = "head" /\ m[2].kind = "tail"
      <4>1. log'[n + 1] = m[1] /\ log'[n + 2] = m[2]
        <5>1. 1 \in 1..Len(m) /\ 2 \in 1..Len(m)
          BY <3>2
        <5> QED BY <1>1, <5>1
      <4>2. CASE i = n + 1
        BY <1>0, <1>1, <3>2, <4>1, <4>2
      <4>3. CASE i = n + 2
        <5>1. i - 1 = n + 1 /\ i > 1
          BY <1>0, <4>3
        <5> QED BY <3>2, <4>1, <4>3, <5>1
      <4>4. i = n + 1 \/ i = n + 2
        BY <1>0, <2>2, <3>2
      <4> QED BY <4>2, <4>3, <4>4
    <3> QED BY <3>1, <3>2 DEF Appended
  <2> QED BY <1>2, <2>1, <2>2
<1>4. epoch \in 0..n /\ tail0 \in 0..n /\ floor \in 0..n /\ offset \in 0..n /\ from \in Nat
  BY DEF HeldIInv, HeldType, n
<1>5. FloorsBetween'
  BY <1>0, <1>1, <1>4 DEF HeldIInv, FloorsBetween, Between
<1>6. OwnTokens'
  <2> SUFFICES ASSUME NEW i \in 1..Len(log'), i > epoch PROVE log'[i].inc = inc
    BY DEF OwnTokens
  <2>1. CASE i \in 1..n
    BY <1>1, <2>1 DEF HeldIInv, OwnTokens, n
  <2> QED BY <1>2, <2>1 DEF Appended
<1>7. GoesOn
  BY <1>0, <1>1 DEF GoesOn, n
<1>8. ReadersFollow'
  <2>1. ppc \in Pumping => Follows(mbuf, shown, from, offset)'
    BY <1>0, <1>1, <1>4, <1>7, FollowsKept DEF HeldIInv, ReadersFollow, n
  <2>2. ckpt.offset >= 0 => Follows(ckpt.mbuf, ckpt.shown, ckpt.from, ckpt.offset)'
    <3>1. ckpt.from \in Nat /\ (ckpt.offset >= 0 => ckpt.offset \in 0..Len(log))
      BY <1>0 DEF HeldIInv, HeldType, n
    <3> QED BY <1>0, <1>1, <1>7, <3>1, FollowsKept DEF HeldIInv, ReadersFollow
  <2> QED BY <2>1, <2>2 DEF HeldIInv, ReadersFollow
<1> QED BY <1>0, <1>1, <1>3, <1>5, <1>6, <1>8 DEF n

\* A pump that starts, from the checkpoint or from the tail of the log.
LEMMA PumpStarts ==
  ASSUME HeldIInv, NEW f \in {epoch, tail0}, f >= epoch, StartPump(f), up', asked' = inc,
         UNCHANGED <<log, holderVars, downs, tail0, ckpt>>, rec' = rec
  PROVE  HeldIInv'
<1> USE HeldAssumption DEF HeldIInv, HeldType
<1>0. Len(log) \in Nat /\ log \in TokenSeq /\ <<>> \in TokenSeq
  BY LenProperties DEF TokenSeq
<1>1. /\ ppc' = "read" /\ floor' = f /\ exit' = NoExit /\ dirty' = FALSE
      /\ UNCHANGED <<log, hpc, inc, epoch, outs, unread, active, crashes, downs, tail0, ckpt, rec>>
  BY DEF StartPump, holderVars
<1>2. /\ mbuf' \in TokenSeq /\ shown' \in TokenSeq /\ offset' \in 0..Len(log) /\ from' \in 0..offset'
      /\ Follows(mbuf', shown', from', offset')
  <2>1. CASE Usable
    <3>1. offset' = ckpt.offset /\ mbuf' = ckpt.mbuf /\ shown' = ckpt.shown /\ from' = ckpt.from
      BY <2>1 DEF StartPump
    <3>2. ckpt.offset >= 0 /\ ckpt.offset \in 0..Len(log) /\ ckpt.from \in Nat
      BY <1>0, <2>1 DEF Usable
    <3> QED BY <3>1, <3>2 DEF ReadersFollow
  <2>2. CASE ~Usable
    <3>1. offset' = ReplayStart /\ mbuf' = <<>> /\ shown' = <<>> /\ from' = ReplayStart
      BY <2>2 DEF StartPump
    <3>2. ReplayStart \in 0..Len(log) /\ ReplayStart \in Nat
      BY <1>0 DEF ReplayStart
    <3> QED BY <1>0, <3>1, <3>2, FollowsFromHere
  <2> QED BY <2>1, <2>2
<1>3. dirty' \in BOOLEAN /\ up' \in BOOLEAN
  BY <1>1, Zenon
<1>4. HeldType'
  BY <1>0, <1>1, <1>2, <1>3 DEF NoExit, Unknown
<1>5. MarkersWhole' /\ OwnTokens' /\ FloorsBetween'
  BY <1>1 DEF MarkersWhole, OwnTokens, FloorsBetween, Between
<1>6. ReadersFollow'
  <2>1. Follows(mbuf, shown, from, offset)'
    BY <1>1, <1>2, FollowsSame
  <2>2. ckpt.offset >= 0 => Follows(ckpt.mbuf, ckpt.shown, ckpt.from, ckpt.offset)'
    BY <1>1, FollowsSame DEF ReadersFollow
  <2> QED BY <1>1, <2>1, <2>2 DEF ReadersFollow
<1>7. OwnIncarnation'
  BY <1>1 DEF OwnIncarnation, NoExit
<1> QED BY <1>4, <1>5, <1>6, <1>7

\* The pump takes one token: it follows on, and an exit it honours is its own.
LEMMA PumpReads == ASSUME HeldIInv, PumpRead PROVE HeldIInv'
<1> DEFINE t == log[offset + 1]
           d == Drained(mbuf, t)
<1>0. /\ Len(log) \in Nat /\ log \in TokenSeq /\ offset \in Nat /\ from \in Nat /\ from <= offset
      /\ offset < Len(log) /\ offset + 1 \in 1..Len(log)
      /\ mbuf \in TokenSeq /\ shown \in TokenSeq /\ floor \in Nat
  <2>1. Len(log) \in Nat /\ log \in TokenSeq /\ mbuf \in TokenSeq /\ shown \in TokenSeq
    BY LenProperties DEF HeldIInv, HeldType, TokenSeq
  <2>2. offset < Len(log)
    BY DEF PumpRead
  <2>3. floor \in 0..Len(log) /\ offset \in 0..Len(log) /\ from \in 0..offset
    BY DEF HeldIInv, HeldType
  <2> QED BY <2>1, <2>2, <2>3
<1>1. /\ ppc = "read" /\ offset' = offset + 1 /\ shown' = shown \o d.output
      /\ mbuf' = IF offset + 1 = floor THEN <<>> ELSE d.buffer
      /\ exit' = IF offset < floor THEN NoExit ELSE d.exit
      /\ IF exit' = NoExit
           THEN ppc' = "read" /\ dirty' = (dirty \/ d.output # <<>>) /\ ckpt' = ckpt
           ELSE /\ ppc' = "exited" /\ dirty' = FALSE
                /\ ckpt' = IF dirty THEN [offset |-> offset + 1, mbuf |-> d.buffer,
                                           shown |-> shown, from |-> from]
                           ELSE ckpt
      /\ UNCHANGED <<log, hpc, inc, epoch, outs, unread, active, crashes, up, downs, floor, from, asked,
                     tail0, rec>>
  BY DEF PumpRead, holderVars
<1>2. t \in Tokens /\ t.kind \in {"out", "head", "tail"} /\ t.inc \in 1..MaxInc
  <2>1. t \in Tokens
    BY <1>0, ElementOfSeq DEF TokenSeq
  <2> QED BY <2>1 DEF Tokens
<1>3. /\ Shows(shown, from, offset)
      /\ mbuf = IF from < offset /\ log[offset].kind = "head" THEN <<log[offset]>> ELSE <<>>
  BY <1>1 DEF HeldIInv, ReadersFollow, Follows, Pumping
<1>4. /\ t.kind = "tail" => offset + 1 > 1 /\ log[offset].kind = "head"
      /\ offset > 0 /\ log[offset].kind = "head" => t.kind = "tail"
  <2>1. t.kind = "tail" => offset + 1 > 1 /\ log[(offset + 1) - 1].kind = "head"
    BY <1>0 DEF HeldIInv, MarkersWhole
  <2>2. (offset + 1) - 1 = offset
    BY <1>0
  <2>3. offset > 0 /\ log[offset].kind = "head" => log[offset + 1].kind = "tail"
    BY <1>0 DEF HeldIInv, MarkersWhole
  <2> QED BY <2>1, <2>2, <2>3
<1>5. offset + 1 \in Visible(from, offset + 1)
        <=> (t.kind = "out" \/ (t.kind = "tail" /\ offset = from))
  BY <1>0 DEF Visible
<1> HIDE DEF t
\* What is drained: a head waits, its tail ends the marker, the rest is output.
<1>6. /\ d.buffer = IF t.kind = "head" THEN <<t>> ELSE <<>>
      /\ d.output = IF offset + 1 \in Visible(from, offset + 1) THEN <<t>> ELSE <<>>
      /\ d.exit = NoExit \/ (d.exit = t.inc /\ t.kind = "tail" /\ offset # from)
  <2>1. CASE from < offset /\ log[offset].kind = "head"
    <3>1. mbuf = <<log[offset]>> /\ mbuf # <<>> /\ Len(mbuf) = 1 /\ t.kind = "tail"
      BY <1>0, <1>3, <1>4, <2>1
    <3>2. d = [buffer |-> <<>>, output |-> <<>>, exit |-> t.inc]
      BY <3>1 DEF Drained
    <3> QED BY <1>0, <1>5, <2>1, <3>1, <3>2
  <2>2. CASE ~(from < offset /\ log[offset].kind = "head")
    <3>1. mbuf = <<>> /\ (t.kind = "tail" => offset = from)
      BY <1>0, <1>3, <1>4, <2>2
    <3>2. CASE t.kind = "head"
      <4>1. d = [buffer |-> <<t>>, output |-> <<>>, exit |-> NoExit]
        BY <3>1, <3>2 DEF Drained
      <4> QED BY <1>5, <3>2, <4>1
    <3>3. CASE t.kind # "head"
      <4>1. d = [buffer |-> <<>>, output |-> <<t>>, exit |-> NoExit]
        BY <3>1, <3>3 DEF Drained
      <4> QED BY <1>2, <1>5, <3>1, <3>3, <4>1
    <3> QED BY <3>2, <3>3
  <2> QED BY <2>1, <2>2
<1> HIDE DEF d
<1>7. <<t>> \in TokenSeq /\ <<>> \in TokenSeq /\ d.buffer \in TokenSeq /\ d.output \in TokenSeq
  BY <1>2, <1>6 DEF TokenSeq
<1>8. shown' \in TokenSeq /\ Shows(shown', from, offset + 1) /\ (d.output = <<>> => shown' = shown)
  <2>1. shown \o <<>> = shown
    BY <1>0, ConcatEmptySeq DEF TokenSeq
  <2>2. shown' \in TokenSeq
    BY <1>0, <1>1, <1>7, ConcatProperties DEF TokenSeq
  <2> QED BY <1>0, <1>1, <1>3, <1>6, <2>1, <2>2, ShowsNext DEF t
<1>9. mbuf' = d.buffer
  <2>1. offset + 1 = floor => t.kind # "head"
    BY <1>0 DEF HeldIInv, FloorsBetween, Between, t
  <2> QED BY <1>1, <1>6, <2>1
<1>10. Follows(d.buffer, shown', from, offset + 1)
  BY <1>0, <1>6, <1>8 DEF Follows, t
<1>11. exit' # NoExit => exit' = t.inc /\ d.output = <<>> /\ offset >= floor /\ exit' = asked
  <2>1. exit' # NoExit => exit' = t.inc /\ t.kind = "tail" /\ offset # from /\ offset >= floor
    BY <1>0, <1>1, <1>6
  <2>2. exit' # NoExit => d.output = <<>>
    BY <1>5, <1>6, <2>1
  <2>3. offset >= floor => t.inc = inc
    <3>1. floor >= epoch /\ epoch \in Nat
      BY <1>1 DEF HeldIInv, HeldType, OwnIncarnation
    <3>2. offset >= floor => offset + 1 > epoch
      BY <1>0, <3>1
    <3> QED BY <1>0, <3>2 DEF HeldIInv, OwnTokens, t
  <2>4. asked = inc
    BY <1>1 DEF HeldIInv, OwnIncarnation
  <2> QED BY <2>1, <2>2, <2>3, <2>4
<1>12. /\ ckpt' \in [offset : -1..Len(log), mbuf : TokenSeq, shown : TokenSeq, from : Nat]
       /\ \/ ckpt' = ckpt
          \/ /\ ckpt'.mbuf = d.buffer /\ ckpt'.shown = shown' /\ ckpt'.from = from
             /\ ckpt'.offset = offset + 1
  <2>1. CASE ckpt' = ckpt
    BY <2>1 DEF HeldIInv, HeldType
  <2>2. CASE ckpt' = [offset |-> offset + 1, mbuf |-> d.buffer, shown |-> shown,
                       from |-> from] /\ exit' # NoExit
    BY <1>0, <1>7, <1>8, <1>11, <2>2
  <2> QED BY <1>1, <2>1, <2>2
<1>13. HeldType'
  <2>1. exit' \in Unknown..MaxInc /\ dirty' \in BOOLEAN
    <3>1. exit' \in Unknown..MaxInc
      BY <1>2, <1>11, HeldAssumption DEF Unknown, NoExit
    <3>2. dirty' \in BOOLEAN
      BY <1>1, Zenon
    <3> QED BY <3>1, <3>2
  <2> QED BY <1>0, <1>1, <1>7, <1>8, <1>9, <1>12, <2>1 DEF HeldIInv, HeldType
<1>14. MarkersWhole' /\ OwnTokens' /\ FloorsBetween'
  BY <1>1 DEF HeldIInv, MarkersWhole, OwnTokens, FloorsBetween, Between
<1>15. ReadersFollow'
  <2>1. Follows(mbuf, shown, from, offset)'
    BY <1>1, <1>9, <1>10, FollowsSame
  <2>2. ckpt'.offset >= 0 => /\ Follows(ckpt.mbuf, ckpt.shown, ckpt.from, ckpt.offset)'
                            /\ ckpt'.from <= ckpt'.offset
    <3>1. CASE ckpt' = ckpt
      BY <1>1, <3>1, FollowsSame DEF HeldIInv, ReadersFollow
    <3>2. CASE /\ ckpt'.mbuf = d.buffer /\ ckpt'.shown = shown' /\ ckpt'.from = from
               /\ ckpt'.offset = offset + 1
      BY <1>0, <1>1, <1>10, <3>2, FollowsSame
    <3> QED BY <1>12, <3>1, <3>2
  <2> QED BY <2>1, <2>2 DEF ReadersFollow
<1>16. OwnIncarnation'
  BY <1>1, <1>11 DEF HeldIInv, OwnIncarnation, NoExit
<1> QED BY <1>13, <1>14, <1>15, <1>16 DEF HeldIInv

\* A step that neither writes nor reads the log, but may save a checkpoint.
LEMMA LogUntouched ==
  ASSUME HeldIInv, UNCHANGED <<log, offset, mbuf, shown, from>>,
         ppc' \in Pumping => ppc \in Pumping,
         ckpt' = ckpt \/ (ppc \in Pumping /\ ckpt' = Checkpoint)
  PROVE  /\ ReadersFollow' /\ MarkersWhole'
         /\ ckpt' \in [offset : -1..Len(log), mbuf : TokenSeq, shown : TokenSeq, from : Nat]
<1>0. Len(log) \in Nat
  BY LenProperties DEF TokenSeq, HeldIInv, HeldType
<1>1. /\ offset \in 0..Len(log) /\ from \in 0..offset /\ mbuf \in TokenSeq /\ shown \in TokenSeq
      /\ ckpt \in [offset : -1..Len(log), mbuf : TokenSeq, shown : TokenSeq, from : Nat]
  BY DEF HeldIInv, HeldType
<1>2. ckpt' \in [offset : -1..Len(log), mbuf : TokenSeq, shown : TokenSeq, from : Nat]
  BY <1>0, <1>1 DEF Checkpoint
<1>3. ppc \in Pumping => Follows(mbuf, shown, from, offset)'
  BY FollowsSame DEF HeldIInv, ReadersFollow
<1>4. ckpt'.offset >= 0 => /\ Follows(ckpt.mbuf, ckpt.shown, ckpt.from, ckpt.offset)'
                          /\ ckpt'.from <= ckpt'.offset
  <2>1. CASE ckpt' = ckpt
    BY <2>1, FollowsSame DEF HeldIInv, ReadersFollow
  <2>2. CASE ppc \in Pumping /\ ckpt' = Checkpoint
    <3>1. ckpt'.mbuf = mbuf /\ ckpt'.shown = shown /\ ckpt'.from = from /\ ckpt'.offset = offset
      BY <2>2 DEF Checkpoint
    <3> QED BY <1>0, <1>1, <1>3, <2>2, <3>1
  <2> QED BY <2>1, <2>2
<1> QED BY <1>2, <1>3, <1>4 DEF ReadersFollow, HeldIInv, MarkersWhole

\* An empty log with nobody reading satisfies it.
LEMMA HeldInit == ASSUME Init PROVE HeldIInv
<1> USE HeldAssumption DEF Init
<1>1. <<>> \in TokenSeq /\ Len(<<>>) = 0 /\ 1..0 = {}
  BY DEF TokenSeq
<1>2. active \in BOOLEAN /\ up \in BOOLEAN /\ dirty \in BOOLEAN
  BY Zenon
<1>3. HeldType
  BY <1>1, <1>2 DEF HeldType, NoCkpt, Unknown, NoExit, LaunchFailed
<1>4. MarkersWhole /\ FloorsBetween /\ OwnTokens
  BY <1>1 DEF MarkersWhole, FloorsBetween, Between, OwnTokens
<1>5. ReadersFollow
  BY DEF ReadersFollow, Pumping, NoCkpt
<1>6. OwnIncarnation
  BY DEF OwnIncarnation, NoExit
<1> QED BY <1>3, <1>4, <1>5, <1>6 DEF HeldIInv

\* The holder writes to the log.
LEMMA HolderWrites ==
  ASSUME HeldIInv, PumpPty \/ FinalDrain \/ AppendMarker
  PROVE  HeldIInv'
<1>1. /\ active /\ inc \in 1..MaxInc /\ unread \in Nat /\ Len(log) \in Nat
  <2>1. active /\ inc > 0
    BY DEF HeldIInv, OwnIncarnation, PumpPty, FinalDrain, AppendMarker
  <2>2. inc \in 0..MaxInc /\ unread \in 0..outs /\ outs \in 0..MaxOut
    BY DEF HeldIInv, HeldType
  <2>3. Len(log) \in Nat
    BY LenProperties DEF TokenSeq, HeldIInv, HeldType
  <2> QED BY <2>1, <2>2, <2>3, HeldAssumption
<1>2. ASSUME NEW k \in {"out", "head", "tail"}
      PROVE  Token(k) \in Tokens /\ Token(k).inc = inc /\ Token(k).kind = k
  BY <1>1 DEF Token, Tokens
<1>3. Appended(Outputs(unread))
  <2> HIDE DEF Token
  <2>1. Outputs(unread) \in [1..unread -> Tokens]
    BY <1>2 DEF Outputs
  <2>2. Outputs(unread) \in TokenSeq /\ Len(Outputs(unread)) = unread
    BY <1>1, <2>1 DEF TokenSeq
  <2>3. \A k \in 1..unread : Outputs(unread)[k] = Token("out")
    BY DEF Outputs
  <2> QED BY <1>2, <2>2, <2>3 DEF Appended
<1>4. Appended(<<Token("head"), Token("tail")>>)
  <2> DEFINE h == Token("head")
             e == Token("tail")
             m == <<h, e>>
  <2>1. h \in Tokens /\ h.inc = inc /\ h.kind = "head" /\ e \in Tokens /\ e.inc = inc /\ e.kind = "tail"
    BY <1>2
  <2> HIDE DEF h, e
  <2>2. m \in TokenSeq /\ Len(m) = 2 /\ m[1] = h /\ m[2] = e
    BY <2>1 DEF TokenSeq
  <2> HIDE DEF m
  <2>3. Appended(m)
    BY <2>1, <2>2 DEF Appended
  <2> QED BY <2>3 DEF m, h, e
<1>5. PICK m : Appended(m) /\ log' = log \o m
  BY <1>3, <1>4 DEF PumpPty, FinalDrain, AppendMarker
<1>6. UNCHANGED <<inc, epoch, ppc, floor, offset, mbuf, shown, from, tail0, ckpt, outs, active, crashes,
                  up, downs, dirty, exit, asked, rec>>
  BY DEF PumpPty, FinalDrain, AppendMarker, pumpVars
<1>7. /\ log' \in TokenSeq /\ Len(log') \in Nat /\ Len(log') >= Len(log)
      /\ MarkersWhole' /\ FloorsBetween' /\ OwnTokens' /\ ReadersFollow'
  BY <1>5, <1>6, HolderAppends
<1>8. /\ hpc \in {"serving", "finished", "drained"} /\ hpc' \in {"serving", "drained", "marked"}
      /\ unread' \in {0, unread}
  BY DEF PumpPty, FinalDrain, AppendMarker
<1>9. HeldType'
  <2>1. ckpt' \in [offset : -1..Len(log'), mbuf : TokenSeq, shown : TokenSeq, from : Nat]
    <3>1. ckpt \in [offset : -1..Len(log), mbuf : TokenSeq, shown : TokenSeq, from : Nat]
      BY DEF HeldIInv, HeldType
    <3>2. -1..Len(log) \subseteq -1..Len(log')
      BY <1>1, <1>7
    <3> QED BY <1>6, <3>1, <3>2
  <2>2. unread' \in 0..outs'
    BY <1>6, <1>8 DEF HeldIInv, HeldType
  <2>3. /\ epoch' \in 0..Len(log') /\ floor' \in 0..Len(log') /\ offset' \in 0..Len(log')
        /\ from' \in 0..offset' /\ tail0' \in 0..Len(log')
    BY <1>1, <1>6, <1>7 DEF HeldIInv, HeldType
  <2> QED BY <1>6, <1>7, <1>8, <2>1, <2>2, <2>3 DEF HeldIInv, HeldType
<1>10. OwnIncarnation'
  BY <1>6, <1>8 DEF HeldIInv, OwnIncarnation
<1> QED BY <1>7, <1>9, <1>10 DEF HeldIInv

\* A new incarnation starts where the log ends.
LEMMA Launches == ASSUME HeldIInv, ~ResumeAtOnce, Launch PROVE HeldIInv'
<1>0. Len(log) \in Nat /\ inc \in 0..MaxInc /\ inc < MaxInc /\ inc + 1 \in 1..MaxInc
  BY LenProperties, HeldAssumption DEF TokenSeq, HeldIInv, HeldType, Launch
<1>1. ~active /\ ~IsAlive
  BY DEF Launch, HeldIInv, OwnIncarnation, IsAlive
<1>2. /\ up /\ ppc \in {"none", "exited"}
      /\ inc' = inc + 1 /\ epoch' = Len(log) /\ hpc' = "serving" /\ active' = TRUE
      /\ outs' = 0 /\ unread' = 0
      /\ ppc' = "launching" /\ asked' = inc + 1 /\ tail0' = Len(log)
      /\ rec' = Live /\ exit' = NoExit
      /\ UNCHANGED <<crashes, log, up, downs, floor, offset, mbuf, shown, from, dirty, ckpt>>
  BY <1>1 DEF Launch
<1>3. ReadersFollow' /\ MarkersWhole'
  BY <1>2, LogUntouched DEF Pumping
<1>4. FloorsBetween'
  <2>1. Len(log) > 0 => log[Len(log)].kind # "head"
    <3>1. Len(log) > 0 => Len(log) \in 1..Len(log)
      BY <1>0
    <3> QED BY <1>0, <3>1 DEF HeldIInv, MarkersWhole
  <2> QED BY <1>2, <2>1 DEF HeldIInv, FloorsBetween, Between
<1>5. OwnTokens'
  BY <1>0, <1>2 DEF OwnTokens
<1>6. HeldType'
  <2>1. active' \in BOOLEAN
    BY <1>2, Zenon
  <2> QED BY <1>0, <1>2, <2>1, HeldAssumption DEF HeldIInv, HeldType, Live, LaunchFailed, NoExit,
       Unknown
<1>7. OwnIncarnation'
  <2>1. ~dirty'
    BY <1>2 DEF HeldIInv, OwnIncarnation
  <2> QED BY <1>0, <1>2, <2>1 DEF OwnIncarnation, NoExit
<1> QED BY <1>3, <1>4, <1>5, <1>6, <1>7 DEF HeldIInv

\* The other steps leave the log, its floors and its incarnation alone.
OtherStep ==
  \/ CloseHolder \/ ThreadEnds \/ ChildWrites \/ ChildExits \/ HolderCrash
  \/ AttachFails \/ PumpQuiet \/ PumpProbe \/ PumpLook
  \/ PersistExit \/ DaemonDown \/ Reap \/ UNCHANGED vars

\* They preserve the invariant.
LEMMA OtherSteps == ASSUME HeldIInv, ~TornWrites, OtherStep PROVE HeldIInv'
<1> USE DEF CloseHolder, ThreadEnds, ChildWrites, ChildExits, AttachFails, PumpQuiet, PumpProbe,
     PumpLook,
            PersistExit, DaemonDown, Reap, vars, holderVars, pumpVars
<1>1. UNCHANGED <<log, inc, epoch, floor, tail0, asked>>
  <2>1. CASE HolderCrash
    BY <2>1 DEF HolderCrash, TornAt
  <2> QED BY <2>1 DEF OtherStep
<1>2. UNCHANGED <<offset, mbuf, shown, from>>
  BY DEF OtherStep, HolderCrash
<1>3. ppc' \in Pumping => ppc \in Pumping
  BY DEF OtherStep, HolderCrash, Pumping
<1>4. ckpt' = ckpt \/ (ppc \in Pumping /\ ckpt' = Checkpoint)
  BY DEF OtherStep, HolderCrash, Pumping, HeldIInv, OwnIncarnation
<1>5. /\ ReadersFollow' /\ MarkersWhole'
      /\ ckpt' \in [offset : -1..Len(log), mbuf : TokenSeq, shown : TokenSeq, from : Nat]
  BY <1>1, <1>2, <1>3, <1>4, LogUntouched
<1>6. FloorsBetween' /\ OwnTokens'
  BY <1>1 DEF HeldIInv, FloorsBetween, Between, OwnTokens
<1>7. active' \in BOOLEAN /\ up' \in BOOLEAN /\ dirty' \in BOOLEAN
  <2>1. active \in BOOLEAN /\ up \in BOOLEAN /\ dirty \in BOOLEAN
    BY DEF HeldIInv, HeldType
  <2>2. TRUE \in BOOLEAN /\ FALSE \in BOOLEAN
    BY Zenon
  <2>3. active' \in {active, FALSE} /\ up' \in {up, TRUE, FALSE} /\ dirty' \in {dirty, FALSE}
    BY DEF OtherStep, HolderCrash
  <2> QED BY <2>1, <2>2, <2>3
<1>8. HeldType'
  <2>1. /\ hpc' \in {"none", "serving", "finished", "drained", "marked", "closed"}
        /\ ppc' \in {"none", "launching", "read", "quiet", "look", "exited"}
    BY DEF OtherStep, HolderCrash, HeldIInv, HeldType
  <2>2. outs' \in 0..MaxOut /\ unread' \in 0..outs' /\ crashes' \in 0..MaxCrash /\ downs' \in 0..MaxDown
    <3>1. CASE ChildWrites
      BY <3>1, HeldAssumption DEF HeldIInv, HeldType
    <3>2. CASE HolderCrash
      BY <3>2, HeldAssumption DEF HolderCrash, HeldIInv, HeldType
    <3>3. CASE DaemonDown
      BY <3>3, HeldAssumption DEF HeldIInv, HeldType
    <3>4. UNCHANGED <<outs, unread, crashes, downs>> \/ ChildWrites \/ HolderCrash \/ DaemonDown
      BY DEF OtherStep
    <3> QED BY <3>1, <3>2, <3>3, <3>4 DEF HeldIInv, HeldType
  <2>3. exit' \in Unknown..MaxInc /\ rec' \in LaunchFailed..MaxInc
    <3>1. exit' \in {exit, NoExit, Unknown} /\ rec' \in {rec, exit, LaunchFailed, DaemonRestart}
      BY DEF OtherStep, HolderCrash
    <3> QED BY <3>1, HeldAssumption
         DEF HeldIInv, HeldType, Unknown, NoExit, LaunchFailed, DaemonRestart
  <2> QED BY <1>1, <1>2, <1>5, <1>7, <2>1, <2>2, <2>3 DEF HeldIInv, HeldType
<1>9. OwnIncarnation'
  BY <1>1 DEF OtherStep, HolderCrash, HeldIInv, OwnIncarnation, NoExit, Unknown
<1> QED BY <1>1, <1>5, <1>6, <1>8, <1>9 DEF HeldIInv

\* Every step does.
LEMMA HeldNext == ASSUME HeldIInv, ~TornWrites, ~ResumeAtOnce, [Next]_vars PROVE HeldIInv'
<1>1. CASE PumpPty \/ FinalDrain \/ AppendMarker
  BY <1>1, HolderWrites
<1>2. CASE Launch
  BY <1>2, Launches
<1>3. CASE PumpRead
  BY <1>3, PumpReads
<1>4. CASE Attach \/ AttachByEvidence
  <2>1. asked = inc /\ tail0 >= epoch /\ epoch >= epoch
    BY <1>4 DEF HeldIInv, HeldType, OwnIncarnation, Attach, AttachByEvidence
  <2>2. up' /\ asked' = inc /\ UNCHANGED <<log, holderVars, downs, tail0, ckpt>> /\ rec' = rec
    BY <1>4, <2>1 DEF Attach, AttachByEvidence
  <2>3. CASE Attach
    BY <2>1, <2>2, <2>3, PumpStarts DEF Attach
  <2>4. CASE AttachByEvidence
    BY <2>1, <2>2, <2>4, PumpStarts DEF AttachByEvidence
  <2> QED BY <1>4, <2>3, <2>4
<1>5. CASE Adopt
  <2>1. epoch >= epoch
    BY DEF HeldIInv, HeldType
  <2>2. up' /\ asked' = inc /\ UNCHANGED <<log, holderVars, downs, tail0, ckpt>> /\ rec' = rec
    BY <1>5 DEF Adopt
  <2> QED BY <1>5, <2>1, <2>2, PumpStarts DEF Adopt
<1>6. CASE OtherStep
  BY <1>6, OtherSteps
<1> QED BY <1>1, <1>2, <1>3, <1>4, <1>5, <1>6 DEF Next, Holder, Pump, OtherStep

\* It says what HeldInv says.
LEMMA HeldImplies == ASSUME HeldIInv PROVE HeldInv
<1>1. ASSUME NEW s \in TokenSeq PROVE IsTokens(s)
  BY ElementOfSeq DEF TokenSeq, IsTokens
<1>2. TypeOK
  <2>1. /\ IsTokens(log) /\ IsTokens(mbuf) /\ IsTokens(shown)
        /\ ckpt.offset \in -1..Len(log) /\ IsTokens(ckpt.mbuf) /\ IsTokens(ckpt.shown)
    BY <1>1 DEF HeldIInv, HeldType
  <2> QED BY <2>1 DEF TypeOK, HeldIInv, HeldType
<1>3. ScreenIsLog
  BY DEF ScreenIsLog, HeldIInv, ReadersFollow, Follows, Pumping
<1>4. OwnExitOnly
  BY DEF OwnExitOnly, HeldIInv, OwnIncarnation
<1> QED BY <1>2, <1>3, <1>4 DEF HeldInv

\* A session reports the exit of its own incarnation only, and its screen is the
\* output of the log up to where its pump has read: nothing twice and no gap,
\* whatever markers of earlier children the log still holds and wherever the
\* daemon was stopped (session/pump.rs pump_held, checkpoint.rs).  A marker is
\* one write, and a resume waits for the old thread, as in the run.
THEOREM HeldSafe == ASSUME ~TornWrites, ~ResumeAtOnce PROVE Spec => []HeldInv
<1>1. HeldIInv => HeldInv
  BY HeldImplies
<1> QED BY <1>1, HeldInit, HeldNext, PTL DEF Spec

=============================================================================
