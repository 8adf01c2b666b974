-------------------------- MODULE SharedStatusProofs --------------------------
(***************************************************************************)
(* No update is lost on its way to the clients, for any number of control  *)
(* connections, details, signals and edits: PublishedIsCurrent.            *)
(*                                                                         *)
(* The argument: a value that was read (by the watcher, or by a connection *)
(* that is about to publish) under the newest version is either still the  *)
(* shared one, or some thread has overwritten it and still owes the bump   *)
(* of the version.                                                         *)
(***************************************************************************)
EXTENDS SharedStatus, TLAPS

\* Some thread has changed a shared field and not yet moved the version.
Owed == \E t \in Threads : pc[t] \in {"detail", "bump"} /\ changed[t]

FreshStatus(s) == s = status \/ Owed
FreshNeeds(n)  == n = needs \/ Owed

\* Whoever looks at the session for the clients holds the registry lock.
LockInv ==
  /\ wpc \in {"status", "needs"} => lock = Watcher
  /\ \A t \in Control : pc[t] # "idle" => lock = t
  /\ ~Known => wpc = "idle" /\ published = NoVersion /\ lock = Free

\* Versions only grow: what was read is no newer than what is there.
VersionInv ==
  /\ published <= version
  /\ wpc # "idle" => wVersion <= version

WatcherFresh ==
  /\ wpc = "needs" /\ wVersion = version => FreshStatus(wRecord.status)
  /\ wpc = "publish" /\ published = version =>
       FreshStatus(wRecord.status) /\ FreshNeeds(wRecord.needs)

ClientFresh ==
  /\ wpc # "publish" /\ published = version =>
       FreshStatus(seen.status) /\ FreshNeeds(seen.needs)
  /\ \A t \in Control : pc[t] = "publish" /\ published = version =>
       FreshStatus(readStatus)

IInv == TypeOK /\ LockInv /\ VersionInv /\ WatcherFresh /\ ClientFresh

-----------------------------------------------------------------------------
\* The groups of actions that a proof looks at one at a time.
USE SharedAssumption

LEMMA ThreadFacts == Pump \in Threads /\ Pump \notin Control /\ Control \subseteq Threads
  BY DEF Threads

LEMMA TypeInit == Init => TypeOK
  BY DEF Init, TypeOK, Status, Outcome, Nothing, Record

\* What a signal leaves behind.
LEMMA ReduceType ==
  ASSUME TypeOK, NEW t \in Threads, NEW s \in Status \cup {NoChange}, NEW o \in Outcome,
         Reduce(t, s, o)
  PROVE  /\ decided' \in Status /\ signals' \in 0..MaxSignals
         /\ pc' \in [Threads -> {"idle", "status", "detail", "bump", "read", "publish", "gone"}]
         /\ outcome' \in [Threads -> Outcome]
         /\ changed' \in [Threads -> BOOLEAN]
<1>1. decided' \in Status
  BY DEF Reduce, TypeOK
<1>2. signals' \in 0..MaxSignals
  BY DEF Reduce, TypeOK
<1> QED
  BY <1>1, <1>2 DEF Reduce, TypeOK

LEMMA TypeStep == TypeOK /\ [Next]_vars => TypeOK'
<1> SUFFICES ASSUME TypeOK, [Next]_vars PROVE TypeOK'
  OBVIOUS
<1> USE ThreadFacts
<1>1. CASE PumpSignal
  <2> PICK s \in Status \cup {NoChange}, o \in Outcome : Reduce(Pump, s, o)
    BY <1>1 DEF PumpSignal
  <2> QED
    BY <1>1, ReduceType DEF PumpSignal, TypeOK, sharedVars, seedVars, watchVars
<1>2. ASSUME NEW t \in Control, HookReport(t) PROVE TypeOK'
  <2> PICK s \in (Status \ {Exited, Unknown}) \cup {NoChange}, o \in Outcome : Reduce(t, s, o)
    BY <1>2 DEF HookReport
  <2> QED
    BY <1>2, ReduceType DEF HookReport, TypeOK, sharedVars, seedVars, watchVars
<1>3. ASSUME NEW t \in Control, Rename(t) PROVE TypeOK'
  BY <1>3 DEF Rename, TypeOK, reducerVars, sharedVars, seedVars, watchVars
<1>4. ASSUME NEW t \in Control, ViewStatus(t) PROVE TypeOK'
  BY <1>4 DEF ViewStatus, TypeOK, reducerVars, sharedVars, seedVars, watchVars
<1>5. ASSUME NEW t \in Control, PublishUpdated(t) PROVE TypeOK'
  BY <1>5 DEF PublishUpdated, TypeOK, Record, reducerVars, sharedVars, seedVars, watchVars
<1>6. ASSUME NEW t \in Threads, ApplyStatus(t) PROVE TypeOK'
  <2>1. outcome[t].change \in Status \cup {NoChange}
    BY DEF TypeOK, Outcome
  <2> QED
    BY <1>6, <2>1 DEF ApplyStatus, TypeOK, reducerVars, seedVars, watchVars
<1>7. ASSUME NEW t \in Threads, ApplyDetail(t) PROVE TypeOK'
  <2>1. NeedsAfter(outcome[t]) \in Details \cup {NoDetail}
    BY DEF TypeOK, Outcome, NeedsAfter
  <2> QED
    BY <1>7, <2>1 DEF ApplyDetail, TypeOK, reducerVars, seedVars, watchVars
<1>8. ASSUME NEW t \in Threads, Bump(t) PROVE TypeOK'
  <2>1. Nothing \in Outcome
    BY DEF Nothing, Outcome
  <2>2. AfterApply(t) \in {"read", "gone", "idle"}
    BY DEF AfterApply
  <2> QED
    BY <1>8, <2>1, <2>2 DEF Bump, TypeOK, seedVars, watchVars
<1>9. CASE Adopt
  <2>1. seed # NoSeed => seed[1] \in Status /\ seed[2] \in Details \cup {NoDetail}
    BY DEF TypeOK
  <2>2. CASE SeedStatus
    BY <2>1, <2>2 DEF SeedStatus, TypeOK, reducerVars, threadVars, watchVars
  <2>3. CASE SeedNeeds
    BY <2>1, <2>3 DEF SeedNeeds, TypeOK, reducerVars, threadVars, watchVars
  <2>4. CASE Insert
    BY <2>4 DEF Insert, TypeOK, reducerVars, threadVars, sharedVars, watchVars
  <2> QED
    BY <1>9, <2>2, <2>3, <2>4 DEF Adopt
<1>10. CASE Watch
  <2>1. CASE WatchVersion
    BY <2>1 DEF WatchVersion, TypeOK, reducerVars, threadVars, sharedVars, seedVars
  <2>2. CASE WatchStatus
    BY <2>2 DEF WatchStatus, TypeOK, Record, reducerVars, threadVars, sharedVars, seedVars
  <2>3. CASE WatchNeeds
    BY <2>3 DEF WatchNeeds, TypeOK, Record, reducerVars, threadVars, sharedVars, seedVars
  <2>4. CASE WatchPublish
    BY <2>4 DEF WatchPublish, TypeOK, reducerVars, threadVars, sharedVars, seedVars
  <2> QED
    BY <1>10, <2>1, <2>2, <2>3, <2>4 DEF Watch
<1>11. CASE UNCHANGED vars
  BY <1>11 DEF vars, TypeOK, reducerVars, threadVars, sharedVars, seedVars, watchVars
<1> QED
  BY <1>1, <1>2, <1>3, <1>4, <1>5, <1>6, <1>7, <1>8, <1>9, <1>10, <1>11
     DEF Next, Apply, Answer

-----------------------------------------------------------------------------
LEMMA InitIInv == Init => IInv
  BY TypeInit DEF Init, IInv, LockInv, VersionInv, WatcherFresh, ClientFresh,
     NoVersion, Threads

\* A thread that is not applying anything owes nothing, and starting to
\* apply, or finishing without a change, does not settle what others owe.
LEMMA OwedStays ==
  ASSUME TypeOK, NEW t \in Threads,
         pc[t] \notin {"detail", "bump"} \/ ~changed[t],
         \A u \in Threads \ {t} : pc'[u] = pc[u] /\ changed'[u] = changed[u],
         Owed
  PROVE  Owed'
  BY DEF Owed

\* One action at a time.  What an action leaves alone it need not be asked
\* about: the steps below differ in what becomes of the debt.

LEMMA PumpSignalStep ==
  ASSUME IInv, PumpSignal
  PROVE  LockInv' /\ VersionInv' /\ WatcherFresh' /\ ClientFresh'
<1> USE ThreadFacts DEF IInv
<1>1. LockInv'
  BY DEF LockInv, PumpSignal, Reduce, Known, seedVars, watchVars
<1>2. VersionInv'
  BY DEF VersionInv, PumpSignal, sharedVars, watchVars
<1>3. Owed => Owed'
  BY OwedStays DEF PumpSignal, Reduce, TypeOK
<1>4. WatcherFresh'
  BY <1>3 DEF WatcherFresh, FreshStatus, FreshNeeds, PumpSignal, sharedVars, watchVars
<1>5. ClientFresh'
  BY <1>3 DEF ClientFresh, FreshStatus, FreshNeeds, PumpSignal, Reduce, sharedVars,
     watchVars
<1> QED
  BY <1>1, <1>2, <1>4, <1>5

LEMMA HookReportStep ==
  ASSUME IInv, NEW t \in Control, HookReport(t)
  PROVE  LockInv' /\ VersionInv' /\ WatcherFresh' /\ ClientFresh'
<1> USE ThreadFacts DEF IInv
<1>1. LockInv'
  BY DEF LockInv, HookReport, Reduce, Known, seedVars, watchVars, Free, Watcher
<1>2. VersionInv'
  BY DEF VersionInv, HookReport, sharedVars, watchVars
<1>3. Owed => Owed'
  <2>1. t \in Threads /\ pc[t] = "idle"
    BY DEF HookReport, Reduce
  <2>2. \A u \in Threads \ {t} : pc'[u] = pc[u] /\ changed'[u] = changed[u]
    BY DEF HookReport, Reduce
  <2> QED
    BY <2>1, <2>2, OwedStays
<1>4. WatcherFresh'
  BY <1>3 DEF WatcherFresh, FreshStatus, FreshNeeds, HookReport, sharedVars, watchVars
<1>5. ClientFresh'
  BY <1>3 DEF ClientFresh, FreshStatus, FreshNeeds, HookReport, Reduce, sharedVars,
     watchVars
<1> QED
  BY <1>1, <1>2, <1>4, <1>5

LEMMA RenameStep ==
  ASSUME IInv, NEW t \in Control, Rename(t)
  PROVE  LockInv' /\ VersionInv' /\ WatcherFresh' /\ ClientFresh'
<1> USE ThreadFacts DEF IInv
<1>1. LockInv'
  BY DEF LockInv, Rename, Known, seedVars, watchVars, Free, Watcher
<1>2. VersionInv'
  BY DEF VersionInv, Rename, sharedVars, watchVars
<1>3. Owed' = Owed
  BY DEF Owed, Rename
<1>4. WatcherFresh'
  BY <1>3 DEF WatcherFresh, FreshStatus, FreshNeeds, Rename, sharedVars, watchVars
<1>5. ClientFresh'
  BY <1>3 DEF ClientFresh, FreshStatus, FreshNeeds, Rename, sharedVars, watchVars
<1> QED
  BY <1>1, <1>2, <1>4, <1>5

LEMMA ViewStatusStep ==
  ASSUME IInv, NEW t \in Control, ViewStatus(t)
  PROVE  LockInv' /\ VersionInv' /\ WatcherFresh' /\ ClientFresh'
<1> USE ThreadFacts DEF IInv
<1>1. LockInv'
  BY DEF LockInv, ViewStatus, Known, seedVars, watchVars
<1>2. VersionInv'
  BY DEF VersionInv, ViewStatus, sharedVars, watchVars
<1>3. Owed' = Owed
  BY DEF Owed, ViewStatus
<1>4. WatcherFresh'
  BY <1>3 DEF WatcherFresh, FreshStatus, FreshNeeds, ViewStatus, sharedVars, watchVars
<1>5. ClientFresh'
  BY <1>3 DEF ClientFresh, FreshStatus, FreshNeeds, ViewStatus, sharedVars, watchVars
<1> QED
  BY <1>1, <1>2, <1>4, <1>5

LEMMA PublishUpdatedStep ==
  ASSUME IInv, NEW t \in Control, PublishUpdated(t)
  PROVE  LockInv' /\ VersionInv' /\ WatcherFresh' /\ ClientFresh'
<1> USE ThreadFacts DEF IInv
<1>1. LockInv'
  BY DEF LockInv, PublishUpdated, TypeOK, Known, seedVars, watchVars
<1>2. VersionInv'
  BY DEF VersionInv, PublishUpdated, sharedVars, watchVars
<1>3. Owed' = Owed
  BY DEF Owed, PublishUpdated
<1>4. WatcherFresh'
  BY <1>3 DEF WatcherFresh, FreshStatus, FreshNeeds, PublishUpdated, sharedVars,
     watchVars
<1>5. ClientFresh'
  BY <1>3 DEF ClientFresh, FreshStatus, FreshNeeds, PublishUpdated, sharedVars,
     watchVars
<1> QED
  BY <1>1, <1>2, <1>4, <1>5

LEMMA ApplyStatusStep ==
  ASSUME IInv, NEW t \in Threads, ApplyStatus(t)
  PROVE  LockInv' /\ VersionInv' /\ WatcherFresh' /\ ClientFresh'
<1> USE ThreadFacts DEF IInv
<1>1. LockInv'
  BY DEF LockInv, ApplyStatus, Known, seedVars, watchVars
<1>2. VersionInv'
  BY DEF VersionInv, ApplyStatus, watchVars
<1>3. /\ Owed => Owed'
      /\ status' # status => Owed'
  BY OwedStays DEF Owed, ApplyStatus, TypeOK
<1>4. WatcherFresh'
  BY <1>3 DEF WatcherFresh, FreshStatus, FreshNeeds, ApplyStatus, watchVars
<1>5. ClientFresh'
  BY <1>3 DEF ClientFresh, FreshStatus, FreshNeeds, ApplyStatus, watchVars
<1> QED
  BY <1>1, <1>2, <1>4, <1>5

LEMMA ApplyDetailStep ==
  ASSUME IInv, NEW t \in Threads, ApplyDetail(t)
  PROVE  LockInv' /\ VersionInv' /\ WatcherFresh' /\ ClientFresh'
<1> USE ThreadFacts DEF IInv
<1>1. LockInv'
  BY DEF LockInv, ApplyDetail, Known, seedVars, watchVars
<1>2. VersionInv'
  BY DEF VersionInv, ApplyDetail, watchVars
<1>3. /\ Owed => Owed'
      /\ needs' # needs => Owed'
  BY DEF Owed, ApplyDetail, TypeOK
<1>4. WatcherFresh'
  BY <1>3 DEF WatcherFresh, FreshStatus, FreshNeeds, ApplyDetail, watchVars
<1>5. ClientFresh'
  BY <1>3 DEF ClientFresh, FreshStatus, FreshNeeds, ApplyDetail, watchVars
<1> QED
  BY <1>1, <1>2, <1>4, <1>5

LEMMA BumpStep ==
  ASSUME IInv, NEW t \in Threads, Bump(t)
  PROVE  LockInv' /\ VersionInv' /\ WatcherFresh' /\ ClientFresh'
<1> USE ThreadFacts DEF IInv
<1>1. LockInv'
  BY DEF LockInv, Bump, Known, seedVars, watchVars
<1>2. VersionInv'
  BY DEF VersionInv, Bump, TypeOK, watchVars
<1>3. version' = version => (Owed => Owed')
  <2>1. version' = version => ~changed[t]
    BY DEF Bump
  <2>2. \A u \in Threads \ {t} : pc'[u] = pc[u] /\ changed'[u] = changed[u]
    BY DEF Bump
  <2> QED
    BY <2>1, <2>2, OwedStays
<1>4. WatcherFresh'
  BY <1>3 DEF WatcherFresh, VersionInv, FreshStatus, FreshNeeds, Bump, TypeOK,
     watchVars
<1>5. ClientFresh'
  BY <1>3 DEF ClientFresh, VersionInv, FreshStatus, FreshNeeds, Bump, AfterApply,
     TypeOK, watchVars
<1> QED
  BY <1>1, <1>2, <1>4, <1>5

LEMMA SeedStatusStep ==
  ASSUME IInv, SeedStatus
  PROVE  LockInv' /\ VersionInv' /\ WatcherFresh' /\ ClientFresh'
<1> USE ThreadFacts DEF IInv
<1>1. LockInv'
  BY DEF LockInv, SeedStatus, Known, threadVars, watchVars
<1>2. VersionInv'
  BY DEF VersionInv, SeedStatus, watchVars
<1>3. Owed' = Owed
  BY DEF Owed, SeedStatus, threadVars
<1>4. WatcherFresh'
  BY <1>3 DEF WatcherFresh, LockInv, SeedStatus, Known, watchVars
<1>5. ClientFresh'
  BY <1>3 DEF ClientFresh, LockInv, SeedStatus, TypeOK, Known, NoVersion, watchVars
<1> QED
  BY <1>1, <1>2, <1>4, <1>5

LEMMA SeedNeedsStep ==
  ASSUME IInv, SeedNeeds
  PROVE  LockInv' /\ VersionInv' /\ WatcherFresh' /\ ClientFresh'
<1> USE ThreadFacts DEF IInv
<1>1. LockInv'
  BY DEF LockInv, SeedNeeds, Known, threadVars, watchVars
<1>2. VersionInv'
  BY DEF VersionInv, SeedNeeds, watchVars
<1>3. Owed' = Owed
  BY DEF Owed, SeedNeeds, threadVars
<1>4. WatcherFresh'
  BY <1>3 DEF WatcherFresh, LockInv, SeedNeeds, Known, watchVars
<1>5. ClientFresh'
  BY <1>3 DEF ClientFresh, LockInv, SeedNeeds, TypeOK, Known, NoVersion, watchVars
<1> QED
  BY <1>1, <1>2, <1>4, <1>5

LEMMA InsertStep ==
  ASSUME IInv, Insert
  PROVE  LockInv' /\ VersionInv' /\ WatcherFresh' /\ ClientFresh'
<1> USE ThreadFacts DEF IInv
<1>1. LockInv'
  BY DEF LockInv, Insert, Known, threadVars, watchVars
<1>2. VersionInv'
  BY DEF VersionInv, Insert, sharedVars, watchVars
<1>3. Owed' = Owed
  BY DEF Owed, Insert, threadVars
<1>4. WatcherFresh'
  BY <1>3 DEF WatcherFresh, LockInv, Insert, Known, watchVars
<1>5. ClientFresh'
  BY <1>3 DEF ClientFresh, LockInv, Insert, TypeOK, Known, NoVersion, sharedVars,
     watchVars
<1> QED
  BY <1>1, <1>2, <1>4, <1>5

LEMMA WatchVersionStep ==
  ASSUME IInv, WatchVersion
  PROVE  LockInv' /\ VersionInv' /\ WatcherFresh' /\ ClientFresh'
<1> USE ThreadFacts DEF IInv
<1>1. LockInv'
  BY DEF LockInv, WatchVersion, Known, threadVars, seedVars
<1>2. VersionInv'
  BY DEF VersionInv, WatchVersion, TypeOK, sharedVars
<1>3. Owed' = Owed
  BY DEF Owed, WatchVersion, threadVars
<1>4. WatcherFresh'
  BY <1>3 DEF WatcherFresh, WatchVersion
<1>5. ClientFresh'
  BY <1>3 DEF ClientFresh, WatchVersion, sharedVars
<1> QED
  BY <1>1, <1>2, <1>4, <1>5

LEMMA WatchStatusStep ==
  ASSUME IInv, WatchStatus
  PROVE  LockInv' /\ VersionInv' /\ WatcherFresh' /\ ClientFresh'
<1> USE ThreadFacts DEF IInv
<1>1. LockInv'
  BY DEF LockInv, WatchStatus, Known, threadVars, seedVars
<1>2. VersionInv'
  BY DEF VersionInv, WatchStatus, sharedVars
<1>3. Owed' = Owed
  BY DEF Owed, WatchStatus, threadVars
<1>4. WatcherFresh'
  BY <1>3 DEF WatcherFresh, FreshStatus, WatchStatus, sharedVars
<1>5. ClientFresh'
  BY <1>3 DEF ClientFresh, FreshStatus, FreshNeeds, WatchStatus, threadVars, sharedVars
<1> QED
  BY <1>1, <1>2, <1>4, <1>5

LEMMA WatchNeedsStep ==
  ASSUME IInv, WatchNeeds
  PROVE  LockInv' /\ VersionInv' /\ WatcherFresh' /\ ClientFresh'
<1> USE ThreadFacts DEF IInv
<1>1. LockInv'
  BY DEF LockInv, WatchNeeds, Known, threadVars, seedVars
<1>2. VersionInv'
  BY DEF VersionInv, WatchNeeds, sharedVars
<1>3. Owed' = Owed
  BY DEF Owed, WatchNeeds, threadVars
<1>4. WatcherFresh'
  BY <1>3 DEF WatcherFresh, FreshStatus, FreshNeeds, WatchNeeds, sharedVars
<1>5. ClientFresh'
  BY <1>3 DEF ClientFresh, LockInv, WatchNeeds, threadVars
<1> QED
  BY <1>1, <1>2, <1>4, <1>5

LEMMA WatchPublishStep ==
  ASSUME IInv, WatchPublish
  PROVE  LockInv' /\ VersionInv' /\ WatcherFresh' /\ ClientFresh'
<1> USE ThreadFacts DEF IInv
<1>1. LockInv'
  BY DEF LockInv, WatchPublish, Known, threadVars, seedVars
<1>2. VersionInv'
  BY DEF VersionInv, WatchPublish, sharedVars
<1>3. Owed' = Owed
  BY DEF Owed, WatchPublish, threadVars
<1>4. WatcherFresh'
  BY <1>3 DEF WatcherFresh, WatchPublish
<1>5. ClientFresh'
  BY <1>3 DEF ClientFresh, WatcherFresh, FreshStatus, FreshNeeds, WatchPublish,
     threadVars, sharedVars
<1> QED
  BY <1>1, <1>2, <1>4, <1>5

LEMMA StepIInv == IInv /\ [Next]_vars => IInv'
<1> SUFFICES ASSUME IInv, [Next]_vars PROVE IInv'
  OBVIOUS
<1>1. TypeOK'
  BY TypeStep DEF IInv
<1>2. CASE UNCHANGED vars
  BY <1>1, <1>2 DEF vars, IInv, LockInv, VersionInv, WatcherFresh, ClientFresh,
     FreshStatus, FreshNeeds, Owed, Known, threadVars, sharedVars, seedVars, watchVars
<1>3. CASE Next
  <2>1. LockInv' /\ VersionInv' /\ WatcherFresh' /\ ClientFresh'
    BY <1>3, PumpSignalStep, HookReportStep, RenameStep, ViewStatusStep,
       PublishUpdatedStep, ApplyStatusStep, ApplyDetailStep, BumpStep,
       SeedStatusStep, SeedNeedsStep, InsertStep, WatchVersionStep,
       WatchStatusStep, WatchNeedsStep, WatchPublishStep
       DEF Next, Apply, Answer, Adopt, Watch
  <2> QED
    BY <1>1, <2>1 DEF IInv
<1> QED
  BY <1>2, <1>3

LEMMA IInvImplies == IInv => PublishedIsCurrent
  BY DEF IInv, ClientFresh, FreshStatus, FreshNeeds, Owed, PublishedIsCurrent, Settled

\* Type correctness of the shared state, its publication and the watcher.
THEOREM SharedTypes == Spec => []TypeOK
<1>1. TypeOK /\ [Next]_vars => TypeOK'
  BY TypeStep
<1> QED
  BY <1>1, TypeInit, PTL DEF Spec

\* No lost update, for every set of connections, details and seeds: once all
\* threads are done and the watcher sees no newer version, the clients' last
\* event carries the current status and detail.
THEOREM NoLostUpdate == Spec => []PublishedIsCurrent
  BY InitIInv, StepIInv, IInvImplies, PTL DEF Spec

=============================================================================
