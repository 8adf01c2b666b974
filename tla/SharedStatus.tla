----------------------------- MODULE SharedStatus -----------------------------
(***************************************************************************)
(* One session's shared state and how its changes reach the clients:       *)
(* session/status.rs (apply, feed_signal), the pump's calls of apply,      *)
(* adoption's seed (lifecycle.rs), Registry::changed_since and the events  *)
(* watcher (events.rs).                                                    *)
(*                                                                         *)
(* The reducer decides under its own lock, but the outcome is applied to   *)
(* the shared fields afterwards, field by field, by the thread that fed    *)
(* the signal: the session's pump, or a control connection, which holds    *)
(* the registry lock from before the signal until it has published.  The   *)
(* watcher takes the registry lock to collect a record and publishes it    *)
(* after letting go.  What the reducer decides is any move of              *)
(* SessionStatus!After, which StatusReducer is shown to implement.         *)
(***************************************************************************)
EXTENDS SessionStatus, Integers

CONSTANTS
  Control,      \* control connections
  Details,      \* texts of a needs-input detail
  Seeds,        \* <<status, needs>> pairs a record may restore, or {NoSeed}
  MaxSignals,   \* bound: signals that reach the reducer
  MaxRenames    \* bound: edits of the record itself

Pump      == "pump"
Watcher   == "watcher"
Threads   == Control \cup {Pump}
NoChange  == "no_change"
NoDetail  == "no_detail"
NoSeed    == <<"no_seed", "no_detail">>
Free      == "free"
NoVersion == -1

ASSUME SharedAssumption ==
  /\ Control \cap {Pump, Watcher, Free} = {}
  /\ NoDetail \notin Details
  /\ Seeds \subseteq ((Status \ {Exited}) \X (Details \cup {NoDetail})) \cup {NoSeed}
  /\ MaxSignals \in Nat /\ MaxRenames \in Nat

VARIABLES
  decided,      \* the reducer's status
  heldBy,       \* a thread that applies under the reducer lock, or Free
  pc,           \* what each thread does next
  outcome,      \* the outcome each thread is applying
  changed,      \* ... and whether it has changed anything
  status, needs, version,     \* Shared: status, needs_input, state_version
  seed, seedPc, \* adoption: what is left to write before the session is known
  title,        \* the record's own fields, edited under the registry lock
  lock,         \* holder of the registry lock, or Free
  readStatus,   \* a connection's view in the making
  wpc, wVersion, wRecord,     \* the watcher
  published,    \* the version the watcher published last, or NoVersion
  seen,         \* the last session.updated event
  signals       \* signals so far

reducerVars == <<decided, heldBy, signals>>
threadVars  == <<pc, outcome, changed>>
sharedVars  == <<status, needs, version>>
seedVars    == <<seed, seedPc>>
watchVars   == <<wpc, wVersion, wRecord, published>>
vars == <<reducerVars, threadVars, sharedVars, seedVars, title, lock,
          readStatus, watchVars, seen>>

Record  == [status : Status, needs : Details \cup {NoDetail}, title : 0..MaxRenames]
Outcome == [change : Status \cup {NoChange}, detail : Details \cup {NoDetail}]
Nothing == [change |-> NoChange, detail |-> NoDetail]

TypeOK ==
  /\ decided \in Status /\ heldBy \in {Free, Pump} /\ signals \in 0..MaxSignals
  /\ pc \in [Threads -> {"idle", "status", "detail", "bump", "read", "publish", "gone"}]
  /\ outcome \in [Threads -> Outcome]
  /\ changed \in [Threads -> BOOLEAN]
  /\ status \in Status /\ needs \in Details \cup {NoDetail} /\ version \in Nat
  /\ seed \in Seeds \cup {NoSeed} /\ seedPc \in {"status", "needs", "insert", "done"}
  /\ seedPc \in {"status", "needs"} => seed # NoSeed
  /\ title \in 0..MaxRenames
  /\ lock \in Control \cup {Watcher, Free}
  /\ readStatus \in Status
  /\ wpc \in {"idle", "status", "needs", "publish"}
  /\ wVersion \in Nat /\ wRecord \in Record
  /\ published \in Nat \cup {NoVersion}
  /\ seen \in Record

Init ==
  /\ decided = Starting /\ heldBy = Free /\ signals = 0
  /\ pc = [t \in Threads |-> "idle"]
  /\ outcome = [t \in Threads |-> Nothing]
  /\ changed = [t \in Threads |-> FALSE]
  /\ status = Starting /\ needs = NoDetail /\ version = 0
  /\ seed \in Seeds
  /\ seedPc = IF seed = NoSeed THEN "insert" ELSE "status"
  /\ title = 0
  /\ lock = Free
  /\ readStatus = Starting
  /\ wpc = "idle" /\ wVersion = 0 /\ published = NoVersion
  /\ wRecord = [status |-> Starting, needs |-> NoDetail, title |-> 0]
  /\ seen = [status |-> Starting, needs |-> NoDetail, title |-> 0]

Known == seedPc = "done"        \* the session is in the registry's map

-----------------------------------------------------------------------------
(* reduce: one signal under the reducer lock.                              *)

\* What a signal that moves the status to s, or leaves it alone, may yield.
OutcomesFor(s) ==
  {o \in Outcome : /\ o.change = s
                   /\ s \in NeedsInput => o.detail # NoDetail
                   /\ s \in Status \ NeedsInput => o.detail = NoDetail
                   /\ s = NoChange /\ decided \notin NeedsInput => o.detail = NoDetail}

Reduce(t, s, o) ==
  /\ pc[t] = "idle"
  /\ heldBy = Free
  /\ signals < MaxSignals
  /\ s \in (IF decided = Exited THEN {} ELSE After(decided)) \cup {NoChange}
  /\ decided = Exited => o = Nothing
  /\ o \in OutcomesFor(s)
  /\ signals' = signals + 1
  /\ decided' = IF s = NoChange THEN decided ELSE s
  /\ outcome' = [outcome EXCEPT ![t] = o]
  /\ changed' = [changed EXCEPT ![t] = FALSE]
  /\ pc' = [pc EXCEPT ![t] = "status"]

\* The pump: a tick or a screen is applied after the reducer is unlocked,
\* output activity (which only ends Starting) before.  A prompt seen again may
\* bring a new detail without a new status.
PumpSignal ==
  /\ \E s \in Status \cup {NoChange}, o \in Outcome : Reduce(Pump, s, o)
  /\ heldBy' \in IF decided = Starting /\ decided' = Working THEN {Free, Pump} ELSE {Free}
  /\ UNCHANGED <<sharedVars, seedVars, title, lock, readStatus, watchVars, seen>>

\* feed_signal from a control connection, under the registry lock.  A hook
\* reports neither the end of the process nor silence.
HookReport(t) ==
  /\ Known /\ lock = Free
  /\ \E s \in (Status \ {Exited, Unknown}) \cup {NoChange}, o \in Outcome : Reduce(t, s, o)
  /\ lock' = t
  /\ UNCHANGED <<heldBy, sharedVars, seedVars, title, readStatus, watchVars, seen>>

-----------------------------------------------------------------------------
(* apply: status, then detail, then the version.                           *)

ApplyStatus(t) ==
  LET s == outcome[t].change IN
  /\ pc[t] = "status"
  /\ pc' = [pc EXCEPT ![t] = "detail"]
  /\ IF s = NoChange THEN UNCHANGED <<status, changed>>
     ELSE /\ status' = s
          /\ changed' = [changed EXCEPT ![t] = s # status]
  /\ UNCHANGED <<reducerVars, outcome, needs, version, seedVars, title, lock,
                 readStatus, watchVars, seen>>

\* Leaving for Working or Idle clears the detail.
NeedsAfter(o) ==
  IF o.detail # NoDetail THEN o.detail
  ELSE IF o.change \in {Working, Idle} THEN NoDetail ELSE needs

ApplyDetail(t) ==
  /\ pc[t] = "detail"
  /\ needs' = NeedsAfter(outcome[t])
  /\ changed' = [changed EXCEPT ![t] = @ \/ needs' # needs]
  /\ pc' = [pc EXCEPT ![t] = "bump"]
  /\ UNCHANGED <<reducerVars, outcome, status, version, seedVars, title, lock,
                 readStatus, watchVars, seen>>

\* The pump is gone once it has applied the exit; a connection publishes.
AfterApply(t) ==
  IF t # Pump THEN "read" ELSE IF outcome[t].change = Exited THEN "gone" ELSE "idle"

Bump(t) ==
  /\ pc[t] = "bump"
  /\ version' = IF changed[t] THEN version + 1 ELSE version
  /\ changed' = [changed EXCEPT ![t] = FALSE]
  /\ outcome' = [outcome EXCEPT ![t] = Nothing]
  /\ pc' = [pc EXCEPT ![t] = AfterApply(t)]
  /\ heldBy' = IF heldBy = t THEN Free ELSE heldBy
  /\ UNCHANGED <<decided, signals, status, needs, seedVars, title, lock,
                 readStatus, watchVars, seen>>

-----------------------------------------------------------------------------
(* Control connections: record edits, and publish_updated.                 *)

\* rename, archive, markSeen and the like: the record itself changes.
Rename(t) ==
  /\ Known /\ lock = Free /\ pc[t] = "idle"
  /\ title < MaxRenames
  /\ title' = title + 1
  /\ lock' = t
  /\ pc' = [pc EXCEPT ![t] = "read"]
  /\ UNCHANGED <<reducerVars, outcome, changed, sharedVars, seedVars, readStatus,
                 watchVars, seen>>

\* Session::view takes one lock per field.
ViewStatus(t) ==
  /\ pc[t] = "read"
  /\ readStatus' = status
  /\ pc' = [pc EXCEPT ![t] = "publish"]
  /\ UNCHANGED <<reducerVars, outcome, changed, sharedVars, seedVars, title, lock,
                 watchVars, seen>>

PublishUpdated(t) ==
  /\ pc[t] = "publish"
  /\ seen' = [status |-> readStatus, needs |-> needs, title |-> title]
  /\ pc' = [pc EXCEPT ![t] = "idle"]
  /\ lock' = Free
  /\ UNCHANGED <<reducerVars, outcome, changed, sharedVars, seedVars, title,
                 readStatus, watchVars>>

-----------------------------------------------------------------------------
(* Adoption: the seed is written after the pump thread has started.        *)

SeedStatus ==
  /\ seedPc = "status"
  /\ status' = seed[1]
  /\ seedPc' = "needs"
  /\ UNCHANGED <<reducerVars, threadVars, needs, version, seed, title, lock,
                 readStatus, watchVars, seen>>

SeedNeeds ==
  /\ seedPc = "needs"
  /\ needs' = seed[2]
  /\ seedPc' = "insert"
  /\ UNCHANGED <<reducerVars, threadVars, status, version, seed, title, lock,
                 readStatus, watchVars, seen>>

Insert ==
  /\ seedPc = "insert"
  /\ seedPc' = "done"
  /\ UNCHANGED <<reducerVars, threadVars, sharedVars, seed, title, lock,
                 readStatus, watchVars, seen>>

-----------------------------------------------------------------------------
(* The watcher: one pass over the session.                                 *)

\* Mutant: the watcher waits for a second change.
WatchVersionLate ==
  /\ wpc = "idle" /\ Known /\ lock = Free
  /\ published + 1 < version
  /\ wVersion' = version
  /\ lock' = Watcher
  /\ wpc' = "status"
  /\ UNCHANGED <<reducerVars, threadVars, sharedVars, seedVars, title, readStatus,
                 wRecord, published, seen>>

WatchVersion ==
  /\ wpc = "idle" /\ Known /\ lock = Free
  /\ published # version
  /\ wVersion' = version
  /\ lock' = Watcher
  /\ wpc' = "status"
  /\ UNCHANGED <<reducerVars, threadVars, sharedVars, seedVars, title, readStatus,
                 wRecord, published, seen>>

WatchStatus ==
  /\ wpc = "status"
  /\ wRecord' = [wRecord EXCEPT !.status = status, !.title = title]
  /\ wpc' = "needs"
  /\ UNCHANGED <<reducerVars, threadVars, sharedVars, seedVars, title, lock,
                 readStatus, wVersion, published, seen>>

\* Mutant: the version is read again after the view was taken.
WatchNeedsRereads ==
  /\ wpc = "needs"
  /\ wRecord' = [wRecord EXCEPT !.needs = needs]
  /\ published' = version
  /\ lock' = Free
  /\ wpc' = "publish"
  /\ UNCHANGED <<reducerVars, threadVars, sharedVars, seedVars, title,
                 readStatus, wVersion, seen>>

\* The record is complete and counts as published; the lock is let go.
WatchNeeds ==
  /\ wpc = "needs"
  /\ wRecord' = [wRecord EXCEPT !.needs = needs]
  /\ published' = wVersion
  /\ lock' = Free
  /\ wpc' = "publish"
  /\ UNCHANGED <<reducerVars, threadVars, sharedVars, seedVars, title,
                 readStatus, wVersion, seen>>

WatchPublish ==
  /\ wpc = "publish"
  /\ seen' = wRecord
  /\ wpc' = "idle"
  /\ UNCHANGED <<reducerVars, threadVars, sharedVars, seedVars, title, lock,
                 readStatus, wVersion, wRecord, published>>

-----------------------------------------------------------------------------
Apply(t)  == ApplyStatus(t) \/ ApplyDetail(t) \/ Bump(t)
Answer(t) == ViewStatus(t) \/ PublishUpdated(t)
Adopt     == SeedStatus \/ SeedNeeds \/ Insert
Watch     == WatchVersion \/ WatchStatus \/ WatchNeeds \/ WatchPublish

Next ==
  \/ PumpSignal
  \/ \E t \in Control : HookReport(t) \/ Rename(t) \/ Answer(t)
  \/ \E t \in Threads : Apply(t)
  \/ Adopt
  \/ Watch

\* No thread stops in the middle of what it is doing, and the watcher polls
\* for as long as the daemon runs.  Signals and edits come or do not come.
\* The registry lock is asked for every 150 ms: SF, since the connections may
\* take it again and again.
Fairness ==
  /\ \A t \in Threads : WF_vars(Apply(t))
  /\ \A t \in Control : WF_vars(Answer(t))
  /\ WF_vars(Adopt)
  /\ SF_vars(WatchVersion)
  /\ WF_vars(WatchStatus \/ WatchNeeds \/ WatchPublish)

Spec == Init /\ [][Next]_vars /\ Fairness

-----------------------------------------------------------------------------
Settled ==
  /\ Known /\ wpc = "idle"
  /\ \A t \in Threads : pc[t] \in {"idle", "gone"}

\* No update is lost between the pump, the connections and the watcher: when
\* everyone is done and the watcher sees no newer version, the last event the
\* clients got carries the session's status and detail.
PublishedIsCurrent ==
  Settled /\ published = version => seen.status = status /\ seen.needs = needs

\* Every change of status or detail reaches the clients in the end.
ClientsCatchUp ==
  <>[](seen.status = status /\ seen.needs = needs)

\* status/mod.rs: "Exited is absorbing: once dead, nothing changes it."
ExitedIsAbsorbing == [][status = Exited => status' = Exited]_vars

\* status.rs: "Leaving a needs-input state clears the pending detail".
DetailIsCleared == Settled /\ status \notin NeedsInput => needs = NoDetail

\* events.rs: session.updated carries the session's current record.
LastEventIsCurrent == Settled /\ published = version => seen.title = title

=============================================================================
