------------------------------- MODULE Governor -------------------------------
(***************************************************************************)
(* Hibernation: the resource governor's sweep (homie-engine/src/           *)
(* governor.rs), the registry's hibernate and wake (registry.rs), the      *)
(* attach path that wakes what it shows (control.rs, attach.rs), and the   *)
(* debounced save of the records (registry/flusher.rs) across a crash.     *)
(*                                                                         *)
(* A sweep works on a copy of the records it took at its start and locks   *)
(* the registry again for every session it samples and freezes.  Time is   *)
(* counted in ticks of the policies' scale; ages saturate at MaxAge.       *)
(* Signals succeed; input that is queued for a wake is the subject of      *)
(* DeferredLaunch, the end of a session that of HeldSession.  The engine   *)
(* never pins a session.                                                   *)
(***************************************************************************)
EXTENDS Integers, FiniteSets

CONSTANTS
  Sessions,
  IdleThreshold,     \* idle_threshold_seconds; 0 turns the policy off
  MinIdle,           \* budget_min_idle_seconds
  HardMemory,        \* hard_memory_bytes
  Budget,            \* the global budget
  Footprints,        \* what sampling a tree may yield
  MaxPokes,          \* bound: requests that are not from an attached client
  MaxCrashes,        \* bound: crashes of the daemon
  MaxFails           \* bound: writes of the state file that fail

GovernorConstants ==
  /\ IdleThreshold \in Nat /\ MinIdle \in Nat /\ HardMemory \in Nat /\ Budget \in Nat
  /\ Footprints \subseteq Nat /\ IsFiniteSet(Sessions)
  /\ MaxPokes \in Nat /\ MaxCrashes \in Nat /\ MaxFails \in Nat

VARIABLES
  idle,              \* the live status is Idle
  quiet,             \* history: for how long it has been, up to IdleThreshold
  age,               \* since the record's updated_at and last_seen_at
  hib, flag,         \* record.hibernation, Session::is_hibernated
  stopped,           \* the process tree is stopped
  viewer,            \* an attach connection: where it is
  saved, dirty,      \* hibernation in the state file, and a deferred save
  forgone,           \* history: a save failed, and none is deferred
  gpc,               \* the governor thread
  snap,              \* its copy of the records: hibernated, idle, age
  todo,              \* sessions left to sample, or to freeze for idleness
  hot,               \* the session found over the hard limit
  cand,              \* idle_candidates
  total,             \* total_footprint, then the excess over the budget
  pokes, crashes,
  fails              \* counters for the bounds

recordVars == <<age, hib, flag, stopped>>
saveVars   == <<saved, dirty, forgone, fails>>
sweepVars  == <<gpc, snap, todo, hot, cand, total>>
bounds     == <<pokes, crashes>>
vars == <<idle, quiet, recordVars, viewer, saveVars, sweepVars, bounds>>

MaxAge == IF IdleThreshold > MinIdle THEN IdleThreshold + 1 ELSE MinIdle + 1
Ages   == 0..MaxAge
Older(n) == IF n < MaxAge THEN n + 1 ELSE n
Copy   == [hib : BOOLEAN, idle : BOOLEAN, age : Ages]
Cand   == [id : Sessions, age : Ages, footprint : Footprints]

TypeOK ==
  /\ idle \in [Sessions -> BOOLEAN] /\ quiet \in [Sessions -> 0..IdleThreshold]
  /\ age \in [Sessions -> Ages] /\ hib \in [Sessions -> BOOLEAN]
  /\ flag \in [Sessions -> BOOLEAN] /\ stopped \in [Sessions -> BOOLEAN]
  /\ viewer \in [Sessions -> {"none", "seen", "woken", "viewing"}]
  /\ saved \in [Sessions -> BOOLEAN] /\ dirty \in BOOLEAN /\ forgone \in BOOLEAN
  /\ gpc \in {"sleep", "sample", "hard", "idle", "budget"}
  /\ snap \in [Sessions -> Copy] /\ todo \subseteq Sessions
  /\ hot \subseteq Sessions /\ \A s, t \in hot : s = t
  /\ cand \subseteq Cand /\ \A c, d \in cand : c.id = d.id => c = d
  /\ total \in Nat
  /\ pokes \in 0..MaxPokes /\ crashes \in 0..MaxCrashes /\ fails \in 0..MaxFails

NoCopy == [hib |-> FALSE, idle |-> FALSE, age |-> 0]

Init ==
  /\ idle = [s \in Sessions |-> FALSE] /\ quiet = [s \in Sessions |-> 0]
  /\ age = [s \in Sessions |-> 0] /\ hib = [s \in Sessions |-> FALSE]
  /\ flag = [s \in Sessions |-> FALSE] /\ stopped = [s \in Sessions |-> FALSE]
  /\ viewer = [s \in Sessions |-> "none"]
  /\ saved = [s \in Sessions |-> FALSE] /\ dirty = FALSE /\ forgone = FALSE
  /\ gpc = "sleep" /\ snap = [s \in Sessions |-> NoCopy]
  /\ todo = {} /\ hot = {} /\ cand = {} /\ total = 0
  /\ pokes = 0 /\ crashes = 0 /\ fails = 0

-----------------------------------------------------------------------------
(* The registry, under its lock.                                           *)

\* Mutant: the deferred save is struck off before it is written.
PersistNowStrikesFirst ==
  /\ dirty' = FALSE /\ forgone' = FALSE
  /\ \/ saved' = hib' /\ UNCHANGED fails
     \/ fails < MaxFails /\ fails' = fails + 1 /\ UNCHANGED saved

\* persist_now writes the records as they are, or fails and changes nothing:
\* a save that was deferred stays deferred, and any other is forgone.
PersistNow ==
  \/ saved' = hib' /\ dirty' = FALSE /\ forgone' = FALSE /\ UNCHANGED fails
  \/ /\ fails < MaxFails /\ fails' = fails + 1
     /\ forgone' = ~dirty /\ UNCHANGED <<saved, dirty>>

\* persist: at once, or deferred when the last save was just now.  Nobody
\* looks at its result.
Persist ==
  \/ PersistNow
  \/ dirty' = TRUE /\ forgone' = FALSE /\ UNCHANGED <<saved, fails>>

\* Mutant: the tree is stopped and the record is not told.
HibernateUnrecorded(s) ==
  /\ stopped' = [stopped EXCEPT ![s] = TRUE]
  /\ flag' = [flag EXCEPT ![s] = TRUE]
  /\ UNCHANGED <<hib, age>>

\* hibernate: stop the tree, set the flag, stamp the record.
Hibernate(s) ==
  /\ stopped' = [stopped EXCEPT ![s] = TRUE]
  /\ flag' = [flag EXCEPT ![s] = TRUE]
  /\ hib' = [hib EXCEPT ![s] = TRUE]
  /\ age' = [age EXCEPT ![s] = 0]

Known(s) == hib[s] \/ flag[s]

\* ensure_session_awake continues the tree, known to be stopped or not; seen
\* says whether the record is also marked seen.
EnsureAwake(s, seen) ==
  /\ stopped' = [stopped EXCEPT ![s] = FALSE]
  /\ flag' = [flag EXCEPT ![s] = FALSE]
  /\ hib' = [hib EXCEPT ![s] = FALSE]
  /\ age' = IF Known(s) \/ seen THEN [age EXCEPT ![s] = 0] ELSE age

\* wake_session does so only for a session known to be stopped.
WakeSession(s) == IF Known(s) THEN EnsureAwake(s, FALSE) ELSE UNCHANGED recordVars

\* The flusher thread; what it fails to write it writes on a later turn.
Flush ==
  /\ dirty
  /\ UNCHANGED <<idle, quiet, recordVars, viewer, sweepVars, bounds>>
  /\ PersistNow

-----------------------------------------------------------------------------
(* Sessions and their users.                                               *)

\* A running agent starts or ends a turn; neither touches the record's dates.
TurnBegins(s) ==
  /\ idle[s] /\ ~stopped[s]
  /\ idle' = [idle EXCEPT ![s] = FALSE] /\ quiet' = [quiet EXCEPT ![s] = 0]
  /\ UNCHANGED <<recordVars, viewer, saveVars, sweepVars, bounds>>

TurnEnds(s) ==
  /\ ~idle[s] /\ ~stopped[s]
  /\ idle' = [idle EXCEPT ![s] = TRUE] /\ quiet' = [quiet EXCEPT ![s] = 0]
  /\ UNCHANGED <<recordVars, viewer, saveVars, sweepVars, bounds>>

\* Mutant: attaching trusts the record.
AttachTrustsRecord(s) ==
  /\ viewer[s] = "none"
  /\ WakeSession(s) /\ Persist
  /\ viewer' = [viewer EXCEPT ![s] = "seen"]
  /\ UNCHANGED <<idle, quiet, sweepVars, bounds>>

\* A client attaches: the connection wakes the tree whatever the record says, ...
AttachSeen(s) ==
  /\ viewer[s] = "none"
  /\ EnsureAwake(s, TRUE) /\ Persist
  /\ viewer' = [viewer EXCEPT ![s] = "seen"]
  /\ UNCHANGED <<idle, quiet, sweepVars, bounds>>

\* ... serve wakes it again, ...
AttachServe(s) ==
  /\ viewer[s] = "seen"
  /\ WakeSession(s)
  /\ viewer' = [viewer EXCEPT ![s] = "woken"]
  /\ UNCHANGED <<idle, quiet, saveVars, sweepVars, bounds>>

\* ... and only then is the client a sink that the governor sees.
AttachRegister(s) ==
  /\ viewer[s] = "woken"
  /\ viewer' = [viewer EXCEPT ![s] = "viewing"]
  /\ UNCHANGED <<idle, quiet, recordVars, saveVars, sweepVars, bounds>>

Detach(s) ==
  /\ viewer[s] # "none"
  /\ viewer' = [viewer EXCEPT ![s] = "none"]
  /\ UNCHANGED <<idle, quiet, recordVars, saveVars, sweepVars, bounds>>

\* handle_frame: a keystroke wakes, and nothing is saved.
Type(s) ==
  /\ viewer[s] = "viewing"
  /\ WakeSession(s)
  /\ UNCHANGED <<idle, quiet, viewer, saveVars, sweepVars, bounds>>

\* session.send_text from a client that is not attached.
SendText(s) ==
  /\ pokes < MaxPokes /\ pokes' = pokes + 1
  /\ WakeSession(s)
  /\ UNCHANGED <<idle, quiet, viewer, saveVars, sweepVars, crashes>>

\* session.hibernate
HibernateManually(s) ==
  /\ pokes < MaxPokes /\ pokes' = pokes + 1
  /\ Hibernate(s) /\ Persist
  /\ UNCHANGED <<idle, quiet, viewer, sweepVars, crashes>>

\* session.wake
WakeManually(s) ==
  /\ pokes < MaxPokes /\ pokes' = pokes + 1
  /\ WakeSession(s) /\ Persist
  /\ UNCHANGED <<idle, quiet, viewer, sweepVars, crashes>>

-----------------------------------------------------------------------------
(* The governor.                                                           *)

\* sweep takes its copy of the records.
SweepBegin ==
  /\ gpc = "sleep"
  /\ gpc' = "sample"
  /\ snap' = [s \in Sessions |-> [hib |-> hib[s], idle |-> idle[s], age |-> age[s]]]
  /\ todo' = Sessions /\ cand' = {} /\ total' = 0
  /\ UNCHANGED <<idle, quiet, recordVars, viewer, saveVars, hot, bounds>>

\* idle_since, from the copy and from whether there is a sink right now.
Eligible(s) == ~snap[s].hib /\ viewer[s] # "viewing" /\ snap[s].idle

\* One session is sampled.  Over the hard limit it is frozen next.
Sample(s, footprint) ==
  /\ gpc = "sample" /\ s \in todo
  /\ total' = total + footprint
  /\ todo' = todo \ {s}
  /\ IF Eligible(s) /\ footprint > HardMemory
       THEN gpc' = "hard" /\ hot' = {s} /\ UNCHANGED cand
       ELSE /\ UNCHANGED <<gpc, hot>>
            /\ cand' = cand \cup {[id |-> x, age |-> snap[s].age, footprint |-> footprint] :
                                   x \in {y \in {s} : Eligible(y)}}
  /\ UNCHANGED <<idle, quiet, recordVars, viewer, saveVars, snap, bounds>>

SweepHard(s) ==
  /\ gpc = "hard" /\ s \in hot
  /\ Hibernate(s) /\ Persist
  /\ gpc' = "sample" /\ hot' = {}
  /\ UNCHANGED <<idle, quiet, viewer, snap, todo, cand, total, bounds>>

\* All are sampled.  The clock is read once, for both policies that follow.
SweepSampled ==
  /\ gpc = "sample" /\ todo = {}
  /\ gpc' = "idle"
  /\ todo' = {c.id : c \in {x \in cand : IdleThreshold > 0 /\ x.age > IdleThreshold}}
  /\ cand' = {c \in cand : c.age > MinIdle}
  /\ total' = IF total > Budget THEN total - Budget ELSE 0
  /\ UNCHANGED <<idle, quiet, recordVars, viewer, saveVars, snap, hot, bounds>>

\* The sustained-idle freeze.
SweepIdle(s) ==
  /\ gpc = "idle" /\ s \in todo
  /\ Hibernate(s) /\ Persist
  /\ todo' = todo \ {s}
  /\ UNCHANGED <<idle, quiet, viewer, gpc, snap, hot, cand, total, bounds>>

SweepIdleDone ==
  /\ gpc = "idle" /\ todo = {}
  /\ gpc' = "budget"
  /\ UNCHANGED <<idle, quiet, recordVars, viewer, saveVars, snap, todo, hot, cand, total, bounds>>

\* Over the budget, the oldest first until under.
SweepBudget(c) ==
  /\ gpc = "budget" /\ total > 0
  /\ c \in cand /\ \A d \in cand : d.age <= c.age
  /\ Hibernate(c.id) /\ Persist
  /\ cand' = cand \ {c}
  /\ total' = IF total > c.footprint THEN total - c.footprint ELSE 0
  /\ UNCHANGED <<idle, quiet, viewer, gpc, snap, todo, hot, bounds>>

\* The copy is dropped; the thread sleeps for scan_interval.
SweepEnd ==
  /\ gpc = "budget" /\ (total = 0 \/ cand = {})
  /\ gpc' = "sleep"
  /\ snap' = [s \in Sessions |-> NoCopy] /\ cand' = {} /\ total' = 0
  /\ UNCHANGED <<idle, quiet, recordVars, viewer, saveVars, todo, hot, bounds>>

-----------------------------------------------------------------------------
\* Time passes, for the dates the sweep has copied as well.
Elapse ==
  /\ quiet' = [s \in Sessions |-> IF ~idle[s] THEN 0
                                  ELSE IF quiet[s] < IdleThreshold THEN quiet[s] + 1
                                  ELSE quiet[s]]
  /\ age' = [s \in Sessions |-> Older(age[s])]
  /\ IF gpc \in {"sample", "hard"}
       THEN /\ snap' = [s \in Sessions |-> [snap[s] EXCEPT !.age = Older(@)]]
            /\ cand' = {[c EXCEPT !.age = Older(@)] : c \in cand}
       ELSE UNCHANGED <<snap, cand>>
  /\ UNCHANGED <<idle, hib, flag, stopped, viewer, saveVars, gpc, todo, hot, total, bounds>>

\* The daemon dies and its successor adopts the sessions: records and flags
\* come from the state file, whose dates may be older; the trees are as they
\* were.
Crash ==
  /\ crashes < MaxCrashes /\ crashes' = crashes + 1
  /\ hib' = saved /\ flag' = saved /\ dirty' = FALSE /\ forgone' = FALSE
  /\ viewer' = [s \in Sessions |-> "none"]
  /\ gpc' = "sleep" /\ snap' = [s \in Sessions |-> NoCopy]
  /\ todo' = {} /\ hot' = {} /\ cand' = {} /\ total' = 0
  /\ age' \in {a \in [Sessions -> Ages] : \A s \in Sessions : a[s] >= age[s]}
  /\ UNCHANGED <<idle, quiet, stopped, saved, pokes, fails>>

Sweep ==
  \/ SweepBegin \/ SweepSampled \/ SweepIdleDone \/ SweepEnd
  \/ \E s \in Sessions : SweepHard(s) \/ SweepIdle(s)
  \/ \E s \in Sessions, f \in Footprints : Sample(s, f)
  \/ \E c \in cand : SweepBudget(c)

Attach(s) == AttachSeen(s) \/ AttachServe(s) \/ AttachRegister(s) \/ Detach(s)

Next ==
  \/ \E s \in Sessions :
       \/ TurnBegins(s) \/ TurnEnds(s) \/ Attach(s) \/ Type(s)
       \/ SendText(s) \/ HibernateManually(s) \/ WakeManually(s)
  \/ Sweep \/ Flush \/ Elapse \/ Crash

\* The governor and the flusher are threads that run for as long as the
\* daemon does, and time passes.
Fairness == WF_vars(Sweep) /\ WF_vars(Flush) /\ WF_vars(Elapse)

Spec == Init /\ [][Next]_vars /\ Fairness

-----------------------------------------------------------------------------
\* A session that a client views is never stopped behind the daemon's back,
\* not even after a crash that lost the record of its freeze: the next
\* keystroke finds it known and wakes it.
ViewedFreezeIsKnown == \A s \in Sessions : viewer[s] = "viewing" /\ stopped[s] => Known(s)

\* The sustained-idle freeze: a session that stays idle and unattended ends
\* up hibernated on record, whatever users, sweeps and crashes did before.
\* (Its tree may run on: a crash can lose the record of a wake.)
IdleIsReclaimed ==
  \A s \in Sessions : <>[](idle[s] /\ viewer[s] = "none") => <>[]hib[s]

\* A freeze that lasts is in the state file in the end, debounced or not, even
\* when a write of it fails: unless the last save was one that was not deferred
\* and failed, which nobody repeats before the next change of any record.
FreezeIsSaved == \A s \in Sessions : <>[](hib[s] /\ ~forgone) => <>[]saved[s]

\* A step of the sweep that stops the tree of s.
SweepFreezes(s) == ~stopped[s] /\ stopped'[s] /\ sweepVars' # sweepVars

\* "A working / needs-input session, or one a client is viewing, is never
\* frozen out from under the user."
NeverFrozenInUse ==
  [][\A s \in Sessions : SweepFreezes(s) => idle[s] /\ viewer[s] # "viewing"]_vars

\* idle_since is the "idle stretch's start": the idle policy freezes what has
\* been idle for longer than the threshold.
OnlySustainedIdle ==
  [][\A s \in Sessions : SweepFreezes(s) /\ gpc = "idle" => quiet[s] >= IdleThreshold]_vars

\* A frozen session that is viewed is known to be frozen, and the counters of
\* the sweep stay in their ranges.
GovernorInv == TypeOK /\ ViewedFreezeIsKnown

=============================================================================
