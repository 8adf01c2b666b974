------------------------------ MODULE PrMonitor ------------------------------
(***************************************************************************)
(* The pull-request monitor (homie-engine/src/pr_monitor): one thread that *)
(* sleeps until a wake or until something is due, looks at the sessions    *)
(* somebody has on screen, asks GitHub about a few of their pull requests, *)
(* and writes what it learned into the records.  Wakes come from three     *)
(* kinds of threads: connections that attach or mark a session seen, the   *)
(* governor that finds a pull request on a screen, and the app that comes  *)
(* to the front.                                                           *)
(*                                                                         *)
(* A status is its version, 0 if none was fetched yet.  How long an        *)
(* interval is (a minute in front, five to thirty behind) is left open:    *)
(* what has been asked rests, and at some time is due again.               *)
(***************************************************************************)
EXTENDS Naturals, Sequences, SequencesExt

CONSTANTS
  Viewed,        \* sessions
  Pulls,         \* the pull requests a session's screen may show
  MaxBatch,      \* MAX_FETCHES_PER_BATCH
  MaxMoves,      \* bound: what clients, governor and app do
  MaxNews        \* bound: changes on GitHub and fetches that fail

VARIABLES
  found,         \* artifacts, seen, sinks: what the sweep reads of a session
  seen, conn,
  front,         \* foreground_active
  pending,       \* PendingWake
  teller,        \* threads that have changed something and not woken the monitor
  mon,           \* the monitor: where it is, and what it took along
  forced, rest, order, known,   \* its maps
  shown,         \* pull_requests of the records
  github,        \* the pull requests as they are
  owed,          \* pull requests somebody asked for since they were last fetched
  moves, news

monitorVars == <<found, seen, conn, front, pending, teller, mon, forced, rest, order, known,
                 shown, github, owed, moves, news>>
env == <<found, seen, conn, front, teller, github, moves, news>>

Urls == UNION {Pulls[s] : s \in Viewed}
NoWake == [reconcile |-> FALSE, foreground |-> FALSE, sessions |-> {}]
Nobody == [s \in Viewed |-> {}]
Idle == [at |-> "wait", zero |-> FALSE, took |-> NoWake, wanted |-> Nobody, targets |-> {},
         batch |-> <<>>, asked |-> 0]

TypeOK ==
  /\ found \in [Viewed -> SUBSET Urls] /\ seen \subseteq Viewed /\ front \in BOOLEAN
  /\ conn \in [Viewed -> {"out", "marked", "woken", "in"}]
  /\ pending.sessions \subseteq Viewed /\ teller \subseteq Viewed \cup {"app"}
  /\ mon.at \in {"wait", "look", "fetch", "asked", "apply"} /\ mon.wanted \in [Viewed -> SUBSET Urls]
  /\ forced \subseteq Urls /\ owed \subseteq Urls /\ rest \in [Urls -> {"new", "resting", "due"}]
  /\ known \in [Urls -> 0..MaxNews + 1] /\ github \in [Urls -> 1..MaxNews + 1]

Init ==
  /\ found = Nobody /\ seen = {} /\ conn = [s \in Viewed |-> "out"]
  /\ front = TRUE /\ pending = NoWake /\ teller = {}
  /\ mon = [Idle EXCEPT !.zero = TRUE]         \* initial_sweep_delay
  /\ forced = {} /\ rest = [u \in Urls |-> "new"] /\ order \in SetToSeqs(Urls)
  /\ known = [u \in Urls |-> 0] /\ shown = [s \in Viewed |-> [u \in {} |-> 0]]
  /\ github = [u \in Urls |-> 1] /\ owed = {}
  /\ moves = 0 /\ news = 0

-----------------------------------------------------------------------------
(* Who wakes it.                                                           *)

Quiet == UNCHANGED <<mon, forced, rest, order, known, shown, github, news>>
Move == moves < MaxMoves /\ moves' = moves + 1

\* wake_session; what is on the session's screen by now is owed a fetch.
WakeSession(s) ==
  /\ pending' = [pending EXCEPT !.sessions = @ \cup {s}]
  /\ owed' = owed \cup found[s]

\* A connection attaches in three steps: it marks the session seen, wakes the
\* monitor, and registers its sink.
Attach(s) ==
  /\ Move /\ conn[s] = "out" /\ conn' = [conn EXCEPT ![s] = "marked"]
  /\ seen' = seen \cup {s}
  /\ Quiet /\ UNCHANGED <<found, front, pending, teller, owed>>

AttachWakes(s) ==
  /\ conn[s] = "marked" /\ conn' = [conn EXCEPT ![s] = "woken"]
  /\ WakeSession(s)
  /\ Quiet /\ UNCHANGED <<found, seen, front, teller, moves>>

Register(s) ==
  /\ conn[s] = "woken" /\ conn' = [conn EXCEPT ![s] = "in"]
  /\ Quiet /\ UNCHANGED <<found, seen, front, pending, teller, owed, moves>>

Detach(s) ==
  /\ conn[s] = "in" /\ conn' = [conn EXCEPT ![s] = "out"]
  /\ owed' = owed \ found[s]
  /\ Quiet /\ UNCHANGED <<found, seen, front, pending, teller, moves>>

\* session.markSeen: under the registry lock from end to end.
MarkSeen(s) ==
  /\ Move /\ seen' = seen \cup {s} /\ WakeSession(s)
  /\ Quiet /\ UNCHANGED <<found, conn, front, teller>>

\* RECENTLY_SEEN passes: ten minutes, and no sweep takes as long.
SeenPasses(s) ==
  /\ s \in seen /\ seen' = seen \ {s}
  /\ owed' = IF conn[s] = "in" THEN owed ELSE owed \ found[s]
  /\ mon.at = "wait" /\ pending = NoWake /\ teller = {} /\ conn[s] \in {"out", "in"}
  /\ Quiet /\ UNCHANGED <<found, conn, front, pending, teller, moves>>

\* apply_sample: the governor stores the artifacts under the lock, ...
Discover(s) ==
  /\ Move /\ \E new \in SUBSET Pulls[s] \ {found[s]} :
               found[s] \subseteq new /\ found' = [found EXCEPT ![s] = new]
  /\ teller' = teller \cup {s}
  /\ Quiet /\ UNCHANGED <<seen, conn, front, pending, owed>>

\* ... and wakes the monitor after it.
DiscoverWakes(s) ==
  /\ s \in teller /\ teller' = teller \ {s}
  /\ pending' = [pending EXCEPT !.sessions = @ \cup {s}]
  /\ owed' = IF s \in seen \/ conn[s] = "in" THEN owed \cup found[s] ELSE owed
  /\ Quiet /\ UNCHANGED <<found, seen, conn, front, moves>>

\* set_foreground_active: the flag first, the wake after it.
SetActive ==
  /\ Move /\ "app" \notin teller /\ front' = ~front /\ teller' = teller \cup {"app"}
  /\ Quiet /\ UNCHANGED <<found, seen, conn, pending, owed>>

ActiveWakes ==
  /\ "app" \in teller /\ teller' = teller \ {"app"}
  /\ pending' = [pending EXCEPT !.reconcile = TRUE, !.foreground = @ \/ front]
  /\ owed' = IF front THEN owed \cup UNION {found[s] : s \in {t \in Viewed : conn[t] = "in"}} ELSE owed
  /\ Quiet /\ UNCHANGED <<found, seen, conn, front, moves>>

Clock(u) ==
  /\ rest[u] = "resting" /\ rest' = [rest EXCEPT ![u] = "due"]
  /\ UNCHANGED <<env, pending, mon, forced, order, known, shown, owed>>

News(u) ==
  /\ news < MaxNews /\ news' = news + 1
  /\ github' = [github EXCEPT ![u] = @ + 1]
  /\ UNCHANGED <<found, seen, conn, front, teller, moves, pending, mon, forced, rest, order, known,
                 shown, owed>>

-----------------------------------------------------------------------------
(* The monitor.                                                            *)

Visible(s) == conn[s] = "in" \/ s \in seen
InFront(u) == front /\ \E s \in Viewed : conn[s] = "in" /\ u \in found[s]

\* Mutant: a wait that does not sleep clears the wakes all the same.
WaitDropsWhenBusy ==
  /\ mon.at = "wait" /\ (mon.zero \/ pending # NoWake) /\ pending' = NoWake
  /\ mon' = [mon EXCEPT !.at = "look", !.took = IF mon.zero THEN NoWake ELSE pending]
  /\ UNCHANGED <<env, forced, rest, order, known, shown, owed>>

\* wait: without a delay it does not even look at the wakes; they stay.  A wait
\* that times out leaves them too, also the one that arrives at that moment.
Wait ==
  /\ mon.at = "wait"
  /\ \/ /\ ~mon.zero /\ pending # NoWake
        /\ mon' = [mon EXCEPT !.at = "look", !.took = pending] /\ pending' = NoWake
     \/ /\ mon' = [mon EXCEPT !.at = "look", !.took = NoWake] /\ UNCHANGED pending
  /\ UNCHANGED <<env, forced, rest, order, known, shown, owed>>

\* Foreground first, then the one that was asked longest ago.
Due(targets, force) ==
  LET is(u) == u \in targets /\ (u \in force \/ rest[u] # "resting")
      before(u) == is(u) /\ InFront(u)
      after(u)  == is(u) /\ ~InFront(u)
  IN SelectSeq(order, before) \o SelectSeq(order, after)

AtMost(n, seq) == SubSeq(seq, 1, IF Len(seq) < n THEN Len(seq) ELSE n)

\* sweep: the sessions in view, what a wake forces, and the batch.
Look ==
  /\ mon.at = "look"
  /\ LET wanted  == [s \in Viewed |-> IF Visible(s) THEN found[s] ELSE {}]
         woken   == {s \in Viewed : s \in mon.took.sessions \/ (mon.took.foreground /\ conn[s] = "in")}
         targets == UNION {wanted[s] : s \in Viewed}
         force   == (forced \cup UNION {wanted[s] : s \in woken}) \cap targets
     IN /\ forced' = force
        /\ mon' = IF targets = {} THEN Idle
                  ELSE [Idle EXCEPT !.at = "fetch", !.wanted = wanted, !.targets = targets,
                                    !.batch = AtMost(MaxBatch, Due(targets, force))]
  /\ UNCHANGED <<env, pending, rest, order, known, shown, owed>>

\* Mutant: what was asked keeps its place.
AskKeepsPlace ==
  /\ mon.at = "fetch" /\ mon.batch # <<>>
  /\ LET u == Head(mon.batch)
     IN /\ mon' = [mon EXCEPT !.at = "asked", !.asked = github[u]]
        /\ forced' = forced \ {u} /\ owed' = owed \ {u}
        /\ rest' = [rest EXCEPT ![u] = "resting"]
  /\ UNCHANGED <<env, pending, order, known, shown>>

\* gh is started for the first of the batch, ...
Ask ==
  /\ mon.at = "fetch" /\ mon.batch # <<>>
  /\ LET u == Head(mon.batch)
     IN /\ mon' = [mon EXCEPT !.at = "asked", !.asked = github[u]]
        /\ forced' = forced \ {u} /\ owed' = owed \ {u}
        /\ rest' = [rest EXCEPT ![u] = "resting"]
        /\ order' = Append(SelectSeq(order, LAMBDA v : v # u), u)
  /\ UNCHANGED <<env, pending, known, shown>>

\* ... and answers, or fails.
Answer ==
  /\ mon.at = "asked"
  /\ mon' = [mon EXCEPT !.at = "fetch", !.batch = Tail(@)]
  /\ \/ known' = [known EXCEPT ![Head(mon.batch)] = mon.asked] /\ UNCHANGED news
     \/ news < MaxNews /\ news' = news + 1 /\ UNCHANGED known
  /\ UNCHANGED <<found, seen, conn, front, teller, github, moves, pending, forced, rest, order, shown, owed>>

\* The records in turn, with the urls of the sweep's own snapshot, ...
Apply ==
  /\ mon.at \in {"fetch", "apply"} /\ mon.batch = <<>>
  /\ \E s \in Viewed :
       /\ mon.wanted[s] # {}
       /\ shown' = [shown EXCEPT ![s] = [u \in {v \in mon.wanted[s] : known[v] # 0} |-> known[u]]]
       /\ mon' = [mon EXCEPT !.at = "apply", !.wanted[s] = {}]
  /\ UNCHANGED <<env, pending, forced, rest, order, known, owed>>

\* ... then the next delay: none while anything is forced or due.
NextRefreshDelay ==
  /\ mon.at = "apply" /\ mon.wanted = Nobody
  /\ mon' = [Idle EXCEPT !.zero = \E u \in mon.targets : u \in forced \/ rest[u] # "resting"]
  /\ UNCHANGED <<env, pending, forced, rest, order, known, shown, owed>>

Monitor == Wait \/ Look \/ Ask \/ Answer \/ Apply \/ NextRefreshDelay
Wakers(s) == AttachWakes(s) \/ Register(s) \/ DiscoverWakes(s)

Next ==
  \/ \E s \in Viewed : \/ Attach(s) \/ AttachWakes(s) \/ Register(s) \/ Detach(s) \/ MarkSeen(s)
                       \/ SeenPasses(s) \/ Discover(s) \/ DiscoverWakes(s)
  \/ SetActive \/ ActiveWakes
  \/ \E u \in Urls : Clock(u) \/ News(u)
  \/ Monitor

\* The threads run, and time passes.
Fairness ==
  /\ WF_monitorVars(Monitor) /\ WF_monitorVars(ActiveWakes)
  /\ \A s \in Viewed : WF_monitorVars(Wakers(s))
  /\ \A u \in Urls : WF_monitorVars(Clock(u))
Spec == Init /\ [][Next]_monitorVars /\ Fairness

-----------------------------------------------------------------------------
\* The wake has the monitor fetch u.
Calls(wake, u) ==
  \/ \E s \in wake.sessions : Visible(s) /\ u \in found[s]
  \/ wake.foreground /\ \E s \in Viewed : conn[s] = "in" /\ u \in found[s]

\* wake.rs: a wake is never lost.  What somebody in front of the session asked
\* for is still pending, with the sweep, or forced, until gh is asked.
NoWakeLost ==
  \A u \in owed : \/ u \in forced \/ Calls(pending, u)
                  \/ mon.at = "look" /\ Calls(mon.took, u)

\* The monitor is well formed, and loses no wake.
MonitorInv == TypeOK /\ NoWakeLost

\* monitor.rs, "immediately drain any remaining due work": a session that stays
\* on screen comes to show each of its pull requests as it is.
RecordsCatchUp ==
  \A s \in Viewed : \A u \in Pulls[s] :
    conn[s] = "in" /\ u \in found[s] ~>
      conn[s] # "in" \/ (u \in DOMAIN shown[s] /\ shown[s][u] = github[u])

=============================================================================
