----------------------------- MODULE TerminalPane -----------------------------
(***************************************************************************)
(* The terminal pane of the app: which session is resident and has an      *)
(* attachment (terminal_pane/mod.rs, store/residency.rs), the attachment's *)
(* reconnect loop (attachment.rs, homie-client/attachment.rs), the sizes   *)
(* that are paced on their way to the Engine (geometry.rs, policy.rs), the *)
(* grid frames that are held while a column change makes its round trip,   *)
(* and the pacing of repaints (events.rs, homie-term/repaint.rs).          *)
(*                                                                         *)
(* A screen has two rows; output number n changes row n % 2, a new size    *)
(* changes both.  The Engine sends a sink a snapshot and then every change *)
(* (AttachHub).  All sizes differ in their columns.  What depends on the   *)
(* time since the last size or repaint may go either way.  What the Engine *)
(* was sent on a connection before it closed, it reads all the same.       *)
(*                                                                         *)
(* One session is followed.  While another is selected this one's grid is  *)
(* parked; PARKED_GRID_CAP is not reached.  Of the other only the resize   *)
(* tick shows, which all sessions of a pane share.                         *)
(***************************************************************************)
EXTENDS Naturals, Sequences

CONSTANTS
  Sizes,
  Overlaps,      \* may the session be selected again before the Engine has seen its last attachment close?
  MaxSelects,    \* bound: selections of this or another session
  MaxTrouble,    \* bound: refused and lost connections, refused sizes
  MaxEvents      \* bound: what the user, the network and the session do, together

NoSize == "no_size"
NoHold == [held |-> FALSE]
Close == "close"

PaneConstants ==
  /\ {MaxSelects, MaxTrouble, MaxEvents} \subseteq Nat
  /\ Overlaps \in BOOLEAN
  /\ Sizes # {} /\ NoSize \notin Sizes /\ Close \notin Sizes

Rows == {0, 1}
Ids == 1..(1 + MaxSelects \div 2)   \* an attachment for each time the session is selected
NoId == 0

VARIABLES
  selected, told,             \* the store has it selected; a change is not yet reconciled
  cur, count,                 \* the resident's attachment, or NoId; attachments so far
  att,                        \* attachment tasks: state, commands, last_resize, connection
  inbox,                      \* pane_tx: frames and attachment states
  grid, state,                \* the buffers, parked or resident; attachment_state
  hold,                       \* the resident's ReflowHold
  area,                       \* the size of the pane's viewport
  lastSize, pend, armed, sent,\* last_size, pending_resizes, resize_flush_armed, last_resize_sent
  active, notified, painted,  \* the window: in front, due to render, and what it shows
  budget, paced, sched, stale,\* RepaintPacer, and timers it does not wait for any more
  screen, size, version,      \* the Engine's session
  missed,                     \* history: the last size it was sent could not be set
  selects, trouble, events

attVars == <<cur, count, att>>
paneVars == <<grid, state, hold>>
sizeVars == <<lastSize, pend, armed, sent>>
pacerVars == <<budget, paced, sched, stale>>
engineVars == <<screen, size, version, missed>>
boundVars == <<selects, trouble, events>>
termVars == <<selected, told, attVars, inbox, paneVars, area, sizeVars, active, notified, painted, pacerVars,
              engineVars, boundVars>>

Closed == [st |-> "closed", cmds |-> <<>>, last |-> NoSize, up |-> <<>>, down |-> <<>>,
           cut |-> FALSE]
Fresh == [Closed EXCEPT !.st = "connecting"]
Parting(up) == [Closed EXCEPT !.up = up]   \* what was written before the close is on its way
Resident == cur # NoId

Frame(full, rows, n) == [t |-> "grid", full |-> full, rows |-> rows, n |-> n]
Event(t) == [t |-> t]
Happens == events < MaxEvents /\ events' = events + 1

TypeOK ==
  /\ cur \in {NoId, count} /\ count \in Ids
  /\ \A i \in Ids : att[i].st \in {"connecting", "live", "retry", "closed"}
  /\ \A i \in Ids : att[i].last \in Sizes \cup {NoSize} /\ att[i].cut \in BOOLEAN
  /\ grid \in [Rows -> Nat] /\ screen \in [Rows -> Nat]
  /\ state \in {"attaching", "live", "reconnecting"} /\ hold.held \in BOOLEAN
  /\ area \in Sizes /\ {lastSize, pend, size} \subseteq Sizes \cup {NoSize}
  /\ {selected, armed, sent, active, notified, told, paced, sched} \subseteq BOOLEAN
  /\ budget \in 0..2 /\ stale \in Nat /\ missed \in BOOLEAN

Init ==
  /\ selected = TRUE /\ told = FALSE /\ cur = 1 /\ count = 1
  /\ att = [i \in Ids |-> IF i = 1 THEN Fresh ELSE Closed]
  /\ inbox = <<Event("attaching")>>
  /\ grid = [r \in Rows |-> 0] /\ state = "attaching" /\ hold = NoHold
  /\ area = (CHOOSE z \in Sizes : TRUE) /\ lastSize = NoSize /\ pend = NoSize /\ armed = FALSE /\ sent = FALSE
  /\ active = TRUE /\ notified = TRUE /\ painted = [r \in Rows |-> 0]
  /\ budget = 0 /\ paced = FALSE /\ sched = FALSE /\ stale = 0
  /\ screen = [r \in Rows |-> 1] /\ size = NoSize /\ version = 1 /\ missed = FALSE
  /\ selects = 0 /\ trouble = 0 /\ events = 0

-----------------------------------------------------------------------------
(* The user.                                                               *)

\* The store selects; the pane learns of it by reconcile_store_change.
Select ==
  /\ Happens /\ selects < MaxSelects /\ selects' = selects + 1 /\ selected' = ~selected /\ told' = TRUE
  /\ Overlaps \/ \A i \in Ids \ {cur} : att[i] = Closed
  /\ UNCHANGED <<attVars, inbox, paneVars, area, sizeVars, active, notified, painted, pacerVars,
                 engineVars, trouble>>

Drag ==
  /\ Happens
  /\ area' \in Sizes \ {area} /\ notified' = TRUE
  /\ UNCHANGED <<selected, told, attVars, inbox, paneVars, sizeVars, active, painted, pacerVars, engineVars,
                 selects, trouble>>

\* AttachmentControl::input announces itself to the pacer.
TypeKey ==
  /\ Happens /\ Resident /\ inbox' = Append(inbox, Event("key"))
  /\ UNCHANGED <<selected, told, attVars, paneVars, area, sizeVars, active, notified, painted, pacerVars,
                 engineVars, selects, trouble>>

\* The toolkit redraws a window that comes to the front.
ChangeFocus ==
  /\ Happens
  /\ active' = ~active /\ notified' = (notified \/ active')
  /\ UNCHANGED <<selected, told, attVars, inbox, paneVars, area, sizeVars, painted, pacerVars, engineVars,
                 selects, trouble>>

-----------------------------------------------------------------------------
(* Residency and rendering.                                                *)

\* reconcile_residency: the selected session is resident.  An evicted one's grid
\* is parked, its hold goes, and dropping it closes its attachment.
Evict ==
  /\ Resident /\ ~selected /\ cur' = NoId /\ att' = [att EXCEPT ![cur].cmds = Append(@, Close)]
  /\ hold' = NoHold /\ UNCHANGED <<count, inbox, state, lastSize>>
Promote ==
  /\ ~Resident /\ selected /\ count' = count + 1 /\ cur' = count' /\ att' = [att EXCEPT ![cur'] = Fresh]
  /\ inbox' = Append(inbox, Event("attaching")) /\ state' = "attaching" /\ lastSize' = NoSize
  /\ UNCHANGED hold
Reconcile ==
  \/ Evict \/ Promote
  \/ Resident = selected /\ UNCHANGED <<attVars, inbox, state, hold, lastSize>>

StoreChange ==
  /\ told /\ told' = FALSE /\ Reconcile /\ notified' = TRUE
  /\ UNCHANGED <<selected, grid, area, pend, armed, sent, active, painted, pacerVars, engineVars, boundVars>>

\* A size goes to the attachment of the resident.
Tell(a, z) == [a EXCEPT !.cmds = Append(@, z)]

\* plan_resize
Plans(first) ==
  IF first \/ ~sent THEN {"now"} ELSE {"now", IF armed THEN "fold" ELSE "arm"}

\* The tick that is armed will carry the newest size.
Fold == pend' = area

\* should_hold_reflow: not for the first size; it also depends on the time.
MayHold == lastSize # NoSize

\* update_selected_geometry, for a resident that is in place.
Measure(plan, holds) ==
  IF lastSize = area THEN plan = "now" /\ ~holds /\ UNCHANGED <<attVars, sizeVars, hold>>
  ELSE /\ lastSize' = area /\ plan \in Plans(lastSize = NoSize)
       /\ CASE plan = "now" ->
               /\ sent' = TRUE /\ pend' = NoSize /\ UNCHANGED <<armed, cur, count>>
               /\ att' = [att EXCEPT ![cur] = Tell(@, area)]
               /\ holds => MayHold
               /\ hold' = IF ~holds THEN hold
                          ELSE [held |-> TRUE, saw |-> FALSE,
                                parked |-> IF hold.held THEN hold.parked ELSE <<>>]
            [] plan = "fold" -> ~holds /\ Fold /\ UNCHANGED <<attVars, hold, armed, sent>>
            [] plan = "arm" ->
               /\ ~holds /\ pend' = area /\ armed' = TRUE
               /\ UNCHANGED <<attVars, hold, sent>>

\* render.  It too reconciles first, which is StoreChange.
Render ==
  /\ notified /\ notified' = FALSE /\ Resident /\ selected /\ painted' = grid
  /\ \E plan \in {"now", "fold", "arm"}, holds \in BOOLEAN : Measure(plan, holds)
  /\ UNCHANGED <<selected, told, inbox, grid, state, area, active, pacerVars, engineVars, boundVars>>

\* The tick: what is pending goes to the residents.
Flush ==
  /\ armed /\ armed' = FALSE /\ sent' = TRUE /\ pend' = NoSize
  /\ att' = IF Resident /\ pend # NoSize THEN [att EXCEPT ![cur] = Tell(@, pend)] ELSE att
  /\ UNCHANGED <<selected, told, cur, count, inbox, paneVars, area, lastSize, active, notified, painted, pacerVars,
                 engineVars, boundVars>>

\* Another session's render sends or arms a size of its own.
ElsewhereRenders ==
  /\ ~selected /\ notified /\ notified' = FALSE /\ sent' = TRUE /\ armed' \in {armed, TRUE}
  /\ UNCHANGED <<selected, told, attVars, inbox, paneVars, area, lastSize, pend, active, painted,
                 pacerVars, engineVars, boundVars>>

-----------------------------------------------------------------------------
(* What the attachments report.                                            *)

\* GridBuffer::apply
Applied(g, f) == IF f.full THEN f.rows ELSE [g EXCEPT ![f.n % 2] = f.n]
ApplyAll(g, fs) ==
  LET after[k \in 0..Len(fs)] == IF k = 0 THEN g ELSE Applied(after[k - 1], fs[k])
  IN after[Len(fs)]

\* request_terminal_repaint and RepaintPacer::on_damage.
OnDamage ==
  \/ /\ budget > 0 /\ budget' = budget - 1 /\ paced' = TRUE /\ notified' = TRUE
     /\ sched' = FALSE /\ stale' = IF sched THEN stale + 1 ELSE stale
  \/ /\ budget = 0 /\ ~sched /\ paced' = TRUE /\ notified' = TRUE /\ UNCHANGED <<budget, sched, stale>>
  \/ budget = 0 /\ ~sched /\ paced /\ sched' = TRUE /\ UNCHANGED <<budget, paced, stale, notified>>
  \/ budget = 0 /\ sched /\ UNCHANGED <<pacerVars, notified>>

\* apply_grid_updates: the frames are one paint.
ApplyUpdates(frames) ==
  /\ grid' = ApplyAll(grid, frames)
  /\ IF active /\ selected /\ grid' # grid THEN OnDamage ELSE UNCHANGED <<pacerVars, notified>>

\* ReflowHold::park: the hold ends with the first change after a snapshot.
Parked(f) == [hold EXCEPT !.parked = Append(@, f), !.saw = @ \/ f.full]
Completes(f) == ~f.full /\ hold.saw

HandleFrame(f) ==
  IF ~Resident THEN UNCHANGED <<grid, hold, pacerVars, notified>>
  ELSE IF ~hold.held THEN ApplyUpdates(<<f>>) /\ UNCHANGED hold
  ELSE IF Completes(f) THEN ApplyUpdates(Append(hold.parked, f)) /\ hold' = NoHold
  ELSE hold' = Parked(f) /\ UNCHANGED <<grid, pacerVars, notified>>

HandleState(e) ==
  /\ state' = IF Resident THEN e.t ELSE state
  /\ notified' = (notified \/ selected)

HandlePaneEvent ==
  /\ inbox # <<>> /\ inbox' = Tail(inbox)
  /\ LET e == Head(inbox) IN
       \/ e.t = "grid" /\ HandleFrame(e) /\ UNCHANGED state
       \/ e.t = "key" /\ budget' = 2 /\ UNCHANGED <<paneVars, paced, sched, stale, notified>>
       \/ e.t \notin {"grid", "key"} /\ HandleState(e) /\ UNCHANGED <<grid, hold, pacerVars>>
  /\ UNCHANGED <<selected, told, attVars, area, sizeVars, active, painted, engineVars, boundVars>>

\* The ceiling of a hold: REFLOW_HOLD has passed.
ReleaseHold ==
  /\ hold.held /\ hold' = NoHold /\ ApplyUpdates(hold.parked)
  /\ UNCHANGED <<selected, told, attVars, inbox, state, area, sizeVars, active, painted, engineVars, boundVars>>

\* on_timer: the timer that is waited for, or an older one, which may be late
\* enough to stand in for it.
RepaintTimer ==
  /\ \/ sched /\ sched' = FALSE /\ notified' = TRUE /\ UNCHANGED stale
     \/ stale > 0 /\ stale' = stale - 1 /\ UNCHANGED <<sched, notified>>
     \/ stale > 0 /\ sched /\ sched' = FALSE /\ notified' = TRUE /\ UNCHANGED stale
  /\ UNCHANGED <<selected, told, attVars, inbox, paneVars, area, sizeVars, active, painted, budget, paced,
                 engineVars, boundVars>>

-----------------------------------------------------------------------------
(* The attachment tasks.                                                   *)

Task(i, a) == att' = [att EXCEPT ![i] = a] /\ UNCHANGED <<cur, count>>
Reports(i, t) == inbox' = Append(inbox, Event(t))
Quiet == UNCHANGED <<trouble, events>>
TaskOnly == UNCHANGED <<selected, told, paneVars, area, sizeVars, active, notified, painted, pacerVars,
                        engineVars, selects>>

\* Mutant: a new connection waits for the next size.
ResendNever(a) == <<>>
\* A new connection starts with the last size.
Resend(a) == IF a.last = NoSize THEN <<>> ELSE <<a.last>>

\* SessionAttachment::connect: the Engine seeds the new sink.
Connect(i) ==
  /\ att[i].st = "connecting" /\ Reports(i, "live") /\ TaskOnly /\ Quiet
  /\ Task(i, [att[i] EXCEPT !.st = "live", !.cut = FALSE, !.up = Resend(att[i]),
                            !.down = <<Frame(TRUE, screen, version)>>])
ConnectFails(i) ==
  /\ Happens /\ trouble < MaxTrouble /\ trouble' = trouble + 1
  /\ att[i].st = "connecting" /\ Reports(i, "reconnecting") /\ TaskOnly
  /\ Task(i, [att[i] EXCEPT !.st = "retry"])

\* The connection is lost: what was not read from it yet is, what was not
\* written is not.
Lose(i) ==
  /\ Happens /\ trouble < MaxTrouble /\ trouble' = trouble + 1 /\ att[i].st = "live" /\ ~att[i].cut
  /\ Task(i, [att[i] EXCEPT !.cut = TRUE, !.up = <<>>]) /\ TaskOnly /\ UNCHANGED inbox

ForwardChunk(i) ==
  /\ att[i].st = "live" /\ att[i].down # <<>> /\ inbox' = Append(inbox, Head(att[i].down))
  /\ Task(i, [att[i] EXCEPT !.down = Tail(@)]) /\ TaskOnly /\ Quiet

\* The chunks end.
Ends(i) ==
  /\ att[i].st = "live" /\ att[i].cut /\ att[i].down = <<>>
  /\ Reports(i, "reconnecting") /\ Task(i, [att[i] EXCEPT !.st = "retry"]) /\ TaskOnly /\ Quiet

\* A command, of a live attachment or in wait_for_retry.
TakeCommand(i) ==
  /\ att[i].st \in {"live", "retry"} /\ att[i].cmds # <<>>
  /\ LET c == Head(att[i].cmds)
         a == [att[i] EXCEPT !.cmds = Tail(@)]
     IN IF c = Close THEN Task(i, Parting(a.up))
        ELSE Task(i, [a EXCEPT !.last = c,
                               !.up = IF a.st = "live" /\ ~a.cut THEN Append(@, c) ELSE @])
  /\ UNCHANGED inbox /\ TaskOnly /\ Quiet

\* REATTACH_DELAY has passed.
Retry(i) ==
  /\ att[i].st = "retry" /\ Reports(i, "attaching") /\ Task(i, [att[i] EXCEPT !.st = "connecting"])
  /\ TaskOnly /\ Quiet

-----------------------------------------------------------------------------
(* The Engine.                                                             *)

\* Every sink of the session gets the change.
Sent(tasks, frame) ==
  [i \in Ids |-> IF tasks[i].st = "live" /\ ~tasks[i].cut THEN [tasks[i] EXCEPT !.down = Append(@, frame)]
                 ELSE tasks[i]]
EngineOnly == UNCHANGED <<selected, told, cur, count, inbox, paneVars, area, sizeVars, active, notified,
                          painted, pacerVars, selects>>

Output ==
  /\ Happens /\ version' = version + 1 /\ screen' = [screen EXCEPT ![version' % 2] = version']
  /\ att' = Sent(att, Frame(FALSE, screen', version')) /\ UNCHANGED <<size, missed, trouble>>
  /\ EngineOnly

\* Session::resize, for a connection; another size means another screen.
TakeResize(i) ==
  /\ att[i].up # <<>> /\ missed' = FALSE /\ EngineOnly /\ UNCHANGED <<trouble, events>>
  /\ LET rest == [att EXCEPT ![i].up = Tail(@)]
     IN IF Head(att[i].up) = size THEN att' = rest /\ UNCHANGED <<screen, size, version>>
        ELSE /\ size' = Head(att[i].up) /\ version' = version + 1 /\ screen' = [r \in Rows |-> version']
             /\ att' = Sent(rest, Frame(TRUE, screen', version'))

\* The pty or its holder refuses the size, and nobody is told.
ResizeFails(i) ==
  /\ Happens /\ trouble < MaxTrouble /\ trouble' = trouble + 1
  /\ att[i].up # <<>> /\ att' = [att EXCEPT ![i].up = Tail(@)] /\ missed' = TRUE
  /\ UNCHANGED <<screen, size, version>> /\ EngineOnly

-----------------------------------------------------------------------------
Attachment(i) ==
  \/ Connect(i) \/ ConnectFails(i) \/ Lose(i) \/ ForwardChunk(i) \/ Ends(i) \/ TakeCommand(i) \/ Retry(i)
  \/ TakeResize(i) \/ ResizeFails(i)

Next ==
  \/ Select \/ Output \/ Drag \/ TypeKey \/ ChangeFocus
  \/ StoreChange \/ Render \/ ElsewhereRenders \/ Flush \/ HandlePaneEvent \/ ReleaseHold \/ RepaintTimer
  \/ \E i \in Ids : Attachment(i)

Spec == Init /\ [][Next]_termVars

-----------------------------------------------------------------------------
\* The pane and its attachment rest: nothing is on its way between them.
Rests == Resident /\ selected /\ ~notified /\ ~told /\ inbox = <<>> /\ att[cur].st = "live" /\ ~att[cur].cut
         /\ att[cur].cmds = <<>> /\ att[cur].up = <<>> /\ att[cur].down = <<>>

\* "the size a drag ends on always reaches the daemon": through folded ticks,
\* lost connections and sessions that are left and selected again.  (A size that
\* could not be set is not tried again before the next size or connection.)
SizeArrives == Rests /\ ~armed /\ ~missed => size = area

\* The pane has the Engine's screen once the frames are in and no hold keeps
\* them back, whatever was parked, dropped or seeded again on the way.
GridIsScreen == Rests /\ ~hold.held => grid = screen

\* What is in the grid gets painted: a render or a timer is still to come.
PaintComes == active /\ Resident /\ selected /\ painted # grid => notified \/ sched \/ told

\* The pane does not claim to reconnect when it is connected.
StateIsTrue == Rests => state = "live"

\* A pending size has a tick that will carry it.
PendingIsArmed == pend # NoSize => armed

PaneInv == TypeOK /\ SizeArrives /\ GridIsScreen /\ PaintComes /\ StateIsTrue /\ PendingIsArmed

=============================================================================
