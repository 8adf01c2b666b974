------------------------------ MODULE AppStore ------------------------------
(***************************************************************************)
(* The app's store of sessions (homie-app/src/store): a copy of the        *)
(* Engine's records, what the user selected, the rows that are hidden      *)
(* while they close, and the one terminal kept attached.  Three tasks      *)
(* change it beside the user (runtime.rs): one applies events in the order *)
(* of the stream, one lists the sessions after each connect and replaces   *)
(* the copy, one carries the store's requests to the Engine, one after the *)
(* other.  Nothing orders the three.                                       *)
(*                                                                         *)
(* The Engine tells the app what it does on request while it holds the     *)
(* registry's lock.  What the agents do is found by a watcher, which copies *)
(* the records under the lock and publishes the copies after it, and so do *)
(* the governor and the PR monitor: a copy may be published after a newer  *)
(* event.  Events may be lost, too, and nobody lists the sessions again.   *)
(*                                                                         *)
(* A record is reduced to how the session stands and the archive stamp;    *)
(* sidebar order, projects, titles, preferences and the read models of the *)
(* switcher are left out.  A shell is what has no conversation to resume.  *)
(***************************************************************************)
EXTENDS Naturals, Sequences

CONSTANTS
  Ids, Shells,
  Newcomers,     \* the sessions the user may start from here
  Remembered,    \* what may be selected when the app starts
  MaxClicks,     \* bound: actions of the user
  MaxChanges,    \* bound: what agents and other clients do
  MaxCuts,       \* bound: connections lost
  MaxLost,       \* bound: events lost
  MaxTotal,      \* bound: all four together
  LateConfirm    \* may the user confirm to close what is gone meanwhile?

VARIABLES
  record, shut,  \* the Engine's records, and recently_closed
  noted, copies, \* what the watcher has yet to copy, and to publish
  stream,        \* the event stream, in order
  link, list,    \* the connection, and the listing of the state task
  store,         \* SessionStore
  answer,        \* the answer to the first effect, not yet applied
  outdated,      \* a list or a reopened record was applied after a newer event
  astray,        \* sessions told of by an old copy, or whose event was lost
  unshelved,     \* sessions an event took out of the archive while selected
  shelved,       \* sessions the user archived and has left there
  fresh,         \* ids not given out yet
  clicks, changes, cuts, lost

engineVars == <<record, shut, noted, copies>>
ghosts == <<outdated, astray, unshelved, shelved, fresh>>
counts == <<clicks, changes, cuts, lost>>
appVars == <<engineVars, stream, link, list, store, answer, ghosts>>
vars == <<appVars, counts>>

MayHappen == clicks + changes + cuts + lost < MaxTotal

None == [st |-> "none"]
NoId == "no_id"
NoList == [at |-> "none"]
Asked  == [at |-> "asked"]
NoAnswer == [op |-> "none"]
States == {"live", "clean", "ended", "restart"}
Records == [st : States, arch : BOOLEAN]
Ops == {"seen", "remove", "resume", "archive", "unarchive", "spawn", "reopen"}
Effect(op, id) == [op |-> op, id |-> id]
Event(id, r) == [id |-> id, rec |-> r]
Live == [st |-> "live", arch |-> FALSE]

ASSUME AppAssumption == NoId \notin Ids /\ Remembered \subseteq (Ids \ Newcomers) \cup {NoId}

TypeOK ==
  /\ record \in [Ids -> Records \cup {None}] /\ link \in BOOLEAN /\ outdated \in BOOLEAN
  /\ list \in {NoList, Asked} \/ list.rows \in [Ids -> Records \cup {None}]
  /\ store.ses \in [Ids -> Records \cup {None}]
  /\ {store.sel, store.res, store.asked} \subseteq Ids \cup {NoId}
  /\ store.closing \subseteq Ids /\ store.tried \subseteq Ids
  /\ \A i \in 1..Len(store.eff) : store.eff[i].op \in Ops
  /\ shelved \subseteq Ids /\ unshelved \subseteq Ids /\ fresh \subseteq Newcomers
  /\ noted \subseteq Ids /\ astray \subseteq Ids /\ copies \subseteq [id : Ids, rec : Records]

-----------------------------------------------------------------------------
(* The store, as functions from store to store.                            *)

Present(s, id) == s.ses[id] # None
Active(s, id)  == Present(s, id) /\ ~s.ses[id].arch

\* build_projection: the rows of the sidebar; archived ones only if selected.
Rows(s) == {id \in Ids \ s.closing : Active(s, id) \/ (Present(s, id) /\ s.sel = id)}
Pick(S) == IF S = {} THEN NoId ELSE CHOOSE id \in S : TRUE

Emit(s, op, id) == [s EXCEPT !.eff = Append(@, Effect(op, id))]

\* auto_resume_if_needed: once for each session.
AutoResume(s, id) ==
  IF s.sel = id /\ Active(s, id) /\ id \notin Shells /\ s.ses[id].st = "restart" /\ id \notin s.tried
    THEN Emit([s EXCEPT !.tried = @ \cup {id}], "resume", id) ELSE s

\* focus_session; the terminal that had to make room is detached.
Focus(s, id) ==
  LET t == [s EXCEPT !.sel = id]
  IN AutoResume(IF Active(s, id) THEN Emit([t EXCEPT !.res = id], "seen", id) ELSE t, id)

SetSelected(s, id) == IF id = NoId THEN [s EXCEPT !.sel = NoId] ELSE Focus(s, id)
FocusNeighbor(s, id) == SetSelected(s, Pick(Rows(s) \ {id}))
AutoSelect(s) ==
  IF s.sel # NoId THEN s ELSE SetSelected(s, Pick({id \in Ids \ s.closing : Active(s, id)}))

LoseTerminal(s, id) == [s EXCEPT !.res = IF @ = id THEN NoId ELSE @]

\* remove_sessions: the row hides at once.
RemoveSession(s, id) ==
  LET t == IF s.sel = id THEN FocusNeighbor(s, id) ELSE s
  IN Emit([LoseTerminal(t, id) EXCEPT !.closing = @ \cup {id}], "remove", id)

\* A clean exit of what has no conversation is closed the first time it is seen.
ShouldAutoClose(s, id, r) ==
  /\ id \notin s.closing /\ r.st = "clean" /\ id \in Shells
  /\ s.ses[id] = None \/ s.ses[id].st = "live"

\* upsert_session
Upsert(s, id, r) ==
  LET new == s.ses[id] = None
      t == [s EXCEPT !.ses[id] = r, !.res = IF new /\ s.sel = id /\ ~r.arch THEN id ELSE @]
      u == AutoResume(t, id)
  IN IF ShouldAutoClose(s, id, r) THEN RemoveSession(t, id)
     ELSE IF ~new THEN u
     ELSE IF s.sel = id THEN Focus(u, id) ELSE AutoSelect(u)

\* Mutant: the row stays hidden if the session comes back.
RemoveRecordOnly(s, id) ==
  LET t == IF s.sel = id THEN FocusNeighbor(s, id) ELSE s
  IN IF Present(s, id) THEN [LoseTerminal(t, id) EXCEPT !.ses[id] = None] ELSE s

\* remove_session_record
RemoveRecord(s, id) ==
  LET t == IF s.sel = id THEN FocusNeighbor(s, id) ELSE s
  IN IF Present(s, id)
       THEN [LoseTerminal(t, id) EXCEPT !.ses[id] = None, !.closing = @ \ {id}] ELSE s

\* handle_event: a record that says nothing new changes nothing.
Apply(s, e) ==
  IF e.rec = None THEN RemoveRecord(s, e.id)
  ELSE IF s.ses[e.id] = e.rec THEN s ELSE Upsert(s, e.id, e.rec)

\* hydrate: "A full resync is the authority".
Hydrate(s, rows) ==
  LET t == AutoSelect([s EXCEPT !.ses = rows, !.closing = {},
                                !.sel = IF @ # NoId /\ rows[@] = None THEN NoId ELSE @])
      u == IF t.sel # NoId /\ Active(t, t.sel) THEN [t EXCEPT !.res = t.sel] ELSE t
  IN IF u.sel = NoId THEN u ELSE AutoResume(u, u.sel)

-----------------------------------------------------------------------------
\* The app starts with the selection it remembers, and connects.
Init ==
  /\ \E old \in [Ids \ Newcomers -> {Live, [st |-> "restart", arch |-> FALSE]}] :
       record = [id \in Ids |-> IF id \in Newcomers THEN None ELSE old[id]]
  /\ shut = <<>> /\ fresh = Newcomers /\ noted = {} /\ copies = {} /\ astray = {}
  /\ stream = <<>> /\ link = TRUE /\ list = Asked
  /\ \E sel \in Remembered :
       store = [ses |-> [id \in Ids |-> None], sel |-> sel, res |-> NoId, closing |-> {},
                tried |-> {}, asked |-> NoId, eff |-> <<>>]
  /\ answer = NoAnswer /\ outdated = FALSE /\ unshelved = {} /\ shelved = {}
  /\ clicks = 0 /\ changes = 0 /\ cuts = 0 /\ lost = 0

-----------------------------------------------------------------------------
(* The Engine.                                                             *)

Send(e) == stream' = IF link THEN Append(stream, e) ELSE stream

\* A request changes the record and publishes it under the lock.
Publish(id) == Send(Event(id, record'[id]))
Become(id, r) == record' = [record EXCEPT ![id] = r] /\ Publish(id)

\* How a process ends, or is found after a restart, as far as the store tells
\* it apart: exit code 0 counts without a conversation, the reason with one.
Ends(id)  == IF id \in Shells THEN {"clean", "ended"} ELSE {"ended"}
WrittenOff(id) == IF id \in Shells THEN "ended" ELSE "restart"
LiveIds(recs) == {id \in Ids : recs[id] # None /\ recs[id].st = "live"}

Terminated(id) ==
  IF record[id].st # "live" THEN {record[id]} ELSE {[record[id] EXCEPT !.st = x] : x \in Ends(id)}

\* registry.archive, unarchive, remove; respawn leaves the archive stamp alone.
\* What has no process any more is not watched.
ArchiveAt(id) ==
  /\ \E r \in Terminated(id) : Become(id, [r EXCEPT !.arch = TRUE])
  /\ noted' = noted \ {id}
UnarchiveAt(id) == Become(id, [record[id] EXCEPT !.arch = FALSE]) /\ UNCHANGED noted
RemoveAt(id) ==
  /\ Become(id, None) /\ noted' = noted \ {id}
  /\ \E r \in Terminated(id) : shut' = Append(shut, Event(id, r))

\* An agent ends, or its title or its question changes: its version counter
\* moves, and the record is folded when somebody asks for it.
AgentMoves(id) ==
  /\ record[id].st = "live"
  /\ \E st \in Ends(id) \cup {"live"} : record' = [record EXCEPT ![id].st = st]
  /\ noted' = noted \cup {id} /\ UNCHANGED <<shut, stream, shelved>>

\* An agent moves, or another client does something.
Change ==
  /\ MayHappen /\ changes < MaxChanges /\ changes' = changes + 1
  /\ \E id \in Ids :
       /\ record[id] # None
       /\ \/ AgentMoves(id)
          \/ /\ shelved' = shelved \ {id}
             /\ \/ ArchiveAt(id) /\ UNCHANGED shut
                \/ record[id].arch /\ UnarchiveAt(id) /\ UNCHANGED shut
                \/ RemoveAt(id)
  /\ UNCHANGED <<copies, link, list, store, answer, outdated, astray, unshelved, fresh, clicks, cuts, lost>>

\* changed_since: the watcher copies what has changed, under the lock, ...
Collect ==
  /\ copies = {} /\ noted # {}
  /\ copies' = {Event(id, record[id]) : id \in noted} /\ noted' = {}
  /\ UNCHANGED <<record, shut, stream, link, list, store, answer, ghosts, counts>>

\* ... and publishes the copies after it, one by one.  A copy that is old by
\* then is the last word on its session, unless the watcher has more to say.
PublishCopy(e) ==
  /\ e \in copies /\ copies' = copies \ {e} /\ Send(e)
  /\ astray' = IF link /\ e.rec # record[e.id] /\ e.id \notin noted THEN astray \cup {e.id} ELSE astray
  /\ UNCHANGED <<record, shut, noted, link, list, store, answer, outdated, unshelved, shelved, fresh, counts>>

Popped == [store EXCEPT !.eff = Tail(@)]

\* The connection is lost, with it what was on the way.  An Engine that was
\* restarted has written off the sessions whose holder did not answer, and its
\* watcher starts over with the others.
Restarted ==
  /\ \E gone \in SUBSET LiveIds(record) :
       record' = [id \in Ids |-> IF id \in gone THEN [record[id] EXCEPT !.st = WrittenOff(id)] ELSE record[id]]
  /\ noted' = LiveIds(record') /\ copies' = {}

Cut ==
  /\ MayHappen /\ cuts < MaxCuts /\ cuts' = cuts + 1
  /\ link /\ link' = FALSE /\ list' = NoList
  /\ \/ stream' = <<>> \/ UNCHANGED stream
  /\ Restarted \/ UNCHANGED <<record, noted, copies>>
  /\ answer' = NoAnswer /\ store' = IF answer = NoAnswer THEN store ELSE Popped
  /\ UNCHANGED <<shut, ghosts, clicks, changes, lost>>

-----------------------------------------------------------------------------
(* The tasks of StoreRuntime.                                              *)

\* The backoff leaves the event task the time to apply what it has received.
Reconnect ==
  /\ ~link /\ stream = <<>> /\ link' = TRUE /\ list' = Asked
  /\ UNCHANGED <<engineVars, stream, store, answer, ghosts, counts>>

\* sessions(): the Engine answers; the first `behind` events are older.
TakeList ==
  /\ list = Asked /\ list' = [at |-> "taken", rows |-> record, behind |-> Len(stream)]
  /\ outdated' = FALSE /\ astray' = {id \in astray : \E i \in 1..Len(stream) : stream[i].id = id}
  /\ UNCHANGED <<engineVars, stream, link, store, answer, unshelved, shelved, fresh, counts>>

ApplyList ==
  /\ list \notin {NoList, Asked}
  /\ store' = Hydrate(store, list.rows) /\ list' = NoList
  /\ UNCHANGED <<engineVars, stream, link, answer, ghosts, counts>>

ApplyEvent ==
  /\ stream # <<>> /\ stream' = Tail(stream)
  /\ store' = Apply(store, Head(stream))
  /\ LET id == Head(stream).id
     IN unshelved' = IF store.sel = id /\ Present(store, id) /\ ~Active(store, id) /\ Active(store', id)
                       THEN unshelved \cup {id} ELSE unshelved
  /\ IF list \in {NoList, Asked} THEN UNCHANGED <<list, outdated>>
     ELSE IF list.behind > 0 THEN list' = [list EXCEPT !.behind = @ - 1] /\ UNCHANGED outdated
     ELSE outdated' = TRUE /\ UNCHANGED list
  /\ UNCHANGED <<engineVars, link, answer, astray, shelved, fresh, counts>>

\* The Engine's queue for this client, or the channel to the event task, was
\* full: the oldest event there is dropped.  The notice of it is ignored.
Without(q, k) == [i \in 1..(Len(q) - 1) |-> IF i < k THEN q[i] ELSE q[i + 1]]

LoseEvent ==
  /\ MayHappen /\ lost < MaxLost /\ lost' = lost + 1
  /\ \E k \in 1..Len(stream) :
       /\ stream' = Without(stream, k) /\ astray' = astray \cup {stream[k].id}
       /\ list' = IF list \notin {NoList, Asked} /\ k <= list.behind
                    THEN [list EXCEPT !.behind = @ - 1] ELSE list
  /\ UNCHANGED <<engineVars, link, store, answer, outdated, unshelved, shelved, fresh, clicks, changes, cuts>>

\* run_effects: the Engine serves the first effect.  Most answers change nothing
\* here (the record follows as an event); a failure is shown and forgotten.
First == Head(store.eff)
NoReply == store' = Popped /\ UNCHANGED answer
Reply(id) == answer' = [op |-> First.op, id |-> id, rec |-> record'[id]] /\ UNCHANGED store

Serve ==
  /\ link /\ store.eff # <<>> /\ answer = NoAnswer
  /\ LET id == First.id  known == id \in Ids /\ record[id] # None IN
       \/ First.op = "seen" /\ known /\ Become(id, record[id]) /\ NoReply /\ UNCHANGED <<shut, noted>>
       \/ First.op = "remove" /\ known /\ RemoveAt(id) /\ NoReply
       \/ First.op = "archive" /\ known /\ ArchiveAt(id) /\ NoReply /\ UNCHANGED shut
       \/ First.op = "unarchive" /\ known /\ UnarchiveAt(id) /\ NoReply /\ UNCHANGED shut
       \/ /\ First.op = "resume" /\ known /\ record[id].st # "live" /\ noted' = noted \cup {id}
          /\ Become(id, [record[id] EXCEPT !.st = "live"]) /\ NoReply /\ UNCHANGED shut
       \/ /\ First.op = "spawn" /\ Become(id, Live) /\ noted' = noted \cup {id}
          /\ Reply(id) /\ UNCHANGED shut
       \/ /\ First.op = "reopen" /\ shut # <<>>
          /\ LET last == shut[Len(shut)] IN Become(last.id, last.rec) /\ Reply(last.id)
          /\ shut' = SubSeq(shut, 1, Len(shut) - 1) /\ UNCHANGED noted
       \/ /\ CASE First.op = "reopen" -> shut = <<>>
               [] First.op = "spawn"  -> FALSE
               [] First.op = "resume" -> TRUE
               [] OTHER -> ~known
          /\ NoReply /\ UNCHANGED <<record, shut, noted, stream>>
  /\ UNCHANGED <<copies, link, list, ghosts, counts>>

\* The Engine is out of reach.
Unserved ==
  /\ ~link /\ store.eff # <<>> /\ answer = NoAnswer /\ NoReply
  /\ UNCHANGED <<engineVars, stream, link, list, ghosts, counts>>

\* The watcher is still to publish how the session stands.
Awaited(id) == id \in noted \/ Event(id, record[id]) \in copies

\* The record a reopen answers with is old, and the event that says so applied.
Overtaken ==
  /\ answer.op = "reopen" /\ answer.rec # record[answer.id] /\ ~Awaited(answer.id)
  /\ \A i \in 1..Len(stream) : stream[i].id # answer.id

\* The answer to a spawn or a reopen: apply_spawn_result selects the session,
\* and a reopen brings its record along.
Finish ==
  /\ answer # NoAnswer /\ answer' = NoAnswer
  /\ outdated' = (outdated \/ Overtaken)
  /\ store' = Focus(IF answer.op = "spawn" THEN Popped ELSE Upsert(Popped, answer.id, answer.rec),
                    answer.id)
  /\ UNCHANGED <<engineVars, stream, link, list, astray, unshelved, shelved, fresh, counts>>

-----------------------------------------------------------------------------
(* The user.                                                               *)

Clicked ==
  /\ MayHappen /\ clicks < MaxClicks /\ clicks' = clicks + 1
  /\ UNCHANGED <<engineVars, stream, link, list, answer, outdated, astray, unshelved, changes, cuts, lost>>

Select(id) ==
  /\ Present(store, id) /\ id \notin store.closing
  /\ store' = Focus(store, id)
  /\ UNCHANGED <<shelved, fresh>> /\ Clicked

\* request_close: what runs is asked about first, if the preferences say so.
RequestClose(id) ==
  /\ Present(store, id) /\ id \notin store.closing
  /\ \/ store.ses[id].st = "live" /\ store' = [store EXCEPT !.asked = id]
     \/ store' = RemoveSession(store, id)
  /\ shelved' = shelved \ {id} /\ UNCHANGED fresh /\ Clicked

ConfirmPendingClose ==
  /\ store.asked # NoId
  /\ LateConfirm \/ Present(store, store.asked)
  /\ store' = RemoveSession([store EXCEPT !.asked = NoId], store.asked)
  /\ shelved' = shelved \ {store.asked} /\ UNCHANGED fresh /\ Clicked

CancelPendingClose ==
  /\ store.asked # NoId /\ store' = [store EXCEPT !.asked = NoId]
  /\ UNCHANGED <<shelved, fresh>> /\ Clicked

\* archive_sessions stamps the row ahead of the Engine's answer, ...
ArchiveSession(id) ==
  /\ Active(store, id) /\ id \notin store.closing
  /\ LET t == IF store.sel = id THEN FocusNeighbor(store, id) ELSE store
     IN store' = Emit([LoseTerminal(t, id) EXCEPT !.ses[id].arch = TRUE], "archive", id)
  /\ shelved' = shelved \cup {id} /\ UNCHANGED fresh /\ Clicked

\* ... and revive_sessions takes the stamp off.
ReviveSession(id) ==
  /\ Present(store, id) /\ store.ses[id].arch /\ id \notin store.closing
  /\ LET resumable == id \notin Shells /\ store.ses[id].st # "live"
     IN store' = Focus(Emit([store EXCEPT !.ses[id].arch = FALSE],
                            IF resumable THEN "resume" ELSE "unarchive", id), id)
  /\ shelved' = shelved \ {id} /\ UNCHANGED fresh /\ Clicked

SpawnSession(id) ==
  /\ id \in fresh /\ fresh' = fresh \ {id}
  /\ store' = Emit(store, "spawn", id) /\ UNCHANGED shelved /\ Clicked

ReopenLast ==
  /\ store' = Emit(store, "reopen", NoId) /\ UNCHANGED <<shelved, fresh>> /\ Clicked

-----------------------------------------------------------------------------
User ==
  \/ ConfirmPendingClose \/ CancelPendingClose \/ ReopenLast
  \/ \E id \in Ids : \/ Select(id) \/ RequestClose(id) \/ ArchiveSession(id)
                     \/ ReviveSession(id) \/ SpawnSession(id)

Next ==
  \/ User \/ Change \/ Collect \/ (\E e \in copies : PublishCopy(e)) \/ Cut \/ Reconnect
  \/ TakeList \/ ApplyList \/ ApplyEvent \/ LoseEvent \/ Serve \/ Unserved \/ Finish

Spec == Init /\ [][Next]_vars

-----------------------------------------------------------------------------
\* Nothing is on its way between the store and the Engine.
Settled ==
  /\ link /\ list = NoList /\ stream = <<>> /\ store.eff = <<>> /\ answer = NoAnswer
  /\ noted = {} /\ copies = {}

\* The store shows the Engine's sessions as they are.
StoreAgrees == \A id \in Ids \ astray : store.ses[id] = record[id]

\* No session of the Engine stays hidden: a closing row is closed in the end.
NoneHidden == \A id \in store.closing \ astray : record[id] = None

\* "without this, a session created from the UI stays "Preparing terminal"
\* forever": what is selected, and not archived, has the terminal.  (What was
\* selected while archived gets none when an event takes it out again.)
SelectedHasTerminal ==
  store.sel # NoId /\ Active(store, store.sel) /\ store.sel \notin unshelved =>
    store.res = store.sel

\* Whatever order events, listings, answers and clicks were applied in, and
\* whatever was lost with a connection, the store comes out right: all three.
\* Until the next connect this does not hold for a store that has put a list,
\* or a reopened record, in the place of what a newer event had told it; nor
\* for a session an old copy was the last word on, or an event of which was lost.
SettlesRight == Settled /\ ~outdated => StoreAgrees /\ NoneHidden /\ SelectedHasTerminal

\* What is selected is a row.
SelectedIsRow == Settled => store.sel = NoId \/ store.sel \in Rows(store)

\* "Ends the session but keeps its record on the shelf": no agent runs in the
\* archive.
ArchivedIsEnded ==
  Settled => \A id \in Ids : record[id] # None /\ record[id].arch => record[id].st # "live"

\* "it may only happen where nothing is lost": what the user put into the
\* archive is not closed by itself.
ArchivedIsKept == Settled => \A id \in shelved : record[id] # None

\* The store is well formed, and comes out right (SettlesRight).
AppInv == TypeOK /\ SettlesRight

=============================================================================
