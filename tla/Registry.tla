------------------------------ MODULE Registry ------------------------------
(***************************************************************************)
(* The registry of sessions (homie-engine/src/registry.rs) and the control *)
(* handlers that change it (control/handlers): spawn, kill, remove and     *)
(* reopen, archive, resume and migrate; the state file behind it, written  *)
(* at once or after a debounce (registry/flusher.rs); a daemon that stops  *)
(* or crashes and, when it is back, loads the file, adopts the holders     *)
(* that answer, writes off the rest (registry.rs, restore) and reattaches  *)
(* what runs on other hosts (control/runtime.rs).                          *)
(*                                                                         *)
(* A handler holds the registry lock from its first change to its last and *)
(* is one action, except resume and migrate, which let go of it between    *)
(* their steps.  A record is reduced to its host, whether its status       *)
(* claims a running agent, and the archive stamp.                          *)
(***************************************************************************)
EXTENDS Naturals, Sequences, FiniteSets

CONSTANTS
  Ids,           \* session ids; every spawn takes a fresh one
  Roaming,       \* the sessions of an agent that can be resumed and moved; the
                 \* others are local shells
  Threads,       \* control connections that resume or migrate
  ClosedCap,     \* the recently closed sessions kept: 10
  WritesFail,    \* may writing the state file fail?
  KillsFail,     \* may a remote agent be out of reach when it is to be killed?
  MigrateBeside  \* may a migration run beside a resume or the restore?

ASSUME RegistryAssumption ==
  /\ Roaming \subseteq Ids /\ ClosedCap \in Nat \ {0}
  /\ WritesFail \in BOOLEAN /\ KillsFail \in BOOLEAN /\ MigrateBeside \in BOOLEAN

VARIABLES
  up, restored,      \* the daemon serves; its remote sessions were looked up
  rec,               \* records
  ses,               \* sessions, with the host of the agent and whether it is over
  closed,            \* recently_closed
  dirty, warm,       \* a deferred persist; inside the debounce window
  job,               \* resumes and migrations under way
  file,              \* the state file
  bind,              \* the remote bindings on disk
  agent,             \* the hosts on which an agent of the session runs
  used,              \* ids given out
  missed, stray      \* a write failed; sessions with an agent out of control

daemonVars == <<up, restored, rec, ses, closed, dirty, warm, job>>
vars == <<daemonVars, file, bind, agent, used, missed, stray>>

Local == "local"
Remote == "remote"
Hosts == {Local, Remote}
HostsOf(id) == IF id \in Roaming THEN Hosts ELSE {Local}
None == [host |-> "none"]
Records == [host : Hosts, live : BOOLEAN, archived : BOOLEAN]
Sessions == [host : Hosts, over : BOOLEAN]
Idle == [pc |-> "idle"]
Jobs == [pc : {"begin", "respawn", "prepare", "rewrite"}, id : Ids, host : Hosts]
Empty == [id \in Ids |-> None]
ClosedIds == {closed[i].id : i \in 1..Len(closed)}

TypeOK ==
  /\ up \in BOOLEAN /\ restored \in BOOLEAN /\ dirty \in BOOLEAN /\ warm \in BOOLEAN
  /\ rec \in [Ids -> Records \cup {None}] /\ ses \in [Ids -> Sessions \cup {None}]
  /\ Len(closed) <= ClosedCap
  /\ \A i \in 1..Len(closed) : closed[i].id \in Ids /\ closed[i].rec \in Records
  /\ job \in [Threads -> Jobs \cup {Idle}]
  /\ file \in [Ids -> Records \cup {None}]
  /\ bind \subseteq Ids /\ agent \in [Ids -> SUBSET Hosts] /\ used \subseteq Ids
  /\ missed \in BOOLEAN /\ stray \subseteq Ids

Init ==
  /\ up = TRUE /\ restored = TRUE /\ rec = Empty /\ ses = Empty /\ closed = <<>>
  /\ dirty = FALSE /\ warm = FALSE /\ job = [t \in Threads |-> Idle]
  /\ file = Empty /\ bind = {} /\ agent = [id \in Ids |-> {}]
  /\ used = {} /\ missed = FALSE /\ stray = {}

-----------------------------------------------------------------------------
(* Views and saving.                                                       *)

\* fold_session_status: a session speaks for its record.
Fold(r, s) ==
  [id \in Ids |-> IF r[id] # None /\ s[id] # None
                    THEN [r[id] EXCEPT !.live = ~s[id].over] ELSE r[id]]

Live(id) == Fold(rec, ses)[id].live

\* persist_now: the temporary file and the rename, or an error on the way.
PersistNow ==
  \/ file' = Fold(rec', ses') /\ dirty' = FALSE /\ warm' = TRUE /\ missed' = FALSE
  \/ WritesFail /\ missed' = TRUE /\ UNCHANGED <<file, dirty, warm>>

\* Mutant: a persist inside the window is dropped instead of deferred.
PersistDropped ==
  IF warm THEN UNCHANGED <<file, dirty, warm, missed>> ELSE PersistNow

\* persist, whose error no handler looks at.
Persist ==
  IF warm THEN dirty' = TRUE /\ UNCHANGED <<file, warm, missed>> ELSE PersistNow

NoPersist == UNCHANGED <<file, dirty, warm, missed>>

\* The debounce window passes.
WindowEnds ==
  /\ up /\ warm /\ warm' = FALSE
  /\ UNCHANGED <<up, restored, rec, ses, closed, dirty, job, file, bind, agent, used, missed, stray>>

\* spawn_persist_flusher: flush_dirty every half second.
FlushDirty ==
  /\ up /\ dirty
  /\ UNCHANGED <<up, restored, rec, ses, closed, job, bind, agent, used, stray>>
  /\ PersistNow

-----------------------------------------------------------------------------
(* Handlers that hold the lock throughout.                                 *)

\* Mutant: the id may be in use already.
SpawnAgain(id, h) ==
  /\ up /\ h \in HostsOf(id)
  /\ used' = used \cup {id}
  /\ rec' = [rec EXCEPT ![id] = [host |-> h, live |-> TRUE, archived |-> FALSE]]
  /\ ses' = [ses EXCEPT ![id] = [host |-> h, over |-> FALSE]]
  /\ agent' = [agent EXCEPT ![id] = {h}]
  /\ bind' = IF h = Remote THEN bind \cup {id} ELSE bind
  /\ Persist
  /\ UNCHANGED <<up, restored, closed, job, stray>>

\* session_spawn: a record and a session, once the agent is running.
Spawn(id, h) ==
  /\ up /\ id \notin used /\ h \in HostsOf(id)
  /\ used' = used \cup {id}
  /\ rec' = [rec EXCEPT ![id] = [host |-> h, live |-> TRUE, archived |-> FALSE]]
  /\ ses' = [ses EXCEPT ![id] = [host |-> h, over |-> FALSE]]
  /\ agent' = [agent EXCEPT ![id] = {h}]
  /\ bind' = IF h = Remote THEN bind \cup {id} ELSE bind
  /\ Persist
  /\ UNCHANGED <<up, restored, closed, job, stray>>

\* Registry::terminate: the session leaves the map before its agent is ended.
\* Only a remote agent that is not known to have ended may be out of reach.
Terminate(id) ==
  LET s == [ses EXCEPT ![id] = None]
      a == [agent EXCEPT ![id] = @ \ {ses[id].host}]
      over == [rec EXCEPT ![id] = IF @ = None THEN @ ELSE [@ EXCEPT !.live = FALSE]]
  IN IF ses[id] = None THEN {[ok |-> TRUE, ses |-> ses, agent |-> agent, rec |-> rec]}
     ELSE {[ok |-> TRUE, ses |-> s, agent |-> a, rec |-> over]}
            \cup IF KillsFail /\ ses[id].host = Remote /\ ~ses[id].over
                   THEN {[ok |-> FALSE, ses |-> s, agent |-> x, rec |-> rec] : x \in {agent, a}}
                   ELSE {}

\* Mutant: the binding goes even though the agent could not be killed.
KillForgets(id) ==
  /\ up /\ ses[id] # None
  /\ \E k \in Terminate(id) :
       /\ ses' = k.ses /\ agent' = k.agent /\ rec' = k.rec
       /\ IF k.ok THEN Persist ELSE NoPersist
       /\ bind' = bind \ {id}
  /\ UNCHANGED <<up, restored, closed, job, used, stray>>

\* session_kill
Kill(id) ==
  /\ up /\ ses[id] # None
  /\ \E k \in Terminate(id) :
       /\ ses' = k.ses /\ agent' = k.agent /\ rec' = k.rec
       /\ IF k.ok THEN Persist /\ bind' = bind \ {id} ELSE NoPersist /\ UNCHANGED bind
  /\ UNCHANGED <<up, restored, closed, job, used, stray>>

\* The agents of a session that nothing leads to any more.
LeftBehind(id, a) == IF a[id] = {} THEN stray ELSE stray \cup {id}

Push(id, r) ==
  LET longer == Append(closed, [id |-> id, rec |-> r])
  IN closed' = IF Len(longer) > ClosedCap THEN Tail(longer) ELSE longer

\* session_remove: whatever becomes of the agent, record and binding go.
Remove(id) ==
  /\ up /\ rec[id] # None
  /\ \E k \in Terminate(id) :
       /\ ses' = k.ses /\ agent' = k.agent
       /\ rec' = [k.rec EXCEPT ![id] = None]
       /\ Push(id, k.rec[id])
       /\ stray' = LeftBehind(id, k.agent)
  /\ Persist /\ bind' = bind \ {id}
  /\ UNCHANGED <<up, restored, job, used>>

\* session_reopen_last: the newest whose folder is there (that of a remote
\* session always qualifies).
Reopen(k) ==
  /\ up /\ k \in 1..Len(closed)
  /\ \A i \in k + 1..Len(closed) : closed[i].rec.host = Local
  /\ rec' = [rec EXCEPT ![closed[k].id] = closed[k].rec]
  /\ closed' = SubSeq(closed, 1, k - 1)
  /\ UNCHANGED <<up, restored, ses, job, bind, agent, used, stray>>
  /\ Persist

\* ... or none of them.
ReopenNone ==
  /\ up /\ closed # <<>> /\ \A i \in 1..Len(closed) : closed[i].rec.host = Local
  /\ closed' = <<>>
  /\ UNCHANGED <<up, restored, rec, ses, dirty, warm, job, file, bind, agent, used, missed, stray>>

\* session_archive
Archive(id) ==
  /\ up /\ rec[id] # None
  /\ \E k \in Terminate(id) :
       /\ ses' = k.ses /\ agent' = k.agent
       /\ rec' = [k.rec EXCEPT ![id].archived = TRUE, ![id].live = FALSE]
  /\ Persist
  /\ UNCHANGED <<up, restored, closed, job, bind, used, stray>>

\* session_unarchive; session_rename, session_mark_seen and hook metadata change
\* what a record says in the same way.
Unarchive(id) ==
  /\ up /\ rec[id] # None
  /\ rec' = [rec EXCEPT ![id].archived = FALSE]
  /\ UNCHANGED <<up, restored, ses, closed, job, bind, agent, used, stray>>
  /\ Persist

\* changed_since folds what the session says into the record, unsaved.
Watch(id) ==
  /\ up /\ rec[id] # None /\ ses[id] # None /\ rec[id].live # ~ses[id].over
  /\ rec' = [rec EXCEPT ![id].live = ~ses[id].over]
  /\ UNCHANGED <<up, restored, ses, closed, job, file, dirty, warm, bind, agent, used, missed, stray>>

-----------------------------------------------------------------------------
(* Resume and migrate: the lock is let go of between their steps.          *)

Done(t) == job' = [job EXCEPT ![t] = Idle]
Busy(id) == \E t \in Threads : job[t] # Idle /\ job[t].id = id

\* session_resume looks at the record; a session that is live needs nothing.
LookAt(t, id) ==
  IF rec[id] = None \/ (ses[id] # None /\ Live(id)) THEN Done(t)
  ELSE job' = [job EXCEPT ![t] = [pc |-> "respawn", id |-> id, host |-> rec[id].host]]

Resume(t, id) ==
  /\ up /\ job[t] = Idle /\ rec[id] # None
  /\ \A u \in Threads : job[u] # Idle /\ job[u].id = id => job[u].pc = "respawn" \/ MigrateBeside
  /\ LookAt(t, id)
  /\ UNCHANGED <<up, restored, rec, ses, closed, dirty, warm, file, bind, agent, used, missed, stray>>

\* The second look, the eviction of a corpse, and Registry::respawn with the
\* host of the first look.  A live remote holder refuses a second launch.
Respawn(t) ==
  /\ up /\ job[t].pc = "respawn"
  /\ LET id == job[t].id  h == job[t].host IN
       /\ rec[id] # None /\ ~(ses[id] # None /\ Live(id))
       /\ \E k \in Terminate(id) :
            \/ /\ h \notin k.agent[id]
               /\ ses' = [k.ses EXCEPT ![id] = [host |-> h, over |-> FALSE]]
               /\ agent' = [k.agent EXCEPT ![id] = @ \cup {h}]
               /\ rec' = [k.rec EXCEPT ![id].live = TRUE]
               /\ bind' = IF h = Remote THEN bind \cup {id} ELSE bind
               /\ Persist
            \/ /\ ses' = k.ses /\ agent' = k.agent /\ rec' = k.rec
               /\ UNCHANGED bind /\ NoPersist
  /\ Done(t)
  /\ UNCHANGED <<up, restored, closed, used, stray>>

\* The record is gone by now, or the session is live.
RespawnMoot(t) ==
  /\ up /\ job[t].pc = "respawn"
  /\ LET id == job[t].id IN rec[id] = None \/ (ses[id] # None /\ Live(id))
  /\ Done(t)
  /\ UNCHANGED <<up, restored, rec, ses, closed, dirty, warm, file, bind, agent, used, missed, stray>>

\* session_migrate: prepare, with the agent still alive, ...
Migrate(t, id, h) ==
  /\ up /\ job[t] = Idle /\ rec[id] # None /\ rec[id].host # h
  /\ (restored /\ ~Busy(id)) \/ MigrateBeside
  /\ job' = [job EXCEPT ![t] = [pc |-> "prepare", id |-> id, host |-> h]]
  /\ UNCHANGED <<up, restored, rec, ses, closed, dirty, warm, file, bind, agent, used, missed, stray>>

\* ... which may fail, ...
PrepareFails(t) ==
  /\ up /\ job[t].pc = "prepare"
  /\ Done(t)
  /\ UNCHANGED <<up, restored, rec, ses, closed, dirty, warm, file, bind, agent, used, missed, stray>>

\* ... stop the source, whatever comes of it, ...
StopSource(t) ==
  /\ up /\ job[t].pc = "prepare"
  /\ \E k \in Terminate(job[t].id) :
       /\ ses' = k.ses /\ agent' = k.agent /\ rec' = k.rec
       /\ stray' = LeftBehind(job[t].id, k.agent)
  /\ job' = [job EXCEPT ![t].pc = "rewrite"]
  /\ UNCHANGED <<up, restored, closed, dirty, warm, file, bind, used, missed>>

\* ... and rewrite the record, to be resumed on the other host.
RewriteRecord(t) ==
  /\ up /\ job[t].pc = "rewrite"
  /\ LET id == job[t].id IN
       rec' = [rec EXCEPT ![id] = IF @ = None THEN @
                                  ELSE [@ EXCEPT !.host = job[t].host, !.live = FALSE]]
  /\ UNCHANGED <<up, restored, ses, closed, bind, agent, used, stray>>
  /\ Persist
  /\ job' = [job EXCEPT ![t].pc = "begin"]

ResumeMoved(t) ==
  /\ up /\ job[t].pc = "begin"
  /\ LookAt(t, job[t].id)
  /\ UNCHANGED <<up, restored, rec, ses, closed, dirty, warm, file, bind, agent, used, missed, stray>>

-----------------------------------------------------------------------------
(* Agents, and the daemon's life.                                          *)

AgentEnds(id, h) ==
  /\ h \in agent[id]
  /\ agent' = [agent EXCEPT ![id] = @ \ {h}]
  /\ UNCHANGED <<daemonVars, file, bind, used, missed, stray>>

\* The session's pump notices (HeldSession, and the remote pump).
SessionNotices(id) ==
  /\ up /\ ses[id] # None /\ ~ses[id].over /\ ses[id].host \notin agent[id]
  /\ ses' = [ses EXCEPT ![id].over = TRUE]
  /\ UNCHANGED <<up, restored, rec, closed, dirty, warm, job, file, bind, agent, used, missed, stray>>

\* What the file knows nothing of, or puts on the wrong host, is lost.
Untraceable(f) ==
  {id \in Ids : \E h \in agent[id] : f[id] = None \/ f[id].host # h}

\* The process ends, and with it all that is not on disk.
Gone ==
  /\ up' = FALSE /\ restored' = FALSE
  /\ rec' = Empty /\ ses' = Empty /\ closed' = <<>> /\ dirty' = FALSE /\ warm' = FALSE
  /\ job' = [t \in Threads |-> Idle]
  /\ missed' = FALSE /\ stray' = stray \cup Untraceable(file')
  /\ UNCHANGED <<bind, agent, used>>

Crash == up /\ UNCHANGED file /\ Gone

\* daemon_shutdown: a persist, and an exit that runs no destructor; a persist
\* deferred by the window is lost unless the flusher comes first.
Shutdown ==
  /\ up /\ file' = IF warm THEN file ELSE Fold(rec, ses)
  /\ Gone

\* adopt_live_holders: the holders that answer and have a record.
Adopted(r) == [id \in Ids |-> IF r[id] # None /\ Local \in agent[id]
                                THEN [host |-> Local, over |-> FALSE] ELSE None]

\* reap_orphans: local records that claim an agent no session stands for.
Orphans(r, s) ==
  {id \in Ids : r[id] # None /\ s[id] = None /\ r[id].host = Local /\ r[id].live}

\* The daemon starts: load, adopt, reap.
Restart ==
  /\ ~up /\ up' = TRUE
  /\ ses' = Adopted(file)
  /\ LET orphans == Orphans(file, ses') IN
       /\ rec' = [id \in Ids |-> IF id \in orphans THEN [file[id] EXCEPT !.live = FALSE] ELSE file[id]]
       /\ IF orphans # {} THEN PersistNow ELSE NoPersist
  /\ UNCHANGED <<restored, closed, job, bind, agent, used, stray>>

\* A file that does not parse is put aside, and the registry starts empty.
RestartDamaged ==
  /\ ~up /\ up' = TRUE
  /\ file' = Empty /\ stray' = stray \cup Untraceable(Empty)
  /\ UNCHANGED <<restored, rec, ses, closed, dirty, warm, job, bind, agent, used, missed>>

\* restore_remote_bindings, under one lock: of the bindings whose host answers,
\* the dead and the exited are killed and forgotten, the others reattached.
RestoreRemote ==
  /\ up /\ ~restored /\ restored' = TRUE
  /\ \E answer \in SUBSET {id \in bind : rec[id] # None /\ rec[id].host = Remote} :
       LET over == {id \in answer : ~Live(id) \/ Remote \notin agent[id]}
       IN \E killed \in SUBSET over :
            /\ KillsFail \/ killed = over
            /\ agent' = [id \in Ids |-> IF id \in killed THEN agent[id] \ {Remote} ELSE agent[id]]
            /\ bind' = bind \ over
            /\ stray' = stray \cup {id \in over : Remote \in agent'[id]}
            /\ ses' = [id \in Ids |-> IF id \in answer \ over
                                        THEN [host |-> Remote, over |-> FALSE] ELSE ses[id]]
  /\ UNCHANGED <<up, rec, closed, dirty, warm, job, file, used, missed>>

-----------------------------------------------------------------------------
Handler ==
  \/ \E id \in Ids : \/ Kill(id) \/ Remove(id) \/ Watch(id) \/ SessionNotices(id)
                     \/ \E h \in Hosts : Spawn(id, h) \/ AgentEnds(id, h)
  \/ \E id \in Roaming : Archive(id) \/ Unarchive(id)
  \/ ReopenNone \/ \E k \in 1..ClosedCap : Reopen(k)

Request ==
  \E t \in Threads :
    \/ Respawn(t) \/ RespawnMoot(t) \/ PrepareFails(t) \/ StopSource(t)
    \/ RewriteRecord(t) \/ ResumeMoved(t)
    \/ \E id \in Roaming : Resume(t, id) \/ \E h \in Hosts : Migrate(t, id, h)

Next ==
  \/ Handler \/ Request \/ WindowEnds \/ FlushDirty
  \/ Crash \/ Shutdown \/ Restart \/ RestartDamaged \/ RestoreRemote

Spec == Init /\ [][Next]_vars

-----------------------------------------------------------------------------
\* What a record says that only the user or a handler changes.
Stored(r) == [id \in Ids |-> IF r[id] = None THEN None
                             ELSE [host |-> r[id].host, archived |-> r[id].archived]]

\* While no write is pending the file holds every session of the registry and
\* no other, with host and archive stamp: nothing was changed without being
\* saved or marked for the flusher, unless a write failed.
CleanMeansSaved == up /\ ~dirty => Stored(file) = Stored(rec) \/ missed

\* An agent that runs is one the registry can reach: its session is in the
\* map, or its record and binding let the next restore find it.  The others
\* are those a crash, a damaged file or a host out of reach took away.
AgentInReach ==
  up => \A id \in Ids : \A h \in agent[id] :
          \/ ses[id] # None /\ ses[id].host = h
          \/ h = Remote /\ id \in bind /\ rec[id] # None /\ rec[id].host = Remote
          \/ id \in stray
          \/ \E t \in Threads : job[t] # Idle /\ job[t].id = id

\* "a record can never go on claiming a status only a live holder could report"
NoFalseLive ==
  up => \A id \in Ids : rec[id] # None /\ rec[id].host = Local /\ rec[id].live => ses[id] # None

\* A session runs where its record says.
SessionWhereRecordSays ==
  \A id \in Ids \ stray : ses[id] # None /\ ~Busy(id) => ses[id].host = rec[id].host

\* A session in the map has a record, and no closed session does.
ClosedApart ==
  /\ \A id \in Ids : ses[id] # None => rec[id] # None
  /\ \A i \in 1..Len(closed) :
       rec[closed[i].id] = None /\ \A j \in 1..Len(closed) : closed[i].id = closed[j].id => i = j

\* The registry starts an agent only when none of the session runs.
Agents == INSTANCE AgentLife WITH running <- agent, writtenOff <- stray
OneAgent == Agents!Spec

\* "A deferred persist must not die with the process": what was changed is on
\* disk when the daemon has been shut down.
ShutdownSaves == [][Shutdown => Stored(file') = Stored(rec)]_vars

\* The parts of the registry agree: records, sessions, the closed stack and,
\* while nothing is pending, the file.
RegistryInv == TypeOK /\ NoFalseLive /\ SessionWhereRecordSays /\ ClosedApart /\ CleanMeansSaved

=============================================================================
