--------------------------- MODULE RegistryProofs ---------------------------
(***************************************************************************)
(* The registry (module Registry), for any sessions, connections and       *)
(* bounds: its parts agree, an agent that runs can be reached, and a       *)
(* session has one agent at a time, whatever is resumed, migrated, killed, *)
(* closed and reopened, and whenever the daemon stops or crashes.          *)
(*                                                                         *)
(* The inductive invariant says for each session how its record, its       *)
(* handle, its binding and its agents go together (Coherent), what the     *)
(* closed stack may hold (ClosedInv), that a migration has its session to  *)
(* itself while a resume knows the host of the record (JobsInv), and that  *)
(* the file is current unless a write is due or has failed (Saved).        *)
(***************************************************************************)
EXTENDS Registry, SequenceTheorems, TLAPS

ClosedRecords == [id : Ids, rec : Records]
ClosedSeq == Seq(ClosedRecords)

RegistryType ==
  /\ up \in BOOLEAN /\ restored \in BOOLEAN /\ dirty \in BOOLEAN /\ warm \in BOOLEAN
  /\ rec \in [Ids -> Records \cup {None}] /\ ses \in [Ids -> Sessions \cup {None}]
  /\ closed \in ClosedSeq /\ Len(closed) <= ClosedCap
  /\ job \in [Threads -> Jobs \cup {Idle}]
  /\ file \in [Ids -> Records \cup {None}]
  /\ bind \subseteq Ids /\ agent \in [Ids -> SUBSET Hosts] /\ used \subseteq Ids
  /\ missed \in BOOLEAN /\ stray \subseteq Ids

\* Record, handle, binding and agents of one session.
Coherent(id) ==
  /\ (rec[id] # None \/ file[id] # None \/ agent[id] # {}) => id \in used
  /\ ses[id] # None => /\ rec[id] # None
                       /\ ses[id].host = Remote => rec[id].host = Remote
                       /\ ses[id].over => ses[id].host \notin agent[id]
  /\ up /\ rec[id] # None /\ rec[id].host = Local /\ rec[id].live => ses[id] # None
  /\ id \notin stray =>
       /\ ses[id] # None => ses[id].host = rec[id].host
       /\ Remote \in agent[id] => id \in bind
       /\ \A h \in agent[id] :
            IF up THEN \/ ses[id] # None /\ ses[id].host = h
                       \/ h = Remote /\ rec[id] # None /\ rec[id].host = Remote
                  ELSE file[id] # None /\ file[id].host = h

\* A closed session has no record, and is there once.
ClosedInv ==
  \A i \in 1..Len(closed) :
    /\ closed[i].id \in used /\ rec[closed[i].id] = None
    /\ closed[i].rec.host = Local => ~closed[i].rec.live
    /\ \A j \in 1..Len(closed) : closed[i].id = closed[j].id => i = j

\* Resumes of a session may be several; a migration is alone until it resumes.
JobsInv ==
  \A t \in Threads : job[t] # Idle =>
    /\ job[t].id \in used
    /\ job[t].pc # "respawn" =>
         restored /\ \A u \in Threads \ {t} : job[u] # Idle => job[u].id # job[t].id
    /\ job[t].pc = "rewrite" =>
         ses[job[t].id] = None /\ (agent[job[t].id] = {} \/ job[t].id \in stray)
    /\ job[t].pc = "respawn" =>
         /\ rec[job[t].id] # None => rec[job[t].id].host = job[t].host
         /\ \A i \in 1..Len(closed) : closed[i].id = job[t].id => closed[i].rec.host = job[t].host

\* A daemon that is down holds nothing.
DownInv ==
  ~up => /\ ~restored /\ rec = Empty /\ ses = Empty /\ closed = <<>> /\ ~dirty /\ ~warm
         /\ \A t \in Threads : job[t] = Idle

\* The invariant the induction carries.
RegistryIInv ==
  /\ RegistryType /\ (\A id \in Ids : Coherent(id))
  /\ ClosedInv /\ JobsInv /\ DownInv /\ CleanMeansSaved

-----------------------------------------------------------------------------
(* What the operators give.                                                *)

\* A record, a session and a job are told from their absence.
LEMMA NotNone ==
  /\ \A r \in Records : r # None /\ r.host \in Hosts /\ r.live \in BOOLEAN /\ r.archived \in BOOLEAN
  /\ \A s \in Sessions : s # None /\ s.host \in Hosts /\ s.over \in BOOLEAN
  /\ \A j \in Jobs : j # Idle /\ j.id \in Ids /\ j.host \in Hosts
                     /\ j.pc \in {"begin", "respawn", "prepare", "rewrite"}
  /\ Local # Remote /\ Hosts = {Local, Remote}
<1>1. \A r \in Records : r # None /\ r.host \in Hosts /\ r.live \in BOOLEAN /\ r.archived \in BOOLEAN
  BY DEF Records, None, Hosts, Local, Remote
<1>2. \A s \in Sessions : s # None /\ s.host \in Hosts /\ s.over \in BOOLEAN
  BY DEF Sessions, None, Hosts, Local, Remote
<1>3. \A j \in Jobs : j # Idle /\ j.id \in Ids /\ j.host \in Hosts
                     /\ j.pc \in {"begin", "respawn", "prepare", "rewrite"}
  BY DEF Jobs, Idle
<1>4. Local # Remote /\ Hosts = {Local, Remote}
  BY DEF Local, Remote, Hosts
<1> QED BY <1>1, <1>2, <1>3, <1>4

RecordMap == [Ids -> Records \cup {None}]
SessionMap == [Ids -> Sessions \cup {None}]

\* A session that speaks for its record changes no more than its status.
LEMMA FoldIs ==
  ASSUME NEW r \in RecordMap, NEW s \in SessionMap
  PROVE  /\ Fold(r, s) \in RecordMap /\ Stored(Fold(r, s)) = Stored(r)
         /\ \A id \in Ids : Fold(r, s)[id] = None <=> r[id] = None
<1>1. ASSUME NEW id \in Ids
      PROVE  /\ Fold(r, s)[id] \in Records \cup {None}
             /\ Fold(r, s)[id] = None <=> r[id] = None
             /\ r[id] # None => /\ Fold(r, s)[id].host = r[id].host
                                /\ Fold(r, s)[id].archived = r[id].archived
  <2>1. CASE r[id] # None /\ s[id] # None
    <3> DEFINE o == ~s[id].over
    <3>1. r[id] \in Records /\ o \in BOOLEAN
      BY <2>1, NotNone, Zenon DEF RecordMap
    <3>2. Fold(r, s)[id] = [r[id] EXCEPT !.live = o]
      BY <2>1 DEF Fold
    <3> HIDE DEF o
    <3>3. [r[id] EXCEPT !.live = o] \in Records
      BY <3>1 DEF Records
    <3> QED BY <2>1, <3>1, <3>2, <3>3, NotNone DEF Records
  <2>2. CASE ~(r[id] # None /\ s[id] # None)
    BY <2>2 DEF Fold, RecordMap
  <2> QED BY <2>1, <2>2
<1>2. Fold(r, s) \in RecordMap
  BY <1>1 DEF Fold, RecordMap
<1>3. Stored(Fold(r, s)) = Stored(r)
  BY <1>1 DEF Stored
<1> QED BY <1>1, <1>2, <1>3

\* What a write of the file leaves: it is current, or due, or it failed.
Saves ==
  /\ file' \in RecordMap /\ dirty' \in BOOLEAN /\ warm' \in BOOLEAN /\ missed' \in BOOLEAN
  /\ ~dirty' => Stored(file') = Stored(rec') \/ missed'
  /\ \A id \in Ids : file'[id] # None => file[id] # None \/ rec'[id] # None

\* This is what Persist and PersistNow do, whether the write fails or not.
LEMMA PersistIs ==
  ASSUME RegistryType, rec' \in RecordMap, ses' \in SessionMap, Persist \/ PersistNow
  PROVE  Saves
<1>1. file \in RecordMap /\ dirty \in BOOLEAN /\ warm \in BOOLEAN /\ missed \in BOOLEAN
      /\ TRUE \in BOOLEAN /\ FALSE \in BOOLEAN
  <2>1. TRUE \in BOOLEAN /\ FALSE \in BOOLEAN
    BY Zenon
  <2> QED BY <2>1 DEF RegistryType, RecordMap
<1>2. CASE file' = Fold(rec', ses') /\ dirty' = FALSE /\ warm' = TRUE /\ missed' = FALSE
  BY <1>1, <1>2, FoldIs DEF Saves
<1>3. CASE missed' = TRUE /\ UNCHANGED <<file, dirty, warm>>
  BY <1>1, <1>3 DEF Saves
<1>4. CASE dirty' = TRUE /\ UNCHANGED <<file, warm, missed>>
  BY <1>1, <1>4 DEF Saves
<1> QED BY <1>2, <1>3, <1>4 DEF Persist, PersistNow

\* Nothing the file keeps was changed.
LEMMA NoPersistIs ==
  ASSUME RegistryIInv, up, NoPersist, Stored(rec') = Stored(rec)
  PROVE  Saves
BY DEF NoPersist, Saves, RegistryIInv, RegistryType, CleanMeansSaved, RecordMap

\* A terminated session: its handle is gone, its record keeps its host, and an
\* agent that is left is one the binding leads to.
Ended(k, id) ==
  /\ k.ses \in SessionMap /\ k.agent \in [Ids -> SUBSET Hosts] /\ k.rec \in RecordMap
  /\ k.ses[id] = None /\ k.agent[id] \subseteq agent[id]
  /\ \A j \in Ids \ {id} : k.ses[j] = ses[j] /\ k.agent[j] = agent[j] /\ k.rec[j] = rec[j]
  /\ k.rec[id] = None <=> rec[id] = None
  /\ rec[id] # None => /\ k.rec[id].host = rec[id].host
                       /\ k.rec[id].archived = rec[id].archived
                       /\ k.rec[id].host = Local => ~k.rec[id].live
  /\ id \notin stray => \A h \in k.agent[id] : h = Remote /\ rec[id] # None /\ rec[id].host = Remote
  /\ k.ok /\ ses[id] # None /\ id \notin stray => k.agent[id] = {}
  /\ ses[id] = None \/ ses[id].over => k.agent = agent

\* What terminate gives back.
LEMMA TerminateIs ==
  ASSUME RegistryIInv, up, NEW id \in Ids, NEW k \in Terminate(id)
  PROVE  Ended(k, id)
<1>0. /\ ses \in SessionMap /\ agent \in [Ids -> SUBSET Hosts] /\ rec \in RecordMap
      /\ Coherent(id)
  BY DEF RegistryIInv, RegistryType, SessionMap, RecordMap
<1>1. CASE ses[id] = None
  <2>1. k = [ok |-> TRUE, ses |-> ses, agent |-> agent, rec |-> rec]
    BY <1>1 DEF Terminate
  <2> QED BY <1>0, <1>1, <2>1 DEF Ended, Coherent
<1>2. CASE ses[id] # None
  <2> DEFINE s == [ses EXCEPT ![id] = None]
             a == [agent EXCEPT ![id] = @ \ {ses[id].host}]
             over == [rec EXCEPT ![id] = IF @ = None THEN @ ELSE [@ EXCEPT !.live = FALSE]]
  <2>1. s \in SessionMap /\ s[id] = None /\ \A j \in Ids \ {id} : s[j] = ses[j]
    BY <1>0 DEF SessionMap
  <2>2. /\ a \in [Ids -> SUBSET Hosts] /\ a[id] = agent[id] \ {ses[id].host}
        /\ \A j \in Ids \ {id} : a[j] = agent[j]
    BY <1>0
  <2>3. /\ rec[id] \in Records /\ over[id] = [rec[id] EXCEPT !.live = FALSE]
        /\ \A j \in Ids \ {id} : over[j] = rec[j]
    BY <1>0, <1>2 DEF Coherent, RecordMap
  <2>4. /\ over[id] \in Records /\ over[id].host = rec[id].host /\ ~over[id].live
        /\ over[id].archived = rec[id].archived
    <3>1. FALSE \in BOOLEAN
      BY Zenon
    <3> QED BY <2>3, <3>1 DEF Records
  <2>5. over \in RecordMap
    BY <1>0, <2>3, <2>4 DEF RecordMap
  <2>6. ses[id].over => a = agent
    BY <1>0, <1>2, <2>2 DEF Coherent
  <2>7. ses[id] \in Sessions /\ ses[id] # None /\ ses[id].host \in {Local, Remote}
    BY <1>0, <1>2, NotNone DEF SessionMap
  <2>8. \/ k = [ok |-> TRUE, ses |-> s, agent |-> a, rec |-> over]
        \/ /\ ses[id].host = Remote /\ ~ses[id].over
           /\ \E x \in {agent, a} : k = [ok |-> FALSE, ses |-> s, agent |-> x, rec |-> rec]
    BY <1>2 DEF Terminate
  <2> HIDE DEF s, a, over
  <2>9. CASE k = [ok |-> TRUE, ses |-> s, agent |-> a, rec |-> over]
    <3>1. k.ok /\ k.ses = s /\ k.agent = a /\ k.rec = over
      BY <2>9
    <3>2. id \notin stray => a[id] = {}
      BY <1>0, <1>2, <2>2, <2>7 DEF Coherent
    <3> QED BY <1>2, <2>1, <2>2, <2>3, <2>4, <2>5, <2>6, <3>1, <3>2, NotNone DEF Ended
  <2>10. ASSUME ses[id].host = Remote /\ ~ses[id].over, NEW x \in {agent, a},
                k = [ok |-> FALSE, ses |-> s, agent |-> x, rec |-> rec]
         PROVE  Ended(k, id)
    <3>1. ~k.ok /\ k.ses = s /\ k.agent = x /\ k.rec = rec
      BY <2>10
    <3>2. rec[id].host = Remote /\ rec[id] # None
      BY <1>0, <1>2, <2>10 DEF Coherent
    <3>3. /\ x \in [Ids -> SUBSET Hosts] /\ x[id] \subseteq agent[id]
          /\ \A j \in Ids \ {id} : x[j] = agent[j]
      BY <1>0, <2>2
    <3>4. id \notin stray => \A h \in x[id] : h = Remote
      BY <1>0, <1>2, <2>10, <3>3 DEF Coherent
    <3> QED BY <1>0, <1>2, <2>1, <2>10, <3>1, <3>2, <3>3, <3>4, NotNone DEF Ended
  <2> QED BY <2>8, <2>9, <2>10
<1> QED BY <1>1, <1>2

-----------------------------------------------------------------------------
(* What a step that touches one session leaves alone.                      *)

\* The other sessions.
Apart(id) ==
  /\ \A j \in Ids \ {id} : /\ rec'[j] = rec[j] /\ ses'[j] = ses[j] /\ agent'[j] = agent[j]
                           /\ j \in bind <=> j \in bind'
  /\ used \subseteq used' /\ stray \subseteq stray'

\* The sessions a step does not touch stay as they are.
LEMMA OthersCoherent ==
  ASSUME RegistryIInv, up, up', NEW id \in Ids, Apart(id), Saves, Coherent(id)'
  PROVE  \A j \in Ids : Coherent(j)'
<1> SUFFICES ASSUME NEW j \in Ids \ {id} PROVE Coherent(j)'
  OBVIOUS
<1>1. Coherent(j)
  BY DEF RegistryIInv
<1> QED BY <1>1 DEF Apart, Saves, Coherent

\* What closed sessions, resumes and migrations rely on.
Calm ==
  /\ \A j \in used : /\ rec'[j] # None => rec[j] # None /\ rec'[j].host = rec[j].host
                     /\ ses[j] = None => ses'[j] = None
                     /\ agent'[j] \subseteq agent[j]
  /\ used \subseteq used' /\ stray \subseteq stray' /\ restored' = restored

\* The closed stack after a calm step.
LEMMA CalmClosed ==
  ASSUME RegistryIInv, Calm, closed' = closed
  PROVE  ClosedInv' /\ closed' \in ClosedSeq /\ Len(closed') <= ClosedCap
<1>1. \A i \in 1..Len(closed) : closed[i].id \in used
  BY DEF RegistryIInv, ClosedInv
<1> QED BY <1>1 DEF RegistryIInv, RegistryType, ClosedInv, Calm

\* Where the closed sessions come from.
ClosedFrom ==
  \A i \in 1..Len(closed') :
    \/ \E j \in 1..Len(closed) : closed'[i] = closed[j]
    \/ rec[closed'[i].id] # None /\ closed'[i].rec.host = rec[closed'[i].id].host

\* The jobs after a calm step.
LEMMA CalmJobs ==
  ASSUME RegistryIInv, Calm, closed' = closed \/ ClosedFrom,
         \A t \in Threads : job'[t] \in {job[t], Idle}
  PROVE  JobsInv'
<1> SUFFICES ASSUME NEW t \in Threads, job'[t] # Idle
             PROVE  /\ job'[t].id \in used'
                    /\ job'[t].pc # "respawn" =>
                         /\ restored'
                         /\ \A u \in Threads \ {t} : job'[u] # Idle => job'[u].id # job'[t].id
                    /\ job'[t].pc = "rewrite" =>
                         /\ ses'[job'[t].id] = None
                         /\ agent'[job'[t].id] = {} \/ job'[t].id \in stray'
                    /\ job'[t].pc = "respawn" =>
                         /\ rec'[job'[t].id] # None => rec'[job'[t].id].host = job'[t].host
                         /\ \A i \in 1..Len(closed') :
                              closed'[i].id = job'[t].id => closed'[i].rec.host = job'[t].host
  BY DEF JobsInv
<1>1. job'[t] = job[t] /\ job[t] # Idle
  OBVIOUS
<1>2. JobsInv
  BY DEF RegistryIInv
<1>3. job[t].id \in used
  BY <1>1, <1>2 DEF JobsInv
<1>4. job[t].pc = "respawn" =>
        \A i \in 1..Len(closed') : closed'[i].id = job[t].id => closed'[i].rec.host = job[t].host
  BY <1>1, <1>2 DEF JobsInv, ClosedFrom
<1> QED BY <1>1, <1>2, <1>3, <1>4 DEF JobsInv, Calm

\* The daemon stays up: what is left to show of a step.
LEMMA StepDone ==
  ASSUME RegistryIInv, up, up' = up, restored' = restored, Saves,
         rec' \in RecordMap, ses' \in SessionMap, agent' \in [Ids -> SUBSET Hosts],
         closed' \in ClosedSeq, Len(closed') <= ClosedCap, job' \in [Threads -> Jobs \cup {Idle}],
         bind' \subseteq Ids, used' \subseteq Ids, stray' \subseteq Ids,
         \A j \in Ids : Coherent(j)', ClosedInv', JobsInv'
  PROVE  RegistryIInv'
<1>1. RegistryType'
  BY DEF RegistryIInv, RegistryType, Saves, RecordMap, SessionMap
<1>2. DownInv' /\ CleanMeansSaved'
  BY DEF DownInv, CleanMeansSaved, Saves
<1> QED BY <1>1, <1>2 DEF RegistryIInv

\* A job is dropped.
LEMMA DoneIs ==
  ASSUME RegistryType, NEW t \in Threads, Done(t)
  PROVE  job' \in [Threads -> Jobs \cup {Idle}] /\ \A u \in Threads : job'[u] \in {job[u], Idle}
BY DEF RegistryType, Done

-----------------------------------------------------------------------------
(* Handlers.                                                               *)

\* The types, under one name each.
LEMMA TypesNow ==
  ASSUME RegistryIInv
  PROVE  /\ rec \in RecordMap /\ ses \in SessionMap /\ agent \in [Ids -> SUBSET Hosts]
         /\ file \in RecordMap
         /\ closed \in ClosedSeq /\ Len(closed) \in Nat /\ Len(closed) <= ClosedCap
         /\ job \in [Threads -> Jobs \cup {Idle}]
         /\ bind \subseteq Ids /\ used \subseteq Ids /\ stray \subseteq Ids /\ RegistryType
BY LenProperties DEF RegistryIInv, RegistryType, RecordMap, SessionMap, ClosedSeq

\* A fresh session gets a record, a handle and an agent.
LEMMA SpawnKeeps ==
  ASSUME RegistryIInv, NEW id \in Ids, NEW h \in Hosts, Spawn(id, h)
  PROVE  RegistryIInv'
<1> USE NotNone, TypesNow
<1> DEFINE r == [host |-> h, live |-> TRUE, archived |-> FALSE]
           s == [host |-> h, over |-> FALSE]
<1>1. /\ up /\ id \notin used /\ used' = used \cup {id}
      /\ rec' = [rec EXCEPT ![id] = r] /\ ses' = [ses EXCEPT ![id] = s]
      /\ agent' = [agent EXCEPT ![id] = {h}]
      /\ bind' = IF h = Remote THEN bind \cup {id} ELSE bind
      /\ Persist /\ UNCHANGED <<up, restored, closed, job, stray>>
  BY DEF Spawn
<1>2. r \in Records /\ s \in Sessions /\ r.host = h /\ s.host = h /\ ~s.over
  <2>1. TRUE \in BOOLEAN /\ FALSE \in BOOLEAN
    BY Zenon
  <2> QED BY <2>1 DEF Records, Sessions
<1> HIDE DEF r, s
<1>3. /\ rec' \in RecordMap /\ ses' \in SessionMap /\ agent' \in [Ids -> SUBSET Hosts]
      /\ bind' \subseteq Ids /\ used' \subseteq Ids
  BY <1>1, <1>2 DEF RecordMap, SessionMap
<1>4. Saves
  BY <1>1, <1>3, PersistIs
<1>5. Apart(id)
  BY <1>1 DEF Apart, RecordMap, SessionMap
<1>6. rec'[id] = r /\ ses'[id] = s /\ agent'[id] = {h} /\ (h = Remote => id \in bind')
  BY <1>1 DEF RecordMap, SessionMap
<1>7. Coherent(id)'
  BY <1>1, <1>2, <1>6 DEF Coherent
<1>8. Calm
  BY <1>1, <1>5 DEF Calm, Apart
<1> QED BY <1>1, <1>3, <1>4, <1>5, <1>7, <1>8, OthersCoherent, CalmClosed, CalmJobs, StepDone

\* Killing, archiving and stopping the source of a migration end the session
\* and may change its record; the binding goes only with the agent.
LEMMA EndingKeeps ==
  ASSUME RegistryIInv, up, NEW id \in Ids, NEW k, Ended(k, id),
         ses' = k.ses, agent' = k.agent, UNCHANGED <<up, restored, closed, used>>, Saves,
         rec' \in RecordMap, \A j \in Ids \ {id} : rec'[j] = rec[j],
         rec'[id] = None <=> rec[id] = None,
         rec[id] # None => /\ rec'[id].host = rec[id].host
                           /\ rec'[id].host = Local => ~rec'[id].live,
         bind' = bind \/ (bind' = bind \ {id} /\ (id \in stray \/ k.agent[id] = {})),
         stray' = stray \/ stray' = stray \cup {id}
  PROVE  /\ \A j \in Ids : Coherent(j)'
         /\ Calm /\ ses'[id] = None
<1> USE NotNone, TypesNow
<1>1. Apart(id)
  BY DEF Apart, Ended
<1>2. /\ ses'[id] = None /\ agent'[id] \subseteq agent[id]
      /\ id \notin stray' => \A h \in agent'[id] : h = Remote /\ rec[id] # None /\ rec[id].host = Remote
  BY DEF Ended
<1>3. id \notin stray' => (Remote \in agent'[id] => id \in bind')
  <2>1. Coherent(id)
    BY DEF RegistryIInv
  <2> QED BY <1>2, <2>1 DEF Coherent
<1>4. Coherent(id)'
  <2>1. Coherent(id)
    BY DEF RegistryIInv
  <2>2. (rec'[id] # None \/ file'[id] # None \/ agent'[id] # {}) => id \in used'
    BY <1>2, <2>1 DEF Coherent, Saves
  <2> QED BY <1>2, <1>3, <2>2 DEF Coherent
<1>5. Calm
  BY <1>1, <1>2 DEF Calm, Apart
<1> QED BY <1>1, <1>2, <1>4, <1>5, OthersCoherent

\* Only the status of the record changed.
LEMMA StoredSame ==
  ASSUME RegistryIInv, NEW id \in Ids, NEW k, Ended(k, id)
  PROVE  Stored(k.rec) = Stored(rec)
BY DEF Stored, Ended

\* Kill ends the session and keeps its record.
LEMMA KillKeeps == ASSUME RegistryIInv, NEW id \in Ids, Kill(id) PROVE RegistryIInv'
<1> USE NotNone, TypesNow
<1>1. /\ up /\ ses[id] # None /\ UNCHANGED <<up, restored, closed, job, used, stray>>
  BY DEF Kill
<1>2. PICK k \in Terminate(id) :
        /\ ses' = k.ses /\ agent' = k.agent /\ rec' = k.rec
        /\ IF k.ok THEN Persist /\ bind' = bind \ {id} ELSE NoPersist /\ UNCHANGED bind
  BY DEF Kill
<1>3. Ended(k, id)
  BY <1>1, TerminateIs
<1>4. /\ rec' \in RecordMap /\ ses' \in SessionMap /\ agent' \in [Ids -> SUBSET Hosts]
      /\ bind' \subseteq Ids
  BY <1>2, <1>3 DEF Ended
<1>5. Saves
  BY <1>1, <1>2, <1>3, <1>4, PersistIs, NoPersistIs, StoredSame
<1>6. bind' = bind \/ (bind' = bind \ {id} /\ (id \in stray \/ k.agent[id] = {}))
  BY <1>1, <1>2, <1>3 DEF Ended
<1>7. /\ \A j \in Ids \ {id} : rec'[j] = rec[j]
      /\ rec'[id] = None <=> rec[id] = None
      /\ rec[id] # None => /\ rec'[id].host = rec[id].host
                           /\ rec'[id].host = Local => ~rec'[id].live
  BY <1>2, <1>3 DEF Ended
<1>8. (\A j \in Ids : Coherent(j)') /\ Calm
  BY <1>1, <1>2, <1>3, <1>4, <1>5, <1>6, <1>7, EndingKeeps
<1> QED BY <1>1, <1>4, <1>5, <1>8, CalmClosed, CalmJobs, StepDone

\* Archive ends the session and shelves its record.
LEMMA ArchiveKeeps == ASSUME RegistryIInv, NEW id \in Ids, Archive(id) PROVE RegistryIInv'
<1> USE NotNone, TypesNow
<1>1. up /\ rec[id] # None /\ Persist /\ UNCHANGED <<up, restored, closed, job, bind, used, stray>>
  BY DEF Archive
<1>2. PICK k \in Terminate(id) :
        /\ ses' = k.ses /\ agent' = k.agent
        /\ rec' = [k.rec EXCEPT ![id].archived = TRUE, ![id].live = FALSE]
  BY DEF Archive
<1>3. Ended(k, id)
  BY <1>1, TerminateIs
<1>4. k.rec \in RecordMap /\ k.rec[id] \in Records
  BY <1>1, <1>3 DEF Ended, RecordMap
<1>5. /\ rec'[id] \in Records /\ rec'[id].host = rec[id].host /\ ~rec'[id].live
      /\ \A j \in Ids \ {id} : rec'[j] = rec[j]
  <2>1. TRUE \in BOOLEAN /\ FALSE \in BOOLEAN
    BY Zenon
  <2>2. rec'[id] = [[k.rec[id] EXCEPT !.archived = TRUE] EXCEPT !.live = FALSE]
    BY <1>2, <1>4 DEF RecordMap
  <2>3. \A j \in Ids \ {id} : rec'[j] = rec[j]
    BY <1>2, <1>3, <1>4 DEF RecordMap, Ended
  <2>4. /\ rec'[id] \in Records /\ rec'[id].host = k.rec[id].host /\ ~rec'[id].live
    BY <1>4, <2>1, <2>2 DEF Records
  <2> QED BY <1>1, <1>3, <2>3, <2>4 DEF Ended
<1>6. rec' \in RecordMap
  BY <1>2, <1>4, <1>5 DEF RecordMap
<1>7. ses' \in SessionMap /\ agent' \in [Ids -> SUBSET Hosts]
  BY <1>2, <1>3 DEF Ended
<1>8. Saves
  BY <1>1, <1>6, <1>7, PersistIs
<1>9. (\A j \in Ids : Coherent(j)') /\ Calm
  BY <1>1, <1>2, <1>3, <1>5, <1>6, <1>8, EndingKeeps
<1> QED BY <1>1, <1>6, <1>7, <1>8, <1>9, CalmClosed, CalmJobs, StepDone

\* A closed session goes on the stack, which sheds its oldest when it is full.
LEMMA PushIs ==
  ASSUME RegistryIInv, NEW id \in Ids, NEW r \in Records, Push(id, r)
  PROVE  /\ closed' \in ClosedSeq /\ Len(closed') <= ClosedCap /\ Len(closed') \in Nat
         /\ \E d \in {0, 1} :
              /\ Len(closed') = Len(closed) + 1 - d
              /\ \A i \in 1..Len(closed') :
                   IF i + d = Len(closed) + 1 THEN closed'[i] = [id |-> id, rec |-> r]
                   ELSE i + d \in 1..Len(closed) /\ closed'[i] = closed[i + d]
<1> DEFINE c == [id |-> id, rec |-> r]
           longer == Append(closed, c)
           n == Len(closed)
<1>1. closed \in ClosedSeq /\ n \in Nat /\ n <= ClosedCap /\ c \in ClosedRecords
  BY TypesNow DEF ClosedRecords
<1> HIDE DEF c
<1>2. /\ longer \in ClosedSeq /\ Len(longer) = n + 1 /\ longer[n + 1] = c
      /\ \A i \in 1..n : longer[i] = closed[i]
  BY <1>1 DEF ClosedSeq
<1>3. closed' = IF Len(longer) > ClosedCap THEN Tail(longer) ELSE longer
  BY DEF Push, c
<1> HIDE DEF longer, n
<1>4. CASE closed' = longer /\ n + 1 <= ClosedCap
  <2>1. \A i \in 1..n + 1 : IF i + 0 = n + 1 THEN longer[i] = c
                            ELSE i + 0 \in 1..n /\ longer[i] = closed[i + 0]
    BY <1>1, <1>2
  <2> QED BY <1>1, <1>2, <1>4, <2>1 DEF n, c
<1>5. CASE closed' = Tail(longer)
  <2>1. longer # <<>>
    BY <1>1, <1>2, EmptySeq DEF ClosedSeq
  <2>2. /\ Tail(longer) \in ClosedSeq /\ Len(Tail(longer)) = Len(longer) - 1
        /\ \A i \in 1..Len(Tail(longer)) : Tail(longer)[i] = longer[i + 1]
    BY <1>2, <2>1, HeadTailProperties DEF ClosedSeq
  <2>3. Len(closed') = n
    BY <1>1, <1>2, <1>5, <2>2
  <2>4. \A i \in 1..n : IF i + 1 = n + 1 THEN closed'[i] = c
                        ELSE i + 1 \in 1..n /\ closed'[i] = closed[i + 1]
    BY <1>1, <1>2, <1>5, <2>2, <2>3
  <2>5. /\ Len(closed') = Len(closed) + 1 - 1
        /\ \A i \in 1..Len(closed') :
             IF i + 1 = Len(closed) + 1 THEN closed'[i] = [id |-> id, rec |-> r]
             ELSE i + 1 \in 1..Len(closed) /\ closed'[i] = closed[i + 1]
    BY <1>1, <2>3, <2>4 DEF n, c
  <2> QED BY <1>1, <1>5, <2>2, <2>3, <2>5
<1> QED BY <1>1, <1>2, <1>3, <1>4, <1>5, RegistryAssumption

\* Remove moves the record to the closed stack.
LEMMA RemoveKeeps == ASSUME RegistryIInv, NEW id \in Ids, Remove(id) PROVE RegistryIInv'
<1> USE NotNone, TypesNow
<1>1. /\ up /\ rec[id] # None /\ Persist /\ bind' = bind \ {id}
      /\ UNCHANGED <<up, restored, job, used>>
  BY DEF Remove
<1>2. PICK k \in Terminate(id) :
        /\ ses' = k.ses /\ agent' = k.agent
        /\ rec' = [k.rec EXCEPT ![id] = None]
        /\ Push(id, k.rec[id])
        /\ stray' = LeftBehind(id, k.agent)
  BY DEF Remove
<1>3. Ended(k, id)
  BY <1>1, TerminateIs
<1>4. /\ k.rec[id] \in Records /\ k.rec[id].host = rec[id].host
      /\ (k.rec[id].host = Local => ~k.rec[id].live)
  BY <1>1, <1>3 DEF Ended, RecordMap
<1>5. /\ rec' \in RecordMap /\ rec'[id] = None /\ \A j \in Ids \ {id} : rec'[j] = rec[j]
      /\ ses' \in SessionMap /\ agent' \in [Ids -> SUBSET Hosts] /\ bind' \subseteq Ids
      /\ stray' \subseteq Ids /\ stray \subseteq stray' /\ (agent'[id] = {} \/ id \in stray')
  BY <1>1, <1>2, <1>3 DEF Ended, RecordMap, LeftBehind
<1>6. Saves
  BY <1>1, <1>5, PersistIs
<1>7. Apart(id) /\ ses'[id] = None /\ agent'[id] \subseteq agent[id]
  BY <1>1, <1>2, <1>3, <1>5 DEF Apart, Ended
<1>8. Coherent(id)'
  <2>1. Coherent(id)
    BY DEF RegistryIInv
  <2> QED BY <1>1, <1>5, <1>6, <1>7, <2>1 DEF Coherent, Saves
<1>9. Calm
  BY <1>1, <1>5, <1>7 DEF Calm, Apart
<1>10. PICK d \in {0, 1} :
         /\ Len(closed') = Len(closed) + 1 - d
         /\ \A i \in 1..Len(closed') :
              IF i + d = Len(closed) + 1 THEN closed'[i] = [id |-> id, rec |-> k.rec[id]]
              ELSE i + d \in 1..Len(closed) /\ closed'[i] = closed[i + d]
  BY <1>2, <1>4, PushIs
<1>11. closed' \in ClosedSeq /\ Len(closed') <= ClosedCap /\ Len(closed') \in Nat
  BY <1>2, <1>4, PushIs
<1>12. ClosedFrom
  BY <1>1, <1>4, <1>10 DEF ClosedFrom
<1>13. ClosedInv'
  <2>1. ASSUME NEW i \in 1..Len(closed)
        PROVE  closed[i].id \in used \ {id} /\ rec'[closed[i].id] = None
    <3>1. closed[i].id \in used /\ rec[closed[i].id] = None
      BY DEF RegistryIInv, ClosedInv
    <3> QED BY <1>1, <1>5, <3>1
  <2>2. id \in used
    BY <1>1 DEF RegistryIInv, Coherent
  <2> SUFFICES ASSUME NEW i \in 1..Len(closed')
               PROVE  /\ closed'[i].id \in used' /\ rec'[closed'[i].id] = None
                      /\ closed'[i].rec.host = Local => ~closed'[i].rec.live
                      /\ \A j \in 1..Len(closed') : closed'[i].id = closed'[j].id => i = j
    BY DEF ClosedInv
  <2>3. /\ closed'[i].id \in used' /\ rec'[closed'[i].id] = None
        /\ closed'[i].rec.host = Local => ~closed'[i].rec.live
    BY <1>1, <1>4, <1>5, <1>10, <2>1, <2>2 DEF RegistryIInv, ClosedInv
  <2>4. ASSUME NEW j \in 1..Len(closed'), closed'[i].id = closed'[j].id PROVE i = j
    <3>1. CASE i + d = Len(closed) + 1
      <4>1. closed'[i].id = id
        BY <1>10, <3>1
      <4>2. j + d = Len(closed) + 1
        <5>1. j + d # Len(closed) + 1 => j + d \in 1..Len(closed) /\ closed'[j] = closed[j + d]
          BY <1>10
        <5>2. j + d \in 1..Len(closed) => closed[j + d].id # id
          BY <2>1
        <5> QED BY <2>4, <4>1, <5>1, <5>2
      <4> QED BY <3>1, <4>2
    <3>2. CASE i + d # Len(closed) + 1
      <4>1. i + d \in 1..Len(closed) /\ closed'[i] = closed[i + d]
        BY <1>10, <3>2
      <4>2. j + d # Len(closed) + 1
        <5>1. closed'[j].id # id
          BY <2>1, <2>4, <4>1
        <5>2. j + d = Len(closed) + 1 => closed'[j] = [id |-> id, rec |-> k.rec[id]]
          BY <1>10
        <5> QED BY <5>1, <5>2
      <4>3. j + d \in 1..Len(closed) /\ closed'[j] = closed[j + d]
        BY <1>10, <4>2
      <4>4. i + d = j + d
        BY <2>4, <4>1, <4>3 DEF RegistryIInv, ClosedInv
      <4> QED BY <4>4
    <3> QED BY <3>1, <3>2
  <2> QED BY <2>3, <2>4
<1> QED BY <1>1, <1>5, <1>6, <1>7, <1>8, <1>9, <1>11, <1>12, <1>13, OthersCoherent, CalmJobs,
     StepDone

\* The stack is cut to its first n.
LEMMA ClosedCut ==
  ASSUME RegistryIInv, NEW n \in 0..Len(closed), closed' = SubSeq(closed, 1, n)
  PROVE  /\ closed' \in ClosedSeq /\ Len(closed') = n /\ Len(closed') <= ClosedCap
         /\ \A i \in 1..n : closed'[i] = closed[i]
<1>1. closed \in ClosedSeq /\ Len(closed) \in Nat /\ Len(closed) <= ClosedCap
  BY TypesNow
<1>2. \A i \in 1..n : closed[i] \in ClosedRecords
  BY <1>1, ElementOfSeq DEF ClosedSeq
<1>3. /\ closed' \in ClosedSeq /\ Len(closed') = IF 1 <= n THEN n - 1 + 1 ELSE 0
      /\ \A i \in 1..n - 1 + 1 : closed'[i] = closed[1 + i - 1]
  BY <1>1, <1>2, SubSeqProperties DEF ClosedSeq
<1> QED BY <1>1, <1>3, RegistryAssumption

\* Reopen moves it back.
LEMMA ReopenKeeps == ASSUME RegistryIInv, NEW k \in 1..ClosedCap, Reopen(k) PROVE RegistryIInv'
<1> USE NotNone, TypesNow
<1>0. up /\ k \in 1..Len(closed) /\ closed[k] \in ClosedRecords
  BY ElementOfSeq DEF Reopen, ClosedSeq
<1> PICK id \in Ids, r \in Records : id = closed[k].id /\ r = closed[k].rec
  BY <1>0 DEF ClosedRecords
<1>1. /\ up /\ k \in 1..Len(closed) /\ rec' = [rec EXCEPT ![id] = r]
      /\ closed' = SubSeq(closed, 1, k - 1) /\ Persist
      /\ UNCHANGED <<up, restored, ses, job, bind, agent, used, stray>>
  BY DEF Reopen
<1>2. k - 1 \in 0..Len(closed)
  BY <1>0
<1>3. id \in used /\ rec[id] = None /\ (r.host = Local => ~r.live)
  BY <1>1 DEF RegistryIInv, ClosedInv
<1>4. /\ closed' \in ClosedSeq /\ Len(closed') = k - 1 /\ Len(closed') <= ClosedCap
      /\ \A i \in 1..k - 1 : closed'[i] = closed[i]
  BY <1>1, <1>2, ClosedCut
<1>5. \A i \in 1..k - 1 : i \in 1..Len(closed) /\ closed[i].id # id
  <2>1. ASSUME NEW i \in 1..k - 1 PROVE i \in 1..Len(closed) /\ i # k
    BY <1>1
  <2> QED BY <1>1, <2>1 DEF RegistryIInv, ClosedInv
<1>6. \A t \in Threads : job[t] # Idle /\ job[t].pc = "respawn" /\ job[t].id = id
        => r.host = job[t].host
  BY <1>1 DEF RegistryIInv, JobsInv
<1>7. rec' \in RecordMap /\ rec'[id] = r /\ \A j \in Ids \ {id} : rec'[j] = rec[j]
  BY <1>1, <1>2 DEF RecordMap
<1>8. Saves
  BY <1>1, <1>7, PersistIs
<1>9. Coherent(id)'
  <2>1. Coherent(id)
    BY <1>2 DEF RegistryIInv
  <2> QED BY <1>1, <1>2, <1>3, <1>7, <2>1 DEF Coherent
<1>10. \A j \in Ids : Coherent(j)'
  <2>1. Apart(id)
    BY <1>1, <1>7 DEF Apart
  <2> QED BY <1>1, <1>2, <1>8, <1>9, <2>1, OthersCoherent
<1>11. ClosedInv'
  <2>1. ASSUME NEW i \in 1..k - 1 PROVE closed[i].id \in Ids \ {id} /\ rec'[closed[i].id] = None
    <3>1. closed[i].id \in used /\ rec[closed[i].id] = None
      BY <1>5 DEF RegistryIInv, ClosedInv
    <3> QED BY <1>5, <1>7, <3>1
  <2> QED BY <1>1, <1>4, <1>5, <2>1 DEF RegistryIInv, ClosedInv
<1>12. JobsInv'
  <2>1. ASSUME NEW t \in Threads, job[t] # Idle
        PROVE  /\ job[t].id \in Ids
               /\ job[t].pc = "respawn" =>
                    /\ rec'[job[t].id] # None => rec'[job[t].id].host = job[t].host
                    /\ \A i \in 1..Len(closed') :
                         closed'[i].id = job[t].id => closed'[i].rec.host = job[t].host
    <3>1. job[t].id \in Ids
      BY <2>1
    <3>2. job[t].pc = "respawn" => (rec'[job[t].id] # None => rec'[job[t].id].host = job[t].host)
      <4>1. CASE job[t].id = id
        BY <1>6, <1>7, <2>1, <4>1
      <4>2. CASE job[t].id # id
        BY <1>7, <2>1, <3>1, <4>2 DEF RegistryIInv, JobsInv
      <4> QED BY <4>1, <4>2
    <3>3. job[t].pc = "respawn" =>
            \A i \in 1..Len(closed') : closed'[i].id = job[t].id => closed'[i].rec.host = job[t].host
      BY <1>4, <1>5, <2>1 DEF RegistryIInv, JobsInv
    <3> QED BY <3>1, <3>2, <3>3
  <2> QED BY <1>1, <2>1 DEF RegistryIInv, JobsInv
<1> QED BY <1>1, <1>4, <1>7, <1>8, <1>10, <1>11, <1>12, StepDone

\* Closed sessions nothing can be made of leave the stack.
LEMMA ReopenNoneKeeps == ASSUME RegistryIInv, ReopenNone PROVE RegistryIInv'
<1> USE NotNone, TypesNow
<1>1. /\ up /\ closed' = <<>>
      /\ UNCHANGED <<up, restored, rec, ses, dirty, warm, job, file, bind, agent, used, missed,
                     stray>>
  BY DEF ReopenNone
<1>2. closed' \in ClosedSeq /\ Len(closed') = 0 /\ Len(closed') <= ClosedCap /\ 1..0 = {}
  BY <1>1, EmptySeq, RegistryAssumption DEF ClosedSeq
<1>3. Saves
  BY <1>1, NoPersistIs DEF NoPersist
<1>4. \A j \in Ids : Coherent(j)'
  BY <1>1 DEF RegistryIInv, Coherent
<1>5. ClosedInv' /\ JobsInv'
  BY <1>1, <1>2 DEF RegistryIInv, ClosedInv, JobsInv
<1> QED BY <1>1, <1>2, <1>3, <1>4, <1>5, StepDone

\* Unarchive changes the record only.
LEMMA UnarchiveKeeps == ASSUME RegistryIInv, NEW id \in Ids, Unarchive(id) PROVE RegistryIInv'
<1> USE NotNone, TypesNow
<1>1. /\ up /\ rec[id] # None /\ rec' = [rec EXCEPT ![id].archived = FALSE] /\ Persist
      /\ UNCHANGED <<up, restored, ses, closed, job, bind, agent, used, stray>>
  BY DEF Unarchive
<1>2. rec[id] \in Records /\ rec'[id] = [rec[id] EXCEPT !.archived = FALSE]
  BY <1>1 DEF RecordMap
<1>3. rec'[id] \in Records /\ rec'[id].host = rec[id].host /\ rec'[id].live = rec[id].live
  <2>1. FALSE \in BOOLEAN
    BY Zenon
  <2> QED BY <1>2, <2>1 DEF Records
<1>4. rec' \in RecordMap /\ \A j \in Ids \ {id} : rec'[j] = rec[j]
  BY <1>1, <1>3 DEF RecordMap
<1>5. Saves
  BY <1>1, <1>4, PersistIs
<1>6. Coherent(id)'
  <2>1. Coherent(id)
    BY DEF RegistryIInv
  <2> QED BY <1>1, <1>3, <2>1 DEF Coherent
<1>7. Apart(id) /\ Calm
  BY <1>1, <1>2, <1>3, <1>4 DEF Apart, Calm
<1> QED BY <1>1, <1>4, <1>5, <1>6, <1>7, OthersCoherent, CalmClosed, CalmJobs, StepDone

\* A watcher's look folds the session's status into its record.
LEMMA WatchKeeps == ASSUME RegistryIInv, NEW id \in Ids, Watch(id) PROVE RegistryIInv'
<1> USE NotNone, TypesNow
<1> PICK o : o = ~ses[id].over
  OBVIOUS
<1>1. /\ up /\ rec[id] # None /\ ses[id] # None /\ rec' = [rec EXCEPT ![id].live = o]
      /\ UNCHANGED <<up, restored, ses, closed, job, file, dirty, warm, bind, agent, used,
                     missed, stray>>
  BY DEF Watch
<1>2. rec[id] \in Records /\ rec'[id] = [rec[id] EXCEPT !.live = o]
  BY <1>1 DEF RecordMap
<1>3. rec'[id] \in Records /\ rec'[id].host = rec[id].host /\ rec'[id].archived = rec[id].archived
  <2>1. o \in BOOLEAN
    BY Zenon
  <2> QED BY <1>2, <2>1 DEF Records
<1>4. rec' \in RecordMap /\ \A j \in Ids \ {id} : rec'[j] = rec[j]
  BY <1>1, <1>3 DEF RecordMap
<1>5. Saves
  <2>1. Stored(rec') = Stored(rec)
    BY <1>1, <1>3, <1>4 DEF Stored
  <2> QED BY <1>1, <2>1, NoPersistIs DEF NoPersist
<1>6. Coherent(id)'
  <2>1. Coherent(id)
    BY DEF RegistryIInv
  <2> QED BY <1>1, <1>3, <2>1 DEF Coherent
<1>7. Apart(id) /\ Calm
  BY <1>1, <1>2, <1>3, <1>4 DEF Apart, Calm
<1> QED BY <1>1, <1>4, <1>5, <1>6, <1>7, OthersCoherent, CalmClosed, CalmJobs, StepDone

\* A session notices that its agent is gone.
LEMMA NoticeKeeps == ASSUME RegistryIInv, NEW id \in Ids, SessionNotices(id) PROVE RegistryIInv'
<1> USE NotNone, TypesNow
<1>1. /\ up /\ ses[id] # None /\ ses[id].host \notin agent[id]
      /\ ses' = [ses EXCEPT ![id].over = TRUE]
      /\ UNCHANGED <<up, restored, rec, closed, dirty, warm, job, file, bind, agent, used,
                     missed, stray>>
  BY DEF SessionNotices
<1>2. ses[id] \in Sessions /\ ses'[id] = [ses[id] EXCEPT !.over = TRUE]
  BY <1>1 DEF SessionMap
<1>3. ses'[id] \in Sessions /\ ses'[id].host = ses[id].host
  <2>1. TRUE \in BOOLEAN
    BY Zenon
  <2> QED BY <1>2, <2>1 DEF Sessions
<1>4. ses' \in SessionMap /\ \A j \in Ids \ {id} : ses'[j] = ses[j]
  BY <1>1, <1>3 DEF SessionMap
<1>5. Saves
  BY <1>1, NoPersistIs DEF NoPersist
<1>6. Coherent(id)'
  <2>1. Coherent(id)
    BY DEF RegistryIInv
  <2> QED BY <1>1, <1>3, <2>1 DEF Coherent
<1>7. Apart(id) /\ Calm
  BY <1>1, <1>2, <1>3, <1>4 DEF Apart, Calm
<1> QED BY <1>1, <1>4, <1>5, <1>6, <1>7, OthersCoherent, CalmClosed, CalmJobs, StepDone

\* An agent may end at any time, also while the daemon is down.
LEMMA AgentEndsKeeps ==
  ASSUME RegistryIInv, NEW id \in Ids, NEW h \in Hosts, AgentEnds(id, h)
  PROVE  RegistryIInv'
<1> USE NotNone, TypesNow
<1>1. /\ agent' = [agent EXCEPT ![id] = @ \ {h}]
      /\ UNCHANGED <<daemonVars, file, bind, used, missed, stray>>
  BY DEF AgentEnds
<1>2. UNCHANGED <<up, restored, rec, ses, closed, dirty, warm, job, file, bind, used, missed,
                  stray>>
  BY <1>1 DEF daemonVars
<1>3. agent' \in [Ids -> SUBSET Hosts] /\ \A j \in Ids : agent'[j] \subseteq agent[j]
  BY <1>1
<1>4. RegistryType'
  BY <1>2, <1>3 DEF RegistryType
<1>5. \A j \in Ids : Coherent(j)'
  BY <1>2, <1>3 DEF RegistryIInv, Coherent
<1>6. Calm
  BY <1>2, <1>3 DEF Calm
<1>7. ClosedInv' /\ JobsInv'
  BY <1>2, <1>6, CalmClosed, CalmJobs
<1>8. DownInv' /\ CleanMeansSaved'
  BY <1>2 DEF RegistryIInv, DownInv, CleanMeansSaved, Stored
<1> QED BY <1>4, <1>5, <1>7, <1>8 DEF RegistryIInv

\* The debounce window and the flusher.
LEMMA FlushKeeps == ASSUME RegistryIInv, WindowEnds \/ FlushDirty PROVE RegistryIInv'
<1> USE NotNone, TypesNow
<1>1. up /\ UNCHANGED <<up, restored, rec, ses, closed, job, bind, agent, used, stray>>
  BY DEF WindowEnds, FlushDirty
<1>2. Saves
  <2>1. CASE FlushDirty
    BY <1>1, <2>1, PersistIs DEF FlushDirty
  <2>2. CASE WindowEnds
    <3>1. warm' \in BOOLEAN
      BY <2>2, Zenon DEF WindowEnds
    <3>2. UNCHANGED <<rec, dirty, file, missed>>
      BY <2>2 DEF WindowEnds
    <3> QED BY <1>1, <3>1, <3>2 DEF Saves, RegistryIInv, RegistryType, CleanMeansSaved
  <2> QED BY <2>1, <2>2
<1>3. \A j \in Ids : Coherent(j)'
  BY <1>1, <1>2 DEF RegistryIInv, Coherent, Saves
<1>4. Calm
  BY <1>1 DEF Calm
<1> QED BY <1>1, <1>2, <1>3, <1>4, CalmClosed, CalmJobs, StepDone

-----------------------------------------------------------------------------
(* Resume and migrate.                                                     *)

\* Nothing but the jobs changes.
OnlyJobs ==
  UNCHANGED <<up, restored, rec, ses, closed, dirty, warm, file, bind, agent, used, missed, stray>>

\* Then only the jobs are left to look at.
LEMMA OnlyJobsKeeps ==
  ASSUME RegistryIInv, up, OnlyJobs, job' \in [Threads -> Jobs \cup {Idle}], JobsInv'
  PROVE  RegistryIInv'
<1> USE TypesNow
<1>1. Saves
  BY NoPersistIs DEF NoPersist, OnlyJobs
<1>2. \A j \in Ids : Coherent(j)'
  BY DEF OnlyJobs, RegistryIInv, Coherent
<1>3. Calm
  BY DEF Calm, OnlyJobs
<1> QED BY <1>1, <1>2, <1>3, CalmClosed, StepDone DEF OnlyJobs

\* A job that is dropped takes nothing with it.
LEMMA JobDropped ==
  ASSUME RegistryIInv, up, OnlyJobs, NEW t \in Threads, Done(t)
  PROVE  RegistryIInv'
<1>1. Calm
  BY TypesNow DEF Calm, OnlyJobs
<1> QED BY <1>1, TypesNow, DoneIs, CalmJobs, OnlyJobsKeeps DEF OnlyJobs

\* A resume takes the host of the record, with which every other resume of the
\* session goes.
LEMMA LookKeeps ==
  ASSUME RegistryIInv, up, OnlyJobs, NEW t \in Threads, NEW id \in Ids, LookAt(t, id),
         \A u \in Threads \ {t} : job[u] # Idle /\ job[u].id = id => job[u].pc = "respawn"
  PROVE  RegistryIInv'
<1> USE NotNone, TypesNow
<1>1. CASE Done(t)
  BY <1>1, JobDropped
<1>2. CASE ~Done(t)
  <2> DEFINE j == [pc |-> "respawn", id |-> id, host |-> rec[id].host]
  <2>1. rec[id] # None /\ job' = [job EXCEPT ![t] = j]
    BY <1>2 DEF LookAt
  <2>2. rec[id] \in Records /\ j \in Jobs /\ id \in used
    <3>1. rec[id] \in Records /\ Coherent(id)
      BY <2>1 DEF RecordMap, RegistryIInv
    <3> QED BY <2>1, <3>1 DEF Jobs, Coherent
  <2>3. j.pc = "respawn" /\ j.id = id /\ j.host = rec[id].host
    OBVIOUS
  <2> HIDE DEF j
  <2>4. /\ job' \in [Threads -> Jobs \cup {Idle}] /\ job'[t] = j
        /\ \A u \in Threads \ {t} : job'[u] = job[u]
    BY <2>1, <2>2
  <2>5. \A i \in 1..Len(closed) : closed[i].id # id
    BY <2>1 DEF RegistryIInv, ClosedInv
  <2>6. JobsInv'
    <3> SUFFICES ASSUME NEW u \in Threads, job'[u] # Idle
                 PROVE  /\ job'[u].id \in used
                        /\ job'[u].pc # "respawn" =>
                             /\ restored
                             /\ \A v \in Threads \ {u} : job'[v] # Idle => job'[v].id # job'[u].id
                        /\ job'[u].pc = "rewrite" =>
                             /\ ses[job'[u].id] = None
                             /\ (agent[job'[u].id] = {} \/ job'[u].id \in stray)
                        /\ job'[u].pc = "respawn" =>
                             /\ rec[job'[u].id] # None => rec[job'[u].id].host = job'[u].host
                             /\ \A i \in 1..Len(closed) :
                                  closed[i].id = job'[u].id => closed[i].rec.host = job'[u].host
      BY DEF JobsInv, OnlyJobs
    <3>1. CASE u = t
      BY <2>2, <2>3, <2>4, <2>5, <3>1
    <3>2. CASE u # t
      <4>1. job'[u] = job[u] /\ job[u] # Idle
        BY <2>4, <3>2
      <4>2. job[u].pc # "respawn" =>
              restored /\ \A v \in Threads \ {u} : job'[v] # Idle => job'[v].id # job[u].id
        <5>1. job[u].pc # "respawn" =>
                restored /\ \A v \in Threads \ {u} : job[v] # Idle => job[v].id # job[u].id
          BY <4>1 DEF RegistryIInv, JobsInv
        <5>2. job[u].pc # "respawn" => job[u].id # id
          BY <3>2, <4>1
        <5> QED BY <2>3, <2>4, <5>1, <5>2
      <4> QED BY <4>1, <4>2 DEF RegistryIInv, JobsInv
    <3> QED BY <3>1, <3>2
  <2> QED BY <2>4, <2>6, OnlyJobsKeeps
<1> QED BY <1>1, <1>2

\* What a job that is under way knows.
LEMMA AtWork ==
  ASSUME RegistryIInv, NEW t \in Threads, job[t].pc # "idle"
  PROVE  /\ job[t] \in Jobs /\ job[t] # Idle /\ job[t].id \in Ids /\ job[t].host \in Hosts
         /\ job[t].id \in used
<1>1. job[t] # Idle
  BY DEF Idle
<1> QED BY <1>1, NotNone, TypesNow DEF RegistryIInv, JobsInv

\* What is said of one job, of two.
JobInv(t) ==
  job[t] # Idle =>
    /\ job[t].id \in used
    /\ job[t].pc # "respawn" => restored
    /\ job[t].pc = "rewrite" =>
         ses[job[t].id] = None /\ (agent[job[t].id] = {} \/ job[t].id \in stray)
    /\ job[t].pc = "respawn" =>
         /\ rec[job[t].id] # None => rec[job[t].id].host = job[t].host
         /\ \A i \in 1..Len(closed) : closed[i].id = job[t].id => closed[i].rec.host = job[t].host

Alone(t) == \A u \in Threads \ {t} : job[u] # Idle => job[u].id # job[t].id

JobsAlone == \A t \in Threads : job[t] # Idle /\ job[t].pc # "respawn" => Alone(t)

\* JobsInv, job by job.
LEMMA JobsSplit ==
  /\ JobsInv <=> (\A t \in Threads : JobInv(t)) /\ JobsAlone
  /\ JobsInv' <=> (\A t \in Threads : JobInv(t)') /\ JobsAlone'
BY DEF JobsInv, JobInv, JobsAlone, Alone

\* A resume begins.
LEMMA ResumeKeeps ==
  ASSUME RegistryIInv, ~MigrateBeside, NEW t \in Threads, NEW id \in Ids, Resume(t, id)
  PROVE  RegistryIInv'
BY LookKeeps DEF Resume, OnlyJobs

\* A migration that has rewritten the record goes on as a resume.
LEMMA ResumeMovedKeeps == ASSUME RegistryIInv, NEW t \in Threads, ResumeMoved(t) PROVE RegistryIInv'
<1>1. up /\ job[t].pc = "begin" /\ LookAt(t, job[t].id) /\ OnlyJobs
  BY DEF ResumeMoved, OnlyJobs
<1>2. job[t].id \in Ids /\ job[t] # Idle
  BY <1>1, AtWork
<1>3. Alone(t)
  BY <1>1, <1>2, JobsSplit DEF RegistryIInv, JobsAlone
<1>4. \A u \in Threads \ {t} : job[u] # Idle /\ job[u].id = job[t].id => job[u].pc = "respawn"
  BY <1>3 DEF Alone
<1> QED BY <1>1, <1>2, <1>4, LookKeeps

\* A respawn that is moot and a migration that cannot be prepared end here.
LEMMA MootKeeps ==
  ASSUME RegistryIInv, NEW t \in Threads, RespawnMoot(t) \/ PrepareFails(t)
  PROVE  RegistryIInv'
BY JobDropped DEF RespawnMoot, PrepareFails, OnlyJobs

\* A migration begins, alone with its session.
LEMMA MigrateKeeps ==
  ASSUME RegistryIInv, ~MigrateBeside, NEW t \in Threads, NEW id \in Ids, NEW h \in Hosts,
         Migrate(t, id, h)
  PROVE  RegistryIInv'
<1> USE NotNone, TypesNow
<1> DEFINE j == [pc |-> "prepare", id |-> id, host |-> h]
<1>1. /\ up /\ rec[id] # None /\ restored /\ ~Busy(id) /\ OnlyJobs /\ job' = [job EXCEPT ![t] = j]
  BY DEF Migrate, OnlyJobs
<1>2. j \in Jobs /\ j.pc = "prepare" /\ j.id = id /\ id \in used
  BY <1>1 DEF Jobs, RegistryIInv, Coherent
<1> HIDE DEF j
<1>3. /\ job' \in [Threads -> Jobs \cup {Idle}] /\ job'[t] = j
      /\ \A u \in Threads \ {t} : job'[u] = job[u]
  BY <1>1, <1>2
<1>4. \A u \in Threads : JobInv(u)'
  <2>1. \A u \in Threads : JobInv(u)
    BY JobsSplit DEF RegistryIInv
  <2> QED BY <1>1, <1>2, <1>3, <2>1 DEF JobInv, OnlyJobs
<1>5. JobsAlone'
  <2>1. JobsAlone /\ \A u \in Threads : job[u] # Idle => job[u].id # id
    BY <1>1, JobsSplit DEF RegistryIInv, Busy
  <2> QED BY <1>2, <1>3, <2>1 DEF JobsAlone, Alone
<1>6. JobsInv'
  BY <1>4, <1>5, JobsSplit
<1> QED BY <1>1, <1>3, <1>6, OnlyJobsKeeps

\* The next stage of a migration.
LEMMA StageIs ==
  ASSUME RegistryIInv, NEW t \in Threads, job[t].pc \in {"prepare", "rewrite"},
         NEW p \in {"rewrite", "begin"}, job' = [job EXCEPT ![t].pc = p]
  PROVE  /\ job' \in [Threads -> Jobs \cup {Idle}] /\ \A u \in Threads \ {t} : job'[u] = job[u]
         /\ job'[t] \in Jobs /\ job'[t].pc = p /\ job'[t].id = job[t].id
         /\ job'[t].host = job[t].host /\ Alone(t) /\ JobsAlone'
<1> USE NotNone, TypesNow
<1>1. job[t] \in Jobs
  BY AtWork
<1>2. job'[t] = [job[t] EXCEPT !.pc = p] /\ \A u \in Threads \ {t} : job'[u] = job[u]
  OBVIOUS
<1>3. job'[t] \in Jobs /\ job'[t].pc = p /\ job'[t].id = job[t].id /\ job'[t].host = job[t].host
  BY <1>1, <1>2 DEF Jobs
<1>4. job' \in [Threads -> Jobs \cup {Idle}]
  BY <1>2, <1>3
<1>5. JobsAlone /\ Alone(t)
  BY <1>1, JobsSplit DEF RegistryIInv, JobsAlone
<1>6. JobsAlone'
  BY <1>1, <1>2, <1>3, <1>5 DEF JobsAlone, Alone
<1> QED BY <1>2, <1>3, <1>4, <1>5, <1>6

\* It stops the source, ...
LEMMA StopSourceKeeps == ASSUME RegistryIInv, NEW t \in Threads, StopSource(t) PROVE RegistryIInv'
<1> USE NotNone, TypesNow
<1> PICK id : id = job[t].id
  OBVIOUS
<1>1. /\ up /\ job[t].pc = "prepare" /\ job' = [job EXCEPT ![t].pc = "rewrite"]
      /\ UNCHANGED <<up, restored, closed, dirty, warm, file, bind, used, missed>>
  BY DEF StopSource
<1>2. id \in Ids /\ job[t] # Idle
  BY <1>1, AtWork
<1>3. PICK k \in Terminate(id) :
        ses' = k.ses /\ agent' = k.agent /\ rec' = k.rec /\ stray' = LeftBehind(id, k.agent)
  BY DEF StopSource
<1>4. Ended(k, id)
  BY <1>1, <1>2, TerminateIs
<1>5. /\ rec' \in RecordMap /\ ses' \in SessionMap /\ agent' \in [Ids -> SUBSET Hosts]
      /\ stray' \subseteq Ids /\ (stray' = stray \/ stray' = stray \cup {id})
      /\ (agent'[id] = {} \/ id \in stray')
  BY <1>2, <1>3, <1>4 DEF Ended, LeftBehind
<1>6. Saves
  BY <1>1, <1>2, <1>3, <1>4, NoPersistIs, StoredSame DEF NoPersist
<1>7. /\ \A j \in Ids \ {id} : rec'[j] = rec[j]
      /\ rec'[id] = None <=> rec[id] = None
      /\ rec[id] # None => /\ rec'[id].host = rec[id].host
                           /\ rec'[id].host = Local => ~rec'[id].live
  BY <1>3, <1>4 DEF Ended
<1>8. (\A j \in Ids : Coherent(j)') /\ Calm /\ ses'[id] = None
  BY <1>1, <1>2, <1>3, <1>4, <1>5, <1>6, <1>7, EndingKeeps
<1>9. /\ job' \in [Threads -> Jobs \cup {Idle}] /\ \A u \in Threads \ {t} : job'[u] = job[u]
      /\ job'[t].pc = "rewrite" /\ job'[t].id = id /\ JobsAlone'
  BY <1>1, StageIs
<1>10. \A u \in Threads : JobInv(u)'
  <2>1. ASSUME NEW u \in Threads \ {t} PROVE JobInv(u)'
    <3>1. JobInv(u) /\ job'[u] = job[u]
      BY <1>9, JobsSplit DEF RegistryIInv
    <3> QED BY <1>1, <1>8, <3>1 DEF JobInv, Calm
  <2>2. JobInv(t)'
    <3>1. JobInv(t)
      BY JobsSplit DEF RegistryIInv
    <3> QED BY <1>1, <1>2, <1>5, <1>8, <1>9, <3>1 DEF JobInv
  <2> QED BY <2>1, <2>2
<1>11. JobsInv'
  BY <1>9, <1>10, JobsSplit
<1> QED BY <1>1, <1>5, <1>6, <1>8, <1>9, <1>11, CalmClosed, StepDone

\* ... and rewrites the host in the record.
LEMMA RewriteKeeps == ASSUME RegistryIInv, NEW t \in Threads, RewriteRecord(t) PROVE RegistryIInv'
<1> USE NotNone, TypesNow
<1> PICK id, h : id = job[t].id /\ h = job[t].host
  OBVIOUS
<1>1. /\ up /\ job[t].pc = "rewrite" /\ Persist
      /\ rec' = [rec EXCEPT ![id] = IF @ = None THEN @ ELSE [@ EXCEPT !.host = h, !.live = FALSE]]
      /\ UNCHANGED <<up, restored, ses, closed, bind, agent, used, stray>>
      /\ job' = [job EXCEPT ![t].pc = "begin"]
  BY DEF RewriteRecord
<1>2. id \in Ids /\ h \in Hosts /\ job[t] # Idle
  BY <1>1, AtWork
<1>3. rec[id] # None => rec'[id] \in Records /\ rec'[id].host = h /\ ~rec'[id].live
  <2>1. FALSE \in BOOLEAN
    BY Zenon
  <2>2. rec[id] # None => rec[id] \in Records /\ rec'[id] = [rec[id] EXCEPT !.host = h, !.live = FALSE]
    BY <1>1, <1>2 DEF RecordMap
  <2> QED BY <1>2, <2>1, <2>2 DEF Records
<1>4. (rec[id] = None => rec'[id] = None) /\ \A j \in Ids \ {id} : rec'[j] = rec[j]
  BY <1>1, <1>2 DEF RecordMap
<1>5. rec' \in RecordMap
  BY <1>1, <1>2, <1>3, <1>4 DEF RecordMap
<1>6. Saves
  BY <1>1, <1>5, PersistIs
<1>7. ses[id] = None /\ (agent[id] = {} \/ id \in stray) /\ restored
  BY <1>1, <1>2, JobsSplit DEF RegistryIInv, JobInv
<1>8. Coherent(id)'
  <2>1. Coherent(id)
    BY <1>2 DEF RegistryIInv
  <2>2. rec'[id] # None => rec[id] # None /\ ~rec'[id].live
    BY <1>3, <1>4
  <2>3. (rec'[id] # None \/ file'[id] # None \/ agent'[id] # {}) => id \in used'
    BY <1>1, <1>2, <1>6, <2>1, <2>2 DEF Coherent, Saves
  <2> QED BY <1>1, <1>7, <2>2, <2>3 DEF Coherent
<1>9. Apart(id)
  BY <1>1, <1>4 DEF Apart
<1>10. ClosedInv'
  <2>1. \A j \in Ids : rec[j] = None => rec'[j] = None
    BY <1>4
  <2> QED BY <1>1, <2>1 DEF RegistryIInv, ClosedInv
<1>11. /\ job' \in [Threads -> Jobs \cup {Idle}] /\ \A u \in Threads \ {t} : job'[u] = job[u]
       /\ job'[t].pc = "begin" /\ job'[t].id = id /\ JobsAlone' /\ Alone(t)
  BY <1>1, StageIs
<1>12. \A u \in Threads : JobInv(u)'
  <2>1. ASSUME NEW u \in Threads \ {t} PROVE JobInv(u)'
    <3>1. JobInv(u) /\ job'[u] = job[u] /\ (job[u] # Idle => job[u].id # id /\ job[u].id \in Ids)
      BY <1>11, JobsSplit DEF RegistryIInv, Alone
    <3> QED BY <1>1, <1>4, <3>1 DEF JobInv
  <2>2. JobInv(t)'
    <3>1. JobInv(t)
      BY JobsSplit DEF RegistryIInv
    <3> QED BY <1>1, <1>2, <1>7, <1>11, <3>1 DEF JobInv
  <2> QED BY <2>1, <2>2
<1>13. JobsInv'
  BY <1>11, <1>12, JobsSplit
<1> QED BY <1>1, <1>2, <1>5, <1>6, <1>8, <1>9, <1>10, <1>11, <1>13, OthersCoherent, StepDone

\* A respawn starts an agent only where none of the session is left running.
LEMMA RespawnStarts ==
  ASSUME RegistryIInv, NEW t \in Threads, up, job[t].pc = "respawn", rec[job[t].id] # None,
         ~(ses[job[t].id] # None /\ Live(job[t].id))
  PROVE  /\ ses[job[t].id] = None \/ ses[job[t].id].over
         /\ rec[job[t].id].host = job[t].host
         /\ job[t].host \notin agent[job[t].id] => agent[job[t].id] = {} \/ job[t].id \in stray
<1> USE NotNone, TypesNow
<1> PICK id, h : id = job[t].id /\ h = job[t].host
  OBVIOUS
<1>1. id \in Ids /\ h \in Hosts /\ job[t] # Idle
  BY AtWork
<1>2. ses[id] = None \/ ses[id].over
  <2>1. ASSUME ses[id] # None PROVE ses[id].over
    <3> DEFINE o == ~ses[id].over
    <3>1. Fold(rec, ses)[id] = [rec[id] EXCEPT !.live = o] /\ rec[id] \in Records
      BY <1>1, <2>1 DEF Fold, RecordMap
    <3> HIDE DEF o
    <3>2. Fold(rec, ses)[id].live = o
      BY <3>1 DEF Records
    <3> QED BY <2>1, <3>2 DEF Live, o
  <2> QED BY <2>1
<1>3. rec[id].host = h
  BY <1>1, JobsSplit DEF RegistryIInv, JobInv
<1>4. h \notin agent[id] => agent[id] = {} \/ id \in stray
  <2>1. Coherent(id) /\ agent[id] \subseteq Hosts
    BY <1>1 DEF RegistryIInv
  <2> QED BY <1>1, <1>2, <1>3, <2>1 DEF Coherent
<1> QED BY <1>2, <1>3, <1>4

\* A respawn inserts a handle and starts the agent.
LEMMA RespawnKeeps == ASSUME RegistryIInv, NEW t \in Threads, Respawn(t) PROVE RegistryIInv'
<1> USE NotNone, TypesNow
<1> PICK id, h : id = job[t].id /\ h = job[t].host
  OBVIOUS
<1>1. /\ up /\ job[t].pc = "respawn" /\ rec[id] # None /\ ~(ses[id] # None /\ Live(id)) /\ Done(t)
      /\ UNCHANGED <<up, restored, closed, used, stray>>
  BY DEF Respawn
<1>2. id \in Ids /\ h \in Hosts /\ id \in used /\ job[t] # Idle
  BY <1>1, AtWork
<1>3. PICK k \in Terminate(id) :
        \/ /\ h \notin k.agent[id]
           /\ ses' = [k.ses EXCEPT ![id] = [host |-> h, over |-> FALSE]]
           /\ agent' = [k.agent EXCEPT ![id] = @ \cup {h}]
           /\ rec' = [k.rec EXCEPT ![id].live = TRUE]
           /\ bind' = IF h = Remote THEN bind \cup {id} ELSE bind
           /\ Persist
        \/ /\ ses' = k.ses /\ agent' = k.agent /\ rec' = k.rec
           /\ UNCHANGED bind /\ NoPersist
  BY DEF Respawn
<1>4. Ended(k, id)
  BY <1>1, <1>2, TerminateIs
<1>5. /\ ses[id] = None \/ ses[id].over
      /\ rec[id].host = h /\ (h \notin agent[id] => agent[id] = {} \/ id \in stray)
  BY <1>1, RespawnStarts
<1>6. k.agent = agent
  BY <1>4, <1>5 DEF Ended
<1>7. job' \in [Threads -> Jobs \cup {Idle}] /\ \A u \in Threads : job'[u] \in {job[u], Idle}
  BY <1>1, DoneIs
<1>8. CASE /\ ses' = k.ses /\ agent' = k.agent /\ rec' = k.rec
           /\ UNCHANGED bind /\ NoPersist
  <2>1. rec' \in RecordMap /\ ses' \in SessionMap /\ agent' \in [Ids -> SUBSET Hosts]
    BY <1>4, <1>8 DEF Ended
  <2>2. Saves
    BY <1>1, <1>2, <1>4, <1>8, NoPersistIs, StoredSame
  <2>3. /\ \A j \in Ids \ {id} : rec'[j] = rec[j]
        /\ rec'[id] = None <=> rec[id] = None
        /\ rec[id] # None => /\ rec'[id].host = rec[id].host
                             /\ rec'[id].host = Local => ~rec'[id].live
    BY <1>4, <1>8 DEF Ended
  <2>4. (\A j \in Ids : Coherent(j)') /\ Calm
    BY <1>1, <1>2, <1>4, <1>8, <2>1, <2>2, <2>3, EndingKeeps
  <2> QED BY <1>1, <1>7, <1>8, <2>1, <2>2, <2>4, CalmClosed, CalmJobs, StepDone
<1>9. CASE /\ h \notin k.agent[id]
           /\ ses' = [k.ses EXCEPT ![id] = [host |-> h, over |-> FALSE]]
           /\ agent' = [k.agent EXCEPT ![id] = @ \cup {h}]
           /\ rec' = [k.rec EXCEPT ![id].live = TRUE]
           /\ bind' = IF h = Remote THEN bind \cup {id} ELSE bind
           /\ Persist
  <2> DEFINE s == [host |-> h, over |-> FALSE]
  <2>1. s \in Sessions /\ s.host = h /\ ~s.over /\ TRUE \in BOOLEAN
    <3>1. FALSE \in BOOLEAN /\ TRUE \in BOOLEAN
      BY Zenon
    <3> QED BY <1>2, <3>1 DEF Sessions
  <2>2. /\ k.ses \in SessionMap /\ ses' = [k.ses EXCEPT ![id] = s]
        /\ \A j \in Ids \ {id} : k.ses[j] = ses[j]
    BY <1>4, <1>9 DEF Ended
  <2> HIDE DEF s
  <2>3. ses' \in SessionMap /\ ses'[id] = s /\ \A j \in Ids \ {id} : ses'[j] = ses[j]
    BY <1>2, <2>1, <2>2 DEF SessionMap
  <2>4. /\ k.rec \in RecordMap /\ k.rec[id] \in Records /\ k.rec[id].host = h
        /\ \A j \in Ids \ {id} : k.rec[j] = rec[j]
    BY <1>1, <1>2, <1>4, <1>5 DEF Ended, RecordMap
  <2>5. rec'[id] \in Records /\ rec'[id].host = h /\ \A j \in Ids \ {id} : rec'[j] = rec[j]
    <3>1. rec'[id] = [k.rec[id] EXCEPT !.live = TRUE] /\ \A j \in Ids \ {id} : rec'[j] = rec[j]
      BY <1>2, <1>9, <2>4 DEF RecordMap
    <3> QED BY <2>1, <2>4, <3>1 DEF Records
  <2>6. rec' \in RecordMap
    BY <1>9, <2>4, <2>5 DEF RecordMap
  <2>7. /\ agent' \in [Ids -> SUBSET Hosts] /\ agent'[id] = agent[id] \cup {h}
        /\ \A j \in Ids \ {id} : agent'[j] = agent[j]
    BY <1>2, <1>6, <1>9
  <2>8. bind' \subseteq Ids /\ (h = Remote => id \in bind') /\ Apart(id)
    BY <1>1, <1>2, <1>9, <2>3, <2>5, <2>7 DEF Apart
  <2>9. Saves
    BY <1>9, <2>3, <2>6, PersistIs
  <2>10. Coherent(id)'
    <3>1. ses'[id] # None /\ rec'[id] # None /\ id \in used'
      BY <1>1, <1>2, <2>1, <2>3, <2>5
    <3>2. id \notin stray' => agent'[id] = {h}
      BY <1>1, <1>5, <1>6, <1>9, <2>7
    <3> QED BY <1>1, <2>1, <2>3, <2>5, <2>8, <3>1, <3>2 DEF Coherent
  <2>11. ClosedInv'
    <3>1. \A j \in Ids : rec[j] = None => rec'[j] = None
      BY <1>1, <2>5
    <3> QED BY <1>1, <3>1 DEF RegistryIInv, ClosedInv
  <2>12. JobsInv'
    <3>1. ASSUME NEW u \in Threads, job'[u] # Idle PROVE JobInv(u)'
      <4>1. job'[u] = job[u] /\ JobInv(u) /\ job[u].id \in Ids
        BY <1>7, <3>1, JobsSplit DEF RegistryIInv
      <4>2. job[u].id = id => job[u].pc = "respawn"
        <5>1. job[u].id = id /\ job[u].pc # "respawn" => Alone(u) /\ u # t
          BY <1>1, <3>1, <4>1, JobsSplit DEF RegistryIInv, JobsAlone
        <5> QED BY <1>2, <5>1 DEF Alone
      <4>3. CASE job[u].id = id
        BY <1>1, <1>5, <2>5, <4>1, <4>2, <4>3 DEF JobInv
      <4>4. CASE job[u].id # id
        BY <1>1, <2>3, <2>5, <2>7, <4>1, <4>4 DEF JobInv
      <4> QED BY <4>3, <4>4
    <3>2. JobsAlone'
      <4>1. JobsAlone
        BY JobsSplit DEF RegistryIInv
      <4> QED BY <1>7, <4>1 DEF JobsAlone, Alone
    <3>3. \A u \in Threads : JobInv(u)'
      BY <3>1 DEF JobInv
    <3> QED BY <3>2, <3>3, JobsSplit
  <2> QED BY <1>1, <1>2, <1>7, <2>3, <2>6, <2>7, <2>8, <2>9, <2>10, <2>11, <2>12, OthersCoherent,
       StepDone
<1> QED BY <1>3, <1>8, <1>9

-----------------------------------------------------------------------------
(* The daemon's life.                                                      *)

\* The maps of a daemon that is down.
LEMMA EmptyIs == Empty \in RecordMap /\ Empty \in SessionMap /\ \A id \in Ids : Empty[id] = None
BY DEF Empty, RecordMap, SessionMap

\* Its stack is empty.
LEMMA NothingClosed == <<>> \in ClosedSeq /\ Len(<<>>) = 0 /\ 0 <= ClosedCap /\ 1..0 = {}
BY EmptySeq, RegistryAssumption DEF ClosedSeq

\* A crash and a shutdown leave the file, the bindings and the agents.
LEMMA GoneKeeps == ASSUME RegistryIInv, Crash \/ Shutdown PROVE RegistryIInv'
<1> USE NotNone, TypesNow, EmptyIs, NothingClosed
<1>1. /\ up /\ ~up' /\ ~restored' /\ rec' = Empty /\ ses' = Empty /\ closed' = <<>> /\ ~dirty'
      /\ ~warm'
      /\ job' = [u \in Threads |-> Idle] /\ stray' = stray \cup Untraceable(file')
      /\ UNCHANGED <<bind, agent, used>>
  BY DEF Crash, Shutdown, Gone
<1>2. file' \in RecordMap /\ \A id \in Ids : file'[id] # None => file[id] # None \/ rec[id] # None
  BY FoldIs DEF Crash, Shutdown
<1>3. /\ up' \in BOOLEAN /\ restored' \in BOOLEAN /\ dirty' \in BOOLEAN /\ warm' \in BOOLEAN
      /\ missed' \in BOOLEAN
  <2>1. up' = FALSE /\ restored' = FALSE /\ dirty' = FALSE /\ warm' = FALSE /\ missed' = FALSE
    BY DEF Crash, Shutdown, Gone
  <2> QED BY <2>1, Zenon
<1>4. Untraceable(file') \subseteq Ids
  BY DEF Untraceable
<1>5. job' \in [Threads -> Jobs \cup {Idle}] /\ \A u \in Threads : job'[u] = Idle
  BY <1>1
<1>6. RegistryType'
  BY <1>1, <1>2, <1>3, <1>4, <1>5 DEF RegistryType, RecordMap, SessionMap
<1>7. ASSUME NEW id \in Ids PROVE Coherent(id)'
  <2>1. Coherent(id)
    BY DEF RegistryIInv
  <2>2. (rec'[id] # None \/ file'[id] # None \/ agent'[id] # {}) => id \in used'
    BY <1>1, <1>2, <2>1 DEF Coherent
  <2>3. id \notin stray' => /\ id \notin stray
                            /\ \A h \in agent[id] : file'[id] # None /\ file'[id].host = h
    BY <1>1 DEF Untraceable
  <2>4. id \notin stray => (Remote \in agent[id] => id \in bind)
    BY <2>1 DEF Coherent
  <2> QED BY <1>1, <2>2, <2>3, <2>4 DEF Coherent
<1>8. ClosedInv' /\ JobsInv' /\ DownInv' /\ CleanMeansSaved'
  BY <1>1, <1>5 DEF ClosedInv, JobsInv, DownInv, CleanMeansSaved
<1> QED BY <1>6, <1>7, <1>8 DEF RegistryIInv

\* A damaged file: its agents are strays from now on.
LEMMA DamagedKeeps == ASSUME RegistryIInv, RestartDamaged PROVE RegistryIInv'
<1> USE NotNone, TypesNow, EmptyIs, NothingClosed
<1>1. /\ ~up /\ up' = TRUE /\ file' = Empty /\ stray' = stray \cup Untraceable(Empty)
      /\ UNCHANGED <<restored, rec, ses, closed, dirty, warm, job, bind, agent, used, missed>>
  BY DEF RestartDamaged
<1>2. rec = Empty /\ ses = Empty /\ closed = <<>> /\ \A t \in Threads : job[t] = Idle
  BY <1>1 DEF RegistryIInv, DownInv
<1>3. up' \in BOOLEAN /\ Untraceable(Empty) \subseteq Ids
  <2>1. up' \in BOOLEAN
    BY <1>1, Zenon
  <2> QED BY <2>1 DEF Untraceable
<1>4. RegistryType'
  BY <1>1, <1>3 DEF RegistryType, RecordMap
<1>5. ASSUME NEW id \in Ids PROVE Coherent(id)'
  <2>1. Coherent(id) /\ (id \notin stray' => agent[id] = {})
    BY <1>1 DEF RegistryIInv, Untraceable
  <2> QED BY <1>1, <1>2, <2>1 DEF Coherent
<1>6. ClosedInv' /\ JobsInv' /\ DownInv' /\ CleanMeansSaved'
  BY <1>1, <1>2 DEF ClosedInv, JobsInv, DownInv, CleanMeansSaved
<1> QED BY <1>4, <1>5, <1>6 DEF RegistryIInv

\* A restart adopts the holders that answer and writes off the rest.
LEMMA RestartKeeps == ASSUME RegistryIInv, Restart PROVE RegistryIInv'
<1> USE NotNone, TypesNow, EmptyIs, NothingClosed
<1> PICK orphans : orphans = Orphans(file, ses')
  OBVIOUS
<1>1. /\ ~up /\ up' = TRUE /\ ses' = Adopted(file)
      /\ rec' = [id \in Ids |-> IF id \in orphans THEN [file[id] EXCEPT !.live = FALSE] ELSE file[id]]
      /\ PersistNow \/ NoPersist
      /\ UNCHANGED <<restored, closed, job, bind, agent, used, stray>>
  BY DEF Restart
<1>2. /\ closed = <<>> /\ ~dirty /\ ~warm /\ \A t \in Threads : job[t] = Idle
  BY <1>1 DEF RegistryIInv, DownInv
<1>3. ASSUME NEW id \in Ids
      PROVE  /\ ses'[id] \in Sessions \cup {None}
             /\ ses'[id] # None <=> (file[id] # None /\ Local \in agent[id])
             /\ ses'[id] # None => ses'[id].host = Local /\ ~ses'[id].over
  <2> DEFINE s == [host |-> Local, over |-> FALSE]
  <2>1. s \in Sessions /\ s.host = Local /\ ~s.over
    <3>1. FALSE \in BOOLEAN
      BY Zenon
    <3> QED BY <3>1 DEF Sessions
  <2>2. ses'[id] = IF file[id] # None /\ Local \in agent[id] THEN s ELSE None
    BY <1>1 DEF Adopted
  <2> HIDE DEF s
  <2> QED BY <2>1, <2>2
<1>4. ses' \in SessionMap
  BY <1>1, <1>3 DEF Adopted, SessionMap
<1>5. ASSUME NEW id \in Ids
      PROVE  /\ rec'[id] \in Records \cup {None} /\ (rec'[id] = None <=> file[id] = None)
             /\ rec'[id] # None => /\ rec'[id].host = file[id].host
                                   /\ rec'[id].archived = file[id].archived
                                   /\ rec'[id].host = Local /\ rec'[id].live => ses'[id] # None
  <2>1. CASE id \in orphans
    <3>1. FALSE \in BOOLEAN
      BY Zenon
    <3>2. file[id] \in Records /\ rec'[id] = [file[id] EXCEPT !.live = FALSE]
      BY <1>1, <2>1 DEF Orphans, RecordMap
    <3> QED BY <3>1, <3>2 DEF Records
  <2>2. CASE id \notin orphans
    <3>1. rec'[id] = file[id]
      BY <1>1, <2>2
    <3> QED BY <2>2, <3>1 DEF Orphans, RecordMap
  <2> QED BY <2>1, <2>2
<1>6. rec' \in RecordMap /\ Stored(rec') = Stored(file)
  BY <1>1, <1>5 DEF RecordMap, Stored
<1>7. Saves
  <2>1. CASE PersistNow
    BY <1>4, <1>6, <2>1, PersistIs
  <2>2. CASE NoPersist
    BY <1>6, <2>2 DEF NoPersist, Saves, RegistryType
  <2> QED BY <1>1, <2>1, <2>2
<1>8. RegistryType' /\ DownInv' /\ CleanMeansSaved'
  <2>1. up' \in BOOLEAN
    BY <1>1, Zenon
  <2>2. RegistryType'
    BY <1>1, <1>4, <1>6, <1>7, <2>1 DEF RegistryType, Saves, RecordMap, SessionMap
  <2> QED BY <1>1, <1>7, <2>2 DEF DownInv, CleanMeansSaved, Saves
<1>9. ASSUME NEW id \in Ids PROVE Coherent(id)'
  <2>1. Coherent(id) /\ agent[id] \subseteq Hosts
    BY DEF RegistryIInv
  <2>2. (rec'[id] # None \/ file'[id] # None \/ agent'[id] # {}) => id \in used'
    BY <1>1, <1>5, <1>7, <2>1 DEF Coherent, Saves
  <2>3. id \notin stray => /\ Remote \in agent[id] => id \in bind
                           /\ \A h \in agent[id] : file[id] # None /\ file[id].host = h
    BY <1>1, <2>1 DEF Coherent
  <2>4. /\ up' /\ agent' = agent /\ bind' = bind /\ stray' = stray
    BY <1>1
  <2>5. ses'[id] # None => /\ rec'[id] # None /\ ses'[id].host = Local /\ ~ses'[id].over
                           /\ id \notin stray => rec'[id].host = Local
    BY <1>3, <1>5, <2>3
  <2>6. id \notin stray =>
          \A h \in agent[id] : \/ ses'[id] # None /\ ses'[id].host = h
                               \/ h = Remote /\ rec'[id] # None /\ rec'[id].host = Remote
    BY <1>3, <1>5, <2>1, <2>3
  <2> QED BY <1>5, <2>2, <2>3, <2>4, <2>5, <2>6 DEF Coherent
<1>10. ClosedInv' /\ JobsInv'
  BY <1>1, <1>2 DEF ClosedInv, JobsInv
<1> QED BY <1>8, <1>9, <1>10 DEF RegistryIInv

\* The remote sessions that can be reached get their handles back.
LEMMA RestoreKeeps == ASSUME RegistryIInv, RestoreRemote PROVE RegistryIInv'
<1> USE NotNone, TypesNow
<1>1. /\ up /\ ~restored /\ restored' = TRUE
      /\ UNCHANGED <<up, rec, closed, dirty, warm, job, file, used, missed>>
  BY DEF RestoreRemote
<1>2. PICK answer \in SUBSET {id \in bind : rec[id] # None /\ rec[id].host = Remote} :
        LET over == {id \in answer : ~Live(id) \/ Remote \notin agent[id]}
        IN \E killed \in SUBSET over :
             /\ KillsFail \/ killed = over
             /\ agent' = [id \in Ids |-> IF id \in killed THEN agent[id] \ {Remote} ELSE agent[id]]
             /\ bind' = bind \ over
             /\ stray' = stray \cup {id \in over : Remote \in agent'[id]}
             /\ ses' = [id \in Ids |-> IF id \in answer \ over
                                         THEN [host |-> Remote, over |-> FALSE] ELSE ses[id]]
  BY DEF RestoreRemote
<1> PICK over : over = {id \in answer : ~Live(id) \/ Remote \notin agent[id]}
  OBVIOUS
<1>3. PICK killed \in SUBSET over :
        /\ agent' = [id \in Ids |-> IF id \in killed THEN agent[id] \ {Remote} ELSE agent[id]]
        /\ bind' = bind \ over
        /\ stray' = stray \cup {id \in over : Remote \in agent'[id]}
        /\ ses' = [id \in Ids |-> IF id \in answer \ over
                                    THEN [host |-> Remote, over |-> FALSE] ELSE ses[id]]
  BY <1>2
<1>4. over \subseteq answer /\ answer \subseteq bind /\ answer \subseteq Ids
  BY <1>2
<1>5. ASSUME NEW id \in Ids
      PROVE  /\ agent'[id] \subseteq agent[id]
             /\ id \in answer \ over =>
                  /\ ses'[id] \in Sessions /\ ses'[id].host = Remote /\ ~ses'[id].over
                  /\ rec[id] # None /\ rec[id].host = Remote /\ agent'[id] = agent[id]
             /\ id \notin answer \ over => ses'[id] = ses[id]
  <2> DEFINE s == [host |-> Remote, over |-> FALSE]
  <2>1. s \in Sessions /\ s.host = Remote /\ ~s.over
    <3>1. FALSE \in BOOLEAN
      BY Zenon
    <3> QED BY <3>1 DEF Sessions
  <2>2. ses'[id] = IF id \in answer \ over THEN s ELSE ses[id]
    BY <1>3
  <2> HIDE DEF s
  <2>3. agent'[id] = IF id \in killed THEN agent[id] \ {Remote} ELSE agent[id]
    BY <1>3
  <2> QED BY <1>2, <2>1, <2>2, <2>3
<1>6. /\ agent' \in [Ids -> SUBSET Hosts] /\ ses' \in SessionMap
      /\ bind' \subseteq Ids /\ stray' \subseteq Ids /\ stray \subseteq stray'
  <2>1. agent' \in [Ids -> SUBSET Hosts]
    BY <1>3
  <2>2. ses' \in SessionMap
    <3>1. \A id \in Ids : ses'[id] \in Sessions \cup {None}
      BY <1>5 DEF SessionMap
    <3> QED BY <1>3, <3>1 DEF SessionMap
  <2> QED BY <1>3, <1>4, <2>1, <2>2
<1>7. RegistryType' /\ DownInv' /\ CleanMeansSaved'
  <2>1. restored' \in BOOLEAN
    BY <1>1, Zenon
  <2>2. RegistryType'
    BY <1>1, <1>6, <2>1 DEF RegistryType, SessionMap
  <2> QED BY <1>1, <2>2 DEF RegistryIInv, DownInv, CleanMeansSaved, Stored
<1>8. ASSUME NEW id \in Ids PROVE Coherent(id)'
  <2>1. Coherent(id) /\ agent[id] \subseteq Hosts
    BY DEF RegistryIInv
  <2>2. id \notin stray' => id \notin stray /\ (id \in over => Remote \notin agent'[id])
    BY <1>3
  <2>3. id \notin stray' => (Remote \in agent'[id] => id \in bind')
    BY <1>3, <1>5, <2>1, <2>2 DEF Coherent
  <2>4. CASE id \in answer \ over
    <3>1. ses'[id] # None /\ ses'[id].host = Remote /\ ~ses'[id].over
      BY <1>5, <2>4
    <3>2. rec'[id] # None /\ rec'[id].host = Remote /\ agent'[id] = agent[id]
      BY <1>1, <1>5, <2>4
    <3>3. id \notin stray => \A h \in agent[id] : h = Remote
      BY <1>1, <2>1, <3>2 DEF Coherent
    <3> QED BY <1>1, <2>1, <2>2, <2>3, <3>1, <3>2, <3>3 DEF Coherent
  <2>5. CASE id \notin answer \ over
    <3>1. ses'[id] = ses[id] /\ agent'[id] \subseteq agent[id]
      BY <1>5, <2>5
    <3> QED BY <1>1, <2>1, <2>2, <2>3, <3>1 DEF Coherent
  <2> QED BY <2>4, <2>5
<1>9. ClosedInv' /\ JobsInv'
  <2>1. ClosedInv'
    BY <1>1 DEF RegistryIInv, ClosedInv
  <2>2. \A t \in Threads : job[t] # Idle => job[t].pc = "respawn"
    BY <1>1 DEF RegistryIInv, JobsInv
  <2>3. \A t \in Threads : JobInv(t)'
    <3>1. \A t \in Threads : JobInv(t)
      BY JobsSplit DEF RegistryIInv
    <3> QED BY <1>1, <2>2, <3>1 DEF JobInv
  <2>4. JobsAlone'
    BY <1>1, <2>2 DEF JobsAlone
  <2> QED BY <2>1, <2>3, <2>4, JobsSplit
<1> QED BY <1>7, <1>8, <1>9 DEF RegistryIInv

-----------------------------------------------------------------------------
\* A machine on which nothing ran satisfies it.
LEMMA RegistryInit == ASSUME Init PROVE RegistryIInv
<1> USE EmptyIs, NothingClosed DEF Init
<1>1. /\ up \in BOOLEAN /\ restored \in BOOLEAN /\ dirty \in BOOLEAN /\ warm \in BOOLEAN
      /\ missed \in BOOLEAN
  BY Zenon
<1>2. RegistryType
  BY <1>1 DEF RegistryType, RecordMap, SessionMap
<1>3. \A id \in Ids : Coherent(id)
  BY DEF Coherent
<1>4. ClosedInv /\ JobsInv /\ DownInv /\ CleanMeansSaved
  BY DEF ClosedInv, JobsInv, DownInv, CleanMeansSaved
<1> QED BY <1>2, <1>3, <1>4 DEF RegistryIInv

\* Every handler, every stage of a resume or a migration and every way the daemon
\* ends and starts preserves the invariant.
LEMMA RegistryNext == ASSUME RegistryIInv, ~MigrateBeside, [Next]_vars PROVE RegistryIInv'
<1>1. CASE Handler
  <2>1. ASSUME NEW id \in Ids, Kill(id) \/ Remove(id) \/ Watch(id) \/ SessionNotices(id)
        PROVE  RegistryIInv'
    BY <2>1, KillKeeps, RemoveKeeps, WatchKeeps, NoticeKeeps
  <2>2. ASSUME NEW id \in Ids, NEW h \in Hosts, Spawn(id, h) \/ AgentEnds(id, h)
        PROVE  RegistryIInv'
    BY <2>2, SpawnKeeps, AgentEndsKeeps
  <2>3. ASSUME NEW id \in Roaming, Archive(id) \/ Unarchive(id)
        PROVE  RegistryIInv'
    BY <2>3, ArchiveKeeps, UnarchiveKeeps, RegistryAssumption
  <2>4. CASE ReopenNone \/ \E k \in 1..ClosedCap : Reopen(k)
    BY <2>4, ReopenNoneKeeps, ReopenKeeps
  <2> QED BY <1>1, <2>1, <2>2, <2>3, <2>4 DEF Handler
<1>2. ASSUME NEW t \in Threads,
             \/ Respawn(t) \/ RespawnMoot(t) \/ PrepareFails(t) \/ StopSource(t)
             \/ RewriteRecord(t) \/ ResumeMoved(t)
      PROVE  RegistryIInv'
  BY <1>2, RespawnKeeps, MootKeeps, StopSourceKeeps, RewriteKeeps, ResumeMovedKeeps
<1>3. ASSUME NEW t \in Threads, NEW id \in Roaming, Resume(t, id) \/ \E h \in Hosts : Migrate(t, id, h)
      PROVE  RegistryIInv'
  BY <1>3, ResumeKeeps, MigrateKeeps, RegistryAssumption
<1>4. CASE WindowEnds \/ FlushDirty
  BY <1>4, FlushKeeps
<1>5. CASE Crash \/ Shutdown
  BY <1>5, GoneKeeps
<1>6. CASE Restart \/ RestartDamaged \/ RestoreRemote
  BY <1>6, RestartKeeps, DamagedKeeps, RestoreKeeps
<1>7. CASE UNCHANGED vars
  <2>1. UNCHANGED <<up, restored, rec, ses, closed, dirty, warm, job, file, bind, agent, used,
                    missed, stray>>
    BY <1>7 DEF vars, daemonVars
  <2>2. RegistryType' /\ (\A id \in Ids : Coherent(id)')
    BY <2>1 DEF RegistryIInv, RegistryType, Coherent
  <2>3. ClosedInv' /\ JobsInv' /\ DownInv' /\ CleanMeansSaved'
    BY <2>1 DEF RegistryIInv, ClosedInv, JobsInv, DownInv, CleanMeansSaved, Stored
  <2> QED BY <2>2, <2>3 DEF RegistryIInv
<1> QED BY <1>1, <1>2, <1>3, <1>4, <1>5, <1>6, <1>7 DEF Next, Request

\* It says what the properties say.
LEMMA RegistryImplies == ASSUME RegistryIInv PROVE RegistryInv /\ AgentInReach
<1> USE NotNone, TypesNow
<1>1. TypeOK
  <2>1. \A i \in 1..Len(closed) : closed[i].id \in Ids /\ closed[i].rec \in Records
    <3>1. \A i \in 1..Len(closed) : closed[i] \in ClosedRecords
      BY ElementOfSeq DEF ClosedSeq
    <3> QED BY <3>1 DEF ClosedRecords
  <2> QED BY <2>1 DEF TypeOK, RegistryType
<1>2. \A id \in Ids : Coherent(id)
  BY DEF RegistryIInv
<1>3. NoFalseLive
  BY <1>2 DEF NoFalseLive, Coherent
<1>4. SessionWhereRecordSays
  BY <1>2 DEF SessionWhereRecordSays, Coherent
<1>5. ClosedApart
  BY <1>2 DEF ClosedApart, Coherent, RegistryIInv, ClosedInv
<1>6. AgentInReach
  BY <1>2 DEF AgentInReach, Coherent
<1> QED BY <1>1, <1>3, <1>4, <1>5, <1>6 DEF RegistryInv, RegistryIInv

\* registry.rs: whatever clients ask for, however handlers, the flusher and the
\* stages of resumes interleave, whatever write or kill fails and whenever the
\* daemon stops or crashes, no record goes on claiming an agent no session
\* stands for, a session runs where its record says, a closed session has left
\* the registry, and the file is current unless a write is due or has failed.
\* A migration does not run beside a resume of its session or the restore, as
\* in the run.
THEOREM RegistrySafe == ASSUME ~MigrateBeside PROVE Spec => []RegistryInv
<1>1. RegistryIInv => RegistryInv
  BY RegistryImplies
<1> QED BY <1>1, RegistryInit, RegistryNext, PTL DEF Spec

\* registry.rs and control/runtime.rs: an agent that runs has its session in the
\* map, or a record and a binding by which the next restore finds it, unless it
\* was written off when a crash or an unreachable host took it away.
THEOREM AgentsReached == ASSUME ~MigrateBeside PROVE Spec => []AgentInReach
<1>1. RegistryIInv => AgentInReach
  BY RegistryImplies
<1> QED BY <1>1, RegistryInit, RegistryNext, PTL DEF Spec

-----------------------------------------------------------------------------
(* The abstract specification of agents.                                   *)

\* Agents end, and sessions are written off.
LEMMA EndStep ==
  ASSUME agent \in [Ids -> SUBSET Hosts], \A id \in Ids : agent'[id] \subseteq agent[id],
         stray \subseteq stray', stray' \subseteq Ids
  PROVE  Agents!Next
BY DEF Agents!Next, Agents!End

\* Every step of the registry is one of the abstract specification: an agent is
\* started only by a spawn, of a fresh session, and by a respawn.
LEMMA AgentStep ==
  ASSUME RegistryIInv, RegistryIInv', ~MigrateBeside, [Next]_vars
  PROVE  [Agents!Next]_(Agents!vars)
<1> USE NotNone, TypesNow
<1>0. stray' \subseteq Ids
  BY DEF RegistryIInv, RegistryType
<1>1. ASSUME NEW id \in Ids, NEW h \in Hosts, Spawn(id, h) PROVE Agents!Next
  <2>1. agent[id] = {} /\ agent' = [agent EXCEPT ![id] = {h}] /\ stray' = stray
    BY <1>1 DEF Spawn, RegistryIInv, Coherent
  <2>2. agent' = [agent EXCEPT ![id] = @ \cup {h}]
    BY <2>1
  <2> QED BY <2>1, <2>2 DEF Agents!Next, Agents!Start
<1>2. ASSUME NEW t \in Threads, Respawn(t) PROVE Agents!Next
  <2> PICK id, h : id = job[t].id /\ h = job[t].host
    OBVIOUS
  <2>1. /\ up /\ job[t].pc = "respawn" /\ rec[id] # None /\ ~(ses[id] # None /\ Live(id))
        /\ stray' = stray
    BY <1>2 DEF Respawn
  <2>2. id \in Ids /\ h \in Hosts
    BY <2>1, AtWork
  <2>3. PICK k \in Terminate(id) :
          \/ h \notin k.agent[id] /\ agent' = [k.agent EXCEPT ![id] = @ \cup {h}]
          \/ agent' = k.agent
    BY <1>2 DEF Respawn
  <2>4. Ended(k, id) /\ (ses[id] = None \/ ses[id].over)
        /\ (h \notin agent[id] => agent[id] = {} \/ id \in stray)
    BY <2>1, <2>2, TerminateIs, RespawnStarts
  <2>5. k.agent = agent
    BY <2>4 DEF Ended
  <2>6. CASE agent' = agent
    BY <1>0, <2>1, <2>6, EndStep
  <2>7. CASE h \notin agent[id] /\ agent' = [agent EXCEPT ![id] = @ \cup {h}]
    BY <2>1, <2>2, <2>4, <2>7 DEF Agents!Next, Agents!Start
  <2> QED BY <2>3, <2>5, <2>6, <2>7
<1>3. ASSUME NEW id \in Ids, up, stray' \in {stray, LeftBehind(id, agent')},
             \E k \in Terminate(id) : agent' = k.agent
      PROVE  Agents!Next
  <2>1. \A j \in Ids : agent'[j] \subseteq agent[j]
    BY <1>3, TerminateIs DEF Ended
  <2>2. stray \subseteq stray'
    BY <1>3 DEF LeftBehind
  <2> QED BY <1>0, <2>1, <2>2, EndStep
<1>4. ASSUME NEW id \in Ids, Kill(id) \/ Remove(id) \/ Archive(id) PROVE Agents!Next
  <2>1. /\ up /\ stray' \in {stray, LeftBehind(id, agent')}
        /\ \E k \in Terminate(id) : agent' = k.agent
    BY <1>4 DEF Kill, Remove, Archive
  <2> QED BY <1>3, <2>1
<1>5. ASSUME NEW t \in Threads, StopSource(t) PROVE Agents!Next
  <2>1. /\ up /\ stray' \in {stray, LeftBehind(job[t].id, agent')}
        /\ \E k \in Terminate(job[t].id) : agent' = k.agent
    BY <1>5 DEF StopSource
  <2>2. job[t].id \in Ids
    BY <1>5, AtWork DEF StopSource
  <2> QED BY <1>3, <2>1, <2>2
<1>6. ASSUME NEW id \in Ids, NEW h \in Hosts, AgentEnds(id, h) PROVE Agents!Next
  BY <1>0, <1>6, EndStep DEF AgentEnds
<1>7. CASE Crash \/ Shutdown \/ RestartDamaged \/ Restart
  BY <1>0, <1>7, EndStep DEF Crash, Shutdown, Gone, RestartDamaged, Restart
<1>8. CASE RestoreRemote
  <2>1. (\A id \in Ids : agent'[id] \subseteq agent[id]) /\ stray \subseteq stray'
    BY <1>8 DEF RestoreRemote
  <2> QED BY <1>0, <2>1, EndStep
<1>9. CASE UNCHANGED <<agent, stray>>
  BY <1>9 DEF Agents!vars
<1>10. ASSUME NEW id \in Ids, Watch(id) \/ SessionNotices(id) \/ Unarchive(id)
       PROVE  UNCHANGED <<agent, stray>>
  BY <1>10 DEF Watch, SessionNotices, Unarchive
<1>11. ASSUME NEW t \in Threads, RespawnMoot(t) \/ PrepareFails(t) \/ RewriteRecord(t) \/ ResumeMoved(t)
       PROVE  UNCHANGED <<agent, stray>>
  BY <1>11 DEF RespawnMoot, PrepareFails, RewriteRecord, ResumeMoved
<1>12. ASSUME NEW t \in Threads, NEW id \in Ids, Resume(t, id) \/ \E h \in Hosts : Migrate(t, id, h)
       PROVE  UNCHANGED <<agent, stray>>
  BY <1>12 DEF Resume, Migrate
<1>13. ASSUME WindowEnds \/ FlushDirty \/ ReopenNone \/ (\E k \in 1..ClosedCap : Reopen(k))
              \/ UNCHANGED vars
       PROVE  UNCHANGED <<agent, stray>>
  BY <1>13 DEF WindowEnds, FlushDirty, ReopenNone, Reopen, vars
<1>14. CASE Handler
  BY <1>1, <1>4, <1>6, <1>9, <1>10, <1>13, <1>14, RegistryAssumption DEF Handler
<1>15. CASE Request
  BY <1>2, <1>5, <1>9, <1>11, <1>12, <1>15, RegistryAssumption DEF Request
<1> QED BY <1>7, <1>8, <1>9, <1>13, <1>14, <1>15 DEF Next

\* registry.rs: the registry implements the specification of agents.  A session
\* has one agent at a time, wherever it runs, until it has been written off.
THEOREM OneAgentAtATime == ASSUME ~MigrateBeside PROVE Spec => OneAgent
<1>1. Init => Agents!Init
  BY DEF Init, Agents!Init
<1>2. RegistryIInv /\ RegistryIInv' /\ [Next]_vars => [Agents!Next]_(Agents!vars)
  BY AgentStep
<1>3. Spec => []RegistryIInv
  BY RegistryInit, RegistryNext, PTL DEF Spec
<1> QED BY <1>1, <1>2, <1>3, PTL DEF Spec, OneAgent, Agents!Spec

=============================================================================
