----------------------------- MODULE NodeHandoff -----------------------------
(***************************************************************************)
(* The handoff of a session from one execution node to another: the client *)
(* coordinates (homie-client/node_client.rs) a checkpoint at the source,   *)
(* the transfer of the blobs the target lacks, the restore in quarantine,  *)
(* the provider's resume and a commit on either side, or else aborts       *)
(* (homie-node/checkpoint.rs, service.rs).                                 *)
(*                                                                         *)
(* Each call is a request on a connection of its own, with a deadline.     *)
(* What is not answered in time is given up; the node may serve it all the *)
(* same, later.  Requests of two connections run in parallel and take no   *)
(* lock.  put_blob is six steps (the look for the blob, the length of the  *)
(* .partial file, its open, the write, the digest and the rename), and     *)
(* stage four (a digest, the copy, the next copy and the record).  A file  *)
(* has an identity: an open one is written to wherever its name went.      *)
(*                                                                         *)
(* All handoffs are of one provider session, between the same two nodes.   *)
(* A digest stands for the contents; a blob is read and put in chunks.     *)
(* The lease is drawn once per handoff, so the record's phase tells what   *)
(* was committed under it.  What the workspace walk leaves out, paths,     *)
(* limits on sizes and failing disks are left out, and the transcript's    *)
(* copy into the provider's directory, its digest and its rename are one.  *)
(***************************************************************************)
EXTENDS Naturals, Sequences, FiniteSets

CONSTANTS
  Handoffs,
  Work,          \* the digest of the workspace's file
  States,        \* digests the provider's transcript may have
  Chunks,        \* the number of chunks of the workspace's file
  MayChange,     \* whether the transcript may be written while it is stored
  MaxTrouble     \* bound: calls that are given up

HandoffConstants ==
  /\ Chunks \in Nat \ {0} /\ MaxTrouble \in Nat /\ MayChange \in BOOLEAN
  /\ Work \notin States /\ IsFiniteSet(Handoffs)

None == "none"
Blobs == {Work} \cup States
Size(d) == IF d = Work THEN Chunks ELSE 1
Whole(d) == [i \in 1..Size(d) |-> i]
NoFile == [id |-> 0, data |-> <<>>]

VARIABLES
  at,            \* the call the coordinator of a handoff waits for
  todo, off,     \* the blobs still to transfer, and the offset in the current one
  current, fd,   \* the blob under transfer, the file the target's put_blob has open or checked
  state,         \* the manifest's provider_state
  source,        \* the source's MoveRecord: its phase
  move,          \* the target's MoveRecord: its phase
  partial, blob, \* the target's .partial and final blobs: the file and the chunks in it
  made,          \* the number of .partial files there were
  restored,      \* checkpoints restored in quarantine
  imported,      \* the provider's transcript at the target
  resumed,       \* the transcript the provider resumed a handoff with
  late,          \* requests nobody waits for any more
  gaveUp,        \* history: the first call a handoff gave up
  overrun,       \* history: blobs put_blob wrote to, or swapped, after their digest was taken
  torn,          \* history: restored with a copy that is not what its digest says
  trouble

handoffVars == <<at, todo, off, current, fd, state, source, move, partial, blob, made, restored,
                 imported, resumed, late, gaveUp, overrun, torn, trouble>>
client == <<at, todo, off, current, fd>>
files == <<partial, blob, made, overrun>>
server == <<state, source, move, files, restored, imported, resumed, torn>>

Phases == {None, "prepared", "transferring", "staged", "committed", "aborted"}
Calls == {"prepare", "manifest", "has", "put", "measure", "open", "append", "digest", "rename",
          "stage", "copy", "settle", "activate", "resume", "commitTarget", "commitSource",
          "abortTarget", "abortSource"}
Ended == {"done", "failed", "refused"}
File == [id : Nat, data : Seq(1..Chunks)]

TypeOK ==
  /\ at \in [Handoffs -> Calls \cup Ended \cup {"idle"}]
  /\ todo \in [Handoffs -> SUBSET Blobs] /\ off \in [Handoffs -> 0..Chunks]
  /\ current \in [Handoffs -> Blobs] /\ fd \in [Handoffs -> Nat]
  /\ state \in [Handoffs -> States \cup {None}]
  /\ source \in [Handoffs -> Phases] /\ move \in [Handoffs -> Phases]
  /\ \A d \in Blobs : partial[d] \in File /\ blob[d] \in File /\ partial[d].id \in 0..made[d]
  /\ made \in [Blobs -> Nat] /\ overrun \subseteq Blobs /\ torn \subseteq Handoffs
  /\ restored \subseteq Handoffs /\ imported \in States \cup {None}
  /\ resumed \in [Handoffs -> States \cup {None}]
  /\ late \subseteq [h : Handoffs, call : Calls, d : Blobs, n : 0..Chunks, fd : Nat]
  /\ gaveUp \in [Handoffs -> Calls \cup {None}] /\ trouble \in 0..MaxTrouble

Init ==
  /\ at = [h \in Handoffs |-> "idle"] /\ todo = [h \in Handoffs |-> {}]
  /\ off = [h \in Handoffs |-> 0] /\ current = [h \in Handoffs |-> Work]
  /\ fd = [h \in Handoffs |-> 0] /\ overrun = {} /\ torn = {}
  /\ state = [h \in Handoffs |-> None] /\ source = [h \in Handoffs |-> None]
  /\ move = [h \in Handoffs |-> None] /\ partial = [d \in Blobs |-> NoFile]
  /\ blob = [d \in Blobs |-> NoFile] /\ made = [d \in Blobs |-> 0] /\ restored = {} /\ imported = None
  /\ resumed = [h \in Handoffs |-> None] /\ late = {}
  /\ gaveUp = [h \in Handoffs |-> None] /\ trouble = 0

\* The blobs of a manifest, and those the target has.
Digests(h) == {Work} \cup ({state[h]} \ {None})
Present == {d \in Blobs : blob[d].id # 0}

-----------------------------------------------------------------------------
(* What the nodes do, whoever waits for it.                                *)

\* store_file refuses a file that changes while it is read.
Stored == States \cup (IF MayChange THEN {None} ELSE {})

\* prepare: the workspace's file is stored or the call fails, but a transcript
\* that is refused is left out of the manifest.
Prepare(h) ==
  /\ \E s \in Stored : state' = [state EXCEPT ![h] = s]
  /\ source' = [source EXCEPT ![h] = "prepared"]
  /\ UNCHANGED <<move, files, restored, imported, resumed, torn>>

PutManifest(h) ==
  /\ move' = [move EXCEPT ![h] = "transferring"]
  /\ UNCHANGED <<state, source, files, restored, imported, resumed, torn>>

\* put_blob: unless the blob is complete, a chunk must be the next one.
Fits(d, n) == Len(partial[d].data) = n

\* It opens the .partial file to append, which makes one if there is none ...
OpenId(d) == IF partial[d].id = 0 THEN made[d] + 1 ELSE partial[d].id
Open(d) ==
  /\ made' = [made EXCEPT ![d] = IF partial[d].id = 0 THEN @ + 1 ELSE @]
  /\ partial' = [partial EXCEPT ![d].id = OpenId(d)]
  /\ UNCHANGED <<state, source, move, blob, overrun, restored, imported, resumed, torn>>

\* ... and writes to that file, by whatever name it has by now, or none.
Written(file, f, n) == IF file.id = f THEN [file EXCEPT !.data = Append(@, n + 1)] ELSE file
\* The files whose digest a put_blob has taken and not yet renamed.
Sums(d) == {fd[h] : h \in {g \in Handoffs : at[g] = "rename" /\ current[g] = d}}
             \cup {r.fd : r \in {q \in late : q.call = "rename" /\ q.d = d}}
AppendChunk(d, n, f) ==
  /\ partial' = [partial EXCEPT ![d] = Written(@, f, n)]
  /\ blob' = [blob EXCEPT ![d] = Written(@, f, n)]
  /\ overrun' = IF f = blob[d].id \/ f \in Sums(d) THEN overrun \cup {d} ELSE overrun
  /\ UNCHANGED <<state, source, move, made, restored, imported, resumed, torn>>

\* Mutant: the last chunk makes the blob, whatever arrived before it.
SealableUnchecked(d) == partial[d].id # 0

\* The last chunk's call takes the digest of what has the name then ...
Sealable(d) == partial[d].id # 0 /\ partial[d].data = Whole(d)

\* ... and renames what has it afterwards, over a blob that may be there.
Rename(d, f) ==
  /\ IF partial[d].id # 0
     THEN /\ blob' = [blob EXCEPT ![d] = partial[d]] /\ partial' = [partial EXCEPT ![d] = NoFile]
          /\ overrun' = IF partial[d].id # f THEN overrun \cup {d} ELSE overrun
     ELSE UNCHANGED <<blob, partial, overrun>>
  /\ UNCHANGED <<state, source, move, made, restored, imported, resumed, torn>>

\* stage, restore_file: a blob is there and its digest is right ...
Sound(d) == blob[d].id # 0 /\ blob[d].data = Whole(d)
\* ... and then it is copied, as it is by then.
Copy(h, d) ==
  /\ torn' = IF blob[d].data # Whole(d) THEN torn \cup {h} ELSE torn
  /\ UNCHANGED <<state, source, move, files, restored, imported, resumed>>
\* The transcript, if there is one, comes last, with the rename of the
\* quarantine directory.
Restore(h) ==
  /\ restored' = restored \cup {h}
  /\ torn' = IF state[h] # None /\ blob[state[h]].data # Whole(state[h]) THEN torn \cup {h} ELSE torn
  /\ UNCHANGED <<state, source, move, files, imported, resumed>>
StateSound(h) == state[h] = None \/ Sound(state[h])

\* activate_provider_state never replaces a transcript and checks its copy; then
\* the record.
Activatable(h) ==
  state[h] = None \/ imported = state[h] \/ (imported = None /\ Sound(state[h]))
Activate(h) ==
  /\ IF Activatable(h)
     THEN /\ imported' = IF state[h] = None THEN imported ELSE state[h]
          /\ move' = [move EXCEPT ![h] = "staged"]
     ELSE UNCHANGED <<imported, move>>
  /\ UNCHANGED <<state, source, files, restored, resumed, torn>>

\* The provider resumes, or forks, what it finds.
Resume(h) ==
  /\ resumed' = [resumed EXCEPT ![h] = imported]
  /\ UNCHANGED <<state, source, move, files, restored, imported, torn>>

\* commit and abort: the one that comes first stands.
Committed(phase) == IF phase = "aborted" THEN phase ELSE "committed"
Aborted(phase) == IF phase \in {None, "committed"} THEN phase ELSE "aborted"

CommitTarget(h) ==
  /\ move' = [move EXCEPT ![h] = Committed(@)]
  /\ UNCHANGED <<state, source, files, restored, imported, resumed, torn>>
CommitSource(h) ==
  /\ source' = [source EXCEPT ![h] = Committed(@)]
  /\ UNCHANGED <<state, move, files, restored, imported, resumed, torn>>

\* The target also takes back a transcript that is as it was imported.
AbortTarget(h) ==
  /\ move' = [move EXCEPT ![h] = Aborted(@)]
  /\ imported' = IF move[h] \notin {None, "committed"} /\ imported = state[h] THEN None ELSE imported
  /\ UNCHANGED <<state, source, files, restored, resumed, torn>>
AbortSource(h) ==
  /\ source' = [source EXCEPT ![h] = Aborted(@)]
  /\ UNCHANGED <<state, move, files, restored, imported, resumed, torn>>

-----------------------------------------------------------------------------
(* The coordinator: handoff, transfer_blob and abort_best_effort.          *)

Ghosts == UNCHANGED <<late, gaveUp, trouble>>
Waits(h, call) == at[h] = call
Goes(h, call) == at' = [at EXCEPT ![h] = call]
Stays == UNCHANGED <<todo, off, current>>
Holds(h, f) == fd' = [fd EXCEPT ![h] = f]
\* An error of the operation aborts both sides.
GoesIf(h, ok, call) == Goes(h, IF ok THEN call ELSE "abortTarget") /\ Stays /\ UNCHANGED fd

\* The target's identity and account come first; without them nothing happens.
Preflight(h) ==
  /\ Waits(h, "idle") /\ (Goes(h, "prepare") \/ Goes(h, "failed"))
  /\ Stays /\ UNCHANGED <<fd, server>> /\ Ghosts

Prepares(h) == Waits(h, "prepare") /\ Prepare(h) /\ GoesIf(h, TRUE, "manifest") /\ Ghosts
\* A source that cannot checkpoint has recorded nothing.
PrepareFails(h) ==
  /\ Waits(h, "prepare") /\ Goes(h, "failed") /\ Stays /\ UNCHANGED <<fd, server>> /\ Ghosts
\* A checkpoint of a session the provider has no id for is turned down once it is
\* recorded, and nobody aborts it.
PrepareRefused(h) == Waits(h, "prepare") /\ Prepare(h) /\ GoesIf(h, TRUE, "refused") /\ Ghosts

SendsManifest(h) == Waits(h, "manifest") /\ PutManifest(h) /\ GoesIf(h, TRUE, "has") /\ Ghosts

\* The next missing blob, from its start, or else the stage.
Next_blob(h, rest) ==
  IF rest = {} THEN Goes(h, "stage") /\ todo' = [todo EXCEPT ![h] = {}] /\ UNCHANGED <<off, current>>
  ELSE /\ \E d \in rest : current' = [current EXCEPT ![h] = d] /\ todo' = [todo EXCEPT ![h] = rest \ {d}]
       /\ off' = [off EXCEPT ![h] = 0] /\ Goes(h, "put")

AsksMissing(h) ==
  Waits(h, "has") /\ Next_blob(h, Digests(h) \ Present) /\ UNCHANGED <<fd, server>> /\ Ghosts

\* After a chunk the next one, after the last the next blob.
Advances(h) ==
  IF off[h] + 1 < Size(current[h])
  THEN off' = [off EXCEPT ![h] = @ + 1] /\ Goes(h, "put") /\ UNCHANGED <<todo, current>>
  ELSE Next_blob(h, todo[h])

PutsChunk(h) ==
  /\ Waits(h, "put") /\ UNCHANGED server /\ Ghosts
  /\ IF current[h] \in Present THEN Advances(h) /\ UNCHANGED fd ELSE GoesIf(h, TRUE, "measure")
Measures(h) ==
  /\ Waits(h, "measure") /\ UNCHANGED server /\ Ghosts
  /\ GoesIf(h, Fits(current[h], off[h]), "open")
Opens(h) ==
  /\ Waits(h, "open") /\ Open(current[h]) /\ Ghosts
  /\ Goes(h, "append") /\ Stays /\ Holds(h, OpenId(current[h]))
AppendsChunk(h) ==
  /\ Waits(h, "append") /\ AppendChunk(current[h], off[h], fd[h]) /\ Holds(h, 0) /\ Ghosts
  /\ IF off[h] + 1 = Size(current[h]) THEN Goes(h, "digest") /\ Stays ELSE Advances(h)
TakesDigest(h) ==
  /\ Waits(h, "digest") /\ UNCHANGED server /\ Ghosts
  /\ IF Sealable(current[h]) THEN Goes(h, "rename") /\ Stays /\ Holds(h, partial[current[h]].id)
     ELSE GoesIf(h, FALSE, "rename")
Renames(h) ==
  /\ Waits(h, "rename") /\ Rename(current[h], fd[h]) /\ Holds(h, 0) /\ Ghosts
  /\ IF partial[current[h]].id # 0 THEN Advances(h) ELSE Goes(h, "abortTarget") /\ Stays

Stages(h) == Waits(h, "stage") /\ UNCHANGED server /\ GoesIf(h, Sound(Work), "copy") /\ Ghosts
Copies(h) == Waits(h, "copy") /\ Copy(h, Work) /\ GoesIf(h, StateSound(h), "settle") /\ Ghosts
Settles(h) == Waits(h, "settle") /\ Restore(h) /\ GoesIf(h, TRUE, "activate") /\ Ghosts
Activates(h) == Waits(h, "activate") /\ Activate(h) /\ GoesIf(h, Activatable(h), "resume") /\ Ghosts

\* A provider without the transcript has nothing to resume, and may refuse it.
Resumes(h) ==
  /\ Waits(h, "resume") /\ Ghosts
  /\ \/ imported # None /\ Resume(h) /\ GoesIf(h, TRUE, "commitTarget")
     \/ UNCHANGED server /\ GoesIf(h, FALSE, "commitTarget")

CommitsTarget(h) ==
  /\ Waits(h, "commitTarget") /\ CommitTarget(h) /\ Ghosts
  /\ GoesIf(h, move[h] # "aborted", "commitSource")
CommitsSource(h) ==
  /\ Waits(h, "commitSource") /\ CommitSource(h) /\ Ghosts
  /\ GoesIf(h, source[h] # "aborted", "done")

AbortsTarget(h) == Waits(h, "abortTarget") /\ AbortTarget(h) /\ GoesIf(h, TRUE, "abortSource") /\ Ghosts
AbortsSource(h) == Waits(h, "abortSource") /\ AbortSource(h) /\ GoesIf(h, TRUE, "failed") /\ Ghosts

\* Where the coordinator goes when a call is not answered.
OnError(call) ==
  CASE call \in {"prepare", "abortSource"} -> "failed"
    [] call = "abortTarget" -> "abortSource"
    [] OTHER -> "abortTarget"

\* The deadline passes, the connection breaks or the node dies: the request was
\* lost or is served later.
GiveUp(h) ==
  /\ trouble < MaxTrouble /\ trouble' = trouble + 1 /\ at[h] \in Calls
  /\ gaveUp' = [gaveUp EXCEPT ![h] = IF @ = None THEN at[h] ELSE @]
  /\ Goes(h, OnError(at[h])) /\ Stays /\ Holds(h, 0)
  /\ \/ UNCHANGED late
     \/ /\ at[h] # "has"
        /\ late' = late \cup
             {[h |-> h, call |-> at[h], d |-> current[h], n |-> off[h], fd |-> fd[h]]}
  /\ UNCHANGED server

\* A node serves a request nobody waits for, step by step.
Goes_on(r, call, f) == late' = (late \ {r}) \cup {[r EXCEPT !.call = call, !.fd = f]}
Served(r) == late' = late \ {r}
Goes_on_if(r, ok, call) == IF ok THEN Goes_on(r, call, 0) ELSE Served(r)
Late(r) ==
  /\ r \in late /\ UNCHANGED <<client, gaveUp, trouble>>
  /\ \/ r.call = "prepare" /\ Prepare(r.h) /\ Served(r)
     \/ r.call = "manifest" /\ PutManifest(r.h) /\ Served(r)
     \/ r.call = "put" /\ UNCHANGED server /\ Goes_on_if(r, r.d \notin Present, "measure")
     \/ r.call = "measure" /\ UNCHANGED server /\ Goes_on_if(r, Fits(r.d, r.n), "open")
     \/ r.call = "open" /\ Open(r.d) /\ Goes_on(r, "append", OpenId(r.d))
     \/ r.call = "append" /\ AppendChunk(r.d, r.n, r.fd)
        /\ Goes_on_if(r, r.n + 1 = Size(r.d), "digest")
     \/ r.call = "digest" /\ UNCHANGED server
        /\ IF Sealable(r.d) THEN Goes_on(r, "rename", partial[r.d].id) ELSE Served(r)
     \/ r.call = "rename" /\ Rename(r.d, r.fd) /\ Served(r)
     \/ r.call = "stage" /\ UNCHANGED server /\ Goes_on_if(r, Sound(Work), "copy")
     \/ r.call = "copy" /\ Copy(r.h, Work) /\ Goes_on_if(r, StateSound(r.h), "settle")
     \/ r.call = "settle" /\ Restore(r.h) /\ Goes_on(r, "activate", 0)
     \/ r.call = "activate" /\ Activate(r.h) /\ Served(r)
     \/ r.call = "resume" /\ Served(r)
        /\ IF imported = None THEN UNCHANGED server ELSE Resume(r.h)
     \/ r.call = "commitTarget" /\ CommitTarget(r.h) /\ Served(r)
     \/ r.call = "commitSource" /\ CommitSource(r.h) /\ Served(r)
     \/ r.call = "abortTarget" /\ AbortTarget(r.h) /\ Served(r)
     \/ r.call = "abortSource" /\ AbortSource(r.h) /\ Served(r)

Coordinator(h) ==
  \/ Prepares(h) \/ PrepareFails(h) \/ PrepareRefused(h) \/ SendsManifest(h) \/ AsksMissing(h)
  \/ PutsChunk(h) \/ Measures(h) \/ Opens(h) \/ AppendsChunk(h) \/ TakesDigest(h) \/ Renames(h)
  \/ Stages(h) \/ Copies(h) \/ Settles(h) \/ Activates(h) \/ Resumes(h)
  \/ CommitsTarget(h) \/ CommitsSource(h) \/ AbortsTarget(h) \/ AbortsSource(h)

Next ==
  \/ \E h \in Handoffs : Preflight(h) \/ Coordinator(h) \/ GiveUp(h)
  \/ \E r \in late : Late(r)

\* Every call has a deadline, so that a coordinator goes on.
Spec == Init /\ [][Next]_handoffVars /\ \A h \in Handoffs : WF_handoffVars(Coordinator(h))

-----------------------------------------------------------------------------
\* checkpoint.rs: a blob is what its digest says, although two transfers of it
\* can append to the one .partial file in any order, unless one of them wrote to
\* it, or put another in its place, once the other had taken the digest.
BlobsAreWhole == \A d \in Present : d \notin overrun => blob[d].data = Whole(d)

\* node_client.rs: a handoff is committed only once the target has restored all
\* of it and its provider has resumed.  Every copy is what its digest says unless
\* a blob was written to between the check and the copy.
CommittedIsWhole ==
  \A h \in Handoffs : move[h] = "committed" =>
    /\ h \in restored /\ Digests(h) \subseteq Present /\ resumed[h] # None
    /\ h \in torn => Digests(h) \cap overrun # {}

\* The source never gives a session away that the target did not take, and the
\* two disagree only when a commit was not answered.
LeaseAgrees ==
  \A h \in Handoffs :
    /\ source[h] = "committed" => move[h] = "committed"
    /\ at[h] \in Ended /\ move[h] = "committed" =>
         source[h] = "committed" \/ gaveUp[h] \in {"commitTarget", "commitSource"}

\* NODE.md: "A failure before commit aborts both sides", if all calls are
\* answered and the checkpoint was not refused.
FailureAborts ==
  \A h \in Handoffs : at[h] = "failed" /\ gaveUp[h] = None =>
    source[h] \in {None, "aborted"} /\ move[h] \in {None, "aborted"}

HandoffInv == TypeOK /\ BlobsAreWhole /\ CommittedIsWhole /\ LeaseAgrees /\ FailureAborts

\* handoff returns.
HandoffEnds == \A h \in Handoffs : at[h] \in Calls ~> at[h] \in Ended

\* What does not hold.  An abort takes away a transcript that an earlier handoff
\* imported and resumed, if the two are equal.
StateSurvives ==
  [][\A h \in Handoffs : move[h] = "committed" /\ imported # None => imported' # None]_handoffVars
\* The lease is on both sides or on neither.
LeaseOnBoth == \A h \in Handoffs : at[h] \in Ended /\ move[h] = "committed" => source[h] = "committed"
\* A provider resumes the conversation of the checkpoint.
ResumedIsCurrent == \A h \in Handoffs : resumed[h] # None => resumed[h] = state[h]
\* No transfer is refused because another one was cut off: a handoff starts each
\* blob at zero, and nothing takes a .partial away.
PartialsHaveOwner ==
  \A d \in Blobs : partial[d].id # 0 => late # {} \/
    \E h \in Handoffs :
      current[h] = d /\ at[h] \in {"put", "measure", "open", "append", "digest", "rename"}
\* A blob that has its name is what its digest says, whatever the order.
BlobsStayWhole == \A d \in Present : blob[d].data = Whole(d)
\* NODE.md: "A failure before commit aborts both sides".
RefusalAborts == \A h \in Handoffs : at[h] = "refused" => source[h] \in {None, "aborted"}

=============================================================================
