----------------------------- MODULE TrafficProofs -----------------------------
(***************************************************************************)
(* The safety of what serves many clients at once, for any number of them: *)
(* a handoff between execution nodes (HandoffSafe), the policy of the LLM  *)
(* gateway (GatewaySafe), and the event bus, whose subscriber misses       *)
(* nothing without a word (GapSafe) and gets the newest event (BusSafe).   *)
(***************************************************************************)
EXTENDS MCTraffic, FiniteSetTheorems, SequenceTheorems, WellFoundedInduction, TLAPS

(***************************************************************************)
(* The handoff.                                                            *)
(***************************************************************************)

\* The types, with every map a function on all of its domain.
HandoffType ==
  /\ at \in [Handoffs -> H!Calls \cup H!Ended \cup {"idle"}]
  /\ todo \in [Handoffs -> SUBSET H!Blobs] /\ off \in [Handoffs -> 0..Chunks]
  /\ current \in [Handoffs -> H!Blobs] /\ fd \in [Handoffs -> Nat]
  /\ state \in [Handoffs -> States \cup {H!None}]
  /\ source \in [Handoffs -> H!Phases] /\ move \in [Handoffs -> H!Phases]
  /\ partial \in [H!Blobs -> H!File] /\ blob \in [H!Blobs -> H!File]
  /\ made \in [H!Blobs -> Nat] /\ \A d \in H!Blobs : partial[d].id \in 0..made[d]
  /\ overrun \subseteq H!Blobs /\ torn \subseteq Handoffs
  /\ restored \subseteq Handoffs /\ imported \in States \cup {H!None}
  /\ resumed \in [Handoffs -> States \cup {H!None}]
  /\ late \subseteq [h : Handoffs, call : H!Calls, d : H!Blobs, n : 0..Chunks, fd : Nat]
  /\ gaveUp \in [Handoffs -> H!Calls \cup {H!None}] /\ trouble \in 0..MaxTrouble

Aborts == {"abortTarget", "abortSource"}
Forward == H!Calls \ Aborts
Commits == {"commitTarget", "commitSource"}
Appending == {"put", "measure", "open", "append"}
Putting == Appending \cup {"digest", "rename"}
Staging == {"stage", "copy", "settle", "activate"}

\* The target has restored all of a handoff.
Taken(h) == h \in restored /\ H!Digests(h) \subseteq H!Present
\* A copy of it is wrong only where a blob was written to after its digest was taken.
Intact(h) == h \in torn => H!Digests(h) \cap overrun # {}
\* A file whose digest was taken is a blob's, unless it was written to since.
Vouched(d, f) ==
  /\ f \in Nat \ {0} /\ f <= made[d]
  /\ d \notin overrun /\ partial[d].id = f => partial[d].data = H!Whole(d)

\* What is known of a handoff from where its coordinator is.
Course(h) ==
  /\ at[h] \in Appending => off[h] + 1 <= H!Size(current[h])
  /\ at[h] = "rename" => Vouched(current[h], fd[h])
  /\ at[h] \in {"idle", "prepare"} => source[h] = H!None /\ move[h] = H!None /\ h \notin torn
  /\ at[h] \in Forward \ {"prepare"} => source[h] = "prepared"
  /\ at[h] = "done" => source[h] = "committed"
  /\ at[h] \in Forward \cup {"idle", "done", "refused"} => gaveUp[h] = H!None
  /\ at[h] = "copy" => Work \in H!Present
  /\ at[h] = "settle" => H!Digests(h) \subseteq H!Present
  /\ at[h] \in {"activate", "resume"} \cup Commits => Taken(h)
  /\ at[h] \in Commits => resumed[h] # H!None
  /\ at[h] = "commitSource" => move[h] = "committed"
  /\ at[h] = "abortSource" /\ gaveUp[h] = H!None => move[h] \in {H!None, "aborted"}
  /\ at[h] = "failed" /\ gaveUp[h] = H!None =>
       source[h] \in {H!None, "aborted"} /\ move[h] \in {H!None, "aborted"}

\* What a commit stands for, whoever waited for it.
Given(h) ==
  /\ gaveUp[h] # "prepare" => Intact(h)
  /\ source[h] = "committed" => move[h] = "committed"
  /\ move[h] = "committed" =>
       /\ Taken(h) /\ resumed[h] # H!None
       /\ at[h] \in {"commitSource", "done"} \/ gaveUp[h] \in Commits

\* The call that was given up, of which this one is what remains.
Origin(call) ==
  IF call \in Putting THEN Putting ELSE IF call \in Staging THEN Staging ELSE {call}

\* What is known of a handoff from a request of it that is still to be served:
\* a step forward is the first call that was given up, and its coordinator aborts.
Straggler(r) ==
  /\ r.call # "has" /\ gaveUp[r.h] # H!None
  /\ r.call \in Forward => /\ at[r.h] \in Aborts \cup {"failed"}
                           /\ gaveUp[r.h] \in Origin(r.call)
  /\ r.call = "prepare" => at[r.h] = "failed"
  /\ r.call \in Appending => r.n + 1 <= H!Size(r.d)
  /\ r.call = "rename" => Vouched(r.d, r.fd)
  /\ r.call = "copy" => Work \in H!Present
  /\ r.call = "settle" => H!Digests(r.h) \subseteq H!Present
  /\ r.call \in {"activate", "resume"} \cup Commits => Taken(r.h)
  /\ r.call \in Commits => resumed[r.h] # H!None
  /\ r.call = "commitSource" => move[r.h] = "committed"

\* The invariant the handoff's induction carries.
HandoffIInv ==
  /\ HandoffType /\ H!BlobsAreWhole
  /\ \A h \in Handoffs : Course(h) /\ Given(h)
  /\ \A r \in late : Straggler(r)

\* What the nodes keep, and what they never lose.
ServerType ==
  /\ state \in [Handoffs -> States \cup {H!None}]
  /\ source \in [Handoffs -> H!Phases] /\ move \in [Handoffs -> H!Phases]
  /\ partial \in [H!Blobs -> H!File] /\ blob \in [H!Blobs -> H!File]
  /\ made \in [H!Blobs -> Nat] /\ \A d \in H!Blobs : partial[d].id \in 0..made[d]
  /\ overrun \subseteq H!Blobs /\ torn \subseteq Handoffs
  /\ restored \subseteq Handoffs /\ imported \in States \cup {H!None}
  /\ resumed \in [Handoffs -> States \cup {H!None}]
Grows == restored \subseteq restored' /\ H!Present \subseteq H!Present' /\ overrun \subseteq overrun'
SameElse(h) ==
  \A g \in Handoffs \ {h} : /\ state'[g] = state[g] /\ source'[g] = source[g]
                            /\ move'[g] = move[g] /\ resumed'[g] = resumed[g]
                            /\ g \in torn' => g \in torn
\* What a digest was taken of stays vouched for until it is renamed.
Vouches == \A d \in H!Blobs : \A f \in H!Sums(d) : Vouched(d, f) => Vouched(d, f)'
Stored == H!BlobsAreWhole' /\ Grows /\ Vouches
Served(h) == ServerType' /\ Stored /\ SameElse(h)
HandoffBase == ServerType /\ H!BlobsAreWhole

\* A blob that is whole is there.
LEMMA WholeIsThere ==
  ASSUME NEW d \in H!Blobs
  PROVE  H!Size(d) \in 1..Chunks /\ H!Whole(d) # <<>>
<1>1. H!Size(d) \in 1..Chunks
  BY TrafficAssumption DEF H!HandoffConstants, H!Size
<1>2. 1 \in DOMAIN H!Whole(d)
  BY <1>1 DEF H!Whole
<1>3. DOMAIN <<>> = {}
  OBVIOUS
<1> QED BY <1>1, <1>2, <1>3

\* Nothing is lost where the nodes leave blobs and restored checkpoints alone.
LEMMA NothingMoves ==
  ASSUME HandoffBase, UNCHANGED H!files, restored \subseteq restored'
  PROVE  Stored
<1> USE DEF H!files
<1>1. H!BlobsAreWhole' /\ Grows
  BY DEF HandoffBase, H!BlobsAreWhole, Grows, H!Present, H!Whole, H!Size, H!Blobs
<1>2. Vouches
  BY DEF Vouches, Vouched, H!Whole, H!Size
<1> QED BY <1>1, <1>2 DEF Stored

\* What a node does for one handoff leaves the records of the others alone, and
\* loses neither blobs nor restored checkpoints.
LEMMA NodeServes ==
  ASSUME HandoffBase, NEW h \in Handoffs,
         \/ H!Prepare(h) \/ H!PutManifest(h) \/ H!Copy(h, Work) \/ H!Restore(h) \/ H!Activate(h)
         \/ H!Resume(h) \/ H!CommitTarget(h) \/ H!CommitSource(h) \/ H!AbortTarget(h)
         \/ H!AbortSource(h) \/ UNCHANGED H!server
  PROVE  Served(h)
<1> USE DEF HandoffBase, ServerType, Served, SameElse, H!Phases, H!None
<1>0. H!None \in States \cup {H!None} /\ \A i \in Handoffs : state[i] \in States \cup {H!None}
  OBVIOUS
<1>f. Stored
  BY NothingMoves DEF H!Prepare, H!PutManifest, H!Copy, H!Restore, H!Activate, H!Resume,
     H!CommitTarget, H!CommitSource, H!AbortTarget, H!AbortSource, H!server
<1>t. UNCHANGED <<partial, blob, made, overrun>>
  BY DEF H!Prepare, H!PutManifest, H!Copy, H!Restore, H!Activate, H!Resume,
     H!CommitTarget, H!CommitSource, H!AbortTarget, H!AbortSource, H!server, H!files
<1>1. CASE H!Prepare(h)
  <2>2. PICK s \in H!Stored : state' = [state EXCEPT ![h] = s]
    BY <1>1 DEF H!Prepare
  <2>3. s \in States \cup {H!None}
    BY DEF H!Stored
  <2> QED BY <1>1, <1>f, <1>t, <2>2, <2>3 DEF H!Prepare
<1>2. CASE H!PutManifest(h)
  BY <1>2, <1>f, <1>t DEF H!PutManifest
<1>3. CASE H!Restore(h) \/ H!Copy(h, Work)
  BY <1>3, <1>f, <1>t DEF H!Restore, H!Copy
<1>4. CASE H!Activate(h)
  BY <1>4, <1>0, <1>f, <1>t DEF H!Activate
<1>5. CASE H!Resume(h)
  BY <1>5, <1>f, <1>t DEF H!Resume
<1>6. CASE H!CommitTarget(h) \/ H!CommitSource(h)
  BY <1>6, <1>f, <1>t DEF H!CommitTarget, H!CommitSource, H!Committed
<1>7. CASE H!AbortTarget(h)
  BY <1>7, <1>f, <1>t DEF H!AbortTarget, H!Aborted
<1>8. CASE H!AbortSource(h)
  BY <1>8, <1>f, <1>t DEF H!AbortSource, H!Aborted
<1>9. CASE UNCHANGED H!server
  BY <1>9, <1>f, <1>t DEF H!server
<1> QED BY <1>1, <1>2, <1>3, <1>4, <1>5, <1>6, <1>7, <1>8, <1>9

\* An open file, new or not, has an id no digest was taken under before it existed.
LEMMA FileOpens ==
  ASSUME HandoffBase, NEW h \in Handoffs, NEW d \in H!Blobs, H!Open(d)
  PROVE  /\ Served(h) /\ H!OpenId(d) \in Nat
         /\ UNCHANGED <<state, source, move, restored, imported, resumed, torn>>
<1> USE DEF HandoffBase, ServerType
<1>1. /\ partial[d] \in H!File /\ partial[d].id \in 0..made[d] /\ made[d] \in Nat
      /\ H!OpenId(d) = IF partial[d].id = 0 THEN made[d] + 1 ELSE partial[d].id
  BY DEF H!OpenId
<1>2. /\ partial' \in [H!Blobs -> H!File]
      /\ \A e \in H!Blobs : partial'[e].id = IF e = d THEN H!OpenId(d) ELSE partial[e].id
      /\ \A e \in H!Blobs : partial'[e].data = partial[e].data
  <2>0. H!OpenId(d) \in Nat
    BY <1>1
  <2>1. [partial[d] EXCEPT !.id = H!OpenId(d)] \in H!File
    <3> HIDE DEF HandoffBase, ServerType
    <3> QED BY <1>1, <2>0 DEF H!File
  <2>2. PICK x : x = [partial[d] EXCEPT !.id = H!OpenId(d)]
    OBVIOUS
  <2>3. x \in H!File /\ x.id = H!OpenId(d) /\ x.data = partial[d].data
    BY <1>1, <2>1, <2>2 DEF H!File
  <2>4. partial' = [partial EXCEPT ![d] = x]
    BY <2>2 DEF H!Open
  <2>5. /\ partial' \in [H!Blobs -> H!File]
        /\ \A e \in H!Blobs : partial'[e] = IF e = d THEN x ELSE partial[e]
    BY <2>3, <2>4
  <2> QED BY <2>3, <2>5
<1>3. /\ made' \in [H!Blobs -> Nat]
      /\ \A e \in H!Blobs : made'[e] = IF e = d /\ partial[d].id = 0 THEN made[e] + 1 ELSE made[e]
  BY <1>1 DEF H!Open
<1>4. ServerType'
  BY <1>1, <1>2, <1>3 DEF H!Open
<1>5. H!BlobsAreWhole' /\ Grows
  BY DEF H!Open, H!BlobsAreWhole, Grows, H!Present, H!Whole, H!Size, H!Blobs
<1>6. Vouches
  <2> SUFFICES ASSUME NEW e \in H!Blobs, NEW f \in H!Sums(e), Vouched(e, f) PROVE Vouched(e, f)'
    BY DEF Vouches
  <2>1. f \in Nat \ {0} /\ f <= made[e] /\ made[e] \in Nat
    BY DEF Vouched
  <2>2. f <= made'[e]
    BY <1>3, <2>1
  <2>3. partial'[e].id = f => partial[e].id = f
    BY <1>1, <1>2, <2>1
  <2> QED BY <1>2, <2>1, <2>2, <2>3 DEF Vouched, H!Open, H!Whole, H!Size
<1> QED BY <1>1, <1>4, <1>5, <1>6 DEF Served, Stored, SameElse, H!Open

\* A chunk leaves blobs and vouched files whole unless it lands in one.
LEMMA ChunkLands ==
  ASSUME HandoffBase, NEW h \in Handoffs, NEW d \in H!Blobs, NEW n \in 0..Chunks, NEW f \in Nat,
         n + 1 <= H!Size(d), H!AppendChunk(d, n, f)
  PROVE  Served(h) /\ UNCHANGED <<state, source, move, restored, imported, resumed, torn>>
<1> USE DEF HandoffBase, ServerType
<1>1. n + 1 \in 1..Chunks
  BY WholeIsThere, TrafficAssumption DEF H!HandoffConstants
<1>2. ASSUME NEW x \in H!File
      PROVE  /\ H!Written(x, f, n) \in H!File /\ H!Written(x, f, n).id = x.id
             /\ x.id # f => H!Written(x, f, n) = x
  <2>1. Append(x.data, n + 1) \in Seq(1..Chunks)
    BY <1>1, AppendProperties DEF H!File
  <2> QED BY <2>1 DEF H!Written, H!File
<1>3. /\ partial' = [partial EXCEPT ![d] = H!Written(partial[d], f, n)]
      /\ blob' = [blob EXCEPT ![d] = H!Written(blob[d], f, n)]
  BY DEF H!AppendChunk
<1>4. /\ partial' \in [H!Blobs -> H!File] /\ blob' \in [H!Blobs -> H!File]
      /\ \A e \in H!Blobs : partial'[e].id = partial[e].id /\ blob'[e].id = blob[e].id
      /\ \A e \in H!Blobs : e # d \/ partial[e].id # f => partial'[e] = partial[e]
      /\ \A e \in H!Blobs : e # d \/ blob[e].id # f => blob'[e] = blob[e]
  BY <1>2, <1>3
<1>5. /\ overrun \subseteq overrun' /\ overrun' \subseteq H!Blobs /\ UNCHANGED made
      /\ f = blob[d].id \/ f \in H!Sums(d) => d \in overrun'
  BY DEF H!AppendChunk
<1>6. ServerType'
  BY <1>4, <1>5 DEF H!AppendChunk
<1>7. Grows /\ H!Present' = H!Present
  BY <1>4, <1>5 DEF Grows, H!Present, H!AppendChunk, H!Blobs
<1>8. H!BlobsAreWhole'
  <2> SUFFICES ASSUME NEW e \in H!Present', e \notin overrun' PROVE blob'[e].data = H!Whole(e)
    BY DEF H!BlobsAreWhole, H!Whole, H!Size
  <2>1. e \in H!Present /\ e \in H!Blobs /\ e \notin overrun
    BY <1>5, <1>7 DEF H!Present
  <2>2. blob'[e] = blob[e]
    BY <1>4, <1>5, <2>1
  <2> QED BY <2>1, <2>2 DEF H!BlobsAreWhole
<1>9. Vouches
  <2> SUFFICES ASSUME NEW e \in H!Blobs, NEW g \in H!Sums(e), Vouched(e, g) PROVE Vouched(e, g)'
    BY DEF Vouches
  <2>1. e \in overrun' \/ partial[e].id # g \/ partial'[e] = partial[e]
    BY <1>4, <1>5
  <2> QED BY <1>4, <1>5, <2>1 DEF Vouched, H!Whole, H!Size
<1> QED BY <1>6, <1>7, <1>8, <1>9 DEF Served, Stored, SameElse, H!AppendChunk

\* What is renamed is what the digest was taken of, or the blob is overrun.
LEMMA FileRenamed ==
  ASSUME HandoffBase, NEW h \in Handoffs, NEW d \in H!Blobs, NEW f \in Nat,
         Vouched(d, f), H!Rename(d, f)
  PROVE  Served(h) /\ UNCHANGED <<state, source, move, restored, imported, resumed, torn>>
<1> USE DEF HandoffBase, ServerType
<1>1. CASE partial[d].id = 0
  <2>1. UNCHANGED H!server
    BY <1>1 DEF H!Rename, H!server, H!files
  <2> QED BY <2>1, NodeServes DEF H!server
<1>2. CASE partial[d].id # 0
  <2>0. <<>> \in Seq(1..Chunks)
    BY EmptySeq
  <2>1. H!NoFile \in H!File /\ H!NoFile.id = 0
    BY <2>0 DEF H!NoFile, H!File
  <2>2. /\ blob' = [blob EXCEPT ![d] = partial[d]] /\ partial' = [partial EXCEPT ![d] = H!NoFile]
        /\ overrun \subseteq overrun' /\ overrun' \subseteq H!Blobs /\ UNCHANGED made
        /\ partial[d].id # f => d \in overrun'
    BY <1>2 DEF H!Rename
  <2>3. /\ blob' \in [H!Blobs -> H!File] /\ partial' \in [H!Blobs -> H!File]
        /\ \A e \in H!Blobs : blob'[e] = IF e = d THEN partial[d] ELSE blob[e]
        /\ \A e \in H!Blobs : partial'[e] = IF e = d THEN H!NoFile ELSE partial[e]
    BY <2>1, <2>2
  <2>4. ServerType'
    BY <2>1, <2>2, <2>3 DEF H!Rename
  <2>5. Grows
    BY <1>2, <2>2, <2>3 DEF Grows, H!Present, H!Blobs, H!Rename
  <2>6. H!BlobsAreWhole'
    <3> SUFFICES ASSUME NEW e \in H!Present', e \notin overrun' PROVE blob'[e].data = H!Whole(e)
      BY DEF H!BlobsAreWhole, H!Whole, H!Size
    <3>1. e \in H!Blobs /\ e \notin overrun
      BY <2>2 DEF H!Present, H!Blobs
    <3>2. CASE e = d
      BY <2>2, <2>3, <3>1, <3>2 DEF Vouched
    <3>3. CASE e # d
      BY <2>3, <3>1, <3>3 DEF H!BlobsAreWhole, H!Present, H!Blobs
    <3> QED BY <3>2, <3>3
  <2>7. Vouches
    <3> SUFFICES ASSUME NEW e \in H!Blobs, NEW g \in H!Sums(e), Vouched(e, g) PROVE Vouched(e, g)'
      BY DEF Vouches
    <3> QED BY <2>1, <2>2, <2>3 DEF Vouched, H!Whole, H!Size
  <2> QED BY <2>4, <2>5, <2>6, <2>7 DEF Served, Stored, SameElse, H!Rename
<1> QED BY <1>1, <1>2

\* The client's part of the types.
ClientType ==
  /\ at \in [Handoffs -> H!Calls \cup H!Ended \cup {"idle"}]
  /\ todo \in [Handoffs -> SUBSET H!Blobs] /\ off \in [Handoffs -> 0..Chunks]
  /\ current \in [Handoffs -> H!Blobs] /\ fd \in [Handoffs -> Nat]
  /\ late \subseteq [h : Handoffs, call : H!Calls, d : H!Blobs, n : 0..Chunks, fd : Nat]
  /\ gaveUp \in [Handoffs -> H!Calls \cup {H!None}] /\ trouble \in 0..MaxTrouble

\* The coordinators of the other handoffs, and their late requests, stay as they are.
ClientElse(h) ==
  /\ \A g \in Handoffs \ {h} : /\ at'[g] = at[g] /\ off'[g] = off[g] /\ fd'[g] = fd[g]
                               /\ current'[g] = current[g] /\ gaveUp'[g] = gaveUp[g]
  /\ \A r \in late' : r.h # h => r \in late

\* What the target has taken it keeps.
LEMMA TakenKept ==
  ASSUME NEW h \in Handoffs, Grows, state'[h] = state[h], Taken(h)
  PROVE  Taken(h)'
BY DEF Taken, Grows, H!Digests

\* Nor is a copy wrong for another reason.
LEMMA IntactKept ==
  ASSUME HandoffBase, NEW h \in Handoffs, Grows, state'[h] = state[h], Intact(h),
         h \in torn' => h \in torn \/ \E d \in H!Digests(h) \cap H!Present : blob[d].data # H!Whole(d)
  PROVE  Intact(h)'
BY DEF Intact, Grows, H!Digests, HandoffBase, H!BlobsAreWhole

\* A late rename stays vouched for.
LEMMA VouchedLate ==
  ASSUME HandoffIInv, Vouches, NEW r \in late, r.call = "rename", Vouched(r.d, r.fd)
  PROVE  Vouched(r.d, r.fd)'
<1>1. r.d \in H!Blobs /\ r.fd \in H!Sums(r.d)
  BY DEF H!Sums, HandoffIInv, HandoffType
<1> QED BY <1>1 DEF Vouches

\* It is enough to look at the handoff a step is about.
LEMMA OneHandoff ==
  ASSUME HandoffIInv, NEW h \in Handoffs, Served(h), ClientType', ClientElse(h),
         Course(h)', Given(h)', \A r \in late' : r.h = h => Straggler(r)'
  PROVE  HandoffIInv'
<1>1. HandoffType' /\ H!BlobsAreWhole'
  BY DEF Served, Stored, ServerType, ClientType, HandoffType
<1>b. HandoffBase /\ Grows /\ Vouches
  BY DEF HandoffIInv, HandoffType, HandoffBase, ServerType, Served, Stored
<1>2. ASSUME NEW g \in Handoffs, g # h PROVE Course(g)' /\ Given(g)'
  <2>1. Course(g) /\ Given(g)
    BY DEF HandoffIInv
  <2>2. /\ at'[g] = at[g] /\ off'[g] = off[g] /\ current'[g] = current[g]
        /\ gaveUp'[g] = gaveUp[g] /\ state'[g] = state[g] /\ source'[g] = source[g]
        /\ move'[g] = move[g] /\ resumed'[g] = resumed[g] /\ fd'[g] = fd[g]
        /\ (g \in torn' => g \in torn)
    BY <1>2 DEF Served, SameElse, ClientElse
  <2>3. /\ Taken(g) => Taken(g)'
        /\ Intact(g) => Intact(g)'
        /\ H!Present \subseteq H!Present' /\ H!Digests(g)' = H!Digests(g)
    BY <1>b, <2>2, TakenKept, IntactKept DEF Grows, H!Digests
  <2>4. at[g] = "rename" /\ Vouched(current[g], fd[g]) => Vouched(current[g], fd[g])'
    <3> SUFFICES ASSUME at[g] = "rename", Vouched(current[g], fd[g])
                 PROVE  Vouched(current[g], fd[g])'
      OBVIOUS
    <3>1. current[g] \in H!Blobs /\ fd[g] \in H!Sums(current[g])
      BY DEF H!Sums, HandoffIInv, HandoffType
    <3>2. PICK d \in H!Blobs : d = current[g]
      BY <3>1
    <3>3. PICK f \in H!Sums(d) : f = fd[g]
      BY <3>1, <3>2
    <3>4. Vouched(d, f)'
      BY <1>b, <3>2, <3>3 DEF Vouches
    <3> QED BY <2>2, <3>2, <3>3, <3>4 DEF Vouched, H!Whole, H!Size
  <2> QED BY <2>1, <2>2, <2>3, <2>4 DEF Course, Given, H!Size, H!None
<1>3. ASSUME NEW r \in late', r.h # h PROVE Straggler(r)'
  <2>1. r \in late /\ Straggler(r) /\ r.h \in Handoffs
    BY <1>3 DEF HandoffIInv, ClientElse, HandoffType
  <2>2. /\ at'[r.h] = at[r.h] /\ gaveUp'[r.h] = gaveUp[r.h] /\ state'[r.h] = state[r.h]
        /\ move'[r.h] = move[r.h] /\ resumed'[r.h] = resumed[r.h]
    BY <1>3, <2>1 DEF Served, SameElse, ClientElse
  <2>3. /\ Taken(r.h) => Taken(r.h)'
        /\ H!Present \subseteq H!Present' /\ H!Digests(r.h)' = H!Digests(r.h)
    BY <1>b, <2>1, <2>2, TakenKept DEF Grows, H!Digests
  <2>4. r.call = "rename" => Vouched(r.d, r.fd)'
    BY <1>b, <2>1, VouchedLate DEF Straggler
  <2> QED BY <2>1, <2>2, <2>3, <2>4 DEF Straggler, H!Size, H!None, Origin
<1> QED BY <1>1, <1>2, <1>3 DEF HandoffIInv

\* Before anything starts the invariant holds.
LEMMA HandoffInitial == H!Init => HandoffIInv
<1> SUFFICES ASSUME H!Init PROVE HandoffIInv
  OBVIOUS
<1> USE TrafficAssumption DEF H!Init, H!HandoffConstants
<1>1. <<>> \in Seq(1..Chunks)
  BY EmptySeq
<1>2. HandoffType
  BY <1>1 DEF HandoffType, H!Blobs, H!Phases, H!Calls, H!Ended, H!None, H!File, H!NoFile
<1>3. H!BlobsAreWhole
  BY DEF H!BlobsAreWhole, H!Present, H!NoFile
<1>4. \A h \in Handoffs : Course(h) /\ Given(h)
  BY DEF Course, Given, Intact, Appending, H!None, Forward, Aborts, Commits, H!Calls
<1> QED BY <1>2, <1>3, <1>4 DEF HandoffIInv

\* Nothing of a handoff is late before its coordinator has given a call up.
LEMMA NoneLate ==
  ASSUME HandoffIInv, NEW h \in Handoffs, gaveUp[h] = H!None
  PROVE  \A r \in late : r.h # h
BY DEF HandoffIInv, Straggler

\* put_blob opens or closes its own file alone.
FdStep(h) == fd' \in [Handoffs -> Nat] /\ \A g \in Handoffs \ {h} : fd'[g] = fd[g]
LEMMA FileHeld ==
  ASSUME HandoffIInv, NEW h \in Handoffs, NEW f \in Nat, UNCHANGED fd \/ H!Holds(h, f)
  PROVE  FdStep(h) /\ (H!Holds(h, f) => fd'[h] = f)
BY DEF HandoffIInv, HandoffType, FdStep, H!Holds

\* A step of a coordinator that waits for its calls.
LEMMA CoordinatorGoes ==
  ASSUME HandoffIInv, NEW h \in Handoffs, NEW call \in H!Calls \cup H!Ended, H!Goes(h, call),
         UNCHANGED <<late, gaveUp, trouble>>,
         todo' \in [Handoffs -> SUBSET H!Blobs], off' \in [Handoffs -> 0..Chunks],
         current' \in [Handoffs -> H!Blobs], FdStep(h),
         \A g \in Handoffs \ {h} : off'[g] = off[g] /\ current'[g] = current[g]
  PROVE  ClientType' /\ ClientElse(h) /\ at'[h] = call /\ gaveUp'[h] = gaveUp[h]
<1>1. /\ at' \in [Handoffs -> H!Calls \cup H!Ended \cup {"idle"}] /\ at'[h] = call
      /\ \A g \in Handoffs \ {h} : at'[g] = at[g]
  BY DEF HandoffIInv, HandoffType, H!Goes
<1> QED BY <1>1 DEF HandoffIInv, HandoffType, ClientType, ClientElse, FdStep

\* The next blob, if any, is sent from its start.
LEMMA NextBlob ==
  ASSUME HandoffIInv, NEW h \in Handoffs, NEW rest \in SUBSET H!Blobs, H!Next_blob(h, rest),
         FdStep(h), UNCHANGED <<late, gaveUp, trouble>>
  PROVE  /\ ClientType' /\ ClientElse(h) /\ gaveUp'[h] = gaveUp[h]
         /\ \/ at'[h] = "stage"
            \/ at'[h] = "put" /\ off'[h] + 1 <= H!Size(current'[h])
<1>0. /\ todo \in [Handoffs -> SUBSET H!Blobs] /\ off \in [Handoffs -> 0..Chunks]
      /\ current \in [Handoffs -> H!Blobs]
  BY DEF HandoffIInv, HandoffType
<1>1. CASE rest = {}
  <2>1. H!Goes(h, "stage") /\ todo' \in [Handoffs -> SUBSET H!Blobs] /\ UNCHANGED <<off, current>>
    BY <1>0, <1>1 DEF H!Next_blob
  <2> QED BY <1>0, <2>1, CoordinatorGoes DEF H!Calls
<1>2. CASE rest # {}
  <2>1. PICK d \in rest : /\ current' = [current EXCEPT ![h] = d]
                          /\ todo' = [todo EXCEPT ![h] = rest \ {d}]
    BY <1>2 DEF H!Next_blob
  <2>2. /\ off' = [off EXCEPT ![h] = 0] /\ H!Goes(h, "put")
        /\ 0 \in 0..Chunks /\ H!Size(d) \in 1..Chunks
    BY <1>2, WholeIsThere, TrafficAssumption DEF H!Next_blob, H!HandoffConstants
  <2>3. /\ off' \in [Handoffs -> 0..Chunks] /\ off'[h] = 0
        /\ current' \in [Handoffs -> H!Blobs] /\ current'[h] = d
        /\ todo' \in [Handoffs -> SUBSET H!Blobs]
        /\ \A g \in Handoffs \ {h} : off'[g] = off[g] /\ current'[g] = current[g]
    BY <1>0, <2>1, <2>2
  <2>4. ClientType' /\ ClientElse(h) /\ at'[h] = "put" /\ gaveUp'[h] = gaveUp[h]
    BY <2>2, <2>3, CoordinatorGoes DEF H!Calls
  <2> QED BY <2>2, <2>3, <2>4
<1> QED BY <1>1, <1>2

\* A transfer goes on within its blob, or to the next.
LEMMA TransferAdvances ==
  ASSUME HandoffIInv, NEW h \in Handoffs, H!Advances(h), FdStep(h),
         UNCHANGED <<late, gaveUp, trouble>>
  PROVE  /\ ClientType' /\ ClientElse(h) /\ gaveUp'[h] = gaveUp[h]
         /\ \/ at'[h] = "stage"
            \/ at'[h] = "put" /\ off'[h] + 1 <= H!Size(current'[h])
<1>0. /\ todo \in [Handoffs -> SUBSET H!Blobs] /\ off \in [Handoffs -> 0..Chunks]
      /\ current \in [Handoffs -> H!Blobs] /\ H!Size(current[h]) \in 1..Chunks
  BY WholeIsThere DEF HandoffIInv, HandoffType
<1>1. CASE off[h] + 1 < H!Size(current[h])
  <2>1. off' = [off EXCEPT ![h] = @ + 1] /\ H!Goes(h, "put") /\ UNCHANGED <<todo, current>>
    BY <1>1 DEF H!Advances
  <2>2. off[h] + 1 \in 0..Chunks
    BY <1>0, <1>1, TrafficAssumption DEF H!HandoffConstants
  <2>3. /\ off' \in [Handoffs -> 0..Chunks] /\ off'[h] = off[h] + 1
        /\ \A g \in Handoffs \ {h} : off'[g] = off[g]
    BY <1>0, <2>1, <2>2
  <2>4. ClientType' /\ ClientElse(h) /\ at'[h] = "put" /\ gaveUp'[h] = gaveUp[h]
    BY <1>0, <2>1, <2>3, CoordinatorGoes DEF H!Calls
  <2>5. off'[h] + 1 <= H!Size(current'[h])
    BY <1>0, <1>1, <2>1, <2>3, TrafficAssumption DEF H!HandoffConstants
  <2> QED BY <2>4, <2>5
<1>2. CASE ~(off[h] + 1 < H!Size(current[h]))
  <2>1. H!Next_blob(h, todo[h]) /\ todo[h] \in SUBSET H!Blobs
    BY <1>0, <1>2 DEF H!Advances
  <2> QED BY <2>1, NextBlob
<1> QED BY <1>1, <1>2

\* A step whose coordinator goes on to one call, or aborts.
LEMMA CoordinatorStays ==
  ASSUME HandoffIInv, NEW h \in Handoffs, NEW ok \in BOOLEAN, NEW call \in H!Calls \cup H!Ended,
         H!GoesIf(h, ok, call), UNCHANGED <<late, gaveUp, trouble>>
  PROVE  /\ ClientType' /\ ClientElse(h) /\ gaveUp'[h] = gaveUp[h] /\ off'[h] = off[h]
         /\ current'[h] = current[h] /\ UNCHANGED fd /\ at'[h] = IF ok THEN call ELSE "abortTarget"
<1>0. H!Goes(h, IF ok THEN call ELSE "abortTarget") /\ UNCHANGED <<todo, off, current, fd>>
  BY DEF H!GoesIf, H!Stays
<1>1. FdStep(h) /\ UNCHANGED <<todo, off, current, fd>>
  BY <1>0 DEF FdStep, HandoffIInv, HandoffType
<1>2. (IF ok THEN call ELSE "abortTarget") \in H!Calls \cup H!Ended
  BY DEF H!Calls
<1> QED BY <1>0, <1>1, <1>2, CoordinatorGoes DEF HandoffIInv, HandoffType

\* While no call was given up there is nothing late to look at.
LEMMA ForwardStep ==
  ASSUME HandoffIInv, NEW h \in Handoffs, gaveUp[h] = H!None, Served(h), ClientType',
         ClientElse(h), UNCHANGED late, Course(h)', Given(h)'
  PROVE  HandoffIInv'
BY NoneLate, OneHandoff

\* The steps up to the transfer of the blobs.
LEMMA HandoffBegins ==
  ASSUME HandoffIInv, NEW h \in Handoffs,
         H!Preflight(h) \/ H!Prepares(h) \/ H!PrepareFails(h) \/ H!PrepareRefused(h)
           \/ H!SendsManifest(h)
  PROVE  HandoffIInv'
<1> USE DEF H!Ghosts, H!Waits, H!Stays, H!GoesIf
<1>0. HandoffBase /\ HandoffType /\ Course(h) /\ Given(h)
  BY DEF HandoffIInv, HandoffType, HandoffBase, ServerType
<1>1. at[h] \in {"idle", "prepare", "manifest"} /\ gaveUp[h] = H!None
  BY <1>0 DEF H!Preflight, H!Prepares, H!PrepareFails, H!PrepareRefused, H!SendsManifest, Course,
     Forward, Aborts, H!Calls
<1>2. Served(h)
  BY <1>0, NodeServes DEF H!Preflight, H!Prepares, H!PrepareFails, H!PrepareRefused,
     H!SendsManifest, H!server
<1>3. PICK to \in {"prepare", "failed", "refused", "manifest", "has"} :
        ClientType' /\ ClientElse(h) /\ at'[h] = to /\ gaveUp'[h] = gaveUp[h] /\ UNCHANGED late
  <2>1. PICK to \in {"prepare", "failed", "refused", "manifest", "has"} : H!Goes(h, to)
    BY DEF H!Preflight, H!Prepares, H!PrepareFails, H!PrepareRefused, H!SendsManifest
  <2>2. UNCHANGED <<todo, off, current, fd, late, gaveUp, trouble>>
    BY DEF H!Preflight, H!Prepares, H!PrepareFails, H!PrepareRefused, H!SendsManifest
  <2>3. FdStep(h)
    BY <1>0, <2>2 DEF FdStep, HandoffType
  <2> QED BY <2>1, <2>2, <2>3, CoordinatorGoes DEF H!Calls, H!Ended, HandoffIInv, HandoffType
<1>i. UNCHANGED torn /\ (UNCHANGED state => Intact(h)')
  <2>1. UNCHANGED torn
    BY DEF H!Preflight, H!Prepares, H!PrepareFails, H!PrepareRefused, H!SendsManifest, H!server,
       H!Prepare, H!PutManifest
  <2>2. Intact(h) /\ Grows
    BY <1>0, <1>1, <1>2 DEF Given, Served, Stored, H!None
  <2> QED BY <1>0, <2>1, <2>2, IntactKept
<1> USE DEF Course, Given, Appending, Forward, Aborts, Commits, H!Calls, H!None
<1>4. CASE H!Preflight(h) \/ H!PrepareFails(h)
  <2>1. /\ source'[h] = H!None /\ move'[h] = H!None /\ at'[h] \in {"prepare", "failed"}
        /\ UNCHANGED <<torn, state>> /\ h \notin torn
    BY <1>0, <1>4 DEF H!Preflight, H!PrepareFails, H!server, H!Goes, HandoffType
  <2> QED BY <1>1, <1>2, <1>3, <1>i, <2>1, ForwardStep
<1>5. CASE H!Prepares(h) \/ H!PrepareRefused(h)
  <2>1. /\ source'[h] = "prepared" /\ move'[h] = H!None /\ at'[h] \in {"manifest", "refused"}
        /\ h \notin torn'
    BY <1>0, <1>5, <1>i DEF H!Prepares, H!PrepareRefused, H!Prepare, H!Goes, HandoffType
  <2>2. Intact(h)'
    BY <2>1 DEF Intact
  <2> QED BY <1>1, <1>2, <1>3, <2>1, <2>2, ForwardStep
<1>6. CASE H!SendsManifest(h)
  <2>1. /\ source'[h] = "prepared" /\ move'[h] = "transferring" /\ at'[h] = "has"
        /\ UNCHANGED state
    BY <1>0, <1>6 DEF H!SendsManifest, H!PutManifest, H!Goes, HandoffType
  <2> QED BY <1>1, <1>2, <1>3, <1>i, <2>1, ForwardStep
<1> QED BY <1>4, <1>5, <1>6

\* The transfer of the blobs.
LEMMA HandoffTransfers ==
  ASSUME HandoffIInv, NEW h \in Handoffs,
         \/ H!AsksMissing(h) \/ H!PutsChunk(h) \/ H!Measures(h) \/ H!Opens(h)
         \/ H!AppendsChunk(h) \/ H!TakesDigest(h) \/ H!Renames(h)
  PROVE  HandoffIInv'
<1> USE DEF H!Ghosts, H!Waits
<1>0. /\ HandoffBase /\ HandoffType /\ Course(h) /\ Given(h) /\ current[h] \in H!Blobs
      /\ off[h] \in 0..Chunks /\ H!Size(current[h]) \in 1..Chunks /\ fd[h] \in Nat
  BY WholeIsThere DEF HandoffIInv, HandoffType, HandoffBase, ServerType
<1>1. /\ at[h] \in {"has"} \cup Putting /\ gaveUp[h] = H!None
      /\ source[h] = "prepared" /\ move[h] # "committed"
  BY <1>0 DEF H!AsksMissing, H!PutsChunk, H!Measures, H!Opens, H!AppendsChunk, H!TakesDigest,
     H!Renames, Course, Given, Forward, Aborts, Commits, Putting, Appending, H!Calls, H!None
<1>2. Served(h) /\ UNCHANGED <<state, source, move, restored, imported, resumed, torn>>
  <2>1. CASE H!AsksMissing(h) \/ H!PutsChunk(h) \/ H!Measures(h) \/ H!TakesDigest(h)
    <3>1. UNCHANGED H!server
      BY <2>1 DEF H!AsksMissing, H!PutsChunk, H!Measures, H!TakesDigest, H!server
    <3> QED BY <1>0, <3>1, NodeServes DEF H!server
  <2>2. CASE H!Opens(h)
    BY <1>0, <2>2, FileOpens DEF H!Opens
  <2>3. CASE H!AppendsChunk(h)
    <3>1. off[h] + 1 <= H!Size(current[h]) /\ H!AppendChunk(current[h], off[h], fd[h])
      BY <1>0, <2>3 DEF H!AppendsChunk, Course, Appending
    <3> QED BY <1>0, <3>1, ChunkLands
  <2>4. CASE H!Renames(h)
    <3>1. Vouched(current[h], fd[h]) /\ H!Rename(current[h], fd[h])
      BY <1>0, <2>4 DEF H!Renames, Course
    <3> QED BY <1>0, <3>1, FileRenamed
  <2> QED BY <2>1, <2>2, <2>3, <2>4
<1>f. FdStep(h)
  <2>1. H!OpenId(current[h]) \in Nat /\ partial[current[h]].id \in Nat
    BY <1>0 DEF HandoffType, H!OpenId, H!File
  <2>2. PICK f \in Nat : UNCHANGED fd \/ H!Holds(h, f)
    BY <2>1 DEF H!AsksMissing, H!PutsChunk, H!Measures, H!Opens, H!AppendsChunk, H!TakesDigest,
       H!Renames, H!GoesIf
  <2> QED BY <2>2, FileHeld
<1>3. /\ ClientType' /\ ClientElse(h) /\ gaveUp'[h] = gaveUp[h] /\ UNCHANGED late
      /\ at'[h] \in {"stage", "abortTarget"} \cup Putting
      /\ at'[h] \in Appending => off'[h] + 1 <= H!Size(current'[h])
      /\ at'[h] = "rename" => Vouched(current[h], fd[h])'
  <2> USE DEF Putting, Appending
  <2>1. CASE H!AsksMissing(h)
    <3>1. H!Digests(h) \ H!Present \in SUBSET H!Blobs
      BY DEF H!Digests, H!Blobs, HandoffIInv, HandoffType
    <3> QED BY <1>f, <2>1, <3>1, NextBlob DEF H!AsksMissing
  <2>2. CASE H!PutsChunk(h)
    <3>1. CASE current[h] \in H!Present
      BY <1>f, <2>2, <3>1, TransferAdvances DEF H!PutsChunk
    <3>2. CASE current[h] \notin H!Present
      <4>1. H!GoesIf(h, TRUE, "measure") /\ UNCHANGED <<late, gaveUp, trouble>>
        BY <2>2, <3>2 DEF H!PutsChunk
      <4>2. /\ ClientType' /\ ClientElse(h) /\ gaveUp'[h] = gaveUp[h] /\ off'[h] = off[h]
            /\ current'[h] = current[h] /\ at'[h] = "measure"
        BY <4>1, CoordinatorStays DEF H!Calls
      <4> QED BY <1>0, <2>2, <4>1, <4>2 DEF H!PutsChunk, Course
    <3> QED BY <3>1, <3>2
  <2>3. CASE H!Measures(h)
    <3>1. H!Fits(current[h], off[h]) \in BOOLEAN
      BY DEF H!Fits
    <3>2. H!GoesIf(h, H!Fits(current[h], off[h]), "open") /\ UNCHANGED <<late, gaveUp, trouble>>
      BY <2>3 DEF H!Measures
    <3>3. /\ ClientType' /\ ClientElse(h) /\ gaveUp'[h] = gaveUp[h] /\ off'[h] = off[h]
          /\ current'[h] = current[h] /\ at'[h] \in {"open", "abortTarget"}
      BY <3>1, <3>2, CoordinatorStays DEF H!Calls
    <3> QED BY <1>0, <2>3, <3>2, <3>3 DEF H!Measures, Course
  <2>4. CASE H!Opens(h)
    <3>1. H!Goes(h, "append") /\ UNCHANGED <<todo, off, current, late, gaveUp, trouble>>
      BY <2>4 DEF H!Opens, H!Stays
    <3>2. ClientType' /\ ClientElse(h) /\ gaveUp'[h] = gaveUp[h] /\ at'[h] = "append"
      BY <1>f, <3>1, CoordinatorGoes DEF H!Calls, HandoffIInv, HandoffType
    <3> QED BY <1>0, <2>4, <3>1, <3>2 DEF H!Opens, Course
  <2>5. CASE H!AppendsChunk(h)
    <3>1. CASE off[h] + 1 = H!Size(current[h])
      <4>1. H!Goes(h, "digest") /\ UNCHANGED <<todo, off, current, late, gaveUp, trouble>>
        BY <2>5, <3>1 DEF H!AppendsChunk, H!Stays
      <4>2. ClientType' /\ ClientElse(h) /\ gaveUp'[h] = gaveUp[h] /\ at'[h] = "digest"
        BY <1>f, <4>1, CoordinatorGoes DEF H!Calls, HandoffIInv, HandoffType
      <4> QED BY <4>1, <4>2
    <3>2. CASE off[h] + 1 # H!Size(current[h])
      BY <1>f, <2>5, <3>2, TransferAdvances DEF H!AppendsChunk
    <3> QED BY <3>1, <3>2
  <2>6. CASE H!TakesDigest(h)
    <3>1. CASE H!Sealable(current[h])
      <4>1. /\ H!Goes(h, "rename") /\ UNCHANGED <<todo, off, current, late, gaveUp, trouble>>
            /\ H!Holds(h, partial[current[h]].id)
        BY <2>6, <3>1 DEF H!TakesDigest, H!Stays
      <4>2. ClientType' /\ ClientElse(h) /\ gaveUp'[h] = gaveUp[h] /\ at'[h] = "rename"
        BY <1>f, <4>1, CoordinatorGoes DEF H!Calls, HandoffIInv, HandoffType
      <4>3. PICK d \in H!Blobs : d = current[h] /\ d = current'[h]
        BY <1>0, <4>1
      <4>4. partial[d].id \in Nat \ {0} /\ partial[d].id <= made[d] /\ partial[d].data = H!Whole(d)
        BY <1>0, <3>1, <4>3 DEF H!Sealable, HandoffType, H!File
      <4>5. fd'[h] = partial[d].id
        BY <1>0, <4>1, <4>3 DEF H!Holds, HandoffType
      <4>6. UNCHANGED <<partial, made>>
        BY <2>6 DEF H!TakesDigest, H!server, H!files
      <4>7. Vouched(current[h], fd[h])'
        BY <4>3, <4>4, <4>5, <4>6 DEF Vouched, H!Whole, H!Size
      <4> QED BY <4>1, <4>2, <4>7
    <3>2. CASE ~H!Sealable(current[h])
      <4>1. H!GoesIf(h, FALSE, "rename") /\ UNCHANGED <<late, gaveUp, trouble>>
        BY <2>6, <3>2 DEF H!TakesDigest
      <4> QED BY <4>1, CoordinatorStays DEF H!Calls
    <3> QED BY <3>1, <3>2
  <2>7. CASE H!Renames(h)
    <3>1. CASE partial[current[h]].id # 0
      BY <1>f, <2>7, <3>1, TransferAdvances DEF H!Renames
    <3>2. CASE partial[current[h]].id = 0
      <4>1. H!Goes(h, "abortTarget") /\ UNCHANGED <<todo, off, current, late, gaveUp, trouble>>
        BY <2>7, <3>2 DEF H!Renames, H!Stays
      <4>2. ClientType' /\ ClientElse(h) /\ gaveUp'[h] = gaveUp[h] /\ at'[h] = "abortTarget"
        BY <1>f, <4>1, CoordinatorGoes DEF H!Calls, HandoffIInv, HandoffType
      <4> QED BY <4>1, <4>2
    <3> QED BY <3>1, <3>2
  <2> QED BY <2>1, <2>2, <2>3, <2>4, <2>5, <2>6, <2>7
<1>4. source'[h] = "prepared" /\ move'[h] # "committed" /\ gaveUp'[h] = H!None
  BY <1>1, <1>2, <1>3
<1>i. Intact(h)'
  BY <1>0, <1>1, <1>2, IntactKept DEF Given, Served, Stored, H!None
<1>5. Course(h)' /\ Given(h)'
  BY <1>3, <1>4, <1>i DEF Course, Given, Forward, Aborts, Commits, Putting, Appending, H!Calls, H!None
<1> QED BY <1>1, <1>2, <1>3, <1>5, ForwardStep

\* The copy of the transcript is wrong only if its blob was written to.
LEMMA RestoreIntact ==
  ASSUME HandoffBase, NEW h \in Handoffs, H!Restore(h), Grows, Intact(h),
         H!Digests(h) \subseteq H!Present
  PROVE  Intact(h)'
<1>1. state[h] # H!None => state[h] \in H!Digests(h) \cap H!Present
  BY DEF H!Digests
<1>2. h \in torn' => h \in torn \/ (state[h] # H!None /\ blob[state[h]].data # H!Whole(state[h]))
  BY DEF H!Restore
<1>3. state'[h] = state[h]
  BY DEF H!Restore
<1> QED BY <1>1, <1>2, <1>3, IntactKept

\* The stage, the resume and the commits.
LEMMA HandoffCommits ==
  ASSUME HandoffIInv, NEW h \in Handoffs,
         \/ H!Stages(h) \/ H!Copies(h) \/ H!Settles(h) \/ H!Activates(h) \/ H!Resumes(h)
         \/ H!CommitsTarget(h) \/ H!CommitsSource(h)
  PROVE  HandoffIInv'
<1> USE DEF H!Ghosts, H!Waits
<1>0. HandoffBase /\ HandoffType /\ Course(h) /\ Given(h)
  BY DEF HandoffIInv, HandoffType, HandoffBase, ServerType
<1>1. /\ at[h] \in Staging \cup {"resume", "commitTarget", "commitSource"}
      /\ gaveUp[h] = H!None /\ source[h] = "prepared"
      /\ at[h] # "commitSource" => move[h] # "committed"
  BY <1>0 DEF H!Stages, H!Copies, H!Settles, H!Activates, H!Resumes, H!CommitsTarget,
     H!CommitsSource, Course, Given, Forward, Aborts, Commits, Staging, H!Calls, H!None
<1>2. Served(h)
  BY <1>0, NodeServes DEF H!Stages, H!Copies, H!Settles, H!Activates, H!Resumes,
     H!CommitsTarget, H!CommitsSource
<1>3. UNCHANGED <<late, gaveUp, trouble, state>> /\ gaveUp'[h] = H!None
  BY <1>1 DEF H!Stages, H!Copies, H!Settles, H!Activates, H!Resumes, H!CommitsTarget,
     H!CommitsSource, H!Copy, H!Restore, H!Activate, H!Resume, H!CommitTarget, H!CommitSource,
     H!server
<1>g. Grows
  BY <1>2 DEF Served, Stored
<1>4. Taken(h) => Taken(h)'
  BY <1>g, <1>3, TakenKept
<1>i. Intact(h)'
  <2>1. Intact(h) /\ state'[h] = state[h]
    BY <1>0, <1>1, <1>3 DEF Given, H!None
  <2>2. CASE UNCHANGED torn
    BY <1>0, <1>g, <2>1, <2>2, IntactKept
  <2>3. CASE H!Copies(h)
    <3>1. Work \in H!Digests(h) \cap H!Present
      BY <1>0, <2>3 DEF H!Copies, Course, H!Digests
    <3>2. h \in torn' => h \in torn \/ blob[Work].data # H!Whole(Work)
      BY <2>3 DEF H!Copies, H!Copy
    <3> QED BY <1>0, <1>g, <2>1, <3>1, <3>2, IntactKept
  <2>4. CASE H!Settles(h)
    BY <1>0, <1>g, <2>1, <2>4, RestoreIntact DEF H!Settles, Course
  <2> QED BY <2>2, <2>3, <2>4 DEF H!Stages, H!Activates, H!Resumes, H!CommitsTarget,
      H!CommitsSource, H!Activate, H!Resume, H!CommitTarget, H!CommitSource, H!server
<1> DEFINE Turns(ok, call) ==
      ClientType' /\ ClientElse(h) /\ at'[h] = IF ok THEN call ELSE "abortTarget"
<1>5. ASSUME NEW ok \in BOOLEAN, NEW call \in H!Calls \cup H!Ended, H!GoesIf(h, ok, call)
      PROVE  Turns(ok, call)
  BY <1>3, <1>5, CoordinatorStays
<1>6. ASSUME NEW ok \in BOOLEAN, NEW call, Turns(ok, call), Course(h)', Given(h)'
      PROVE  HandoffIInv'
  BY <1>1, <1>2, <1>3, <1>6, ForwardStep
<1> USE DEF Staging, Appending
<1>7. CASE H!Stages(h) \/ H!Copies(h) \/ H!Settles(h)
  <2>0. source'[h] = "prepared" /\ move'[h] # "committed"
    BY <1>1, <1>7 DEF H!Stages, H!Copies, H!Settles, H!Copy, H!Restore, H!server
  <2>1. CASE H!Stages(h)
    <3>1. Turns(H!Sound(Work), "copy")
      BY <1>5, <2>1 DEF H!Stages, H!Sound, H!Calls
    <3>2. H!Sound(Work) => Work \in H!Present'
      BY <1>g DEF Grows, H!Sound, H!Present, H!Blobs
    <3>3. Course(h)' /\ Given(h)'
      BY <1>3, <1>i, <2>0, <3>1, <3>2 DEF Course, Given, Forward, Aborts, Commits, H!Calls, H!None
    <3> QED BY <1>6, <3>1, <3>3 DEF H!Sound
  <2>2. CASE H!Copies(h)
    <3>1. Turns(H!StateSound(h), "settle")
      BY <1>5, <2>2 DEF H!Copies, H!StateSound, H!Sound, H!Calls
    <3>2. H!StateSound(h) => (H!Digests(h) \subseteq H!Present)'
      <4>1. H!StateSound(h) => H!Digests(h) \subseteq H!Present
        BY <1>0, <2>2 DEF H!Copies, Course, H!StateSound, H!Sound, H!Digests, H!Present,
           H!Blobs, HandoffType
      <4> QED BY <1>g, <1>3, <4>1 DEF Grows, H!Digests
    <3>3. Course(h)' /\ Given(h)'
      BY <1>3, <1>i, <2>0, <3>1, <3>2 DEF Course, Given, Forward, Aborts, Commits, H!Calls, H!None
    <3> QED BY <1>6, <3>1, <3>3 DEF H!StateSound, H!Sound
  <2>3. CASE H!Settles(h)
    <3>1. Turns(TRUE, "activate")
      BY <1>5, <2>3 DEF H!Settles, H!Calls
    <3>2. Taken(h)'
      BY <1>0, <1>g, <1>3, <2>3 DEF H!Settles, H!Restore, Course, Taken, Grows, H!Digests
    <3>3. Course(h)' /\ Given(h)'
      BY <1>3, <1>i, <2>0, <3>1, <3>2 DEF Course, Given, Forward, Aborts, Commits, H!Calls, H!None
    <3> QED BY <1>6, <3>1, <3>3
  <2> QED BY <1>7, <2>1, <2>2, <2>3
<1>8. CASE H!Activates(h)
  <2>1. Turns(H!Activatable(h), "resume")
    BY <1>5, <1>8 DEF H!Activates, H!Activatable, H!Sound, H!Calls
  <2>2. Taken(h)'
    BY <1>0, <1>4, <1>8 DEF H!Activates, Course
  <2>3. source'[h] = "prepared" /\ move'[h] # "committed"
    BY <1>0, <1>1, <1>8 DEF H!Activates, H!Activate, HandoffType
  <2>4. Course(h)' /\ Given(h)'
    BY <1>3, <1>i, <2>1, <2>2, <2>3 DEF Course, Given, Forward, Aborts, Commits, H!Calls, H!None
  <2> QED BY <1>6, <2>1, <2>4 DEF H!Activatable, H!Sound
<1>9. CASE H!Resumes(h)
  <2>1. PICK ok \in BOOLEAN : Turns(ok, "commitTarget") /\ (ok => imported # H!None /\ H!Resume(h))
    <3>1. PICK ok \in BOOLEAN : /\ H!GoesIf(h, ok, "commitTarget")
                                /\ ok => imported # H!None /\ H!Resume(h)
      BY <1>9, Zenon DEF H!Resumes
    <3>2. Turns(ok, "commitTarget")
      BY <1>5, <3>1 DEF H!Calls
    <3> QED BY <3>1, <3>2
  <2>2. Taken(h)' /\ source'[h] = "prepared" /\ move'[h] # "committed"
    BY <1>0, <1>1, <1>4, <1>9 DEF H!Resumes, H!Resume, H!server, Course
  <2>3. ok => resumed'[h] # H!None
    BY <1>0, <2>1 DEF H!Resume, HandoffType
  <2>4. Course(h)' /\ Given(h)'
    BY <1>3, <1>i, <2>1, <2>2, <2>3 DEF Course, Given, Forward, Aborts, Commits, H!Calls, H!None
  <2> QED BY <1>6, <2>1, <2>4
<1>10. CASE H!CommitsTarget(h)
  <2>1. Turns(move[h] # "aborted", "commitSource")
    BY <1>5, <1>10 DEF H!CommitsTarget, H!Calls
  <2>2. Taken(h)' /\ source'[h] = "prepared" /\ resumed'[h] # H!None
    BY <1>0, <1>1, <1>4, <1>10 DEF H!CommitsTarget, H!CommitTarget, Course, Commits
  <2>3. move'[h] = IF move[h] = "aborted" THEN "aborted" ELSE "committed"
    BY <1>0, <1>10 DEF H!CommitsTarget, H!CommitTarget, H!Committed, HandoffType
  <2>4. Course(h)' /\ Given(h)'
    BY <1>3, <1>i, <2>1, <2>2, <2>3 DEF Course, Given, Forward, Aborts, Commits, H!Calls, H!None
  <2> QED BY <1>6, <2>1, <2>4
<1>11. CASE H!CommitsSource(h)
  <2>1. Turns(source[h] # "aborted", "done")
    BY <1>5, <1>11 DEF H!CommitsSource, H!Ended
  <2>2. Taken(h)' /\ move'[h] = "committed" /\ resumed'[h] # H!None
    BY <1>0, <1>1, <1>4, <1>11 DEF H!CommitsSource, H!CommitSource, Course, Commits
  <2>3. source'[h] = "committed"
    BY <1>0, <1>1, <1>11 DEF H!CommitsSource, H!CommitSource, H!Committed, HandoffType
  <2>4. Course(h)' /\ Given(h)'
    BY <1>1, <1>3, <1>i, <2>1, <2>2, <2>3 DEF Course, Given, Forward, Aborts, Commits, H!Calls, H!None
  <2> QED BY <1>6, <2>1, <2>4
<1> QED BY <1>7, <1>8, <1>9, <1>10, <1>11

\* The aborts, beside which requests of this handoff may be late.
LEMMA HandoffAborts ==
  ASSUME HandoffIInv, NEW h \in Handoffs, H!AbortsTarget(h) \/ H!AbortsSource(h)
  PROVE  HandoffIInv'
<1> USE DEF H!Ghosts, H!Waits, H!Stays, H!GoesIf
<1>0. HandoffBase /\ HandoffType /\ Course(h) /\ Given(h)
  BY DEF HandoffIInv, HandoffType, HandoffBase, ServerType
<1>1. Served(h)
  BY <1>0, NodeServes DEF H!AbortsTarget, H!AbortsSource
<1>2. PICK to \in {"abortSource", "failed"} :
        /\ ClientType' /\ ClientElse(h) /\ at'[h] = to /\ gaveUp'[h] = gaveUp[h]
        /\ UNCHANGED late
  <2>1. PICK to \in {"abortSource", "failed"} : H!Goes(h, to)
    BY DEF H!AbortsTarget, H!AbortsSource
  <2>2. UNCHANGED <<todo, off, current, fd, late, gaveUp, trouble>>
    BY DEF H!AbortsTarget, H!AbortsSource
  <2>3. FdStep(h)
    BY <1>0, <2>2 DEF FdStep, HandoffType
  <2> QED BY <2>1, <2>2, <2>3, CoordinatorGoes DEF H!Calls, H!Ended, HandoffIInv, HandoffType
<1>3. /\ UNCHANGED <<state, resumed>> /\ (Taken(h) => Taken(h)') /\ (Intact(h) => Intact(h)')
      /\ Grows /\ Vouches
  <2>1. UNCHANGED <<state, resumed, torn>>
    BY DEF H!AbortsTarget, H!AbortsSource, H!AbortTarget, H!AbortSource
  <2> QED BY <1>0, <1>1, <2>1, TakenKept, IntactKept DEF Served, Stored
<1>4. /\ at[h] = "abortTarget" /\ at'[h] = "abortSource" /\ source'[h] = source[h]
         /\ move'[h] = IF move[h] \in {H!None, "committed"} THEN move[h] ELSE "aborted"
      \/ /\ at[h] = "abortSource" /\ at'[h] = "failed" /\ move'[h] = move[h]
         /\ source'[h] = IF source[h] \in {H!None, "committed"} THEN source[h] ELSE "aborted"
  BY <1>0 DEF H!AbortsTarget, H!AbortsSource, H!AbortTarget, H!AbortSource, H!Aborted, H!Goes,
     HandoffType
<1>5. Given(h)'
  BY <1>0, <1>2, <1>3, <1>4 DEF Given, H!None, Commits
<1>6. Course(h)'
  BY <1>0, <1>2, <1>4 DEF Course, Given, Appending, Forward, Aborts, Commits, H!Calls, H!None
<1>7. ASSUME NEW r \in late', r.h = h PROVE Straggler(r)'
  <2>1. r \in late /\ Straggler(r)
    BY <1>2, <1>7 DEF HandoffIInv
  <2>2. /\ r.call = "rename" => Vouched(r.d, r.fd)'
        /\ H!Present \subseteq H!Present' /\ H!Digests(h)' = H!Digests(h)
    BY <1>3, <2>1, VouchedLate DEF Straggler, Grows, H!Digests
  <2> HIDE DEF Origin
  <2> QED BY <1>2, <1>3, <1>4, <1>7, <2>1, <2>2
          DEF Straggler, H!None, Aborts, Appending, H!Size, H!Calls, Forward
<1> QED BY <1>1, <1>2, <1>5, <1>6, <1>7, OneHandoff

\* A call that is given up may be served later, and its coordinator aborts.
LEMMA HandoffGivesUp ==
  ASSUME HandoffIInv, NEW h \in Handoffs, H!GiveUp(h)
  PROVE  HandoffIInv'
<1> USE DEF H!Stays
<1>0. /\ HandoffBase /\ HandoffType /\ Course(h) /\ Given(h) /\ at[h] \in H!Calls
      /\ off[h] \in 0..Chunks /\ current[h] \in H!Blobs /\ fd[h] \in Nat
  BY DEF HandoffIInv, HandoffType, HandoffBase, ServerType, H!GiveUp
<1>1. Served(h) /\ UNCHANGED <<state, source, move, restored, resumed, torn, partial, made, overrun>>
  BY <1>0, NodeServes DEF H!GiveUp, H!server, H!files
<1>2. /\ Taken(h) => Taken(h)'
      /\ Intact(h) => Intact(h)'
      /\ Grows /\ Vouches
  BY <1>0, <1>1, TakenKept, IntactKept DEF Served, Stored
<1>3. /\ at' = [at EXCEPT ![h] = H!OnError(at[h])]
      /\ H!OnError(at[h]) \in {"abortTarget", "abortSource", "failed"}
      /\ at[h] \notin {"prepare", "abortSource", "abortTarget"} => H!OnError(at[h]) = "abortTarget"
      /\ at[h] \in {"prepare", "abortSource"} => H!OnError(at[h]) = "failed"
      /\ at[h] = "abortTarget" => H!OnError(at[h]) = "abortSource"
  BY DEF H!GiveUp, H!Goes, H!OnError
<1>4. /\ at'[h] = H!OnError(at[h]) /\ \A g \in Handoffs \ {h} : at'[g] = at[g]
      /\ at' \in [Handoffs -> H!Calls \cup H!Ended \cup {"idle"}]
  BY <1>0, <1>3 DEF HandoffType, H!Calls, H!Ended
<1>5. /\ gaveUp' \in [Handoffs -> H!Calls \cup {H!None}] /\ gaveUp'[h] # H!None
      /\ gaveUp'[h] = IF gaveUp[h] = H!None THEN at[h] ELSE gaveUp[h]
      /\ \A g \in Handoffs \ {h} : gaveUp'[g] = gaveUp[g]
  <2>1. gaveUp' = [gaveUp EXCEPT ![h] = IF gaveUp[h] = H!None THEN at[h] ELSE gaveUp[h]]
    BY DEF H!GiveUp
  <2>2. at[h] # H!None
    BY <1>0 DEF H!Calls, H!None
  <2> QED BY <1>0, <2>1, <2>2 DEF HandoffType
<1>6. PICK new : /\ new = [h |-> h, call |-> at[h], d |-> current[h], n |-> off[h], fd |-> fd[h]]
                 /\ late' \subseteq late \cup {new} /\ (new \in late' \ late => at[h] # "has")
  BY DEF H!GiveUp
<1>7. new \in [h : Handoffs, call : H!Calls, d : H!Blobs, n : 0..Chunks, fd : Nat]
  BY <1>0, <1>6
<1>f. FdStep(h)
  <2>1. H!Holds(h, 0) /\ 0 \in Nat
    BY DEF H!GiveUp
  <2> QED BY <2>1, FileHeld
<1>8. ClientType'
  <2>1. trouble' \in 0..MaxTrouble
    BY <1>0, TrafficAssumption DEF H!GiveUp, HandoffType, H!HandoffConstants
  <2>2. UNCHANGED <<todo, off, current>>
    BY DEF H!GiveUp
  <2> QED BY <1>0, <1>4, <1>5, <1>6, <1>7, <1>f, <2>1, <2>2 DEF ClientType, HandoffType, FdStep
<1>9. ClientElse(h)
  BY <1>4, <1>5, <1>6, <1>f DEF ClientElse, H!GiveUp, FdStep
<1>10. Given(h)'
  BY <1>0, <1>1, <1>2, <1>3, <1>4, <1>5
     DEF Given, Course, Commits, H!None, Forward, Aborts, H!Calls
<1>11. Course(h)'
  BY <1>3, <1>4, <1>5 DEF Course, Commits, Appending, H!None, Forward, Aborts, H!Calls
<1>12. ASSUME NEW r \in late', r.h = h PROVE Straggler(r)'
  <2>1. CASE r \in late
    <3>1. Straggler(r) /\ gaveUp[h] # H!None /\ gaveUp'[h] = gaveUp[h] /\ r.call \in H!Calls
      BY <1>0, <1>5, <1>12, <2>1 DEF HandoffIInv, Straggler, HandoffType
    <3>2. at[h] \in Aborts
      BY <1>0, <3>1 DEF Course, Forward
    <3>3. /\ r.call = "rename" => Vouched(r.d, r.fd)'
          /\ H!Present \subseteq H!Present' /\ H!Digests(h)' = H!Digests(h)
      BY <1>1, <1>2, <2>1, <3>1, VouchedLate DEF Straggler, Grows, H!Digests
    <3> HIDE DEF Origin
    <3> QED BY <1>1, <1>2, <1>3, <1>4, <1>12, <3>1, <3>2, <3>3
            DEF Straggler, H!None, Aborts, Appending, H!Size
  <2>2. CASE r = new /\ r \notin late
    <3>1. r.call = at[h] /\ r.d = current[h] /\ r.n = off[h] /\ r.fd = fd[h] /\ r.call # "has"
      BY <1>6, <1>12, <2>2
    <3>2. r.call \in Forward => gaveUp'[h] = r.call /\ r.call \in Origin(r.call)
      <4>1. r.call \in Origin(r.call)
        BY DEF Origin
      <4> QED BY <1>0, <1>5, <3>1, <4>1 DEF Course
    <3>3. /\ r.call \in Forward => at'[h] \in {"abortTarget", "failed"}
          /\ r.call = "prepare" => at'[h] = "failed"
      BY <1>0, <1>3, <1>4, <3>1 DEF Forward, Aborts, H!Calls
    <3>4. r.call \in Appending => r.n + 1 <= H!Size(r.d)
      BY <1>0, <3>1 DEF Course
    <3>5. r.call = "rename" => Vouched(r.d, r.fd)'
      <4>1. r.call = "rename" => Vouched(r.d, r.fd)
        BY <1>0, <3>1 DEF Course
      <4> QED BY <1>1, <4>1 DEF Vouched, H!Whole, H!Size
    <3>6. H!Present \subseteq H!Present' /\ H!Digests(h)' = H!Digests(h)
      BY <1>1, <1>2 DEF Grows, H!Digests
    <3> HIDE DEF Origin
    <3> QED BY <1>0, <1>1, <1>2, <1>5, <1>12, <3>1, <3>2, <3>3, <3>4, <3>5, <3>6
            DEF Straggler, Course, Aborts, H!Size
  <2> QED BY <1>6, <2>1, <2>2
<1> QED BY <1>1, <1>8, <1>9, <1>10, <1>11, <1>12, OneHandoff

\* A request nobody waits for takes nothing back: not what was resumed, not a
\* commit, and the manifest only if there is nothing it could belie.
Harmless(r) ==
  /\ r.call = "prepare" \/ state'[r.h] = state[r.h]
  /\ resumed[r.h] # H!None => resumed'[r.h] # H!None
  /\ move[r.h] = "committed" => move'[r.h] = "committed"
  /\ source'[r.h] = "committed" => move'[r.h] = "committed"
  /\ move'[r.h] = "committed" /\ move[r.h] # "committed" =>
       Taken(r.h) /\ resumed[r.h] # H!None /\ gaveUp[r.h] = "commitTarget"
  /\ gaveUp[r.h] # "prepare" => Intact(r.h)'

\* A request that is served late is harmless.
LEMMA LateIsHarmless ==
  ASSUME HandoffIInv, NEW r \in late, UNCHANGED <<H!client, gaveUp, trouble>>, Served(r.h),
         Harmless(r), NEW call \in H!Calls, NEW f \in Nat,
         late' \subseteq (late \ {r}) \cup {[r EXCEPT !.call = call, !.fd = f]},
         [r EXCEPT !.call = call, !.fd = f] \in late' \ (late \ {r}) =>
           Straggler([r EXCEPT !.call = call, !.fd = f])'
  PROVE  HandoffIInv'
<1>0. PICK h \in Handoffs : h = r.h
  BY DEF HandoffIInv, HandoffType
<1>1. /\ Course(h) /\ Given(h) /\ Straggler(r) /\ r.call \in H!Calls /\ HandoffType
      /\ at[h] \in H!Calls \cup H!Ended \cup {"idle"} /\ gaveUp[h] # H!None
  BY <1>0 DEF HandoffIInv, HandoffType, Straggler
<1>2. PICK new : new = [r EXCEPT !.call = call, !.fd = f]
  OBVIOUS
<1>3. new \in [h : Handoffs, call : H!Calls, d : H!Blobs, n : 0..Chunks, fd : Nat] /\ new.h = h
  BY <1>0, <1>1, <1>2 DEF HandoffType
<1>4. /\ late' \subseteq (late \ {r}) \cup {new}
      /\ new \in late' \ (late \ {r}) => Straggler(new)'
  BY <1>2
<1>5. ClientType' /\ ClientElse(h)
  BY <1>1, <1>3, <1>4 DEF HandoffType, ClientType, ClientElse, H!client
<1>6. at[h] \in Aborts \cup {"failed"} /\ at'[h] = at[h] /\ gaveUp'[h] = gaveUp[h]
  BY <1>1 DEF Course, Forward, H!Ended, H!client
<1>7. Course(h)'
  BY <1>1, <1>6 DEF Course, Appending, Forward, Aborts, Commits, H!Calls
<1>8. Grows /\ Vouches /\ (state'[h] = state[h] /\ Taken(h) => Taken(h)')
  BY <1>0, TakenKept DEF Served, Stored
<1>9. r.call = "prepare" => gaveUp[h] = "prepare"
  BY <1>0, <1>1 DEF Straggler, Forward, Aborts, Origin, Putting, Appending, Staging, H!Calls
<1>10. Given(h)'
  <2>1. r.call = "prepare" => move[h] # "committed"
    BY <1>1, <1>6, <1>9 DEF Given, Commits, Aborts
  <2> QED BY <1>0, <1>1, <1>6, <1>8, <1>9, <2>1 DEF Given, Harmless, Commits
<1>11. ASSUME NEW s \in late, s.h = h PROVE Straggler(s)'
  <2>1. Straggler(s) /\ s.call \in H!Calls
    BY <1>1, <1>11 DEF HandoffIInv, HandoffType
  <2>2. r.call = "prepare" => s.call \notin {"settle", "activate", "resume"} \cup Commits
    BY <1>9, <1>11, <2>1
       DEF Straggler, Forward, Aborts, Origin, Putting, Appending, Staging, Commits, H!Calls
  <2>3. /\ s.call = "rename" => Vouched(s.d, s.fd)'
        /\ H!Present \subseteq H!Present'
        /\ state'[h] = state[h] => H!Digests(h)' = H!Digests(h)
    BY <1>8, <2>1, VouchedLate DEF Straggler, Grows, H!Digests
  <2> HIDE DEF Origin
  <2> QED BY <1>0, <1>6, <1>8, <1>11, <2>1, <2>2, <2>3 DEF Straggler, Harmless, H!Size
<1> QED BY <1>0, <1>4, <1>5, <1>7, <1>10, <1>11, OneHandoff

\* Every request that is served late.
LEMMA HandoffLate ==
  ASSUME HandoffIInv, NEW r \in late, H!Late(r)
  PROVE  HandoffIInv'
<1>0. PICK h \in Handoffs : h = r.h
  BY DEF HandoffIInv, HandoffType
<1>1. /\ HandoffBase /\ HandoffType /\ Course(h) /\ Given(h) /\ Straggler(r)
      /\ r.call \in H!Calls /\ r.d \in H!Blobs /\ r.n \in 0..Chunks /\ r.fd \in Nat
      /\ r = [h |-> h, call |-> r.call, d |-> r.d, n |-> r.n, fd |-> r.fd]
  BY <1>0 DEF HandoffIInv, HandoffType, HandoffBase, ServerType
<1>2. UNCHANGED <<H!client, gaveUp, trouble>>
  BY DEF H!Late
<1>3. move[h] = "committed" => gaveUp[h] \in Commits
  BY <1>0, <1>1 DEF Straggler, Given, Course, Forward, Aborts, H!Calls
<1>4. ASSUME Served(h), Harmless(r), H!Served(r) PROVE HandoffIInv'
  <2>1. late' \subseteq (late \ {r}) \cup {[r EXCEPT !.call = r.call, !.fd = r.fd]}
    BY <1>4 DEF H!Served
  <2>2. r = [r EXCEPT !.call = r.call, !.fd = r.fd]
    BY <1>1
  <2>3. ~([r EXCEPT !.call = r.call, !.fd = r.fd] \in late' \ (late \ {r}))
    BY <1>4, <2>2 DEF H!Served
  <2> QED BY <1>0, <1>1, <1>2, <1>4, <2>1, <2>3, LateIsHarmless
\* The rest of a call is a step of the same one.
<1>5. ASSUME NEW call \in H!Calls, NEW f \in Nat, Served(h), Harmless(r), H!Goes_on(r, call, f),
             \/ r.call \in Putting /\ call \in Putting
             \/ r.call \in Staging /\ call \in Staging,
             call \in Appending => r.call \in Appending,
             call = "rename" => Vouched(r.d, f)',
             call = "copy" => (Work \in H!Present)',
             call = "settle" => (H!Digests(h) \subseteq H!Present)',
             call = "activate" => Taken(h)'
      PROVE HandoffIInv'
  <2>1. PICK new : new = [r EXCEPT !.call = call, !.fd = f]
    OBVIOUS
  <2>2. new.h = h /\ new.call = call /\ new.d = r.d /\ new.n = r.n /\ new.fd = f
    BY <1>1, <2>1
  <2>3. call \notin {"has", "prepare", "resume", "commitTarget", "commitSource"} /\ r.call # "prepare"
    BY <1>5 DEF Putting, Appending, Staging
  <2>4. gaveUp[h] \in Origin(r.call) /\ Origin(r.call) = Origin(call) /\ r.call \in Forward
    BY <1>0, <1>1, <1>5 DEF Straggler, Origin, Putting, Appending, Staging, Forward, Aborts, H!Calls
  <2>5. Straggler(new)'
    <3> HIDE DEF Origin
    <3> QED BY <1>0, <1>1, <1>2, <1>5, <2>2, <2>3, <2>4 DEF Straggler, Commits, H!Size, H!client
  <2> QED BY <1>0, <1>2, <1>5, <2>1, <2>5, LateIsHarmless DEF H!Goes_on
<1> DEFINE Kept == UNCHANGED <<state, source, move, resumed>>
<1>t. ASSUME Served(h), UNCHANGED <<state, torn>> PROVE gaveUp[h] # "prepare" => Intact(h)'
  BY <1>1, <1>t, IntactKept DEF Given, Served, Stored
<1>6. Kept /\ (gaveUp[h] # "prepare" => Intact(h)') => Harmless(r)
  BY <1>0, <1>1 DEF Harmless, Given
<1>7. CASE r.call = "prepare" /\ H!Prepare(r.h) /\ H!Served(r)
  <2>1. source'[h] = "prepared" /\ UNCHANGED <<move, resumed>>
    BY <1>0, <1>1, <1>7 DEF H!Prepare, HandoffType
  <2>2. gaveUp[h] = "prepare"
    BY <1>0, <1>1, <1>7 DEF Straggler, Forward, Aborts, Origin, Putting, Appending, Staging, H!Calls
  <2> QED BY <1>0, <1>1, <1>4, <1>7, <2>1, <2>2, NodeServes DEF Harmless
<1>8. CASE r.call = "manifest" /\ H!PutManifest(r.h) /\ H!Served(r)
  <2>1. move[h] # "committed" /\ source[h] # "committed"
    BY <1>0, <1>1, <1>3, <1>8
       DEF Straggler, Forward, Aborts, Commits, Origin, Putting, Appending, Staging, H!Calls, Given
  <2>2. move'[h] = "transferring" /\ UNCHANGED <<state, source, resumed, torn>>
    BY <1>0, <1>1, <1>8 DEF H!PutManifest, HandoffType
  <2>3. Served(h)
    BY <1>0, <1>1, <1>8, NodeServes
  <2> QED BY <1>0, <1>1, <1>4, <1>8, <1>t, <2>1, <2>2, <2>3 DEF Harmless
\* The steps of put_blob that only look.
<1>9. CASE /\ r.call \in {"put", "measure", "digest", "stage"} /\ UNCHANGED H!server
           /\ \/ H!Served(r)
              \/ r.call = "put" /\ H!Goes_on(r, "measure", 0)
              \/ r.call = "measure" /\ H!Goes_on(r, "open", 0)
              \/ /\ r.call = "digest" /\ H!Sealable(r.d)
                 /\ H!Goes_on(r, "rename", partial[r.d].id)
              \/ r.call = "stage" /\ H!Sound(Work) /\ H!Goes_on(r, "copy", 0)
  <2>1. Served(h) /\ Harmless(r)
    BY <1>1, <1>6, <1>9, <1>t, NodeServes DEF H!server
  <2>2. CASE r.call = "put" /\ H!Goes_on(r, "measure", 0)
    BY <1>5, <2>1, <2>2 DEF H!Calls, Putting, Appending
  <2>3. CASE r.call = "measure" /\ H!Goes_on(r, "open", 0)
    BY <1>5, <2>1, <2>3 DEF H!Calls, Putting, Appending
  <2>4. CASE r.call = "digest" /\ H!Sealable(r.d) /\ H!Goes_on(r, "rename", partial[r.d].id)
    <3>1. PICK f \in Nat : f = partial[r.d].id
      BY <1>1 DEF HandoffType, H!File
    <3>2. f # 0 /\ f <= made[r.d] /\ partial[r.d].data = H!Whole(r.d)
      BY <1>1, <2>4, <3>1 DEF H!Sealable, HandoffType
    <3>3. Vouched(r.d, f)'
      BY <1>9, <3>1, <3>2 DEF Vouched, H!server, H!files, H!Whole, H!Size
    <3> QED BY <1>5, <2>1, <2>4, <3>1, <3>3 DEF H!Calls, Putting, Appending
  <2>5. CASE r.call = "stage" /\ H!Sound(Work) /\ H!Goes_on(r, "copy", 0)
    <3>1. (Work \in H!Present)'
      BY <1>9, <2>5 DEF H!server, H!files, H!Sound, H!Present, H!Blobs
    <3> QED BY <1>5, <2>1, <2>5, <3>1 DEF H!Calls, Staging, Appending
  <2> QED BY <1>4, <1>9, <2>1, <2>2, <2>3, <2>4, <2>5
<1>10. CASE r.call = "open" /\ H!Open(r.d) /\ H!Goes_on(r, "append", H!OpenId(r.d))
  <2>1. Served(h) /\ Kept /\ UNCHANGED torn /\ H!OpenId(r.d) \in Nat
    BY <1>1, <1>10, FileOpens
  <2>2. Harmless(r)
    BY <1>6, <1>t, <2>1
  <2>3. PICK f \in Nat : f = H!OpenId(r.d)
    BY <2>1
  <2> QED BY <1>5, <1>10, <2>1, <2>2, <2>3 DEF H!Calls, Putting, Appending
<1>11. CASE /\ r.call = "append" /\ H!AppendChunk(r.d, r.n, r.fd)
            /\ H!Served(r) \/ H!Goes_on(r, "digest", 0)
  <2>1. Served(h) /\ Kept /\ UNCHANGED torn
    BY <1>1, <1>11, ChunkLands DEF Straggler, Appending
  <2>2. Harmless(r)
    BY <1>6, <1>t, <2>1
  <2> QED BY <1>4, <1>5, <1>11, <2>1, <2>2 DEF H!Calls, Putting, Appending
<1>r. CASE r.call = "rename" /\ H!Rename(r.d, r.fd) /\ H!Served(r)
  <2>1. Served(h) /\ Kept /\ UNCHANGED torn
    BY <1>1, <1>r, FileRenamed DEF Straggler
  <2> QED BY <1>4, <1>6, <1>r, <1>t, <2>1
<1>c. CASE /\ r.call = "copy" /\ H!Copy(r.h, Work)
           /\ H!Served(r) \/ (H!StateSound(r.h) /\ H!Goes_on(r, "settle", 0))
  <2>1. Served(h) /\ Grows /\ Kept
    BY <1>0, <1>1, <1>c, NodeServes DEF H!Copy, Served, Stored
  <2>2. Work \in H!Digests(h) \cap H!Present
    BY <1>1, <1>c DEF Straggler, H!Digests
  <2>3. h \in torn' => h \in torn \/ blob[Work].data # H!Whole(Work)
    BY <1>0, <1>c DEF H!Copy
  <2>4. Harmless(r)
    BY <1>1, <1>6, <2>1, <2>2, <2>3, IntactKept DEF Given
  <2>5. H!StateSound(h) => (H!Digests(h) \subseteq H!Present)'
    <3>1. H!StateSound(h) => H!Digests(h) \subseteq H!Present
      BY <1>1, <2>2 DEF H!StateSound, H!Sound, H!Digests, H!Present, H!Blobs, HandoffType
    <3> QED BY <2>1, <3>1 DEF Grows, H!Digests
  <2> QED BY <1>0, <1>4, <1>5, <1>c, <2>1, <2>4, <2>5 DEF H!Calls, Staging, Appending
<1>12. CASE r.call = "settle" /\ H!Restore(r.h) /\ H!Goes_on(r, "activate", 0)
  <2>1. Served(h) /\ Grows /\ Kept
    BY <1>0, <1>1, <1>12, NodeServes DEF H!Restore, Served, Stored
  <2>2. H!Digests(h) \subseteq H!Present
    BY <1>0, <1>1, <1>12 DEF Straggler
  <2>3. Harmless(r)
    BY <1>0, <1>1, <1>6, <1>12, <2>1, <2>2, RestoreIntact DEF Given
  <2>4. Taken(h)'
    BY <1>0, <1>12, <2>1, <2>2 DEF Taken, H!Restore, Grows, H!Digests
  <2> QED BY <1>5, <1>12, <2>1, <2>3, <2>4 DEF H!Calls, Staging, Appending
<1>13. CASE r.call = "activate" /\ H!Activate(r.h) /\ H!Served(r)
  <2>1. move[h] # "committed" /\ source[h] # "committed"
    BY <1>0, <1>1, <1>3, <1>13
       DEF Straggler, Forward, Aborts, Commits, Origin, Putting, Appending, Staging, H!Calls, Given
  <2>2. move'[h] # "committed" /\ UNCHANGED <<state, source, resumed, torn>>
    BY <1>0, <1>1, <1>13, <2>1 DEF H!Activate, HandoffType
  <2>s. Served(h)
    BY <1>0, <1>1, <1>13, NodeServes
  <2> QED BY <1>0, <1>1, <1>4, <1>13, <2>1, <2>2, <1>t, <2>s DEF Harmless
<1>14. CASE /\ r.call = "resume" /\ H!Served(r)
            /\ IF imported = H!None THEN UNCHANGED H!server ELSE H!Resume(r.h)
  <2>1. Served(h)
    BY <1>0, <1>1, <1>14, NodeServes
  <2>2. UNCHANGED <<state, source, move, torn>> /\ (resumed[h] # H!None => resumed'[h] # H!None)
    BY <1>0, <1>1, <1>14 DEF H!Resume, H!server, HandoffType
  <2> QED BY <1>0, <1>1, <1>4, <1>14, <1>t, <2>1, <2>2 DEF Harmless, Given
<1>15. CASE r.call = "commitTarget" /\ H!CommitTarget(r.h) /\ H!Served(r)
  <2>1. Taken(h) /\ resumed[h] # H!None /\ gaveUp[h] = "commitTarget"
    BY <1>0, <1>1, <1>15
       DEF Straggler, Forward, Aborts, Commits, Origin, Putting, Appending, Staging, H!Calls
  <2>2. /\ move'[h] = IF move[h] = "aborted" THEN "aborted" ELSE "committed"
        /\ UNCHANGED <<state, source, resumed, torn>>
    BY <1>0, <1>1, <1>15 DEF H!CommitTarget, H!Committed, HandoffType
  <2>s. Served(h)
    BY <1>0, <1>1, <1>15, NodeServes
  <2> QED BY <1>0, <1>1, <1>4, <1>15, <2>1, <2>2, <1>t, <2>s DEF Harmless, Given
<1>16. CASE r.call = "commitSource" /\ H!CommitSource(r.h) /\ H!Served(r)
  <2>1. move[h] = "committed" /\ UNCHANGED <<state, move, resumed, torn>>
    BY <1>0, <1>1, <1>16 DEF Straggler, H!CommitSource
  <2>s. Served(h)
    BY <1>0, <1>1, <1>16, NodeServes
  <2> QED BY <1>0, <1>1, <1>4, <1>16, <2>1, <1>t, <2>s DEF Harmless
<1>17. CASE r.call = "abortTarget" /\ H!AbortTarget(r.h) /\ H!Served(r)
  <2>1. /\ move'[h] = IF move[h] \in {H!None, "committed"} THEN move[h] ELSE "aborted"
        /\ UNCHANGED <<state, source, resumed, torn>>
    BY <1>0, <1>1, <1>17 DEF H!AbortTarget, H!Aborted, HandoffType
  <2>s. Served(h)
    BY <1>0, <1>1, <1>17, NodeServes
  <2> QED BY <1>0, <1>1, <1>4, <1>17, <2>1, <1>t, <2>s DEF Harmless, Given
<1>18. CASE r.call = "abortSource" /\ H!AbortSource(r.h) /\ H!Served(r)
  <2>1. /\ source'[h] = IF source[h] \in {H!None, "committed"} THEN source[h] ELSE "aborted"
        /\ UNCHANGED <<state, move, resumed, torn>>
    BY <1>0, <1>1, <1>18 DEF H!AbortSource, H!Aborted, HandoffType
  <2>s. Served(h)
    BY <1>0, <1>1, <1>18, NodeServes
  <2> QED BY <1>0, <1>1, <1>4, <1>18, <2>1, <1>t, <2>s DEF Harmless, Given
<1> HIDE DEF Kept
<1> QED BY <1>7, <1>8, <1>9, <1>10, <1>11, <1>r, <1>c, <1>12, <1>13, <1>14, <1>15, <1>16, <1>17,
        <1>18 DEF H!Late, H!Goes_on_if

\* Every step of a coordinator and of a late request preserves the invariant.
LEMMA HandoffNext ==
  ASSUME HandoffIInv, [H!Next]_(H!handoffVars)
  PROVE  HandoffIInv'
<1>1. CASE H!Next
  BY <1>1, HandoffBegins, HandoffTransfers, HandoffCommits, HandoffAborts, HandoffGivesUp,
     HandoffLate DEF H!Next, H!Coordinator
<1>2. CASE UNCHANGED H!handoffVars
  BY <1>2 DEF H!handoffVars, HandoffIInv, HandoffType, H!BlobsAreWhole, Course, Given, Straggler,
     Taken, Intact, Vouched, H!Digests, H!Present
<1> QED BY <1>1, <1>2

\* node_client.rs and checkpoint.rs, for any number of handoffs, chunks and lost
\* calls: a blob is what its digest says unless a put wrote to its file once
\* another had taken the digest, a session is given away only to a node that has
\* restored and resumed all of it, and a failure aborts both sides unless the
\* checkpoint was refused.
THEOREM HandoffSafe == H!Spec => []HandoffInv
<1>1. HandoffIInv => HandoffInv
  <2> SUFFICES ASSUME HandoffIInv PROVE HandoffInv
    OBVIOUS
  <2>1. H!TypeOK
    BY DEF HandoffIInv, HandoffType, H!TypeOK
  <2>2. H!CommittedIsWhole /\ H!LeaseAgrees /\ H!FailureAborts
    BY DEF HandoffIInv, Course, Given, Taken, Intact, Forward, Aborts, Commits, H!Calls, H!None,
       H!CommittedIsWhole, H!LeaseAgrees, H!FailureAborts, H!Ended
  <2> QED BY <2>1, <2>2 DEF HandoffIInv, HandoffInv, H!HandoffInv
<1> QED BY <1>1, HandoffInitial, HandoffNext, PTL DEF H!Spec

(***************************************************************************)
(* The policy of the gateway.                                              *)
(***************************************************************************)

Stages == {"free", "policy", "rate", "quota", "upstream", "record"}
Requests == [at : Stages, key : Keys \cup {G!Master}, now : G!Minutes, tokens : 0..MaxTokens]
Windows == [start : G!Minutes \cup {-1}, count : Nat]

GatewayType ==
  /\ keys \subseteq Keys /\ clock \in G!Minutes
  /\ windows \in [Keys -> Windows] /\ usage \in [Keys -> [G!Days -> Nat]]
  /\ req \in [Reqs -> Requests] /\ let_in \in [Keys -> [G!Minutes -> Nat]]
  /\ turned \subseteq Keys /\ restarts \in 0..MaxRestart

\* Requests that will be charged: they have passed the quota.
Charged(k) ==
  {r \in Reqs : req[r].key = k /\ k # G!Master /\ req[r].at \in {"upstream", "record"}}
Ceiling == DailyLimit - 1 + MaxTokens * Cardinality(Reqs)

\* No request is ahead of the clock, and the policy is for virtual keys.
InTime ==
  \A r \in Reqs : /\ req[r].now <= clock
                  /\ req[r].at \in {"policy", "rate", "quota"} => req[r].key \in Keys

\* Nothing is recorded for a day to come, and a sum over more days is no less.
Sums ==
  \A k \in Keys : /\ \A d \in G!Days : d > G!Day(clock) => usage[k][d] = 0
                  /\ \A d, e \in G!Days : d <= e => usage[k][e] <= usage[k][d]

\* What is used today, and may be charged yet, fits under the ceiling.
Headroom ==
  \A k \in Keys :
    usage[k][G!Day(clock)] + MaxTokens * Cardinality(Charged(k)) <= Ceiling

\* While its window only moves on, a key's window counts what got in in its
\* minute, and nothing has got in in a later one.
Counts(k) ==
  /\ windows[k].count <= RateLimit
  /\ \A m \in G!Minutes : /\ m > windows[k].start => let_in[k][m] = 0
                          /\ m = windows[k].start => let_in[k][m] = windows[k].count
                          /\ m < windows[k].start => let_in[k][m] <= RateLimit

\* The invariant the gateway's induction carries.
GatewayIInv ==
  /\ GatewayType /\ InTime /\ Sums /\ Headroom /\ G!QuotaKept
  /\ restarts = 0 => \A k \in Keys \ turned : Counts(k)

\* The constants, one by one.
LEMMA GatewayBounds ==
  /\ RateLimit \in Nat /\ RateLimit > 0 /\ DailyLimit \in Nat /\ DailyLimit > 0
  /\ MinutesPerDay \in Nat /\ MinutesPerDay > 0
  /\ MaxTokens \in Nat /\ MaxClock \in Nat /\ MaxRestart \in Nat /\ IsFiniteSet(Reqs)
  /\ Cardinality(Reqs) \in Nat
<1>1. IsFiniteSet(Reqs)
  BY TrafficAssumption DEF G!GatewayConstants, G!IsFiniteSet, IsFiniteSet
<1> QED BY <1>1, TrafficAssumption, FS_CardinalityType DEF G!GatewayConstants

\* There is one Cardinality.
LEMMA SameSize == G!Cardinality(Reqs) = Cardinality(Reqs)
BY DEF G!Cardinality, Cardinality

\* The day of a later minute is no earlier day.
LEMMA DayGoesOn ==
  ASSUME NEW m \in Nat, NEW n \in Nat, m <= n
  PROVE  G!Day(m) \in Nat /\ G!Day(n) \in Nat /\ G!Day(m) <= G!Day(n)
BY GatewayBounds DEF G!Day

\* The day of the clock is one of the days.
LEMMA TodayIsADay ==
  ASSUME NEW m \in G!Minutes
  PROVE  m \in Nat /\ m <= MaxClock /\ G!Day(m) \in G!Days
BY GatewayBounds, DayGoesOn DEF G!Minutes, G!Days

\* A charge for each of fewer requests is no more.
LEMMA Product ==
  ASSUME NEW a \in Nat, NEW b \in Nat, a <= b
  PROVE  /\ MaxTokens * a \in Nat /\ MaxTokens * a <= MaxTokens * b
         /\ MaxTokens * (a + 1) = MaxTokens * a + MaxTokens
BY GatewayBounds

\* The ceiling is a number.
LEMMA CeilingIsNat == Ceiling \in Nat /\ MaxTokens * Cardinality(Reqs) \in Nat
BY GatewayBounds, Product DEF Ceiling

\* So is a charge for each of a subset of them.
LEMMA FewerCharged ==
  ASSUME NEW S \in SUBSET Reqs, NEW T \in SUBSET S
  PROVE  /\ Cardinality(S) \in Nat /\ Cardinality(T) \in Nat
         /\ MaxTokens * Cardinality(S) \in Nat /\ MaxTokens * Cardinality(T) \in Nat
         /\ MaxTokens * Cardinality(T) <= MaxTokens * Cardinality(S)
<1>1. IsFiniteSet(S) /\ IsFiniteSet(T)
  BY GatewayBounds, FS_Subset
<1>2. Cardinality(S) \in Nat /\ Cardinality(T) \in Nat /\ Cardinality(T) <= Cardinality(S)
  BY <1>1, FS_Subset, FS_CardinalityType
<1> QED BY <1>2, Product

\* Before any request the invariant holds.
LEMMA GatewayInitial == G!Init => GatewayIInv
<1> SUFFICES ASSUME G!Init PROVE GatewayIInv
  OBVIOUS
<1>1. 0 \in G!Minutes /\ G!Day(0) \in G!Days
  BY GatewayBounds, TodayIsADay DEF G!Minutes
<1>2. G!Free \in Requests /\ G!NoWindow \in Windows
  BY <1>1, GatewayBounds DEF G!Free, Requests, Stages, G!NoWindow, Windows
<1>3. GatewayType
  BY <1>1, <1>2, GatewayBounds DEF G!Init, GatewayType
<1>4. InTime
  BY <1>1 DEF G!Init, InTime, G!Free
<1>5. Sums
  BY <1>1 DEF G!Init, Sums
<1>6. ASSUME NEW k \in Keys PROVE Charged(k) = {}
  BY DEF G!Init, Charged, G!Free
<1>7. Headroom
  <2>1. Cardinality({}) = 0 /\ MaxTokens * 0 = 0
    BY FS_EmptySet, GatewayBounds
  <2>2. ASSUME NEW k \in Keys
        PROVE  usage[k][G!Day(clock)] = 0 /\ MaxTokens * Cardinality(Charged(k)) = 0
    BY <1>1, <1>6, <2>1 DEF G!Init
  <2> QED BY <2>2, CeilingIsNat DEF Headroom
<1>8. G!QuotaKept
  <2>1. \A k \in Keys, d \in G!Days : G!UsedOn(k, d) = 0
    BY DEF G!Init, G!UsedOn
  <2> QED BY <2>1, CeilingIsNat, SameSize DEF G!QuotaKept, Ceiling
<1>9. \A k \in Keys : Counts(k)
  BY GatewayBounds DEF G!Init, Counts, G!NoWindow, G!Minutes
<1> QED BY <1>3, <1>4, <1>5, <1>7, <1>8, <1>9 DEF GatewayIInv

\* Nothing is lost when requests only move on and no more of them are charged.
LEMMA NoMoreCharged ==
  ASSUME GatewayIInv, keys' \subseteq Keys, req' \in [Reqs -> Requests], InTime',
         UNCHANGED <<clock, usage>>, \A k \in Keys : Charged(k)' \subseteq Charged(k)
  PROVE  /\ keys' \subseteq Keys /\ clock' \in G!Minutes /\ usage' \in [Keys -> [G!Days -> Nat]]
         /\ req' \in [Reqs -> Requests] /\ InTime' /\ Sums' /\ Headroom' /\ G!QuotaKept'
<1>1. clock \in G!Minutes /\ usage \in [Keys -> [G!Days -> Nat]] /\ G!Day(clock) \in G!Days
  BY TodayIsADay DEF GatewayIInv, GatewayType
<1>2. Sums'
  BY DEF GatewayIInv, Sums
<1>3. Headroom'
  <2> SUFFICES ASSUME NEW k \in Keys
               PROVE  usage[k][G!Day(clock)] + MaxTokens * Cardinality(Charged(k)') <= Ceiling
    BY DEF Headroom, Ceiling
  <2>1. /\ MaxTokens * Cardinality(Charged(k)) \in Nat
        /\ MaxTokens * Cardinality(Charged(k)') \in Nat
        /\ MaxTokens * Cardinality(Charged(k)') <= MaxTokens * Cardinality(Charged(k))
    <3>1. Charged(k) \in SUBSET Reqs /\ Charged(k)' \in SUBSET Charged(k)
      BY DEF Charged
    <3> QED BY <3>1, FewerCharged
  <2>2. usage[k][G!Day(clock)] + MaxTokens * Cardinality(Charged(k)) <= Ceiling
    BY DEF GatewayIInv, Headroom
  <2> QED BY <1>1, <2>1, <2>2, CeilingIsNat
<1>4. G!QuotaKept'
  BY DEF GatewayIInv, G!QuotaKept, G!UsedOn
<1> QED BY <1>1, <1>2, <1>3, <1>4

\* A step that leaves the rate limiter alone.
LEMMA RateAside ==
  ASSUME GatewayIInv, UNCHANGED <<windows, let_in, turned, restarts>>,
         keys' \subseteq Keys, clock' \in G!Minutes, usage' \in [Keys -> [G!Days -> Nat]],
         req' \in [Reqs -> Requests], InTime', Sums', Headroom', G!QuotaKept'
  PROVE  GatewayIInv'
BY DEF GatewayIInv, GatewayType, Counts

\* What a request carries, and what remains of it when it is dropped.
LEMMA RequestFacts ==
  ASSUME GatewayIInv, NEW r \in Reqs
  PROVE  /\ req[r] \in Requests /\ req[r].now \in G!Minutes /\ req[r].now <= clock
         /\ clock \in G!Minutes /\ G!Free \in Requests /\ G!Free.now <= clock
BY GatewayBounds DEF GatewayIInv, GatewayType, InTime, Requests, G!Free, Stages, G!Minutes

\* A request is replaced by one that is in time and charged no more.
Moves(r, to) ==
  /\ req' = [req EXCEPT ![r] = to] /\ to.now <= clock
  /\ to.at \in {"policy", "rate", "quota"} => to.key \in Keys
  /\ \/ to.at \notin {"upstream", "record"} \/ to.key = G!Master
     \/ to.key = req[r].key /\ req[r].at \in {"upstream", "record"}

\* Then all requests are in time, and no more of them are charged.
LEMMA RequestMoves ==
  ASSUME GatewayIInv, NEW r \in Reqs, NEW to \in Requests, Moves(r, to), UNCHANGED <<clock, usage>>
  PROVE  /\ req' \in [Reqs -> Requests] /\ InTime' /\ req'[r] = to
         /\ \A k \in Keys : Charged(k)' \subseteq Charged(k)
<1>1. /\ req' \in [Reqs -> Requests] /\ req'[r] = to
      /\ \A s \in Reqs : s # r => req'[s] = req[s]
  BY DEF GatewayIInv, GatewayType, Moves
<1>2. InTime'
  BY <1>1 DEF GatewayIInv, InTime, Moves
<1>3. ASSUME NEW k \in Keys, NEW s \in Charged(k)' PROVE s \in Charged(k)
  BY <1>1, <1>3 DEF Charged, Moves
<1> QED BY <1>1, <1>2, <1>3

\* The steps that charge nobody and leave the limiter alone.
LEMMA GatewayPasses ==
  ASSUME GatewayIInv, NEW r \in Reqs,
         G!Authenticate(r) \/ G!ReadClock(r) \/ G!Answer(r)
  PROVE  GatewayIInv'
<1> USE DEF G!Ghosts, G!Drop
<1>1. PICK to \in Requests : Moves(r, to)
  <2>0. /\ req[r] \in Requests /\ req[r].now <= clock /\ clock \in G!Minutes
        /\ G!Free \in Requests /\ G!Free.now <= clock /\ keys \subseteq Keys
        /\ req[r].at \in {"policy", "rate", "quota"} => req[r].key \in Keys
        /\ clock \in Nat
    BY RequestFacts, TodayIsADay DEF GatewayIInv, GatewayType, InTime
  <2>1. CASE G!Authenticate(r)
    <3>1. CASE req' = [req EXCEPT ![r] = [G!Free EXCEPT !.at = "upstream"]]
      <4>1. [G!Free EXCEPT !.at = "upstream"] \in Requests
        BY <2>0 DEF Requests, Stages
      <4> QED BY <2>0, <3>1, <4>1 DEF G!Free, Moves
    <3>2. ASSUME NEW k \in keys,
                 req' = [req EXCEPT ![r] = [G!Free EXCEPT !.at = "policy", !.key = k]]
          PROVE  \E to \in Requests : Moves(r, to)
      <4>1. [G!Free EXCEPT !.at = "policy", !.key = k] \in Requests
        BY <2>0 DEF Requests, Stages
      <4> QED BY <2>0, <3>2, <4>1 DEF G!Free, Moves
    <3> QED BY <2>1, <3>1, <3>2 DEF G!Authenticate
  <2>2. CASE G!ReadClock(r)
    <3>1. PICK to : to = [req[r] EXCEPT !.at = "rate", !.now = clock]
      OBVIOUS
    <3>2. to \in Requests /\ to.at = "rate" /\ to.now = clock /\ to.key = req[r].key
      BY <2>0, <3>1 DEF Requests, Stages
    <3>3. req' = [req EXCEPT ![r] = to]
      BY <2>2, <3>1 DEF G!ReadClock, GatewayIInv, GatewayType
    <3>4. req[r].at = "policy"
      BY <2>2 DEF G!ReadClock
    <3>5. Moves(r, to)
      BY <2>0, <3>2, <3>3, <3>4 DEF Moves
    <3> QED BY <3>2, <3>5
  <2>3. CASE G!Answer(r)
    <3>1. CASE req' = [req EXCEPT ![r] = G!Free]
      BY <2>0, <3>1 DEF G!Free, Moves
    <3>2. ASSUME NEW t \in 0..MaxTokens, req' = [req EXCEPT ![r].at = "record", ![r].tokens = t]
          PROVE  \E to \in Requests : Moves(r, to)
      <4>1. PICK to : to = [req[r] EXCEPT !.at = "record", !.tokens = t]
        OBVIOUS
      <4>2. to \in Requests /\ to.at = "record" /\ to.now = req[r].now /\ to.key = req[r].key
        BY <2>0, <4>1 DEF Requests, Stages
      <4>3. req' = [req EXCEPT ![r] = to]
        BY <3>2, <4>1 DEF GatewayIInv, GatewayType
      <4> QED BY <2>0, <2>3, <4>2, <4>3 DEF G!Answer, Moves
    <3> QED BY <2>3, <3>1, <3>2 DEF G!Answer
  <2> QED BY <2>1, <2>2, <2>3
<1>2. UNCHANGED <<keys, clock, windows, usage, let_in, turned, restarts>>
  BY DEF G!Authenticate, G!ReadClock, G!Answer
<1>3. /\ req' \in [Reqs -> Requests] /\ InTime' /\ keys' \subseteq Keys
      /\ \A k \in Keys : Charged(k)' \subseteq Charged(k)
  BY <1>1, <1>2, RequestMoves DEF GatewayIInv, GatewayType
<1> QED BY <1>2, <1>3, NoMoreCharged, RateAside

\* A request that is let in, or turned away, by the rate limit.
LEMMA GatewayRates ==
  ASSUME GatewayIInv, NEW r \in Reqs, G!Rate(r)
  PROVE  GatewayIInv'
<1>0. PICK k \in Keys : k = req[r].key
  BY DEF GatewayIInv, InTime, G!Rate
<1>1. PICK now \in G!Minutes : now = req[r].now
  BY RequestFacts
<1>2. /\ req[r] \in Requests /\ req[r].at = "rate" /\ now <= clock /\ clock \in Nat /\ now \in Nat
      /\ G!Free \in Requests /\ G!Free.now <= clock
      /\ windows[k] \in Windows /\ let_in[k] \in [G!Minutes -> Nat]
  BY <1>0, <1>1, RequestFacts, TodayIsADay DEF G!Rate, GatewayIInv, GatewayType
<1>3. UNCHANGED <<keys, clock, usage, restarts>>
  BY DEF G!Rate
<1>4. PICK to \in Requests : Moves(r, to)
  <2>1. CASE req' = [req EXCEPT ![r] = G!Free]
    BY <1>2, <2>1 DEF G!Free, Moves
  <2>2. CASE req' = [req EXCEPT ![r].at = "quota"]
    <3>1. PICK to : to = [req[r] EXCEPT !.at = "quota"]
      OBVIOUS
    <3>2. to \in Requests /\ to.at = "quota" /\ to.now = now /\ to.key = k
      BY <1>0, <1>1, <1>2, <3>1 DEF Requests, Stages
    <3>3. req' = [req EXCEPT ![r] = to]
      BY <2>2, <3>1 DEF GatewayIInv, GatewayType
    <3> QED BY <1>2, <3>2, <3>3 DEF Moves
  <2> QED BY <2>1, <2>2 DEF G!Rate, G!Step, G!Drop
<1>5. /\ req' \in [Reqs -> Requests] /\ InTime' /\ keys' \subseteq Keys
      /\ \A i \in Keys : Charged(i)' \subseteq Charged(i)
  BY <1>3, <1>4, RequestMoves DEF GatewayIInv, GatewayType
<1>6. CASE UNCHANGED <<windows, let_in, turned>>
  BY <1>3, <1>5, <1>6, NoMoreCharged, RateAside
<1>7. CASE ~UNCHANGED <<windows, let_in, turned>>
  <2>1. /\ windows[k].start # now \/ windows[k].count < RateLimit
        /\ windows' = [windows EXCEPT ![k] = G!Counted(windows[k], now)]
        /\ let_in' = [let_in EXCEPT ![k][now] = @ + 1]
        /\ turned' = IF now < windows[k].start THEN turned \cup {k} ELSE turned
    BY <1>0, <1>1, <1>7 DEF G!Rate, G!Allowed
  <2>2. /\ G!Counted(windows[k], now) \in Windows
        /\ G!Counted(windows[k], now).start = now
        /\ G!Counted(windows[k], now).count =
             IF windows[k].start = now THEN windows[k].count + 1 ELSE 1
    BY <1>2 DEF G!Counted, Windows
  <2>3. /\ windows' \in [Keys -> Windows] /\ windows'[k].start = now
        /\ windows'[k].count = IF windows[k].start = now THEN windows[k].count + 1 ELSE 1
        /\ \A i \in Keys : i # k => windows'[i] = windows[i]
    BY <2>1, <2>2 DEF GatewayIInv, GatewayType
  <2>4. /\ let_in' \in [Keys -> [G!Minutes -> Nat]] /\ let_in'[k][now] = let_in[k][now] + 1
        /\ \A m \in G!Minutes : m # now => let_in'[k][m] = let_in[k][m]
        /\ \A i \in Keys : i # k => let_in'[i] = let_in[i]
    BY <1>2, <2>1 DEF GatewayIInv, GatewayType
  <2>5. turned' \subseteq Keys /\ turned \subseteq turned'
    BY <2>1 DEF GatewayIInv, GatewayType
  <2>6. GatewayType'
    BY <1>3, <1>5, <2>3, <2>4, <2>5 DEF GatewayIInv, GatewayType
  <2>7. ASSUME NEW i \in Keys \ turned', restarts = 0 PROVE Counts(i)'
    <3>1. Counts(i)
      BY <2>5, <2>7 DEF GatewayIInv
    <3>2. CASE i # k
      BY <2>3, <2>4, <3>1, <3>2 DEF Counts
    <3>3. CASE i = k
      <4>1. /\ now >= windows[k].start /\ windows[k].start \in G!Minutes \cup {-1}
            /\ windows[k].count \in Nat
        BY <1>2, <2>1, <2>7, <3>3 DEF Windows, G!Minutes
      <4>2. windows'[k].count <= RateLimit
        BY <2>1, <2>3, <3>1, <3>3, <4>1, GatewayBounds DEF Counts
      <4>3. let_in'[k][now] = windows'[k].count
        BY <1>2, <2>3, <2>4, <3>1, <3>3, <4>1 DEF Counts, G!Minutes
      <4>4. ASSUME NEW m \in G!Minutes, m > now PROVE let_in'[k][m] = 0
        BY <1>2, <2>4, <3>1, <3>3, <4>1, <4>4 DEF Counts, G!Minutes
      <4>5. ASSUME NEW m \in G!Minutes, m < now PROVE let_in'[k][m] <= RateLimit
        <5>1. /\ let_in'[k][m] = let_in[k][m] /\ m \in Nat /\ let_in[k][m] \in Nat
              /\ m < windows[k].start \/ m = windows[k].start \/ m > windows[k].start
          <6>1. m \in Nat /\ m # now /\ windows[k].start \in Int
            BY <1>2, <4>1, <4>5, GatewayBounds DEF G!Minutes
          <6>2. let_in'[k][m] = let_in[k][m] /\ let_in[k][m] \in Nat
            BY <1>2, <2>4, <6>1
          <6> QED BY <6>1, <6>2
        <5> QED BY <3>1, <3>3, <4>1, <5>1, GatewayBounds DEF Counts
      <4> QED BY <2>3, <3>3, <4>2, <4>3, <4>4, <4>5 DEF Counts
    <3> QED BY <3>2, <3>3
  <2> QED BY <1>3, <1>5, <2>6, <2>7, NoMoreCharged DEF GatewayIInv
<1> QED BY <1>6, <1>7

\* A request within the quota will be charged; by then the day's usage was under
\* the limit, whatever day the request started on.
LEMMA GatewayQuotas ==
  ASSUME GatewayIInv, NEW r \in Reqs, G!Quota(r)
  PROVE  GatewayIInv'
<1>0. PICK k \in Keys : k = req[r].key
  BY DEF GatewayIInv, InTime, G!Quota
<1>1. PICK now \in G!Minutes : now = req[r].now
  BY RequestFacts
<1>2. /\ req[r] \in Requests /\ req[r].at = "quota" /\ now <= clock /\ clock \in Nat /\ now \in Nat
      /\ clock \in G!Minutes /\ G!Free \in Requests /\ G!Free.now <= clock
      /\ usage \in [Keys -> [G!Days -> Nat]] /\ G!Day(clock) \in G!Days /\ G!Day(now) \in G!Days
  BY <1>0, <1>1, RequestFacts, TodayIsADay DEF G!Quota, GatewayIInv, GatewayType
<1>3. UNCHANGED <<keys, clock, windows, usage, let_in, turned, restarts>>
  BY DEF G!Quota, G!Ghosts
<1>4. CASE req' = [req EXCEPT ![r] = G!Free]
  <2>1. Moves(r, G!Free)
    BY <1>2, <1>4 DEF Moves, G!Free
  <2>2. /\ req' \in [Reqs -> Requests] /\ InTime' /\ keys' \subseteq Keys
        /\ \A i \in Keys : Charged(i)' \subseteq Charged(i)
    BY <1>2, <1>3, <2>1, RequestMoves DEF GatewayIInv, GatewayType
  <2> QED BY <1>3, <2>2, NoMoreCharged, RateAside
<1>5. CASE G!WithinQuota(k, now) /\ req' = [req EXCEPT ![r].at = "upstream"]
  <2>1. PICK to : to = [req[r] EXCEPT !.at = "upstream"]
    OBVIOUS
  <2>2. to \in Requests /\ to.at = "upstream" /\ to.now = now /\ to.key = k
    BY <1>0, <1>1, <1>2, <2>1 DEF Requests, Stages
  <2>3. /\ req' \in [Reqs -> Requests] /\ req'[r] = to
        /\ \A s \in Reqs : s # r => req'[s] = req[s]
    BY <1>2, <1>5, <2>1, <2>2 DEF GatewayIInv, GatewayType
  <2>4. InTime'
    BY <1>2, <1>3, <2>2, <2>3 DEF GatewayIInv, InTime
  <2>5. Sums' /\ G!QuotaKept'
    BY <1>3 DEF GatewayIInv, Sums, G!QuotaKept, G!UsedOn
  <2>6. usage[k][G!Day(clock)] <= DailyLimit - 1
    <3>1. usage[k][G!Day(now)] < DailyLimit /\ G!Day(now) <= G!Day(clock)
      BY <1>2, <1>5, DayGoesOn DEF G!WithinQuota, G!SumSince
    <3>2. usage[k][G!Day(clock)] <= usage[k][G!Day(now)]
      BY <1>2, <3>1 DEF GatewayIInv, Sums
    <3>3. usage[k][G!Day(clock)] \in Nat /\ usage[k][G!Day(now)] \in Nat
      BY <1>2
    <3> QED BY <3>1, <3>2, <3>3, GatewayBounds
  <2>7. Headroom'
    <3> SUFFICES ASSUME NEW i \in Keys
                 PROVE  usage[i][G!Day(clock)] + MaxTokens * Cardinality(Charged(i)') <= Ceiling
      BY <1>3 DEF Headroom, Ceiling
    <3>1. CASE i = k
      <4>1. Charged(i)' \in SUBSET Reqs /\ Reqs \in SUBSET Reqs
        BY DEF Charged
      <4>2. /\ MaxTokens * Cardinality(Charged(i)') \in Nat /\ MaxTokens * Cardinality(Reqs) \in Nat
            /\ MaxTokens * Cardinality(Charged(i)') <= MaxTokens * Cardinality(Reqs)
        BY <4>1, FewerCharged
      <4> QED BY <1>2, <2>6, <3>1, <4>2, GatewayBounds DEF Ceiling
    <3>2. CASE i # k
      <4>1. Charged(i)' = Charged(i)
        BY <1>0, <2>2, <2>3, <3>2 DEF Charged
      <4> QED BY <4>1 DEF GatewayIInv, Headroom
    <3> QED BY <3>1, <3>2
  <2>8. keys' \subseteq Keys /\ clock' \in G!Minutes /\ usage' \in [Keys -> [G!Days -> Nat]]
    BY <1>2, <1>3 DEF GatewayIInv, GatewayType
  <2> QED BY <1>3, <2>3, <2>4, <2>5, <2>7, <2>8, RateAside
<1> QED BY <1>0, <1>1, <1>4, <1>5 DEF G!Quota, G!Step, G!Drop

\* A record of what a request used, on the day it is written.
LEMMA GatewayRecords ==
  ASSUME GatewayIInv, NEW r \in Reqs, G!Record(r)
  PROVE  GatewayIInv'
<1>1. /\ req[r] \in Requests /\ req[r].at = "record" /\ clock \in Nat
      /\ clock \in G!Minutes /\ G!Free \in Requests /\ G!Free.now <= clock
      /\ usage \in [Keys -> [G!Days -> Nat]] /\ G!Day(clock) \in G!Days
      /\ G!Day(clock) \in Nat /\ G!Days \subseteq Nat
  BY RequestFacts, TodayIsADay, DayGoesOn DEF G!Record, GatewayIInv, GatewayType, G!Days
<1>2. /\ UNCHANGED <<keys, clock, windows, let_in, turned, restarts>>
      /\ req' = [req EXCEPT ![r] = G!Free]
  BY DEF G!Record, G!Drop, G!Ghosts
<1>3. /\ req' \in [Reqs -> Requests] /\ req'[r] = G!Free
      /\ \A s \in Reqs : s # r => req'[s] = req[s]
  BY <1>1, <1>2 DEF GatewayIInv, GatewayType
<1>4. InTime'
  BY <1>1, <1>2, <1>3 DEF GatewayIInv, InTime, G!Free
<1>5. CASE UNCHANGED usage
  <2>1. Moves(r, G!Free)
    BY <1>1, <1>2 DEF Moves, G!Free
  <2>2. keys' \subseteq Keys /\ \A i \in Keys : Charged(i)' \subseteq Charged(i)
    BY <1>1, <1>2, <1>5, <2>1, RequestMoves DEF GatewayIInv, GatewayType
  <2> QED BY <1>2, <1>3, <1>4, <1>5, <2>2, NoMoreCharged, RateAside
<1>6. CASE ~UNCHANGED usage
  <2>0. PICK k \in Keys, t \in 0..MaxTokens :
          /\ k = req[r].key /\ k # G!Master /\ t = req[r].tokens
          /\ usage' = [usage EXCEPT ![k] =
               [d \in G!Days |-> usage[k][d] + IF d <= G!Day(clock) THEN t ELSE 0]]
    BY <1>1, <1>6 DEF G!Record, Requests
  <2>1. /\ usage' \in [Keys -> [G!Days -> Nat]]
        /\ \A d \in G!Days : usage'[k][d] = usage[k][d] + IF d <= G!Day(clock) THEN t ELSE 0
        /\ \A i \in Keys : i # k => usage'[i] = usage[i]
    BY <1>1, <2>0, GatewayBounds
  <2>2. Sums'
    <3>1. ASSUME NEW i \in Keys, NEW d \in G!Days, d > G!Day(clock) PROVE usage'[i][d] = 0
      BY <1>1, <2>1, <3>1 DEF GatewayIInv, Sums
    <3>2. ASSUME NEW i \in Keys, NEW d \in G!Days, NEW e \in G!Days, d <= e
          PROVE  usage'[i][e] <= usage'[i][d]
      <4>1. usage[i][e] <= usage[i][d] /\ usage[i][e] \in Nat /\ usage[i][d] \in Nat
        BY <1>1, <3>2 DEF GatewayIInv, Sums
      <4> QED BY <1>1, <2>1, <3>2, <4>1, GatewayBounds
    <3> QED BY <1>2, <3>1, <3>2 DEF Sums
  <2>3. Headroom'
    <3> SUFFICES ASSUME NEW i \in Keys
                 PROVE  usage'[i][G!Day(clock)] + MaxTokens * Cardinality(Charged(i)') <= Ceiling
      BY <1>2 DEF Headroom, Ceiling
    <3>0. usage[i][G!Day(clock)] + MaxTokens * Cardinality(Charged(i)) <= Ceiling
      BY DEF GatewayIInv, Headroom
    <3>1. CASE i = k
      <4>1. Charged(k)' = Charged(k) \ {r} /\ r \in Charged(k) /\ Charged(k) \in SUBSET Reqs
        BY <1>1, <1>3, <2>0 DEF Charged, G!Free
      <4>2. /\ Cardinality(Charged(k)) = Cardinality(Charged(k)') + 1
            /\ Cardinality(Charged(k)') \in Nat
        <5>1. IsFiniteSet(Charged(k))
          BY <4>1, FS_Subset, GatewayBounds
        <5>2. IsFiniteSet(Charged(k)') /\ Cardinality(Charged(k)) \in Nat
          BY <4>1, <5>1, FS_Subset, FS_CardinalityType
        <5> QED BY <4>1, <5>1, <5>2, FS_RemoveElement, FS_CardinalityType
      <4>3. /\ MaxTokens * Cardinality(Charged(k)) = MaxTokens * Cardinality(Charged(k)') + MaxTokens
            /\ MaxTokens * Cardinality(Charged(k)') \in Nat
        BY <4>2, Product
      <4>4. usage'[k][G!Day(clock)] = usage[k][G!Day(clock)] + t /\ usage[k][G!Day(clock)] \in Nat
        BY <1>1, <2>1
      <4> QED BY <3>0, <3>1, <4>3, <4>4, GatewayBounds, CeilingIsNat
    <3>2. CASE i # k
      <4>1. Charged(i)' = Charged(i) /\ usage'[i] = usage[i]
        BY <1>3, <2>0, <2>1, <3>2 DEF Charged, G!Free
      <4> QED BY <3>0, <4>1
    <3> QED BY <3>1, <3>2
  <2>4. ASSUME NEW i \in Keys, NEW d \in G!Days PROVE G!UsedOn(i, d)' <= Ceiling
    <3>1. G!UsedOn(i, d) <= Ceiling
      BY SameSize DEF GatewayIInv, G!QuotaKept, Ceiling
    <3>2. CASE i # k
      BY <2>1, <3>1, <3>2 DEF G!UsedOn
    <3>3. CASE i = k /\ d < G!Day(clock)
      <4>1. d + 1 \in G!Days /\ d + 1 <= G!Day(clock) /\ d <= G!Day(clock)
        <5>1. G!Day(MaxClock) \in Nat
          BY DayGoesOn, GatewayBounds
        <5> QED BY <1>1, <3>3, <5>1 DEF G!Days
      <4>2. /\ usage'[k][d] = usage[k][d] + t /\ usage'[k][d + 1] = usage[k][d + 1] + t
            /\ usage[k][d] \in Nat /\ usage[k][d + 1] \in Nat
        BY <1>1, <2>1, <4>1
      <4>3. usage'[k][d] - usage'[k][d + 1] = usage[k][d] - usage[k][d + 1]
        BY <4>2, GatewayBounds
      <4> QED BY <3>1, <3>3, <4>1, <4>3 DEF G!UsedOn
    <3>4. CASE i = k /\ d = G!Day(clock)
      <4>1. MaxTokens * Cardinality(Charged(k)') \in Nat
        BY FewerCharged DEF Charged
      <4>2. usage'[k][d] + MaxTokens * Cardinality(Charged(k)') <= Ceiling
        BY <1>2, <2>3, <3>4 DEF Headroom, Ceiling
      <4>3. usage'[k][d] \in Nat /\ (d + 1 \in G!Days => usage'[k][d + 1] \in Nat)
        BY <2>1
      <4> QED BY <3>4, <4>1, <4>2, <4>3, CeilingIsNat DEF G!UsedOn
    <3>5. CASE i = k /\ d > G!Day(clock)
      <4>1. usage'[k][d] = 0 /\ (d + 1 \in G!Days => usage'[k][d + 1] \in Nat)
        BY <1>2, <2>1, <2>2, <3>5 DEF Sums
      <4> QED BY <3>5, <4>1, CeilingIsNat DEF G!UsedOn
    <3> QED BY <1>1, <3>2, <3>3, <3>4, <3>5
  <2>5. G!QuotaKept'
    BY <2>4, SameSize DEF G!QuotaKept, Ceiling
  <2>6. keys' \subseteq Keys /\ clock' \in G!Minutes
    BY <1>1, <1>2 DEF GatewayIInv, GatewayType
  <2> QED BY <1>2, <1>3, <1>4, <2>1, <2>2, <2>3, <2>5, <2>6, RateAside
<1> QED BY <1>5, <1>6

\* A new day starts with nothing used, and the day before keeps what it had.
LEMMA GatewayTicks ==
  ASSUME GatewayIInv, G!Tick
  PROVE  GatewayIInv'
<1>1. /\ clock \in Nat /\ clock \in G!Minutes /\ clock' = clock + 1 /\ clock' \in G!Minutes
      /\ usage \in [Keys -> [G!Days -> Nat]] /\ G!Days \subseteq Nat
      /\ UNCHANGED <<keys, windows, usage, req, let_in, turned, restarts>>
  BY TodayIsADay, GatewayBounds DEF GatewayIInv, GatewayType, G!Tick, G!Ghosts, G!Minutes, G!Days
<1>2. /\ G!Day(clock) \in Nat /\ G!Day(clock') \in Nat /\ G!Day(clock) <= G!Day(clock')
      /\ G!Day(clock) \in G!Days /\ G!Day(clock') \in G!Days
  BY <1>1, DayGoesOn, TodayIsADay
<1>3. req' \in [Reqs -> Requests] /\ keys' \subseteq Keys /\ usage' \in [Keys -> [G!Days -> Nat]]
  BY <1>1 DEF GatewayIInv, GatewayType
<1>4. InTime'
  <2>1. ASSUME NEW r \in Reqs PROVE req'[r].now <= clock'
    <3>1. req[r].now <= clock /\ req[r].now \in Nat
      BY RequestFacts, TodayIsADay
    <3> QED BY <1>1, <3>1
  <2> QED BY <1>1, <2>1 DEF GatewayIInv, InTime
<1>5. Sums'
  <2>1. ASSUME NEW k \in Keys, NEW d \in G!Days, d > G!Day(clock') PROVE usage[k][d] = 0
    BY <1>1, <1>2, <2>1 DEF GatewayIInv, Sums
  <2> QED BY <1>1, <2>1 DEF GatewayIInv, Sums, G!Day
<1>6. Headroom'
  <2> SUFFICES ASSUME NEW k \in Keys
               PROVE  usage[k][G!Day(clock')] + MaxTokens * Cardinality(Charged(k)) <= Ceiling
    BY <1>1 DEF Headroom, Ceiling, Charged, G!Day
  <2>1. usage[k][G!Day(clock)] + MaxTokens * Cardinality(Charged(k)) <= Ceiling
    BY DEF GatewayIInv, Headroom
  <2>2. /\ usage[k][G!Day(clock')] <= usage[k][G!Day(clock)]
        /\ usage[k][G!Day(clock')] \in Nat /\ usage[k][G!Day(clock)] \in Nat
    BY <1>1, <1>2 DEF GatewayIInv, Sums
  <2>3. MaxTokens * Cardinality(Charged(k)) \in Nat
    BY FewerCharged DEF Charged
  <2> QED BY <2>1, <2>2, <2>3, CeilingIsNat
<1>7. G!QuotaKept'
  BY <1>1 DEF GatewayIInv, G!QuotaKept, G!UsedOn
<1> QED BY <1>1, <1>3, <1>4, <1>5, <1>6, <1>7, RateAside

\* A restart forgets the windows and drops the requests; the usage is kept.
LEMMA GatewayRestarts ==
  ASSUME GatewayIInv, G!Restart
  PROVE  GatewayIInv'
<1>1. /\ restarts' # 0 /\ restarts' \in 0..MaxRestart /\ req' = [r \in Reqs |-> G!Free]
      /\ windows' = [k \in Keys |-> G!NoWindow] /\ UNCHANGED <<keys, clock, usage, let_in, turned>>
  BY GatewayBounds DEF GatewayIInv, GatewayType, G!Restart
<1>2. /\ G!Free \in Requests /\ G!NoWindow \in Windows /\ G!Free.now <= clock
  BY GatewayBounds DEF GatewayIInv, GatewayType, G!Free, Requests, Stages, G!NoWindow, Windows,
     G!Minutes
<1>3. req' \in [Reqs -> Requests] /\ windows' \in [Keys -> Windows] /\ keys' \subseteq Keys
  BY <1>1, <1>2 DEF GatewayIInv, GatewayType
<1>4. InTime'
  BY <1>1, <1>2 DEF InTime, G!Free
<1>5. \A k \in Keys : Charged(k)' \subseteq Charged(k)
  BY <1>1 DEF Charged, G!Free
<1>6. Sums' /\ Headroom' /\ G!QuotaKept'
  BY <1>1, <1>3, <1>4, <1>5, NoMoreCharged
<1>7. GatewayType'
  BY <1>1, <1>3 DEF GatewayIInv, GatewayType
<1> QED BY <1>1, <1>4, <1>6, <1>7 DEF GatewayIInv

\* Every step of the gateway preserves the invariant.
LEMMA GatewayNext ==
  ASSUME GatewayIInv, [G!Next]_(G!gatewayVars)
  PROVE  GatewayIInv'
<1>1. CASE UNCHANGED <<clock, windows, usage, req, let_in, turned, restarts>> /\ keys' \subseteq Keys
  <2>1. req' \in [Reqs -> Requests] /\ InTime' /\ \A k \in Keys : Charged(k)' \subseteq Charged(k)
    BY <1>1 DEF GatewayIInv, GatewayType, InTime, Charged
  <2> QED BY <1>1, <2>1, NoMoreCharged, RateAside
<1>2. ASSUME NEW k \in Keys, G!Create(k) \/ G!Delete(k) PROVE GatewayIInv'
  BY <1>1, <1>2 DEF G!Create, G!Delete, G!Ghosts, GatewayIInv, GatewayType
<1>3. CASE UNCHANGED G!gatewayVars
  BY <1>1, <1>3 DEF G!gatewayVars, GatewayIInv, GatewayType
<1> QED BY <1>2, <1>3, GatewayPasses, GatewayRates, GatewayQuotas, GatewayRecords, GatewayTicks,
        GatewayRestarts DEF G!Next

\* policy.rs, routes.rs and usage.rs, for any number of keys and requests: no key
\* gets more requests in in a minute than its rate, unless its window was set
\* back, nor uses more in a day than its quota and what was under way.
THEOREM GatewaySafe == G!Spec => []GatewayInv
<1>1. GatewayIInv => GatewayInv
  <2> SUFFICES ASSUME GatewayIInv PROVE GatewayInv
    OBVIOUS
  <2>1. G!TypeOK
    BY DEF GatewayIInv, GatewayType, G!TypeOK, Requests, Stages, Windows
  <2>2. ASSUME restarts = 0, NEW k \in Keys \ turned, NEW m \in G!Minutes
        PROVE  let_in[k][m] <= RateLimit
    <3>1. Counts(k) /\ windows[k].start \in G!Minutes \cup {-1} /\ m \in Nat
      BY <2>2, TodayIsADay DEF GatewayIInv, GatewayType, Windows
    <3>2. m < windows[k].start \/ m = windows[k].start \/ m > windows[k].start
      BY <3>1 DEF G!Minutes
    <3> QED BY <3>1, <3>2, GatewayBounds DEF Counts
  <2>3. G!RateKept
    BY <2>2 DEF G!RateKept
  <2> QED BY <2>1, <2>3 DEF GatewayIInv, GatewayInv, G!GatewayInv
<1> QED BY <1>1, GatewayInitial, GatewayNext, PTL DEF G!Spec

(***************************************************************************)
(* The event bus.  Numbers first: the replay of the ring is a recursive    *)
(* function, and what it returns is proved by induction.                   *)
(***************************************************************************)

\* A set of numbers that is not empty has a least one.
LEMMA LeastOf ==
  ASSUME NEW S \in SUBSET Nat, S # {}
  PROVE  \E x \in S : \A y \in S : x <= y
<1> DEFINE R == OpToRel(<, Nat)
<1>1. IsWellFoundedOn(R, Nat)
  BY NatLessThanWellFounded
<1>2. \A x, y \in Nat : x < y => <<x, y>> \in R
  BY DEF OpToRel
<1> HIDE DEF R
<1>3. PICK x \in S : \A y \in S : ~ (<<y, x>> \in R)
  BY <1>1, WFMin
<1>4. ASSUME NEW y \in S PROVE x <= y
  <2>1. x \in Nat /\ y \in Nat
    OBVIOUS
  <2>2. ~ (y < x)
    BY <1>2, <1>3, <2>1, Zenon
  <2> QED BY <2>1, <2>2
<1> QED BY <1>4

\* Induction over the numbers, for a set in the place of a predicate.
LEMMA InductionOver ==
  ASSUME NEW S, 0 \in S, \A n \in Nat : n \in S => n + 1 \in S
  PROVE  Nat \subseteq S
<1> SUFFICES ASSUME ~ (Nat \subseteq S) PROVE FALSE
  OBVIOUS
<1>1. (Nat \ S) # {} /\ (Nat \ S) \in SUBSET Nat
  OBVIOUS
<1>2. PICK x \in Nat \ S : \A y \in Nat \ S : x <= y
  BY <1>1, LeastOf
<1>3. x # 0 /\ x - 1 \in Nat
  BY <1>2
<1>4. x - 1 \in S
  BY <1>2, <1>3
<1> QED BY <1>2, <1>3, <1>4

\* The entries of a queue, a queue with its hole, and what a publisher holds.
Entry == Event \cup [seq : {0}, dropped : Nat, from : Nat, to : Nat]
Queues == [queue : Seq(Entry), dropped : Nat, first : Nat, last : Nat]
Items == [event : Event, to : (0..MaxReconnects) \cup {NoSub}]

\* How many entries a push takes off the front of a queue, and whether it puts
\* a marker before the event.
Off(q) == IF Len(q.queue) >= Capacity THEN 1 ELSE 0
Mark(q) == IF Len(q.queue) < Capacity /\ q.dropped > 0 THEN 1 ELSE 0

\* What a push of an event that is wanted makes of a queue.
Pushed(q, e, r) ==
  /\ r \in Queues /\ Off(q) <= Len(q.queue)
  /\ Len(r.queue) = Len(q.queue) - Off(q) + Mark(q) + 1
  /\ \A i \in 1..(Len(q.queue) - Off(q)) : r.queue[i] = q.queue[i + Off(q)]
  /\ Mark(q) = 1 => r.queue[Len(q.queue) + 1] = Marker(q.dropped, q.first, q.last)
  /\ r.queue[Len(r.queue)] = e
  /\ Off(q) = 1 => /\ r.dropped = q.dropped + 1 /\ r.last = q.queue[1].seq
                   /\ r.first = IF q.dropped = 0 THEN q.queue[1].seq ELSE q.first
  /\ Off(q) = 0 => r.dropped = 0

\* What the entries of a queue are.
LEMMA EntryFacts ==
  /\ \A e \in Event : e \in Entry /\ e.seq \in 1..MaxSeq /\ e.epoch \in 0..MaxRestarts
                      /\ ~IsMarker(e) /\ e.wanted \in BOOLEAN
  /\ \A m, f, t \in Nat : Marker(m, f, t) \in Entry /\ IsMarker(Marker(m, f, t))
  /\ \A e \in Entry : e.seq \in Nat /\ (~IsMarker(e) => e \in Event)
<1> USE BusAssumption DEF Event, Entry, IsMarker, Marker
<1>1. ASSUME NEW e \in Event PROVE e \in Entry /\ e.seq \in 1..MaxSeq /\ e.epoch \in 0..MaxRestarts
    /\ ~IsMarker(e)
  OBVIOUS
<1>2. ASSUME NEW e \in Event PROVE e.wanted \in BOOLEAN
  BY Zenon
<1>3. ASSUME NEW m \in Nat, NEW f \in Nat, NEW t \in Nat
      PROVE Marker(m, f, t) \in Entry /\ IsMarker(Marker(m, f, t))
  OBVIOUS
<1>4. ASSUME NEW e \in Entry PROVE e.seq \in Nat /\ (~IsMarker(e) => e \in Event)
  OBVIOUS
<1> QED BY <1>1, <1>2, <1>3, <1>4

\* A queue with its fields replaced.
LEMMA QueueFields ==
  ASSUME NEW q \in Queues, NEW t, NEW z
  PROVE  /\ [q EXCEPT !.queue = t] = [queue |-> t, dropped |-> q.dropped, first |-> q.first, last |-> q.last]
         /\ [q EXCEPT !.queue = t, !.dropped = z] =
              [queue |-> t, dropped |-> z, first |-> q.first, last |-> q.last]
<1>1. [q EXCEPT !.queue = t, !.dropped = z] = [[q EXCEPT !.queue = t] EXCEPT !.dropped = z]
  OBVIOUS
<1>2. [q EXCEPT !.queue = t] = [queue |-> t, dropped |-> q.dropped, first |-> q.first, last |-> q.last]
  BY DEF Queues
<1>3. [[queue |-> t, dropped |-> q.dropped, first |-> q.first, last |-> q.last] EXCEPT !.dropped = z]
        = [queue |-> t, dropped |-> z, first |-> q.first, last |-> q.last]
  OBVIOUS
<1> QED BY <1>1, <1>2, <1>3

\* The same, for an entry that is appended.
LEMMA AppendField ==
  ASSUME NEW q, NEW e
  PROVE  [q EXCEPT !.queue = Append(@, e)] = [q EXCEPT !.queue = Append(q.queue, e)]
  OBVIOUS

\* SubscriberQueue::push, for an event that is wanted.
LEMMA PushShape ==
  ASSUME NEW q \in Queues, NEW e \in Event, e.wanted
  PROVE  Pushed(q, e, Push(q, e))
<1> DEFINE n == Len(q.queue)
<1>0. /\ q.queue \in Seq(Entry) /\ n \in Nat /\ e \in Entry
      /\ q.dropped \in Nat /\ q.first \in Nat /\ q.last \in Nat /\ Capacity \in Nat /\ Capacity > 0
  BY EntryFacts, BusAssumption DEF Queues
<1>1. CASE n >= Capacity
  <2>1. n > 0 /\ q.queue # <<>>
    BY <1>0, <1>1
  <2>2. Head(q.queue) = q.queue[1] /\ q.queue[1] \in Entry
    BY <1>0, <2>1
  <2>3. /\ Tail(q.queue) \in Seq(Entry) /\ Len(Tail(q.queue)) = n - 1
        /\ \A i \in 1..(n - 1) : Tail(q.queue)[i] = q.queue[i + 1]
    BY <1>0, <2>1
  <2> DEFINE t == Append(Tail(q.queue), e)  f == IF q.dropped = 0 THEN q.queue[1].seq ELSE q.first
             l == q.queue[1].seq
  <2>4. Push(q, e) = [queue |-> t, dropped |-> q.dropped + 1, first |-> f, last |-> l]
    BY <1>1, <2>2 DEF Push, Evict
  <2>6. l \in Nat /\ f \in Nat
    BY <2>2, <1>0, EntryFacts
  <2>7. /\ t \in Seq(Entry) /\ Len(t) = n
        /\ \A i \in 1..(n - 1) : t[i] = q.queue[i + 1]
        /\ t[n] = e
    BY <2>3, <1>0, <2>1
  <2> HIDE DEF t, f, l
  <2>8. Push(q, e) \in Queues
    BY <2>4, <2>6, <2>7, <1>0 DEF Queues
  <2>9. f = (IF q.dropped = 0 THEN q.queue[1].seq ELSE q.first) /\ l = q.queue[1].seq
    BY DEF f, l
  <2>10. Off(q) = 1 /\ Mark(q) = 0
    BY <1>0, <1>1 DEF Off, Mark
  <2> QED BY <1>0, <2>4, <2>7, <2>8, <2>1, <2>9, <2>10 DEF Pushed
<1>2. CASE n < Capacity /\ q.dropped > 0
  <2> DEFINE m == Marker(q.dropped, q.first, q.last)
  <2>1. m \in Entry
    BY <1>0, EntryFacts
  <2> HIDE DEF m
  <2> DEFINE s == Append(q.queue, m)  t == Append(s, e)
  <2>4. /\ s \in Seq(Entry) /\ Len(s) = n + 1
        /\ \A i \in 1..n : s[i] = q.queue[i]
        /\ s[n + 1] = m
    BY <1>0, <2>1
  <2> HIDE DEF s
  <2>2. Announce(q) = [queue |-> s, dropped |-> 0, first |-> q.first, last |-> q.last]
    BY QueueFields DEF Announce, m, s
  <2>3. Push(q, e) = [queue |-> t, dropped |-> 0, first |-> q.first, last |-> q.last]
    <3> DEFINE w == Announce(q)
               v == IF n >= Capacity THEN Evict(q) ELSE IF q.dropped > 0 THEN Announce(q) ELSE q
    <3>0. v = w
      BY <1>2, <1>0
    <3>1. Push(q, e) = [w EXCEPT !.queue = Append(@, e)]
      <4>1. Push(q, e) = [v EXCEPT !.queue = Append(@, e)]
        BY Zenon DEF Push
      <4> HIDE DEF v, w
      <4> QED BY <4>1, <3>0
    <3>2. [w EXCEPT !.queue = Append(@, e)] = [w EXCEPT !.queue = t]
      BY AppendField, <2>2
    <3> HIDE DEF t
    <3> QED BY <3>1, <3>2, <2>2
  <2>5. /\ t \in Seq(Entry) /\ Len(t) = n + 2
        /\ \A i \in 1..n : t[i] = q.queue[i]
        /\ t[n + 1] = m /\ t[n + 2] = e
    BY <1>0, <2>4
  <2> HIDE DEF t
  <2>6. Push(q, e) \in Queues
    BY <2>3, <2>5, <1>0 DEF Queues
  <2>7. Off(q) = 0 /\ Mark(q) = 1
    BY <1>0, <1>2 DEF Off, Mark
  <2>8. Push(q, e).queue = t /\ Push(q, e).dropped = 0
    BY <2>3
  <2> QED BY <1>0, <2>5, <2>6, <2>7, <2>8 DEF Pushed, m
<1>3. CASE n < Capacity /\ ~(q.dropped > 0)
  <2> DEFINE t == Append(q.queue, e)
  <2>3. Push(q, e) = [queue |-> t, dropped |-> q.dropped, first |-> q.first, last |-> q.last]
    <3> DEFINE w == IF n >= Capacity THEN Evict(q) ELSE IF q.dropped > 0 THEN Announce(q) ELSE q
    <3>1. Push(q, e) = [w EXCEPT !.queue = Append(@, e)]
      BY Zenon DEF Push
    <3>2. w = q
      BY <1>3, <1>0
    <3> HIDE DEF w
    <3>3. [w EXCEPT !.queue = Append(@, e)] = [q EXCEPT !.queue = t]
      BY AppendField, <3>2
    <3> HIDE DEF t
    <3> QED BY <3>1, <3>3, QueueFields
  <2>5. /\ t \in Seq(Entry) /\ Len(t) = n + 1
        /\ \A i \in 1..n : t[i] = q.queue[i]
        /\ t[n + 1] = e
    BY <1>0
  <2> HIDE DEF t
  <2>6. Push(q, e) \in Queues
    BY <2>3, <2>5, <1>0 DEF Queues
  <2>7. Off(q) = 0 /\ Mark(q) = 0 /\ q.dropped = 0
    BY <1>0, <1>3 DEF Off, Mark
  <2>8. Push(q, e).queue = t /\ Push(q, e).dropped = q.dropped
    BY <2>3
  <2> QED BY <1>0, <2>5, <2>6, <2>7, <2>8 DEF Pushed
<1> QED BY <1>0, <1>1, <1>2, <1>3

(***************************************************************************)
(* The replay.                                                             *)
(***************************************************************************)

\* The queue after the first k entries of the ring.
ReplayRuns(n, f) ==
  f = [k \in 0..n |-> IF k = 0 THEN FreshQueue
                      ELSE IF Missed(ring[k]) THEN Push(f[k - 1], ring[k]) ELSE f[k - 1]]

\* The entries of the ring are numbered without a gap.
RingRow ==
  /\ ring \in Seq(Event) /\ nextSeq \in Nat
  /\ \A i \in 1..Len(ring) : ring[i].seq = nextSeq - Len(ring) + i - 1

\* The queue q has what was missed of the first k entries of the ring, in their
\* order, the oldest given up and noted as a hole, the newest at the end.
Caught(k, q) ==
  /\ q \in Queues /\ Len(q.queue) <= Capacity
  /\ q.dropped > 0 => /\ Len(q.queue) = Capacity /\ q.first <= q.last
                      /\ \A i \in 1..Len(q.queue) : q.last < q.queue[i].seq
  /\ \A i \in 1..Len(q.queue) :
       \E j \in 1..k : q.queue[i] = ring[j] /\ Missed(ring[j]) /\ ring[j].wanted
  /\ \A i, j \in 1..Len(q.queue) : i < j => q.queue[i].seq < q.queue[j].seq
  /\ \A j \in 1..k : Missed(ring[j]) /\ ring[j].wanted =>
       /\ \/ \E i \in 1..Len(q.queue) : q.queue[i] = ring[j]
          \/ q.dropped > 0 /\ ring[j].seq \in q.first..q.last
       /\ Len(q.queue) > 0 /\ ring[j].seq <= q.queue[Len(q.queue)].seq

\* The queues of the replay, one for every entry of the ring.
LEMMA ReplayExists == Len(ring) \in Nat => \E f : ReplayRuns(Len(ring), f)
<1> DEFINE S == {n \in Nat : \E f : ReplayRuns(n, f)}
<1>1. 0 \in S
  <2> DEFINE f == [k \in 0..0 |-> FreshQueue]
  <2>1. ReplayRuns(0, f)
    BY DEF ReplayRuns
  <2> QED BY <2>1
<1>2. ASSUME NEW n \in Nat, n \in S PROVE n + 1 \in S
  <2>1. PICK f : ReplayRuns(n, f)
    BY <1>2
  <2> DEFINE g == [k \in 0..(n + 1) |->
                     IF k = n + 1 THEN (IF Missed(ring[n + 1]) THEN Push(f[n], ring[n + 1]) ELSE f[n])
                     ELSE f[k]]
  <2>2. \A k \in 0..(n + 1) : g[k] = IF k = 0 THEN FreshQueue
                      ELSE IF Missed(ring[k]) THEN Push(g[k - 1], ring[k]) ELSE g[k - 1]
    BY <2>1 DEF ReplayRuns
  <2>3. ReplayRuns(n + 1, g)
    BY <2>2 DEF ReplayRuns
  <2> QED BY <2>3
<1> HIDE DEF S
<1>3. Nat \subseteq S
  BY <1>1, <1>2, InductionOver
<1> QED BY <1>3 DEF S

\* What the replay makes of the new queue is the last of these queues.
LEMMA ReplayLast ==
  ASSUME Len(ring) \in Nat
  PROVE  \E f : ReplayRuns(Len(ring), f) /\ Replayed = f[Len(ring)]
<1>1. \E f : ReplayRuns(Len(ring), f)
  BY ReplayExists
<1>2. Replayed = (CHOOSE f : ReplayRuns(Len(ring), f))[Len(ring)]
  BY DEF Replayed, ReplayRuns
<1> QED BY <1>1, <1>2

\* One more entry of the ring.
LEMMA CaughtNext ==
  ASSUME RingRow, NEW k \in Nat, k < Len(ring), NEW q, Caught(k, q), Missed(ring[k + 1])
  PROVE  Caught(k + 1, Push(q, ring[k + 1]))
<1> DEFINE e == ring[k + 1]  r == Push(q, e)  n == Len(q.queue)
<1>1. /\ e \in Event /\ e \in Entry /\ q \in Queues /\ q.queue \in Seq(Entry) /\ n \in Nat /\ n <= Capacity
      /\ e.seq \in Nat /\ Capacity \in Nat \ {0} /\ k + 1 \in 1..Len(ring) /\ Len(ring) \in Nat
      /\ q.dropped \in Nat /\ q.first \in Nat /\ q.last \in Nat
  <2>1. Len(ring) \in Nat /\ k + 1 \in 1..Len(ring) /\ Capacity \in Nat \ {0}
    BY BusAssumption DEF RingRow
  <2>2. e \in Event
    BY <2>1 DEF RingRow
  <2> HIDE DEF e
  <2>3. q \in Queues /\ Len(q.queue) <= Capacity
    BY DEF Caught
  <2>4. q.queue \in Seq(Entry) /\ q.dropped \in Nat /\ q.first \in Nat /\ q.last \in Nat
    BY <2>3 DEF Queues
  <2>5. e \in Entry /\ e.seq \in 1..MaxSeq
    BY <2>2, EntryFacts
  <2> QED BY <2>1, <2>2, <2>3, <2>4, <2>5, BusAssumption
<1>2. \A j \in 1..k : ring[j] \in Event /\ ring[j].seq < e.seq /\ ring[j].seq \in Nat
  <2> SUFFICES ASSUME NEW j \in 1..k PROVE ring[j] \in Event /\ ring[j].seq < e.seq /\ ring[j].seq \in Nat
    OBVIOUS
  <2>1. j \in 1..Len(ring) /\ k + 1 \in 1..Len(ring)
    BY <1>1
  <2>2. ring[j] \in Event
    BY <2>1 DEF RingRow
  <2>3. ring[j].seq \in 1..MaxSeq
    BY <2>2, EntryFacts
  <2>4. ring[j].seq = nextSeq - Len(ring) + j - 1 /\ e.seq = nextSeq - Len(ring) + (k + 1) - 1
    BY <2>1 DEF RingRow
  <2>5. \A a, b \in Nat : \A c \in 1..k : a - b + c - 1 < a - b + (k + 1) - 1
    OBVIOUS
  <2>6. nextSeq \in Nat /\ ring[j].seq \in Nat
    BY <2>3, BusAssumption DEF RingRow
  <2> QED BY <2>2, <2>4, <2>5, <2>6, <1>1
<1> HIDE DEF e
<1>E. e = ring[k + 1]
  BY DEF e
<1>3. CASE ~e.wanted
  <2>1. r = q
    BY <1>3 DEF Push
  <2>2. \A j \in 1..(k + 1) : ring[j].wanted => j \in 1..k
    BY <1>1, <1>3, <1>E
  <2>3. \A j \in 1..k : j \in 1..(k + 1)
    OBVIOUS
  <2>4. Caught(k + 1, q)
    BY <2>2, <2>3 DEF Caught
  <2> QED BY <2>1, <2>4, <1>E, Zenon
<1>4. CASE e.wanted
  <2>1. Pushed(q, e, r)
    BY <1>1, <1>4, PushShape
  <2> SUFFICES Caught(k + 1, r)
    BY <1>E
  <2> HIDE DEF r
  <2>2. \A i \in 1..n : q.queue[i].seq < e.seq /\ q.queue[i].seq \in Nat
    BY <1>2 DEF Caught
  <2>3. Mark(q) = 0
    BY <1>1 DEF Mark, Caught
  <2>4. r \in Queues /\ r.dropped \in Nat /\ r.first \in Nat /\ r.last \in Nat /\ r.queue \in Seq(Entry)
    BY <2>1 DEF Pushed, Queues
  <2>O. (Off(q) = 0 /\ n < Capacity) \/ (Off(q) = 1 /\ n = Capacity)
    BY <1>1 DEF Off
  <2>N. \A i \in 1..n : q.queue[i].seq \in Nat
    BY <2>2
  <2>5. CASE Off(q) = 0
    <3>1. /\ Len(r.queue) = n + 1 /\ r.dropped = 0 /\ n + 1 <= Capacity
          /\ \A i \in 1..n : r.queue[i] = q.queue[i]
          /\ r.queue[n + 1] = e
      BY <2>1, <2>3, <2>5, <1>1, <2>O DEF Pushed
    <3>2. q.dropped = 0
      BY <2>5, <1>1, <2>O DEF Caught
    <3>3. \A i \in 1..(n + 1) :
             \E j \in 1..(k + 1) : r.queue[i] = ring[j] /\ Missed(ring[j]) /\ ring[j].wanted
      <4> SUFFICES ASSUME NEW i \in 1..(n + 1)
                   PROVE \E j \in 1..(k + 1) : r.queue[i] = ring[j] /\ Missed(ring[j]) /\ ring[j].wanted
        OBVIOUS
      <4>1. CASE i = n + 1
        BY <4>1, <3>1, <1>4, <1>1, <1>E
      <4>2. CASE i \in 1..n
        <5>1. PICK j \in 1..k : q.queue[i] = ring[j] /\ Missed(ring[j]) /\ ring[j].wanted
          BY <4>2 DEF Caught
        <5>2. j \in 1..(k + 1) /\ r.queue[i] = ring[j]
          BY <5>1, <3>1, <4>2
        <5> QED BY <5>1, <5>2, Zenon
      <4>3. i = n + 1 \/ i \in 1..n
        BY <1>1
      <4> QED BY <4>1, <4>2, <4>3, Zenon
    <3>4. \A i, j \in 1..(n + 1) : i < j => r.queue[i].seq < r.queue[j].seq
      <4> SUFFICES ASSUME NEW i \in 1..(n + 1), NEW j \in 1..(n + 1), i < j
                   PROVE  r.queue[i].seq < r.queue[j].seq
        OBVIOUS
      <4>1. i \in 1..n /\ r.queue[i] = q.queue[i]
        BY <3>1, <1>1
      <4>2. CASE j = n + 1
        BY <4>1, <4>2, <3>1, <2>2
      <4>3. CASE j \in 1..n
        <5>1. r.queue[j] = q.queue[j]
          BY <4>3, <3>1
        <5> QED BY <4>1, <4>3, <5>1 DEF Caught
      <4> QED BY <4>2, <4>3, <1>1
    <3>5. ASSUME NEW j \in 1..(k + 1), Missed(ring[j]), ring[j].wanted
          PROVE  /\ \E i \in 1..(n + 1) : r.queue[i] = ring[j]
                 /\ ring[j].seq <= r.queue[n + 1].seq
      <4>1. CASE j = k + 1
        <5>1. n + 1 \in 1..(n + 1) /\ r.queue[n + 1] = ring[j] /\ ring[j].seq = e.seq
          BY <4>1, <3>1, <1>1, <1>E
        <5>2. ring[j].seq <= r.queue[n + 1].seq
          BY <5>1, <3>1, <1>1
        <5> QED BY <5>1, <5>2, Zenon
      <4>2. CASE j \in 1..k
        <5>1. PICK i \in 1..n : q.queue[i] = ring[j]
          BY <3>5, <4>2, <3>2, <1>1 DEF Caught
        <5>2. i \in 1..(n + 1) /\ r.queue[i] = ring[j]
          BY <5>1, <3>1, <1>1
        <5>3. ring[j].seq < e.seq /\ ring[j].seq \in Nat /\ r.queue[n + 1] = e
          BY <1>2, <4>2, <3>1
        <5>4. \A a, b \in Nat : a < b => a <= b
          OBVIOUS
        <5> QED BY <5>2, <5>3, <5>4, <1>1
      <4> QED BY <4>1, <4>2, <1>1
    <3>6. Len(r.queue) <= Capacity /\ ~(r.dropped > 0) /\ Len(r.queue) > 0
      BY <3>1, <1>1
    <3>7. Len(r.queue) = n + 1
      BY <3>1
    <3>8. \A i \in 1..Len(r.queue) :
             \E j \in 1..(k + 1) : r.queue[i] = ring[j] /\ Missed(ring[j]) /\ ring[j].wanted
      BY <3>3, <3>7
    <3>9. \A i, j \in 1..Len(r.queue) : i < j => r.queue[i].seq < r.queue[j].seq
      BY <3>4, <3>7
    <3>10. \A j \in 1..(k + 1) : Missed(ring[j]) /\ ring[j].wanted =>
             /\ \E i \in 1..Len(r.queue) : r.queue[i] = ring[j]
             /\ ring[j].seq <= r.queue[Len(r.queue)].seq
      BY <3>5, <3>7
    <3> QED BY <3>6, <3>8, <3>9, <3>10, <2>4 DEF Caught
  <2>6. CASE Off(q) = 1
    <3>1. /\ n = Capacity /\ Len(r.queue) = n /\ r.dropped = q.dropped + 1 /\ r.last = q.queue[1].seq
          /\ r.first = (IF q.dropped = 0 THEN q.queue[1].seq ELSE q.first)
          /\ \A i \in 1..(n - 1) : r.queue[i] = q.queue[i + 1]
          /\ r.queue[n] = e
      BY <2>1, <2>3, <2>6, <1>1, <2>O DEF Pushed
    <3>2. \A i, j \in 1..n : i < j => q.queue[i].seq < q.queue[j].seq
      BY DEF Caught
    <3>3. r.first <= r.last /\ \A i \in 1..n : r.last < r.queue[i].seq
      <4>1. r.first <= r.last
        <5>1. CASE q.dropped = 0
          <6>1. q.queue[1].seq \in Nat
            BY <2>N, <3>1, <1>1
          <6> QED BY <5>1, <6>1, <3>1
        <5>2. CASE q.dropped > 0
          <6>1. 1 \in 1..n /\ q.queue[1].seq \in Nat
            BY <2>N, <3>1, <1>1
          <6>2. q.first <= q.last /\ q.last < q.queue[1].seq
            BY <5>2, <6>1 DEF Caught
          <6>3. r.first = q.first
            BY <5>2, <3>1, <1>1
          <6> QED BY <6>1, <6>2, <6>3, <3>1, <1>1
        <5> QED BY <5>1, <5>2, <1>1
      <4>2. ASSUME NEW i \in 1..n PROVE r.last < r.queue[i].seq
        <5>1. CASE i = n
          BY <5>1, <3>1, <2>2, <1>1
        <5>2. CASE i \in 1..(n - 1)
          <6>1. i + 1 \in 1..n /\ 1 \in 1..n /\ 1 < i + 1 /\ r.queue[i] = q.queue[i + 1]
            BY <5>2, <3>1, <1>1
          <6> QED BY <6>1, <3>1, <3>2
        <5> QED BY <5>1, <5>2, <1>1
      <4> QED BY <4>1, <4>2
    <3>4. \A i \in 1..n :
             \E j \in 1..(k + 1) : r.queue[i] = ring[j] /\ Missed(ring[j]) /\ ring[j].wanted
      <4> SUFFICES ASSUME NEW i \in 1..n
                   PROVE \E j \in 1..(k + 1) : r.queue[i] = ring[j] /\ Missed(ring[j]) /\ ring[j].wanted
        OBVIOUS
      <4>1. CASE i = n
        BY <4>1, <3>1, <1>4, <1>1, <1>E
      <4>2. CASE i \in 1..(n - 1)
        <5>1. i + 1 \in 1..n /\ r.queue[i] = q.queue[i + 1]
          BY <4>2, <3>1, <1>1
        <5>2. PICK j \in 1..k : q.queue[i + 1] = ring[j] /\ Missed(ring[j]) /\ ring[j].wanted
          BY <5>1 DEF Caught
        <5> QED BY <5>1, <5>2, <1>1
      <4> QED BY <4>1, <4>2, <1>1
    <3>5. \A i, j \in 1..n : i < j => r.queue[i].seq < r.queue[j].seq
      <4> SUFFICES ASSUME NEW i \in 1..n, NEW j \in 1..n, i < j PROVE r.queue[i].seq < r.queue[j].seq
        OBVIOUS
      <4>1. i \in 1..(n - 1) /\ i + 1 \in 1..n /\ r.queue[i] = q.queue[i + 1]
        BY <3>1, <1>1
      <4>2. CASE j = n
        BY <4>1, <4>2, <3>1, <2>2
      <4>3. CASE j \in 1..(n - 1)
        <5>1. j + 1 \in 1..n /\ i + 1 < j + 1 /\ r.queue[j] = q.queue[j + 1]
          BY <4>3, <3>1, <1>1
        <5> QED BY <4>1, <5>1, <3>2
      <4> QED BY <4>2, <4>3, <1>1
    <3>6. ASSUME NEW j \in 1..(k + 1), Missed(ring[j]), ring[j].wanted
          PROVE  /\ \/ \E i \in 1..n : r.queue[i] = ring[j]
                    \/ ring[j].seq \in r.first..r.last
                 /\ ring[j].seq <= r.queue[n].seq
      <4>1. CASE j = k + 1
        BY <4>1, <3>1, <1>1, <1>E
      <4>2. CASE j \in 1..k
        <5>1. ring[j].seq <= r.queue[n].seq
          <6>1. ring[j].seq < e.seq /\ ring[j].seq \in Nat /\ r.queue[n] = e
            BY <1>2, <4>2, <3>1
          <6>2. \A a, b \in Nat : a < b => a <= b
            OBVIOUS
          <6> QED BY <6>1, <6>2, <1>1
        <5>2. CASE \E i \in 1..n : q.queue[i] = ring[j]
          <6>1. PICK i \in 1..n : q.queue[i] = ring[j]
            BY <5>2
          <6>2. CASE i = 1
            <7>1. ring[j].seq = r.last /\ r.last \in Nat /\ r.first \in Nat /\ r.first <= r.last
              BY <6>1, <6>2, <3>1, <2>N, <3>3, <2>4
            <7> QED BY <7>1, <5>1
          <6>3. CASE i > 1
            <7>1. i - 1 \in 1..(n - 1) /\ r.queue[i - 1] = q.queue[i]
              BY <6>3, <3>1, <1>1
            <7> QED BY <7>1, <6>1, <5>1, <1>1
          <6> QED BY <6>2, <6>3
        <5>3. CASE q.dropped > 0 /\ ring[j].seq \in q.first..q.last
          <6>1. 1 \in 1..n /\ q.queue[1].seq \in Nat
            BY <2>N, <3>1, <1>1
          <6>2. q.last < q.queue[1].seq
            BY <5>3, <6>1 DEF Caught
          <6>3. r.first = q.first
            BY <5>3, <3>1, <1>1
          <6>4. \A a, b, c, d \in Nat : d \in a..b /\ b < c => d \in a..c
            OBVIOUS
          <6>5. ring[j].seq \in q.first..q.last /\ ring[j].seq \in Nat
            BY <5>3, <1>2, <4>2
          <6>6. ring[j].seq \in q.first..q.queue[1].seq
            BY <6>1, <6>2, <6>4, <6>5, <1>1
          <6>7. ring[j].seq \in r.first..r.last
            BY <6>3, <6>6, <3>1
          <6> QED BY <6>7, <5>1, Zenon
        <5> QED BY <5>2, <5>3, <3>6, <4>2 DEF Caught
      <4> QED BY <4>1, <4>2, <1>1
    <3>7. Len(r.queue) <= Capacity /\ Len(r.queue) = Capacity /\ r.dropped > 0 /\ Len(r.queue) > 0
      BY <3>1, <1>1
    <3>8. Len(r.queue) = n
      BY <3>1
    <3>9. \A i \in 1..Len(r.queue) :
             \E j \in 1..(k + 1) : r.queue[i] = ring[j] /\ Missed(ring[j]) /\ ring[j].wanted
      BY <3>4, <3>8
    <3>10. \A i, j \in 1..Len(r.queue) : i < j => r.queue[i].seq < r.queue[j].seq
      BY <3>5, <3>8
    <3>11. \A j \in 1..(k + 1) : Missed(ring[j]) /\ ring[j].wanted =>
             /\ \/ \E i \in 1..Len(r.queue) : r.queue[i] = ring[j]
                \/ ring[j].seq \in r.first..r.last
             /\ ring[j].seq <= r.queue[Len(r.queue)].seq
      BY <3>6, <3>8
    <3>12. r.first <= r.last /\ \A i \in 1..Len(r.queue) : r.last < r.queue[i].seq
      BY <3>3, <3>8
    <3> QED BY <3>7, <3>9, <3>10, <3>11, <3>12, <2>4 DEF Caught
  <2> QED BY <2>5, <2>6, <2>O
<1> QED BY <1>3, <1>4, <1>E DEF r

\* After a replay the queue has all that was missed and the ring still had.
LEMMA ReplayCaught == ASSUME RingRow PROVE Caught(Len(ring), Replayed)
<1>1. Len(ring) \in Nat
  BY DEF RingRow
<1>2. PICK f : ReplayRuns(Len(ring), f) /\ Replayed = f[Len(ring)]
  BY <1>1, ReplayLast
<1>3. /\ f[0] = FreshQueue
      /\ \A k \in 1..Len(ring) : f[k] = IF Missed(ring[k]) THEN Push(f[k - 1], ring[k]) ELSE f[k - 1]
  BY <1>1, <1>2 DEF ReplayRuns
<1> DEFINE S == {n \in Nat : n <= Len(ring) => Caught(n, f[n])}
<1>4. 0 \in S
  <2>1. FreshQueue \in Queues /\ Len(FreshQueue.queue) = 0 /\ FreshQueue.dropped = 0
    BY DEF FreshQueue, Queues
  <2>2. Caught(0, FreshQueue)
    BY <2>1, BusAssumption DEF Caught
  <2> QED BY <2>2, <1>3
<1>5. ASSUME NEW n \in Nat, n \in S PROVE n + 1 \in S
  <2> SUFFICES ASSUME n + 1 <= Len(ring) PROVE Caught(n + 1, f[n + 1])
    OBVIOUS
  <2>1. Caught(n, f[n]) /\ n + 1 \in 1..Len(ring) /\ n < Len(ring) /\ (n + 1) - 1 = n
    BY <1>1, <1>5
  <2>2. CASE Missed(ring[n + 1])
    BY <2>1, <2>2, <1>3, CaughtNext
  <2>3. CASE ~Missed(ring[n + 1])
    <3>1. f[n + 1] = f[n]
      BY <2>1, <2>3, <1>3
    <3>2. \A j \in 1..(n + 1) : Missed(ring[j]) => j \in 1..n
      BY <2>3
    <3>3. \A j \in 1..n : j \in 1..(n + 1)
      OBVIOUS
    <3>4. PICK v : v = f[n]
      OBVIOUS
    <3>5. Caught(n, v)
      BY <3>4, <2>1
    <3>6. Caught(n + 1, v)
      BY <3>2, <3>3, <3>5 DEF Caught
    <3> QED BY <3>1, <3>4, <3>6
  <2> QED BY <2>2, <2>3
<1> HIDE DEF S
<1>6. Nat \subseteq S
  BY <1>4, <1>5, InductionOver
<1>7. Len(ring) \in S
  BY <1>1, <1>6
<1> QED BY <1>7, <1>2, <1>1 DEF S

(***************************************************************************)
(* The inductive invariant of the bus.                                     *)
(***************************************************************************)

\* What publisher p has stamped and not yet enqueued, and whether it will go
\* into the subscriber's queue.
Held(p) == pending[p][1].event
Waits(p) == pending[p] # <<>> /\ pending[p][1].to = sub /\ sub # NoSub

\* The types, with every sequence and function in full.
BusType ==
  /\ epoch \in 0..MaxRestarts /\ nextSeq \in 1..(MaxSeq + 1)
  /\ ring \in Seq(Event) /\ Len(ring) <= RingCapacity
  /\ pending \in [Publishers -> Seq(Items)] /\ \A p \in Publishers : Len(pending[p]) <= 1
  /\ nextSub \in 0..(MaxReconnects + 1) /\ sub \in (0..MaxReconnects) \cup {NoSub}
  /\ queue \in Seq(Entry) /\ Len(queue) <= Capacity + 1
  /\ dropped \in Nat /\ firstDropped \in Nat /\ lastDropped \in Nat
  /\ lastSeq \in 0..MaxSeq /\ delivered \in Seq(Event) /\ told \subseteq Event /\ entitled \subseteq Event
  /\ overtook \in BOOLEAN /\ noticeLost \in BOOLEAN /\ outrun \in BOOLEAN

\* The ring has the newest events without a gap, what is on its way is of this
\* daemon and was stamped before, and last_seq is the largest seq delivered.
BusRow ==
  /\ \A i \in 1..Len(ring) : ring[i].seq = nextSeq - Len(ring) + i - 1 /\ ring[i].epoch = epoch
  /\ \A p \in Publishers : pending[p] # <<>> =>
       Held(p).epoch = epoch /\ Held(p).seq < nextSeq /\ pending[p][1].to < nextSub
  /\ \A p, r \in Publishers : p # r /\ pending[p] # <<>> /\ pending[r] # <<>> => Held(p).seq # Held(r).seq
  /\ sub < nextSub /\ (sub = NoSub => queue = <<>> /\ dropped = 0)
  /\ dropped > 0 => lastDropped < nextSeq
  /\ \A i \in 1..Len(queue) : ~IsMarker(queue[i]) =>
       queue[i].epoch = epoch /\ queue[i].wanted /\ queue[i].seq < nextSeq
  /\ \A i \in 1..Len(delivered) :
       /\ delivered[i].seq <= lastSeq /\ delivered[i].epoch <= epoch
       /\ delivered[i].epoch = epoch => delivered[i].seq < nextSeq
  /\ lastSeq # 0 => \E i \in 1..Len(delivered) : delivered[i].seq = lastSeq

\* No event is in two places, or twice in one.
BusOnce ==
  /\ \A i, j \in 1..Len(delivered) : delivered[i] = delivered[j] => i = j
  /\ \A i, j \in 1..Len(queue) : ~IsMarker(queue[i]) /\ queue[i] = queue[j] => i = j
  /\ \A i \in 1..Len(queue), j \in 1..Len(delivered) : queue[i] # delivered[j]
  /\ \A p \in Publishers : Waits(p) =>
       /\ \A i \in 1..Len(queue) : queue[i] # Held(p)
       /\ \A j \in 1..Len(delivered) : delivered[j] # Held(p)

\* Unless a publisher was overtaken: first what was delivered, then the queue,
\* then what waits to be enqueued.
BusInOrder ==
  ~overtook =>
    /\ \A i, j \in 1..Len(delivered) :
         i < j /\ delivered[i].epoch = delivered[j].epoch => delivered[i].seq < delivered[j].seq
    /\ \A i, j \in 1..Len(queue) :
         i < j /\ ~IsMarker(queue[i]) /\ ~IsMarker(queue[j]) => queue[i].seq < queue[j].seq
    /\ \A i \in 1..Len(queue), j \in 1..Len(delivered) :
         ~IsMarker(queue[i]) /\ delivered[j].epoch = epoch => delivered[j].seq < queue[i].seq
    /\ \A p \in Publishers : Waits(p) =>
         /\ \A i \in 1..Len(queue) : queue[i].seq < Held(p).seq
         /\ \A j \in 1..Len(delivered) : delivered[j].epoch = epoch => delivered[j].seq < Held(p).seq

\* What the subscriber asked for since it started.
BusEntitled ==
  /\ \A x \in entitled : x.wanted /\ x.epoch = epoch /\ x.seq < nextSeq
  /\ \A x, y \in entitled : x.seq = y.seq => x = y
  /\ \A x \in entitled, i \in 1..Len(ring) :
       /\ ring[i].seq = x.seq => ring[i] = x
       /\ ring[i].wanted /\ ring[i].seq > x.seq => ring[i] \in entitled
  /\ \A p \in Publishers : Waits(p) /\ Held(p).wanted => Held(p) \in entitled
  /\ epoch = 0 =>
       /\ \A i \in 1..Len(queue) : ~IsMarker(queue[i]) => queue[i] \in entitled
       /\ \A i \in 1..Len(delivered) : delivered[i] \in entitled

\* Those who may still put an event behind the newest.
Others == {p \in Publishers : Waits(p) /\ Held(p).wanted}

Newest(x) == \A y \in entitled : y.seq <= x.seq

\* Where the newest event is: if in the queue, far enough from its front to be
\* safe from what the others may still push, an event and a marker each.
AtHand(x) ==
  \/ \E i \in 1..Len(delivered) : delivered[i] = x
  \/ \E p \in Publishers : Waits(p) /\ Held(p) = x
  \/ \E i \in 1..Len(queue) : queue[i] = x /\ Len(queue) - i + 2 * Cardinality(Others) <= Capacity

\* In the life of the first daemon a connected subscriber has the newest event
\* it asked for, or will have it.
BusNewest ==
  epoch = 0 /\ sub # NoSub /\ ~outrun => \A x \in entitled : Newest(x) => AtHand(x)

\* Where an event is, or the notice of it.
Accounted(x) ==
  \/ x \in told \/ \E i \in 1..Len(delivered) : delivered[i] = x
  \/ \E i \in 1..Len(queue) : queue[i] = x
  \/ \E p \in Publishers : Waits(p) /\ Held(p) = x
  \/ \E i \in 1..Len(queue) : IsMarker(queue[i]) /\ queue[i].from <= x.seq /\ x.seq <= queue[i].to
  \/ dropped > 0 /\ firstDropped <= x.seq /\ x.seq <= lastDropped

\* Without the three allowances every event asked for is accounted for, and
\* what is in the hole is older than what is in the queue.
BusKept ==
  epoch = 0 /\ ~overtook /\ ~noticeLost /\ ~outrun =>
    /\ \A x \in entitled :
         /\ sub # NoSub => Accounted(x)
         /\ sub = NoSub /\ x.seq <= lastSeq =>
              x \in told \/ \E i \in 1..Len(delivered) : delivered[i] = x
    /\ dropped > 0 =>
         /\ firstDropped <= lastDropped
         /\ \A i \in 1..Len(queue) : ~IsMarker(queue[i]) => lastDropped < queue[i].seq
         /\ \A p \in Publishers : Waits(p) => lastDropped < Held(p).seq

BusIInv == BusType /\ BusRow /\ BusOnce /\ BusInOrder /\ BusEntitled /\ BusKept

(***************************************************************************)
(* Stamp.                                                                  *)
(***************************************************************************)

\* A sequence that is not empty has a first element and a rest.
LEMMA FirstAndRest ==
  ASSUME NEW S, NEW s \in Seq(S), s # <<>>
  PROVE  /\ Len(s) \in Nat /\ Len(s) > 0 /\ Head(s) = s[1] /\ s[1] \in S
         /\ Tail(s) \in Seq(S) /\ Len(Tail(s)) = Len(s) - 1
         /\ \A i \in 1..(Len(s) - 1) : Tail(s)[i] = s[i + 1]
<1>1. Len(s) > 0 /\ Len(s) \in Nat
  OBVIOUS
<1> QED BY <1>1

\* An item that waits is a whole one.
LEMMA HeldType ==
  ASSUME BusType, NEW p \in Publishers, pending[p] # <<>>
  PROVE  /\ Len(pending[p]) = 1 /\ pending[p][1] \in Items /\ Head(pending[p]) = pending[p][1]
         /\ Held(p) \in Event /\ Held(p).seq \in 1..MaxSeq /\ Held(p).epoch \in 0..MaxRestarts
         /\ pending[p][1].to \in (0..MaxReconnects) \cup {NoSub}
         /\ ToSet(pending[p]) = {pending[p][1]}
<1>1. pending[p] \in Seq(Items) /\ Len(pending[p]) <= 1
  BY DEF BusType
<1>2. Len(pending[p]) = 1 /\ pending[p][1] \in Items /\ Head(pending[p]) = pending[p][1]
  <2>1. /\ Len(pending[p]) \in Nat /\ Len(pending[p]) > 0
        /\ Head(pending[p]) = pending[p][1] /\ pending[p][1] \in Items
    BY <1>1, FirstAndRest
  <2>2. \A k \in Nat : k > 0 /\ k <= 1 => k = 1
    OBVIOUS
  <2>3. Len(pending[p]) = 1
    BY <2>1, <2>2, <1>1, Zenon
  <2> QED BY <2>1, <2>3
<1>3. Held(p) \in Event /\ pending[p][1].to \in (0..MaxReconnects) \cup {NoSub}
  BY <1>2 DEF Items, Held
<1>4. ToSet(pending[p]) = {pending[p][1]}
  BY <1>1, <1>2 DEF ToSet
<1> QED BY <1>2, <1>3, <1>4, EntryFacts

\* The ring r, that has one event more, is s.
Archives(r, e, s) == s = IF Len(Append(r, e)) > RingCapacity THEN Tail(Append(r, e)) ELSE Append(r, e)
InRow(r, e, n) == \A i \in 1..Len(r) : r[i].seq = n - Len(r) + i - 1 /\ r[i].epoch = e.epoch

Longer(r, e, n, s) ==
  /\ s \in Seq(Event) /\ Len(s) <= RingCapacity
  /\ \A i \in 1..Len(s) : /\ s[i].seq = (n + 1) - Len(s) + i - 1 /\ s[i].epoch = e.epoch
                          /\ s[i] = e \/ \E j \in 1..Len(r) : s[i] = r[j]

\* The ring with one event more.
LEMMA StampRing ==
  ASSUME NEW r \in Seq(Event), NEW n \in Nat, NEW e \in Event, e.seq = n, Len(r) <= RingCapacity,
         InRow(r, e, n), NEW s, Archives(r, e, s)
  PROVE  Longer(r, e, n, s)
<1> USE DEF Longer
<1> DEFINE l == Append(r, e)
<1>1. /\ l \in Seq(Event) /\ Len(l) = Len(r) + 1 /\ Len(r) \in Nat
      /\ \A i \in 1..Len(r) : l[i] = r[i]
      /\ l[Len(r) + 1] = e
  OBVIOUS
<1> HIDE DEF l
<1>2. \A i \in 1..Len(l) : /\ l[i].seq = (n + 1) - Len(l) + i - 1 /\ l[i].epoch = e.epoch
                           /\ l[i] = e \/ \E j \in 1..Len(r) : l[i] = r[j]
  <2> SUFFICES ASSUME NEW i \in 1..Len(l)
               PROVE  /\ l[i].seq = (n + 1) - Len(l) + i - 1 /\ l[i].epoch = e.epoch
                      /\ l[i] = e \/ \E j \in 1..Len(r) : l[i] = r[j]
    OBVIOUS
  <2>1. CASE i = Len(r) + 1
    BY <1>1, <2>1
  <2>2. CASE i \in 1..Len(r)
    BY <1>1, <2>2 DEF InRow
  <2> QED BY <2>1, <2>2, <1>1
<1>3. CASE Len(l) > RingCapacity
  <2>1. l # <<>> /\ s = Tail(l)
    BY <1>1, <1>3 DEF l, Archives
  <2>2. /\ s \in Seq(Event) /\ Len(s) = Len(l) - 1
        /\ \A i \in 1..Len(s) : s[i] = l[i + 1]
    BY <1>1, <2>1
  <2>3. ASSUME NEW i \in 1..Len(s)
        PROVE  /\ s[i].seq = (n + 1) - Len(s) + i - 1 /\ s[i].epoch = e.epoch
               /\ s[i] = e \/ \E j \in 1..Len(r) : s[i] = r[j]
    <3>0. Len(s) = Len(r) /\ Len(l) = Len(r) + 1 /\ Len(r) \in Nat
      BY <2>2, <1>1
    <3>1. i + 1 \in 1..Len(l) /\ s[i] = l[i + 1]
      BY <3>0, <2>2
    <3>2. /\ s[i].seq = (n + 1) - Len(l) + (i + 1) - 1 /\ s[i].epoch = e.epoch
          /\ s[i] = e \/ \E j \in 1..Len(r) : s[i] = r[j]
      BY <3>1, <1>2
    <3>3. (n + 1) - Len(l) + (i + 1) - 1 = (n + 1) - Len(s) + i - 1
      BY <3>0
    <3> QED BY <3>2, <3>3
  <2>4. Len(s) <= RingCapacity
    BY <2>2, <1>1
  <2> QED BY <2>2, <2>3, <2>4
<1>4. CASE ~(Len(l) > RingCapacity)
  <2>1. s = l
    BY <1>4 DEF l, Archives
  <2> QED BY <2>1, <1>1, <1>2, <1>4, BusAssumption
<1> QED BY <1>3, <1>4

\* publish, under the lock.
LEMMA StampStep ==
  ASSUME BusIInv, NEW p \in Publishers, NEW wanted \in BOOLEAN, Stamp(p, wanted)
  PROVE  BusIInv'
<1> DEFINE ev == [epoch |-> epoch, seq |-> nextSeq, wanted |-> wanted]
           it == [event |-> ev, to |-> sub]
<1> USE BusAssumption
<1>1. /\ pending[p] = <<>> /\ nextSeq <= MaxSeq /\ nextSeq' = nextSeq + 1
      /\ ring' = IF Len(Append(ring, ev)) > RingCapacity THEN Tail(Append(ring, ev)) ELSE Append(ring, ev)
      /\ pending' = [pending EXCEPT ![p] = <<it>>]
      /\ entitled' = IF wanted THEN entitled \cup {ev} ELSE entitled
      /\ epoch' = epoch /\ sub' = sub /\ nextSub' = nextSub /\ queue' = queue
      /\ dropped' = dropped /\ firstDropped' = firstDropped /\ lastDropped' = lastDropped
      /\ lastSeq' = lastSeq /\ delivered' = delivered /\ told' = told
      /\ overtook' = overtook /\ noticeLost' = noticeLost /\ outrun' = outrun
  BY DEF Stamp, holeVars, clientVars, noted
<1>2. BusType /\ BusRow
  BY DEF BusIInv
<1>3. /\ ev \in Event /\ ev.seq = nextSeq /\ ev.epoch = epoch /\ nextSeq \in Nat
      /\ it \in Items /\ ev.wanted = wanted
  <2>1. epoch \in 0..MaxRestarts /\ nextSeq \in 1..MaxSeq /\ sub \in (0..MaxReconnects) \cup {NoSub}
    BY <1>1, <1>2 DEF BusType
  <2> QED BY <2>1 DEF Event, Items
<1>H. it.event = ev /\ it.to = sub
  OBVIOUS
<1> HIDE DEF ev, it
<1>4. /\ ring' \in Seq(Event) /\ Len(ring') <= RingCapacity
      /\ \A i \in 1..Len(ring') : /\ ring'[i].seq = (nextSeq + 1) - Len(ring') + i - 1 /\ ring'[i].epoch = epoch
                                  /\ ring'[i] = ev \/ \E j \in 1..Len(ring) : ring'[i] = ring[j]
  <2>1. PICK s : s = ring'
    OBVIOUS
  <2>2. ring \in Seq(Event) /\ Len(ring) <= RingCapacity
    BY <1>2 DEF BusType
  <2>3. \A i \in 1..Len(ring) : ring[i].seq = nextSeq - Len(ring) + i - 1 /\ ring[i].epoch = epoch
    BY <1>2 DEF BusRow
  <2>4. \A i \in 1..Len(ring) : ring[i].seq = nextSeq - Len(ring) + i - 1 /\ ring[i].epoch = ev.epoch
    BY <2>3, <1>3
  <2>5. Archives(ring, ev, s) /\ InRow(ring, ev, nextSeq)
    BY <2>1, <2>4, <1>1 DEF Archives, InRow
  <2>6. Longer(ring, ev, nextSeq, s)
    BY <2>2, <2>5, <1>3, StampRing
  <2>7. /\ s \in Seq(Event) /\ Len(s) <= RingCapacity
        /\ \A i \in 1..Len(s) : /\ s[i].seq = (nextSeq + 1) - Len(s) + i - 1 /\ s[i].epoch = ev.epoch
                                /\ s[i] = ev \/ \E j \in 1..Len(ring) : s[i] = ring[j]
    BY <2>6 DEF Longer
  <2>8. ev.epoch = epoch
    BY <1>3
  <2> QED BY <2>1, <2>7, <2>8, Zenon
<1>5. /\ pending' \in [Publishers -> Seq(Items)]
      /\ pending'[p] = <<it>> /\ \A r \in Publishers \ {p} : pending'[r] = pending[r]
  BY <1>1, <1>2, <1>3 DEF BusType
<1>6. pending'[p] # <<>> /\ Len(pending'[p]) = 1 /\ pending'[p][1] = it
  BY <1>5
<1>7. BusType'
  <2>1. ASSUME NEW r \in Publishers PROVE Len(pending'[r]) <= 1
    <3>1. Len(pending[r]) <= 1
      BY <1>2 DEF BusType
    <3>2. CASE r = p
      BY <3>2, <1>6
    <3>3. CASE r # p
      BY <3>3, <3>1, <1>5
    <3> QED BY <3>2, <3>3
  <2>2. entitled' \subseteq Event
    BY <1>1, <1>2, <1>3 DEF BusType
  <2> QED BY <1>1, <1>2, <1>4, <1>5, <2>1, <2>2 DEF BusType
<1>8. /\ \A r \in Publishers : r # p => (Held(r))' = Held(r) /\ (Waits(r))' = Waits(r)
      /\ (Held(p))' = ev /\ (Waits(p))' = (sub # NoSub)
  <2>1. \A r \in Publishers : r # p => (Held(r))' = Held(r) /\ (Waits(r))' = Waits(r)
    BY <1>1, <1>5 DEF Held, Waits
  <2>2. (Held(p))' = ev
    BY <1>6, <1>H DEF Held
  <2>3. (Waits(p))' = (sub # NoSub)
    BY <1>6, <1>H, <1>1 DEF Waits
  <2> QED BY <2>1, <2>2, <2>3
<1>9. BusRow'
  <2>1. ASSUME NEW r \in Publishers, pending[r] # <<>> PROVE Held(r).seq \in Nat /\ pending[r][1].to \in Int
    <3>1. Held(r).seq \in 1..MaxSeq /\ pending[r][1].to \in (0..MaxReconnects) \cup {NoSub}
      BY <1>2, <2>1, HeldType
    <3> QED BY <3>1 DEF NoSub
  <2>2. /\ nextSub \in Nat /\ sub \in Int /\ sub < nextSub
        /\ sub = NoSub => queue = <<>> /\ dropped = 0
    BY <1>2 DEF BusType, BusRow, NoSub
  <2>L. dropped > 0 => lastDropped < nextSeq + 1
    BY <1>2, <1>3 DEF BusType, BusRow
  <2>3. \A r \in Publishers : pending'[r] # <<>> =>
           (Held(r))'.epoch = epoch /\ (Held(r))'.seq < nextSeq + 1 /\ pending'[r][1].to < nextSub
    <3> SUFFICES ASSUME NEW r \in Publishers, pending'[r] # <<>>
                 PROVE  (Held(r))'.epoch = epoch /\ (Held(r))'.seq < nextSeq + 1 /\ pending'[r][1].to < nextSub
      OBVIOUS
    <3>1. CASE r = p
      BY <3>1, <1>8, <1>6, <1>H, <1>3, <2>2
    <3>2. CASE r # p
      <4>1. pending[r] # <<>> /\ (Held(r))' = Held(r) /\ pending'[r] = pending[r]
        BY <3>2, <1>5, <1>8
      <4>2. Held(r).epoch = epoch /\ Held(r).seq < nextSeq /\ pending[r][1].to < nextSub
        BY <4>1, <1>2 DEF BusRow
      <4> QED BY <4>1, <4>2, <2>1, <1>3
    <3> QED BY <3>1, <3>2
  <2>4. \A r, t \in Publishers : r # t /\ pending'[r] # <<>> /\ pending'[t] # <<>> =>
           (Held(r))'.seq # (Held(t))'.seq
    <3>1. \A r \in Publishers \ {p} : pending[r] # <<>> => Held(r).seq # nextSeq
      BY <1>2, <2>1, <1>3 DEF BusRow
    <3> QED BY <3>1, <1>5, <1>8, <1>3, <1>2 DEF BusRow
  <2>5. \A i \in 1..Len(queue) : ~IsMarker(queue[i]) =>
           queue[i].epoch = epoch /\ queue[i].wanted /\ queue[i].seq < nextSeq + 1
    <3>1. \A i \in 1..Len(queue) : queue[i].seq \in Nat
      BY <1>2, EntryFacts DEF BusType
    <3> QED BY <3>1, <1>2, <1>3 DEF BusRow
  <2>6. \A i \in 1..Len(delivered) :
          /\ delivered[i].seq <= lastSeq /\ delivered[i].epoch <= epoch
          /\ delivered[i].epoch = epoch => delivered[i].seq < nextSeq + 1
    <3>1. ASSUME NEW i \in 1..Len(delivered) PROVE delivered[i].seq \in Nat
      <4>1. delivered[i] \in Event
        BY <1>2 DEF BusType
      <4>2. delivered[i].seq \in 1..MaxSeq
        BY <4>1, EntryFacts
      <4> QED BY <4>2
    <3> QED BY <3>1, <1>2, <1>3 DEF BusRow
  <2>7. lastSeq # 0 => \E i \in 1..Len(delivered) : delivered[i].seq = lastSeq
    BY <1>2 DEF BusRow
  <2>8. \A i \in 1..Len(ring') : ring'[i].seq = nextSeq' - Len(ring') + i - 1 /\ ring'[i].epoch = epoch
    BY <1>4, <1>1
  <2> QED BY <1>1, <2>2, <2>L, <2>3, <2>4, <2>5, <2>6, <2>7, <2>8 DEF BusRow
<1>10. BusOnce'
  <2>1. \A i \in 1..Len(queue) : queue[i] # ev
    <3>1. \A i \in 1..Len(queue) : queue[i] \in Entry
      BY <1>2 DEF BusType
    <3> SUFFICES ASSUME NEW i \in 1..Len(queue), queue[i] = ev PROVE FALSE
      OBVIOUS
    <3>2. ~IsMarker(queue[i])
      BY <1>3, EntryFacts
    <3>3. queue[i].seq < nextSeq
      BY <3>2, <1>2 DEF BusRow
    <3> QED BY <3>3, <1>3
  <2>2. \A j \in 1..Len(delivered) : delivered[j] # ev
    BY <1>2, <1>3 DEF BusRow
  <2>3. \A r \in Publishers : (Waits(r))' => /\ \A i \in 1..Len(queue) : queue[i] # (Held(r))'
                                             /\ \A j \in 1..Len(delivered) : delivered[j] # (Held(r))'
    BY <2>1, <2>2, <1>8 DEF BusIInv, BusOnce
  <2> QED BY <2>3, <1>1 DEF BusIInv, BusOnce
<1>11. BusInOrder'
  <2>1. \A i \in 1..Len(queue) : queue[i].seq < ev.seq
    <3>1. \A i \in 1..Len(queue) : queue[i] \in Entry /\ (IsMarker(queue[i]) => queue[i].seq = 0)
      BY <1>2 DEF BusType, IsMarker
    <3>2. nextSeq > 0
      BY <1>2 DEF BusType
    <3> QED BY <3>1, <3>2, <1>2, <1>3 DEF BusRow
  <2>2. \A j \in 1..Len(delivered) : delivered[j].epoch = epoch => delivered[j].seq < ev.seq
    BY <1>2, <1>3 DEF BusRow
  <2>3. ~overtook => \A r \in Publishers : (Waits(r))' =>
          /\ \A i \in 1..Len(queue) : queue[i].seq < (Held(r))'.seq
          /\ \A j \in 1..Len(delivered) : delivered[j].epoch = epoch => delivered[j].seq < (Held(r))'.seq
    BY <2>1, <2>2, <1>8 DEF BusIInv, BusInOrder
  <2> QED BY <2>3, <1>1 DEF BusIInv, BusInOrder
<1>12. BusEntitled'
  <2>E. BusEntitled
    BY DEF BusIInv
  <2>1. \A x \in entitled : x \in Event /\ x.seq \in Nat /\ x.seq < nextSeq /\ x.wanted /\ x.epoch = epoch
    BY <2>E, <1>2, EntryFacts DEF BusEntitled, BusType
  <2>2. \A x \in entitled' : x \in entitled \/ (x = ev /\ wanted)
    BY <1>1
  <2>3. \A x \in entitled' : x.wanted /\ x.epoch = epoch /\ x.seq < nextSeq + 1
    BY <2>1, <2>2, <1>3
  <2>4. \A x, y \in entitled' : x.seq = y.seq => x = y
    BY <2>1, <2>2, <1>3, <2>E DEF BusEntitled
  <2>5. ASSUME NEW x \in entitled', NEW i \in 1..Len(ring')
        PROVE  /\ ring'[i].seq = x.seq => ring'[i] = x
               /\ ring'[i].wanted /\ ring'[i].seq > x.seq => ring'[i] \in entitled'
    <3>1. CASE ring'[i] = ev
      <4>1. ev.wanted => ev \in entitled'
        BY <1>1, <1>3
      <4>2. x \in entitled => x.seq # nextSeq
        BY <2>1
      <4> QED BY <3>1, <4>1, <4>2, <2>2, <1>3
    <3>2. CASE \E j \in 1..Len(ring) : ring'[i] = ring[j]
      <4>1. PICK j \in 1..Len(ring) : ring'[i] = ring[j]
        BY <3>2
      <4>2. ring[j].seq < nextSeq /\ ring[j].seq \in Int
        <5>1. ring[j].seq = nextSeq - Len(ring) + j - 1 /\ Len(ring) \in Nat
          BY <1>2 DEF BusRow, BusType
        <5> QED BY <5>1, <1>3
      <4>3. CASE x \in entitled
        BY <4>1, <4>3, <1>1, <2>E DEF BusEntitled
      <4>4. CASE x = ev
        BY <4>1, <4>2, <4>4, <1>3
      <4> QED BY <4>3, <4>4, <2>2
    <3> QED BY <3>1, <3>2, <1>4
  <2>6. \A r \in Publishers : (Waits(r))' /\ (Held(r))'.wanted => (Held(r))' \in entitled'
    <3>1. ev.wanted => ev \in entitled'
      BY <1>1, <1>3
    <3>2. entitled \subseteq entitled'
      BY <1>1
    <3> QED BY <3>1, <3>2, <1>8, <2>E DEF BusEntitled
  <2>7. epoch = 0 =>
       /\ \A i \in 1..Len(queue) : ~IsMarker(queue[i]) => queue[i] \in entitled'
       /\ \A i \in 1..Len(delivered) : delivered[i] \in entitled'
    BY <1>1, <2>E DEF BusEntitled
  <2> QED BY <1>1, <2>3, <2>4, <2>5, <2>6, <2>7 DEF BusEntitled
<1>13. BusKept'
  <2> SUFFICES ASSUME epoch = 0 /\ ~overtook /\ ~noticeLost /\ ~outrun
               PROVE  /\ \A x \in entitled' :
                           /\ sub # NoSub => (Accounted(x))'
                           /\ sub = NoSub /\ x.seq <= lastSeq =>
                                x \in told \/ \E i \in 1..Len(delivered) : delivered[i] = x
                      /\ dropped > 0 =>
                           /\ firstDropped <= lastDropped
                           /\ \A i \in 1..Len(queue) : ~IsMarker(queue[i]) => lastDropped < queue[i].seq
                           /\ \A r \in Publishers : (Waits(r))' => lastDropped < (Held(r))'.seq
    BY <1>1 DEF BusKept
  <2>K. BusKept
    BY DEF BusIInv
  <2>1. ASSUME NEW x \in entitled', sub # NoSub PROVE (Accounted(x))'
    <3>1. CASE x \in entitled
      <4>1. Accounted(x)
        BY <3>1, <2>1, <2>K DEF BusKept
      <4>2. \A r \in Publishers : Waits(r) => r # p
        BY <1>1 DEF Waits
      <4> QED BY <4>1, <4>2, <1>1, <1>8 DEF Accounted
    <3>2. CASE x = ev
      BY <3>2, <2>1, <1>8 DEF Accounted
    <3> QED BY <3>1, <3>2, <1>1
  <2>2. ASSUME NEW x \in entitled', sub = NoSub, x.seq <= lastSeq
        PROVE  x \in told \/ \E i \in 1..Len(delivered) : delivered[i] = x
    <3>1. CASE x \in entitled
      BY <3>1, <2>2, <2>K DEF BusKept
    <3>2. x # ev
      <4>1. lastSeq # 0 => lastSeq < nextSeq
        <5> SUFFICES ASSUME lastSeq # 0 PROVE lastSeq < nextSeq
          OBVIOUS
        <5>1. PICK i \in 1..Len(delivered) : delivered[i].seq = lastSeq
          BY <1>2 DEF BusRow
        <5>2. delivered[i] \in entitled
          BY DEF BusIInv, BusEntitled
        <5> QED BY <5>1, <5>2 DEF BusIInv, BusEntitled
      <4>2. lastSeq \in Nat /\ nextSeq > 0
        BY <1>2 DEF BusType
      <4> QED BY <4>1, <4>2, <2>2, <1>3
    <3> QED BY <3>1, <3>2, <1>1
  <2>3. dropped > 0 => \A r \in Publishers : (Waits(r))' => lastDropped < (Held(r))'.seq
    <3>1. sub # NoSub /\ dropped > 0 => lastDropped < nextSeq
      BY <1>2 DEF BusRow
    <3> QED BY <3>1, <1>8, <2>K, <1>3 DEF BusKept
  <2> QED BY <2>1, <2>2, <2>3, <2>K DEF BusKept
<1> QED BY <1>7, <1>9, <1>10, <1>11, <1>12, <1>13 DEF BusIInv

(***************************************************************************)
(* Recv.                                                                   *)
(***************************************************************************)

\* The forwarder passes on the oldest entry.
LEMMA RecvStep == ASSUME BusIInv, Recv PROVE BusIInv'
<1> DEFINE e == queue[1]  n == Len(queue)
<1> USE BusAssumption
<1>2. BusType /\ BusRow
  BY DEF BusIInv
<1>1. /\ sub # NoSub /\ queue # <<>>
      /\ epoch' = epoch /\ nextSeq' = nextSeq /\ ring' = ring /\ pending' = pending /\ sub' = sub
      /\ nextSub' = nextSub /\ dropped' = dropped /\ firstDropped' = firstDropped
      /\ lastDropped' = lastDropped /\ entitled' = entitled
      /\ overtook' = overtook /\ noticeLost' = noticeLost /\ outrun' = outrun
  BY DEF Recv, busVars, holeVars, noted
<1>3. queue \in Seq(Entry)
  BY <1>2 DEF BusType
<1>4. /\ n \in Nat /\ n > 0 /\ Head(queue) = e /\ e \in Entry
      /\ Tail(queue) \in Seq(Entry) /\ Len(Tail(queue)) = n - 1
      /\ \A i \in 1..(n - 1) : Tail(queue)[i] = queue[i + 1]
  BY <1>1, <1>3, FirstAndRest
<1>5. /\ queue' \in Seq(Entry) /\ Len(queue') = n - 1
      /\ \A i \in 1..(n - 1) : queue'[i] = queue[i + 1] /\ i + 1 \in 1..n
  BY <1>4 DEF Recv
<1>6. \A p \in Publishers : (Held(p))' = Held(p) /\ (Waits(p))' = Waits(p)
  BY <1>1 DEF Held, Waits
<1>7. \/ /\ IsMarker(e) /\ lastSeq' = lastSeq /\ delivered' = delivered
         /\ told' = told \cup {x \in entitled : x.epoch = epoch /\ x.seq \in e.from..e.to}
      \/ /\ ~IsMarker(e) /\ delivered' = Append(delivered, e) /\ told' = told
         /\ lastSeq' = IF e.seq > lastSeq THEN e.seq ELSE lastSeq
  BY <1>4 DEF Recv, RouteMessage
<1>8. \A i \in 1..n : queue[i] \in Entry /\ queue[i].seq \in Nat
  BY <1>3, EntryFacts
<1>9. delivered \in Seq(Event) /\ Len(delivered) \in Nat /\ \A i \in 1..Len(delivered) : delivered[i] \in Event
  BY <1>2 DEF BusType
<1>10. \A i \in 1..Len(delivered) : delivered[i].seq \in Nat /\ delivered[i].epoch \in Nat
  BY <1>9, EntryFacts
<1> HIDE DEF e, n
<1>e. e = queue[1] /\ n = Len(queue) /\ 1 \in 1..n
  BY <1>4 DEF e, n
<1>11. \A i \in 1..Len(queue') : \E k \in 1..n : k = i + 1 /\ queue'[i] = queue[k]
  BY <1>5, <1>4
<1>12. ~IsMarker(e) =>
         /\ delivered' \in Seq(Event) /\ Len(delivered') = Len(delivered) + 1
         /\ \A i \in 1..Len(delivered) : delivered'[i] = delivered[i]
         /\ delivered'[Len(delivered) + 1] = e /\ e \in Event /\ e.seq \in 1..MaxSeq
         /\ e.epoch = epoch /\ e.wanted /\ e.seq < nextSeq
  <2> HAVE ~IsMarker(e)
  <2>1. e \in Event
    BY <1>4, EntryFacts
  <2>2. e.epoch = epoch /\ e.wanted /\ e.seq < nextSeq
    BY <1>e, <1>2 DEF BusRow
  <2>3. delivered' = Append(delivered, e)
    BY <1>7
  <2>4. e.seq \in 1..MaxSeq
    BY <2>1, EntryFacts
  <2> QED BY <2>1, <2>2, <2>3, <2>4, <1>9
<1>D. ~IsMarker(e) => \A j \in 1..Len(delivered') :
         \/ delivered'[j] = e /\ j = Len(delivered) + 1
         \/ j \in 1..Len(delivered) /\ delivered'[j] = delivered[j]
  <2> SUFFICES ASSUME ~IsMarker(e), NEW j \in 1..Len(delivered')
               PROVE  \/ delivered'[j] = e /\ j = Len(delivered) + 1
                      \/ j \in 1..Len(delivered) /\ delivered'[j] = delivered[j]
    OBVIOUS
  <2>1. j = Len(delivered) + 1 \/ j \in 1..Len(delivered)
    BY <1>12, <1>9
  <2> QED BY <2>1, <1>12
<1>13. BusType'
  <2>1. lastSeq' \in 0..MaxSeq /\ delivered' \in Seq(Event) /\ told' \subseteq Event
    BY <1>7, <1>12, <1>2 DEF BusType
  <2>2. Len(queue') <= Capacity + 1
    BY <1>5, <1>e, <1>2 DEF BusType
  <2> QED BY <1>1, <1>2, <1>5, <2>1, <2>2 DEF BusType
<1>14. BusRow'
  <2>1. \A p \in Publishers : pending'[p] # <<>> =>
          (Held(p))'.epoch = epoch' /\ (Held(p))'.seq < nextSeq' /\ pending'[p][1].to < nextSub'
    BY <1>1, <1>6, <1>2 DEF BusRow
  <2>2. \A p, r \in Publishers : p # r /\ pending'[p] # <<>> /\ pending'[r] # <<>> =>
          (Held(p))'.seq # (Held(r))'.seq
    BY <1>1, <1>6, <1>2 DEF BusRow
  <2>3. \A i \in 1..Len(queue') : ~IsMarker(queue'[i]) =>
          queue'[i].epoch = epoch' /\ queue'[i].wanted /\ queue'[i].seq < nextSeq'
    BY <1>11, <1>e, <1>1, <1>2 DEF BusRow
  <2>4. \A i \in 1..Len(delivered') :
          /\ delivered'[i].seq <= lastSeq' /\ delivered'[i].epoch <= epoch'
          /\ delivered'[i].epoch = epoch' => delivered'[i].seq < nextSeq'
    <3>1. CASE IsMarker(e)
      BY <3>1, <1>7, <1>1, <1>2 DEF BusRow
    <3>2. CASE ~IsMarker(e)
      <4>1. lastSeq' \in Nat /\ lastSeq \in Nat /\ e.seq <= lastSeq' /\ lastSeq <= lastSeq' /\ epoch \in Nat
        BY <3>2, <1>7, <1>12, <1>2 DEF BusType
      <4> SUFFICES ASSUME NEW i \in 1..Len(delivered')
                   PROVE  /\ delivered'[i].seq <= lastSeq' /\ delivered'[i].epoch <= epoch
                          /\ delivered'[i].epoch = epoch => delivered'[i].seq < nextSeq
        BY <1>1
      <4>2. CASE i = Len(delivered) + 1
        BY <4>1, <4>2, <3>2, <1>12
      <4>3. CASE i \in 1..Len(delivered)
        <5>1. /\ delivered[i].seq <= lastSeq /\ delivered[i].epoch <= epoch
              /\ delivered[i].epoch = epoch => delivered[i].seq < nextSeq
          BY <4>3, <1>2 DEF BusRow
        <5>2. delivered'[i] = delivered[i] /\ delivered[i].seq \in Nat
          BY <4>3, <3>2, <1>12, <1>10
        <5> QED BY <5>1, <5>2, <4>1
      <4> QED BY <4>2, <4>3, <3>2, <1>12, <1>9
    <3> QED BY <3>1, <3>2
  <2>5. lastSeq' # 0 => \E i \in 1..Len(delivered') : delivered'[i].seq = lastSeq'
    <3>1. CASE IsMarker(e)
      BY <3>1, <1>7, <1>2 DEF BusRow
    <3>2. CASE ~IsMarker(e) /\ e.seq > lastSeq
      <4>1. Len(delivered) + 1 \in 1..Len(delivered')
        BY <3>2, <1>12, <1>9
      <4> QED BY <4>1, <3>2, <1>7, <1>12
    <3>3. CASE ~IsMarker(e) /\ ~(e.seq > lastSeq)
      <4> HAVE lastSeq' # 0
      <4>1. lastSeq' = lastSeq
        BY <3>3, <1>7
      <4>2. PICK i \in 1..Len(delivered) : delivered[i].seq = lastSeq
        BY <4>1, <1>2 DEF BusRow
      <4>3. i \in 1..Len(delivered') /\ delivered'[i] = delivered[i]
        BY <3>3, <1>12, <1>9
      <4> QED BY <4>1, <4>2, <4>3
    <3> QED BY <3>1, <3>2, <3>3
  <2>6. /\ sub' < nextSub' /\ (dropped' > 0 => lastDropped' < nextSeq') /\ sub' # NoSub
        /\ \A i \in 1..Len(ring') : ring'[i].seq = nextSeq' - Len(ring') + i - 1 /\ ring'[i].epoch = epoch'
    BY <1>1, <1>2 DEF BusRow
  <2> QED BY <2>1, <2>2, <2>3, <2>4, <2>5, <2>6 DEF BusRow
<1>15. BusOnce'
  <2>O. BusOnce
    BY DEF BusIInv
  <2>1. \A i, j \in 1..Len(queue') : ~IsMarker(queue'[i]) /\ queue'[i] = queue'[j] => i = j
    <3> SUFFICES ASSUME NEW i \in 1..Len(queue'), NEW j \in 1..Len(queue'), ~IsMarker(queue'[i]),
                        queue'[i] = queue'[j]
                 PROVE  i = j
      OBVIOUS
    <3>1. i + 1 \in 1..n /\ j + 1 \in 1..n /\ queue'[i] = queue[i + 1] /\ queue'[j] = queue[j + 1]
      BY <1>11
    <3>2. i + 1 = j + 1
      BY <3>1, <1>e, <2>O DEF BusOnce
    <3> QED BY <3>2, <1>5, <1>4
  <2>2. ~IsMarker(e) => \A i \in 1..Len(queue') : queue'[i] # e
    <3> SUFFICES ASSUME ~IsMarker(e), NEW i \in 1..Len(queue'), queue'[i] = e PROVE FALSE
      OBVIOUS
    <3>1. i + 1 \in 1..n /\ queue[i + 1] = queue[1] /\ ~IsMarker(queue[1]) /\ 1 \in 1..Len(queue)
      BY <1>11, <1>e
    <3>2. 1 = i + 1
      BY <3>1, <1>e, <2>O DEF BusOnce
    <3> QED BY <3>2, <1>5, <1>4
  <2>3. \A i \in 1..Len(queue'), j \in 1..Len(delivered) : queue'[i] # delivered[j]
    BY <1>11, <1>e, <2>O DEF BusOnce
  <2>4. \A p \in Publishers : Waits(p) =>
          /\ \A i \in 1..Len(queue') : queue'[i] # Held(p)
          /\ \A j \in 1..Len(delivered) : delivered[j] # Held(p)
          /\ e # Held(p)
    BY <1>11, <1>e, <2>O DEF BusOnce
  <2>5. CASE IsMarker(e)
    BY <2>5, <2>1, <2>3, <2>4, <1>6, <1>7, <2>O DEF BusOnce
  <2>6. CASE ~IsMarker(e)
    <3>1. \A j \in 1..Len(delivered') : \/ delivered'[j] = e /\ j = Len(delivered) + 1
                                        \/ j \in 1..Len(delivered) /\ delivered'[j] = delivered[j]
      BY <2>6, <1>D
    <3>2. \A j \in 1..Len(delivered) : delivered[j] # e
      BY <1>e, <2>O DEF BusOnce
    <3>3. \A i, j \in 1..Len(delivered') : delivered'[i] = delivered'[j] => i = j
      BY <3>1, <3>2, <2>O DEF BusOnce
    <3>4. \A i \in 1..Len(queue'), j \in 1..Len(delivered') : queue'[i] # delivered'[j]
      BY <3>1, <2>2, <2>3, <2>6
    <3>5. \A p \in Publishers : Waits(p) => \A j \in 1..Len(delivered') : delivered'[j] # Held(p)
      BY <3>1, <2>4
    <3> QED BY <3>3, <3>4, <3>5, <2>1, <2>4, <1>6 DEF BusOnce
  <2> QED BY <2>5, <2>6
<1>16. BusInOrder'
  <2> SUFFICES ASSUME ~overtook
               PROVE
    /\ \A i, j \in 1..Len(delivered') :
         i < j /\ delivered'[i].epoch = delivered'[j].epoch => delivered'[i].seq < delivered'[j].seq
    /\ \A i, j \in 1..Len(queue') :
         i < j /\ ~IsMarker(queue'[i]) /\ ~IsMarker(queue'[j]) => queue'[i].seq < queue'[j].seq
    /\ \A i \in 1..Len(queue'), j \in 1..Len(delivered') :
         ~IsMarker(queue'[i]) /\ delivered'[j].epoch = epoch => delivered'[j].seq < queue'[i].seq
    /\ \A p \in Publishers : Waits(p) =>
         /\ \A i \in 1..Len(queue') : queue'[i].seq < Held(p).seq
         /\ \A j \in 1..Len(delivered') : delivered'[j].epoch = epoch => delivered'[j].seq < Held(p).seq
    BY <1>1, <1>6 DEF BusInOrder
  <2>O. /\ \A i, j \in 1..Len(delivered) :
             i < j /\ delivered[i].epoch = delivered[j].epoch => delivered[i].seq < delivered[j].seq
        /\ \A i, j \in 1..n :
             i < j /\ ~IsMarker(queue[i]) /\ ~IsMarker(queue[j]) => queue[i].seq < queue[j].seq
        /\ \A i \in 1..n, j \in 1..Len(delivered) :
             ~IsMarker(queue[i]) /\ delivered[j].epoch = epoch => delivered[j].seq < queue[i].seq
        /\ \A p \in Publishers : Waits(p) =>
             /\ \A i \in 1..n : queue[i].seq < Held(p).seq
             /\ \A j \in 1..Len(delivered) : delivered[j].epoch = epoch => delivered[j].seq < Held(p).seq
    BY <1>e DEF BusIInv, BusInOrder
  <2>1. \A i, j \in 1..Len(queue') :
         i < j /\ ~IsMarker(queue'[i]) /\ ~IsMarker(queue'[j]) => queue'[i].seq < queue'[j].seq
    <3> SUFFICES ASSUME NEW i \in 1..Len(queue'), NEW j \in 1..Len(queue'),
                        i < j, ~IsMarker(queue'[i]), ~IsMarker(queue'[j])
                 PROVE  queue'[i].seq < queue'[j].seq
      OBVIOUS
    <3>1. i + 1 \in 1..n /\ j + 1 \in 1..n /\ queue'[i] = queue[i + 1] /\ queue'[j] = queue[j + 1]
      BY <1>11
    <3>2. i + 1 < j + 1
      BY <1>5, <1>4
    <3> QED BY <3>1, <3>2, <2>O
  <2>2. \A p \in Publishers : Waits(p) =>
         /\ \A i \in 1..Len(queue') : queue'[i].seq < Held(p).seq
         /\ e.seq < Held(p).seq
    BY <1>11, <2>O, <1>e
  <2>3. ~IsMarker(e) => \A i \in 1..Len(queue') : ~IsMarker(queue'[i]) => e.seq < queue'[i].seq
    <3> SUFFICES ASSUME ~IsMarker(e), NEW i \in 1..Len(queue'), ~IsMarker(queue'[i])
                 PROVE  e.seq < queue'[i].seq
      OBVIOUS
    <3>1. i + 1 \in 1..n /\ queue'[i] = queue[i + 1] /\ 1 < i + 1
      BY <1>11, <1>5, <1>4
    <3> QED BY <3>1, <2>O, <1>e
  <2>4. \A i \in 1..Len(queue'), j \in 1..Len(delivered) :
         ~IsMarker(queue'[i]) /\ delivered[j].epoch = epoch => delivered[j].seq < queue'[i].seq
    BY <1>11, <2>O
  <2>5. CASE IsMarker(e)
    BY <2>5, <2>1, <2>2, <2>4, <2>O, <1>7
  <2>6. CASE ~IsMarker(e)
    <3>1. \A j \in 1..Len(delivered') : \/ delivered'[j] = e /\ j = Len(delivered) + 1
                                        \/ j \in 1..Len(delivered) /\ delivered'[j] = delivered[j]
      BY <2>6, <1>D
    <3>2. \A i, j \in 1..Len(delivered') :
         i < j /\ delivered'[i].epoch = delivered'[j].epoch => delivered'[i].seq < delivered'[j].seq
      <4> SUFFICES ASSUME NEW i \in 1..Len(delivered'), NEW j \in 1..Len(delivered'),
                          i < j, delivered'[i].epoch = delivered'[j].epoch
                   PROVE  delivered'[i].seq < delivered'[j].seq
        OBVIOUS
      <4>1. i \in 1..Len(delivered) /\ delivered'[i] = delivered[i]
        BY <2>6, <1>12, <1>9
      <4>2. CASE j \in 1..Len(delivered) /\ delivered'[j] = delivered[j]
        BY <4>1, <4>2, <2>O
      <4>3. CASE delivered'[j] = e
        <5>1. delivered[i].epoch = epoch
          BY <4>1, <4>3, <1>12, <2>6
        <5> QED BY <4>1, <4>3, <5>1, <2>O, <1>e, <2>6
      <4> QED BY <4>2, <4>3, <3>1
    <3>3. \A i \in 1..Len(queue'), j \in 1..Len(delivered') :
         ~IsMarker(queue'[i]) /\ delivered'[j].epoch = epoch => delivered'[j].seq < queue'[i].seq
      BY <3>1, <2>3, <2>4, <2>6
    <3>4. \A p \in Publishers : Waits(p) =>
           \A j \in 1..Len(delivered') : delivered'[j].epoch = epoch => delivered'[j].seq < Held(p).seq
      BY <3>1, <2>2, <2>O
    <3> QED BY <3>2, <3>3, <3>4, <2>1, <2>2
  <2> QED BY <2>5, <2>6
<1>17. BusEntitled'
  <2>E. BusEntitled
    BY DEF BusIInv
  <2>1. epoch = 0 =>
       /\ \A i \in 1..Len(queue') : ~IsMarker(queue'[i]) => queue'[i] \in entitled
       /\ \A i \in 1..Len(delivered') : delivered'[i] \in entitled
    <3> HAVE epoch = 0
    <3>1. \A i \in 1..n : ~IsMarker(queue[i]) => queue[i] \in entitled
      BY <2>E, <1>e DEF BusEntitled
    <3>2. \A i \in 1..Len(delivered) : delivered[i] \in entitled
      BY <2>E DEF BusEntitled
    <3>3. CASE IsMarker(e)
      BY <3>1, <3>2, <3>3, <1>7, <1>11
    <3>4. CASE ~IsMarker(e)
      <4>1. \A j \in 1..Len(delivered') : \/ delivered'[j] = e /\ j = Len(delivered) + 1
                                          \/ j \in 1..Len(delivered) /\ delivered'[j] = delivered[j]
        BY <3>4, <1>D
      <4> QED BY <3>1, <3>2, <3>4, <4>1, <1>11, <1>e
    <3> QED BY <3>3, <3>4
  <2> QED BY <2>1, <2>E, <1>1, <1>6 DEF BusEntitled
<1>18. BusKept'
  <2> SUFFICES ASSUME epoch = 0 /\ ~overtook /\ ~noticeLost /\ ~outrun
               PROVE  /\ \A x \in entitled : (Accounted(x))'
                      /\ dropped > 0 =>
                           /\ firstDropped <= lastDropped
                           /\ \A i \in 1..Len(queue') : ~IsMarker(queue'[i]) => lastDropped < queue'[i].seq
                           /\ \A p \in Publishers : Waits(p) => lastDropped < Held(p).seq
    BY <1>1, <1>6 DEF BusKept
  <2>K. BusKept
    BY DEF BusIInv
  <2>1. ASSUME NEW x \in entitled PROVE (Accounted(x))'
    <3>1. Accounted(x)
      BY <2>1, <2>K, <1>1 DEF BusKept
    <3>2. x \in Event /\ x.seq \in Nat /\ x.epoch = epoch
      <4>1. x \in Event
        BY <1>2 DEF BusType
      <4>2. x.epoch = epoch
        BY DEF BusIInv, BusEntitled
      <4>3. x.seq \in 1..MaxSeq
        BY <4>1, EntryFacts
      <4> QED BY <4>1, <4>2, <4>3
    <3>3. CASE x \in told
      BY <3>3, <1>7 DEF Accounted
    <3>4. CASE \E i \in 1..Len(delivered) : delivered[i] = x
      <4>1. PICK i \in 1..Len(delivered) : delivered[i] = x
        BY <3>4
      <4>2. i \in 1..Len(delivered') /\ delivered'[i] = x
        BY <4>1, <1>7, <1>12, <1>9
      <4> QED BY <4>2 DEF Accounted
    <3>5. CASE \E i \in 1..Len(queue) : queue[i] = x
      <4>1. PICK i \in 1..n : queue[i] = x
        BY <3>5, <1>e
      <4>2. CASE i = 1
        <5>1. x = e /\ ~IsMarker(e)
          BY <4>1, <4>2, <1>e, <3>2, EntryFacts
        <5>2. Len(delivered) + 1 \in 1..Len(delivered') /\ delivered'[Len(delivered) + 1] = x
          BY <5>1, <1>12, <1>9
        <5> QED BY <5>2 DEF Accounted
      <4>3. CASE i > 1
        <5>1. i - 1 \in 1..Len(queue') /\ queue'[i - 1] = x
          <6>1. i - 1 \in 1..(n - 1) /\ (i - 1) + 1 = i
            BY <4>3, <1>4
          <6>2. queue'[i - 1] = queue[(i - 1) + 1]
            BY <6>1, <1>5
          <6> QED BY <6>1, <6>2, <4>1, <1>5
        <5> QED BY <5>1 DEF Accounted
      <4> QED BY <4>2, <4>3, <1>4
    <3>6. CASE \E p \in Publishers : Waits(p) /\ Held(p) = x
      BY <3>6, <1>6 DEF Accounted
    <3>7. CASE \E i \in 1..Len(queue) : IsMarker(queue[i]) /\ queue[i].from <= x.seq /\ x.seq <= queue[i].to
      <4>1. PICK i \in 1..n : IsMarker(queue[i]) /\ queue[i].from <= x.seq /\ x.seq <= queue[i].to
        BY <3>7, <1>e
      <4>2. CASE i = 1
        <5>1. IsMarker(e) /\ e.from <= x.seq /\ x.seq <= e.to
          BY <4>1, <4>2, <1>e
        <5>2. e.from \in Nat /\ e.to \in Nat
          BY <5>1, <1>4 DEF Entry, Event, IsMarker
        <5>3. x \in told'
          BY <5>1, <5>2, <1>7, <3>2
        <5> QED BY <5>3 DEF Accounted
      <4>3. CASE i > 1
        <5>1. i - 1 \in 1..Len(queue') /\ queue'[i - 1] = queue[i]
          <6>1. i - 1 \in 1..(n - 1) /\ (i - 1) + 1 = i
            BY <4>3, <1>4
          <6>2. queue'[i - 1] = queue[(i - 1) + 1]
            BY <6>1, <1>5
          <6> QED BY <6>1, <6>2, <4>1, <1>5
        <5> QED BY <5>1, <4>1 DEF Accounted
      <4> QED BY <4>2, <4>3, <1>4
    <3>8. CASE dropped > 0 /\ firstDropped <= x.seq /\ x.seq <= lastDropped
      BY <3>8, <1>1 DEF Accounted
    <3> QED BY <3>1, <3>3, <3>4, <3>5, <3>6, <3>7, <3>8 DEF Accounted
  <2>2. dropped > 0 => \A i \in 1..n : ~IsMarker(queue[i]) => lastDropped < queue[i].seq
    BY <2>K, <1>e DEF BusKept
  <2>3. dropped > 0 => \A i \in 1..Len(queue') : ~IsMarker(queue'[i]) => lastDropped < queue'[i].seq
    BY <2>2, <1>11
  <2> QED BY <2>1, <2>3, <2>K DEF BusKept
<1> QED BY <1>13, <1>14, <1>15, <1>16, <1>17, <1>18 DEF BusIInv

(***************************************************************************)
(* Disconnect and Restart.                                                 *)
(***************************************************************************)

\* What was accounted for and seen before the stream broke was delivered or told.
LEMMA SeenIsKept ==
  ASSUME BusIInv, epoch = 0, ~overtook, ~noticeLost, ~outrun, sub # NoSub, dropped = 0,
         \A i \in 1..Len(queue) : ~IsMarker(queue[i]),
         NEW x \in entitled, x.seq <= lastSeq
  PROVE  x \in told \/ \E i \in 1..Len(delivered) : delivered[i] = x
<1>1. BusType /\ BusRow /\ BusInOrder /\ BusKept
  BY DEF BusIInv
<1>2. Accounted(x)
  BY <1>1 DEF BusKept
<1>3. x \in Event /\ x.seq \in 1..MaxSeq
  BY <1>1, EntryFacts DEF BusType
<1>4. lastSeq # 0
  BY <1>3, <1>1, BusAssumption DEF BusType
<1>5. PICK j \in 1..Len(delivered) : delivered[j].seq = lastSeq
  BY <1>4, <1>1 DEF BusRow
<1>6. delivered[j].epoch = epoch
  <2>0. delivered[j] \in Event
    BY <1>1 DEF BusType
  <2>1. delivered[j].epoch \in 0..MaxRestarts /\ delivered[j].epoch <= epoch
    BY <1>1, <2>0, EntryFacts DEF BusRow
  <2> QED BY <2>1, BusAssumption
<1>L. lastSeq \in Nat /\ x.seq \in Nat /\ ~(lastSeq < x.seq)
  BY <1>3, <1>1, BusAssumption DEF BusType
<1>7. \A i \in 1..Len(queue) : queue[i] # x
  <2> SUFFICES ASSUME NEW i \in 1..Len(queue), queue[i] = x PROVE FALSE
    OBVIOUS
  <2>1. delivered[j].seq < queue[i].seq
    BY <1>1, <1>6 DEF BusInOrder
  <2> QED BY <2>1, <1>5, <1>L
<1>8. \A p \in Publishers : Waits(p) => Held(p) # x
  <2> SUFFICES ASSUME NEW p \in Publishers, Waits(p), Held(p) = x PROVE FALSE
    OBVIOUS
  <2>1. delivered[j].seq < Held(p).seq
    BY <1>1, <1>6 DEF BusInOrder
  <2> QED BY <2>1, <1>5, <1>L
<1> QED BY <1>2, <1>7, <1>8 DEF Accounted

\* The stream is dropped with what it holds.
LEMMA DisconnectStep == ASSUME BusIInv, Disconnect PROVE BusIInv'
<1>1. /\ sub # NoSub /\ sub' = NoSub /\ queue' = <<>> /\ dropped' = 0 /\ firstDropped' = 0 /\ lastDropped' = 0
      /\ noticeLost' = (noticeLost \/ dropped > 0 \/ \E e \in ToSet(queue) : IsMarker(e))
      /\ epoch' = epoch /\ nextSeq' = nextSeq /\ ring' = ring /\ pending' = pending
      /\ nextSub' = nextSub /\ lastSeq' = lastSeq /\ delivered' = delivered /\ told' = told
      /\ entitled' = entitled /\ overtook' = overtook /\ outrun' = outrun
  BY DEF Disconnect, SetQueue, FreshQueue, busVars, clientVars
<1>2. BusType /\ BusRow /\ BusOnce /\ BusInOrder /\ BusEntitled /\ BusKept
  BY DEF BusIInv
<1>3. /\ \A p \in Publishers : (Held(p))' = Held(p) /\ ~(Waits(p))'
      /\ Len(queue') = 0 /\ \A i \in 1..Len(queue') : FALSE
  BY <1>1 DEF Held, Waits
<1>4. BusType'
  <2>1. noticeLost' \in BOOLEAN
    BY <1>1
  <2>2. queue' \in Seq(Entry) /\ Len(queue') <= Capacity + 1 /\ dropped' \in Nat
        /\ firstDropped' \in Nat /\ lastDropped' \in Nat /\ NoSub \in {NoSub}
    BY <1>1, BusAssumption
  <2> QED BY <1>1, <1>2, <2>1, <2>2 DEF BusType
<1>5. BusRow'
  <2>1. sub' < nextSub' /\ ~(dropped' > 0)
    BY <1>1, <1>2 DEF BusType, NoSub
  <2> QED BY <2>1, <1>1, <1>2, <1>3 DEF BusRow
<1>6. BusOnce' /\ BusInOrder' /\ BusEntitled'
  BY <1>1, <1>2, <1>3 DEF BusOnce, BusInOrder, BusEntitled
<1>7. BusKept'
  <2> SUFFICES ASSUME epoch = 0, ~overtook, ~noticeLost', ~outrun, NEW x \in entitled, x.seq <= lastSeq
               PROVE  x \in told \/ \E i \in 1..Len(delivered) : delivered[i] = x
    BY <1>1, <1>3 DEF BusKept
  <2>N. ~noticeLost /\ ~(dropped > 0) /\ \A e \in ToSet(queue) : ~IsMarker(e)
    BY <1>1, Zenon
  <2>1. dropped = 0
    BY <2>N, <1>2 DEF BusType
  <2>2. \A i \in 1..Len(queue) : ~IsMarker(queue[i])
    BY <2>N DEF ToSet
  <2> QED BY <2>N, <2>1, <2>2, <1>1, SeenIsKept
<1> QED BY <1>4, <1>5, <1>6, <1>7 DEF BusIInv

\* A new bus has nothing of the old one.
LEMMA RestartStep == ASSUME BusIInv, Restart PROVE BusIInv'
<1>1. /\ epoch < MaxRestarts /\ epoch' = epoch + 1 /\ nextSeq' = 1 /\ ring' = <<>>
      /\ pending' = [p \in Publishers |-> <<>>]
      /\ sub' = NoSub /\ queue' = <<>> /\ dropped' = 0 /\ firstDropped' = 0 /\ lastDropped' = 0
      /\ entitled' = {} /\ nextSub' = nextSub /\ lastSeq' = lastSeq /\ delivered' = delivered /\ told' = told
      /\ overtook' = overtook /\ noticeLost' = noticeLost /\ outrun' = outrun
  BY DEF Restart, SetQueue, FreshQueue, clientVars, noted
<1>2. BusType /\ BusRow /\ BusOnce /\ BusInOrder
  BY DEF BusIInv
<1>3. /\ \A p \in Publishers : pending'[p] = <<>> /\ ~(Waits(p))' /\ Len(pending'[p]) = 0
      /\ Len(queue') = 0 /\ \A i \in 1..Len(queue') : FALSE
  BY <1>1 DEF Waits
<1>4. BusType'
  <2>1. epoch' \in 0..MaxRestarts /\ nextSeq' \in 1..(MaxSeq + 1)
        /\ ring' \in Seq(Event) /\ Len(ring') <= RingCapacity
        /\ queue' \in Seq(Entry) /\ Len(queue') <= Capacity + 1
        /\ dropped' \in Nat /\ firstDropped' \in Nat /\ lastDropped' \in Nat
    BY <1>1, <1>2, BusAssumption DEF BusType
  <2>2. pending' \in [Publishers -> Seq(Items)] /\ \A p \in Publishers : Len(pending'[p]) <= 1
    BY <1>1, <1>3
  <2> QED BY <1>1, <1>2, <2>1, <2>2 DEF BusType
<1>5. BusRow'
  <2>1. sub' < nextSub' /\ ~(dropped' > 0) /\ \A i \in 1..Len(ring') : FALSE
    BY <1>1, <1>2 DEF BusType, NoSub
  <2>2. \A i \in 1..Len(delivered) : delivered[i].seq <= lastSeq /\ delivered[i].epoch <= epoch + 1
                                     /\ delivered[i].epoch # epoch + 1
    <3>0. \A i \in 1..Len(delivered) : delivered[i] \in Event
      BY <1>2 DEF BusType
    <3>1. epoch \in Nat /\ \A i \in 1..Len(delivered) : delivered[i].epoch \in Nat
      <4>1. epoch \in Nat
        BY <1>2, BusAssumption DEF BusType
      <4>2. \A k \in 0..MaxRestarts : k \in Nat
        BY BusAssumption
      <4> QED BY <4>1, <4>2, <3>0, EntryFacts
    <3> QED BY <3>1, <1>2 DEF BusRow
  <2> QED BY <2>1, <2>2, <1>1, <1>2, <1>3 DEF BusRow
<1>6. BusOnce' /\ BusInOrder' /\ BusEntitled'
  <2>1. epoch' # 0 /\ \A i \in 1..Len(delivered) : delivered[i].epoch # epoch'
    <3>0. \A i \in 1..Len(delivered) : delivered[i] \in Event
      BY <1>2 DEF BusType
    <3>1. epoch \in Nat /\ \A i \in 1..Len(delivered) : delivered[i].epoch \in Nat
      <4>1. epoch \in Nat
        BY <1>2, BusAssumption DEF BusType
      <4>2. \A k \in 0..MaxRestarts : k \in Nat
        BY BusAssumption
      <4> QED BY <4>1, <4>2, <3>0, EntryFacts
    <3> QED BY <3>1, <1>1, <1>2 DEF BusRow
  <2> QED BY <2>1, <1>1, <1>2, <1>3 DEF BusOnce, BusInOrder, BusEntitled
<1>7. BusKept'
  <2>1. epoch' # 0
    BY <1>1, <1>2 DEF BusType
  <2> QED BY <2>1 DEF BusKept
<1> QED BY <1>4, <1>5, <1>6, <1>7 DEF BusIInv

(***************************************************************************)
(* SubscribeAgain.                                                         *)
(***************************************************************************)

\* The replay takes up where the client left off.
LEMMA SubscribeAgainStep == ASSUME BusIInv, SubscribeAgain PROVE BusIInv'
<1> DEFINE q == Replayed
<1>1. /\ sub = NoSub /\ nextSub <= MaxReconnects
      /\ queue' = q.queue /\ dropped' = q.dropped /\ firstDropped' = q.first /\ lastDropped' = q.last
      /\ sub' = nextSub /\ nextSub' = nextSub + 1
      /\ entitled' = (IF lastSeq = 0 THEN {} ELSE entitled) /\ outrun' = (outrun \/ Outruns)
      /\ epoch' = epoch /\ nextSeq' = nextSeq /\ ring' = ring /\ pending' = pending
      /\ lastSeq' = lastSeq /\ delivered' = delivered /\ told' = told
      /\ overtook' = overtook /\ noticeLost' = noticeLost
  BY DEF SubscribeAgain, SetQueue, busVars, clientVars
<1>2. BusType /\ BusRow /\ BusOnce /\ BusInOrder /\ BusEntitled /\ BusKept
  BY DEF BusIInv
<1>3. RingRow
  BY <1>2, BusAssumption DEF RingRow, BusType, BusRow
<1>4. Caught(Len(ring), q)
  BY <1>3, ReplayCaught
<1> HIDE DEF q
<1>5. /\ Len(ring) \in Nat /\ nextSeq \in Nat /\ lastSeq \in Nat /\ epoch \in Nat /\ nextSub \in Nat
      /\ q.queue \in Seq(Entry) /\ q.dropped \in Nat /\ q.first \in Nat /\ q.last \in Nat
      /\ Len(q.queue) \in Nat /\ Len(q.queue) <= Capacity /\ Capacity \in Nat \ {0}
  BY <1>2, <1>4, BusAssumption DEF BusType, Caught, Queues
<1>6. \A p \in Publishers : (Held(p))' = Held(p) /\ ~(Waits(p))'
  <2>1. ASSUME NEW p \in Publishers, pending[p] # <<>> PROVE pending[p][1].to # nextSub
    <3>1. pending[p][1].to < nextSub
      BY <2>1, <1>2 DEF BusRow
    <3> QED BY <3>1, <1>5
  <2> QED BY <2>1, <1>1 DEF Held, Waits
<1>7. ASSUME NEW j \in 1..Len(ring)
      PROVE  ring[j] \in Event /\ ring[j].seq \in Nat /\ ~IsMarker(ring[j]) /\ ring[j].epoch = epoch
             /\ ring[j].seq < nextSeq
  <2>1. ring[j] \in Event
    BY <1>2 DEF BusType
  <2>2. ring[j].seq = nextSeq - Len(ring) + j - 1 /\ ring[j].epoch = epoch
    BY <1>2 DEF BusRow
  <2>3. ring[j].seq \in 1..MaxSeq
    BY <2>1, EntryFacts
  <2>4. \A n, l \in Nat : \A k \in 1..l : n - l + k - 1 < n
    OBVIOUS
  <2>5. ring[j].seq \in Nat
    BY <2>3, BusAssumption
  <2>6. ring[j].seq < nextSeq
    BY <2>2, <2>4, <1>5
  <2>7. ~IsMarker(ring[j])
    BY <2>1, EntryFacts
  <2> QED BY <2>1, <2>2, <2>5, <2>6, <2>7
<1>8. \A i \in 1..Len(q.queue) :
        /\ lastSeq # 0 /\ q.queue[i].seq > lastSeq /\ q.queue[i].wanted /\ q.queue[i].epoch = epoch
        /\ q.queue[i].seq < nextSeq /\ ~IsMarker(q.queue[i]) /\ q.queue[i].seq \in Nat
        /\ \E j \in 1..Len(ring) : q.queue[i] = ring[j]
  BY <1>4, <1>7 DEF Caught, Missed
<1>9. \A i \in 1..Len(delivered) :
        delivered[i].seq \in Nat /\ delivered[i].seq > 0 /\ delivered[i].seq <= lastSeq
        /\ delivered[i].epoch \in Nat /\ delivered[i].epoch <= epoch
  <2> SUFFICES ASSUME NEW i \in 1..Len(delivered)
               PROVE  delivered[i].seq \in Nat /\ delivered[i].seq > 0 /\ delivered[i].seq <= lastSeq
                      /\ delivered[i].epoch \in Nat /\ delivered[i].epoch <= epoch
    OBVIOUS
  <2>1. delivered[i] \in Event
    BY <1>2 DEF BusType
  <2>2. delivered[i].seq \in 1..MaxSeq /\ delivered[i].epoch \in 0..MaxRestarts
    BY <2>1, EntryFacts
  <2> QED BY <2>2, <1>2, BusAssumption DEF BusRow
<1>10. q.dropped > 0 => /\ Len(q.queue) = Capacity /\ q.first <= q.last
                        /\ \A i \in 1..Len(q.queue) : q.last < q.queue[i].seq
  BY <1>4 DEF Caught
<1>11. BusType'
  <2>1. sub' \in 0..MaxReconnects /\ nextSub' \in 0..(MaxReconnects + 1) /\ Len(q.queue) <= Capacity + 1
    BY <1>1, <1>5, BusAssumption
  <2>2. entitled' \subseteq Event
    BY <1>1, <1>2 DEF BusType
  <2>3. outrun' \in BOOLEAN
    BY <1>1, <1>2 DEF BusType
  <2> QED BY <1>1, <1>2, <1>5, <2>1, <2>2, <2>3 DEF BusType
<1>12. BusRow'
  <2>1. sub' < nextSub' /\ sub' # NoSub
    BY <1>1, <1>5 DEF NoSub
  <2>2. q.dropped > 0 => q.last < nextSeq
    <3> HAVE q.dropped > 0
    <3>1. 1 \in 1..Len(q.queue)
      BY <1>10, <1>5
    <3>2. q.last < q.queue[1].seq /\ q.queue[1].seq < nextSeq /\ q.queue[1].seq \in Nat
      BY <3>1, <1>10, <1>8
    <3>3. \A a, b, c \in Nat : a < b /\ b < c => a < c
      OBVIOUS
    <3> QED BY <3>2, <3>3, <1>5, Zenon
  <2>3. \A p \in Publishers : pending[p] # <<>> =>
       Held(p).epoch = epoch /\ Held(p).seq < nextSeq /\ pending[p][1].to < nextSub + 1
    <3> SUFFICES ASSUME NEW p \in Publishers, pending[p] # <<>>
                 PROVE  Held(p).epoch = epoch /\ Held(p).seq < nextSeq /\ pending[p][1].to < nextSub + 1
      OBVIOUS
    <3>1. Held(p).epoch = epoch /\ Held(p).seq < nextSeq /\ pending[p][1].to < nextSub
      BY <1>2 DEF BusRow
    <3>2. pending[p][1].to \in (0..MaxReconnects) \cup {NoSub}
      BY <1>2, HeldType
    <3>3. pending[p][1].to \in Int
      BY <3>2, BusAssumption DEF NoSub
    <3>4. \A a, b \in Int : a < b => a < b + 1
      OBVIOUS
    <3>5. nextSub \in Int
      BY <1>5
    <3>6. pending[p][1].to < nextSub + 1
      BY <3>1, <3>3, <3>4, <3>5, Zenon
    <3> QED BY <3>1, <3>6, Zenon
  <2>4. \A i \in 1..Len(queue') : ~IsMarker(queue'[i]) =>
          queue'[i].epoch = epoch' /\ queue'[i].wanted /\ queue'[i].seq < nextSeq'
    BY <1>1, <1>8
  <2> QED BY <2>1, <2>2, <2>3, <2>4, <1>1, <1>2, <1>6 DEF BusRow
<1>13. BusOnce'
  <2>1. \A i, j \in 1..Len(q.queue) : q.queue[i] = q.queue[j] => i = j
    <3> SUFFICES ASSUME NEW i \in 1..Len(q.queue), NEW j \in 1..Len(q.queue), q.queue[i] = q.queue[j], i < j
                 PROVE  FALSE
      OBVIOUS
    <3>1. q.queue[i].seq < q.queue[j].seq
      BY <1>4 DEF Caught
    <3> QED BY <3>1, <1>8
  <2>2. \A i \in 1..Len(q.queue), j \in 1..Len(delivered) : q.queue[i] # delivered[j]
    <3> SUFFICES ASSUME NEW i \in 1..Len(q.queue), NEW j \in 1..Len(delivered), q.queue[i] = delivered[j]
                 PROVE  FALSE
      OBVIOUS
    <3>1. delivered[j].seq > lastSeq
      BY <1>8
    <3>2. delivered[j].seq <= lastSeq /\ delivered[j].seq \in Nat
      BY <1>9
    <3>3. \A a, b \in Nat : ~(a > b /\ a <= b)
      OBVIOUS
    <3> QED BY <3>1, <3>2, <3>3, <1>5, Zenon
  <2> QED BY <2>1, <2>2, <1>1, <1>2, <1>6 DEF BusOnce
<1>14. BusInOrder'
  <2>1. \A i, j \in 1..Len(q.queue) : i < j => q.queue[i].seq < q.queue[j].seq
    BY <1>4 DEF Caught
  <2>2. \A i \in 1..Len(q.queue), j \in 1..Len(delivered) : delivered[j].seq < q.queue[i].seq
    <3>1. \A a, b, c \in Nat : a <= b /\ c > b => a < c
      OBVIOUS
    <3> SUFFICES ASSUME NEW i \in 1..Len(q.queue), NEW j \in 1..Len(delivered)
                 PROVE  delivered[j].seq < q.queue[i].seq
      OBVIOUS
    <3>2. delivered[j].seq \in Nat /\ delivered[j].seq <= lastSeq
      BY <1>9
    <3>3. q.queue[i].seq \in Nat /\ q.queue[i].seq > lastSeq
      BY <1>8
    <3> QED BY <3>1, <3>2, <3>3, <1>5
  <2> QED BY <2>1, <2>2, <1>1, <1>2, <1>6 DEF BusInOrder
<1>15. BusEntitled'
  <2>1. epoch = 0 => \A i \in 1..Len(q.queue) : q.queue[i] \in entitled'
    <3> SUFFICES ASSUME epoch = 0, NEW i \in 1..Len(q.queue) PROVE q.queue[i] \in entitled
      BY <1>1, <1>8
    <3>1. PICK k \in 1..Len(delivered) : delivered[k].seq = lastSeq
      BY <1>8, <1>2 DEF BusRow
    <3>2. delivered[k] \in entitled
      BY <1>2 DEF BusEntitled
    <3>3. PICK j \in 1..Len(ring) : q.queue[i] = ring[j]
      BY <1>8
    <3>4. ring[j].wanted /\ ring[j].seq > delivered[k].seq
      BY <3>1, <3>3, <1>8
    <3>5. ring[j] \in entitled
      BY <3>2, <3>4, <1>2 DEF BusEntitled
    <3> QED BY <3>3, <3>5
  <2>2. epoch = 0 => \A i \in 1..Len(delivered) : delivered[i] \in entitled'
    <3> SUFFICES ASSUME epoch = 0, NEW i \in 1..Len(delivered) PROVE delivered[i] \in entitled'
      OBVIOUS
    <3>1. delivered[i] \in entitled
      BY <1>2 DEF BusEntitled
    <3>2. lastSeq # 0
      BY <1>9, <1>5
    <3> QED BY <3>1, <3>2, <1>1
  <2>3. entitled' \subseteq entitled
    BY <1>1
  <2>4. \A x \in entitled', i \in 1..Len(ring) :
          /\ ring[i].seq = x.seq => ring[i] = x
          /\ ring[i].wanted /\ ring[i].seq > x.seq => ring[i] \in entitled'
    <3>1. CASE lastSeq = 0
      BY <3>1, <1>1
    <3>2. CASE lastSeq # 0
      BY <3>2, <1>1, <1>2 DEF BusEntitled
    <3> QED BY <3>1, <3>2
  <2>5. \A x \in entitled' : x.wanted /\ x.epoch = epoch /\ x.seq < nextSeq
    BY <2>3, <1>2 DEF BusEntitled
  <2>6. \A x, y \in entitled' : x.seq = y.seq => x = y
    BY <2>3, <1>2 DEF BusEntitled
  <2> QED BY <2>1, <2>2, <2>4, <2>5, <2>6, <1>1, <1>6 DEF BusEntitled
<1>16. BusKept'
  <2> SUFFICES ASSUME epoch = 0, ~overtook, ~noticeLost, ~outrun'
               PROVE  /\ \A x \in entitled' : (Accounted(x))'
                      /\ q.dropped > 0 => /\ q.first <= q.last
                                          /\ \A i \in 1..Len(q.queue) : q.last < q.queue[i].seq
    <3>1. sub' # NoSub
      BY <1>1, <1>5 DEF NoSub
    <3> QED BY <3>1, <1>1, <1>6 DEF BusKept
  <2>1. ~outrun /\ ~Outruns
    BY <1>1, Zenon
  <2>2. ASSUME NEW x \in entitled' PROVE (Accounted(x))'
    <3>1. x \in entitled /\ lastSeq # 0 /\ x.wanted /\ x.seq < nextSeq
      BY <2>2, <1>1, <1>2 DEF BusEntitled
    <3>2. x \in Event /\ x.seq \in 1..MaxSeq
      BY <3>1, <1>2, EntryFacts DEF BusType
    <3>3. CASE x.seq <= lastSeq
      <4>1. x \in told \/ \E i \in 1..Len(delivered) : delivered[i] = x
        BY <3>1, <3>3, <2>1, <1>1, <1>2 DEF BusKept
      <4> QED BY <4>1, <1>1 DEF Accounted
    <3>4. CASE x.seq > lastSeq
      <4> DEFINE j == x.seq - (nextSeq - Len(ring)) + 1
      <4>1. j \in 1..Len(ring) /\ nextSeq - Len(ring) + j - 1 = x.seq
        <5>1. nextSeq - Len(ring) <= lastSeq + 1
          BY <2>1, <3>1, <1>5 DEF Outruns
        <5>2. \A a, b, c, d \in Nat : a < b /\ b - c <= d + 1 /\ a > d =>
                /\ a - (b - c) + 1 \in 1..c
                /\ b - c + (a - (b - c) + 1) - 1 = a
          OBVIOUS
        <5>3. x.seq \in Nat
          BY <3>2, BusAssumption
        <5> QED BY <5>1, <5>2, <5>3, <3>1, <3>4, <1>5
      <4> HIDE DEF j
      <4>2. ring[j].seq = x.seq
        BY <4>1, <1>2 DEF BusRow
      <4>3. ring[j] = x
        BY <4>1, <4>2, <3>1, <1>2 DEF BusEntitled
      <4>4. Missed(ring[j]) /\ ring[j].wanted
        BY <4>3, <3>1, <3>4 DEF Missed
      <4>5. \/ \E i \in 1..Len(q.queue) : q.queue[i] = x
            \/ q.dropped > 0 /\ x.seq \in q.first..q.last
        BY <4>1, <4>3, <4>4, <1>4 DEF Caught
      <4> QED BY <4>5, <1>1, <1>5 DEF Accounted
    <3> QED BY <3>2, <3>3, <3>4, <1>5
  <2> QED BY <2>2, <1>10
<1> QED BY <1>11, <1>12, <1>13, <1>14, <1>15, <1>16 DEF BusIInv

(***************************************************************************)
(* Enqueue.                                                                *)
(***************************************************************************)

\* What an entry of a queue after a push is.
LEMMA PushedEntries ==
  ASSUME NEW q \in Queues, NEW e, NEW r, Pushed(q, e, r), NEW i \in 1..Len(r.queue)
  PROVE  \/ /\ i \in 1..(Len(q.queue) - Off(q)) /\ i + Off(q) \in 1..Len(q.queue)
            /\ r.queue[i] = q.queue[i + Off(q)]
         \/ Mark(q) = 1 /\ i = Len(q.queue) + 1 /\ r.queue[i] = Marker(q.dropped, q.first, q.last)
         \/ i = Len(r.queue) /\ r.queue[i] = e
<1>1. Len(q.queue) \in Nat
  BY DEF Queues
<1>2. Off(q) \in {0, 1} /\ Mark(q) \in {0, 1} /\ (Off(q) = 1 => Mark(q) = 0)
  <2>1. Len(q.queue) >= Capacity => ~(Len(q.queue) < Capacity)
    BY <1>1, BusAssumption
  <2> QED BY <2>1 DEF Off, Mark
<1>3. Len(r.queue) = Len(q.queue) - Off(q) + Mark(q) + 1 /\ Off(q) <= Len(q.queue)
  BY DEF Pushed
<1>4. CASE i \in 1..(Len(q.queue) - Off(q))
  <2>1. i + Off(q) \in 1..Len(q.queue)
    BY <1>4, <1>1, <1>2
  <2> QED BY <1>4, <2>1 DEF Pushed
<1>5. CASE Mark(q) = 1 /\ i = Len(q.queue) + 1
  BY <1>5 DEF Pushed
<1>6. CASE i = Len(r.queue)
  BY <1>6 DEF Pushed
<1>7. i \in 1..(Len(q.queue) - Off(q)) \/ (Mark(q) = 1 /\ i = Len(q.queue) + 1) \/ i = Len(r.queue)
  BY <1>1, <1>2, <1>3
<1> QED BY <1>4, <1>5, <1>6, <1>7

\* What publisher p enqueues, and what the others then hold.
LEMMA EnqueueFrame ==
  ASSUME BusIInv, NEW p \in Publishers, Enqueue(p)
  PROVE  /\ epoch' = epoch /\ nextSeq' = nextSeq /\ ring' = ring /\ sub' = sub /\ nextSub' = nextSub
         /\ lastSeq' = lastSeq /\ delivered' = delivered /\ told' = told /\ entitled' = entitled
         /\ outrun' = outrun
         /\ pending[p] # <<>> /\ pending' \in [Publishers -> Seq(Items)]
         /\ pending'[p] = <<>> /\ \A r \in Publishers \ {p} : pending'[r] = pending[r]
         /\ \A r \in Publishers : Len(pending'[r]) <= 1
         /\ ~(Waits(p))'
         /\ \A r \in Publishers : r # p => (Held(r))' = Held(r) /\ (Waits(r))' = Waits(r)
         /\ \A r \in Publishers : (Waits(r))' => r # p
         /\ Waits(p) => SetQueue(Push(QueueState, Held(p)))
         /\ ~Waits(p) => UNCHANGED <<queue, dropped, firstDropped, lastDropped>>
         /\ overtook' \in BOOLEAN /\ noticeLost' \in BOOLEAN
         /\ ~overtook' => ~overtook /\ \A r \in Publishers : pending[r] # <<>> => ~(Held(r).seq < Held(p).seq)
         /\ ~noticeLost' => ~noticeLost
                            /\ ~(Held(p).wanted /\ Len(queue) >= Capacity /\ IsMarker(Head(queue)))
<1>1. BusType
  BY DEF BusIInv
<1>2. /\ epoch' = epoch /\ nextSeq' = nextSeq /\ ring' = ring /\ sub' = sub /\ nextSub' = nextSub
      /\ lastSeq' = lastSeq /\ delivered' = delivered /\ told' = told /\ entitled' = entitled
      /\ pending[p] # <<>> /\ pending' = [pending EXCEPT ![p] = <<>>]
  BY DEF Enqueue, busVars, clientVars
<1>3. Head(pending[p]) = pending[p][1] /\ Head(pending[p]).event = Held(p)
  BY <1>1, <1>2, HeldType DEF Held
<1>4. /\ IF Waits(p) THEN SetQueue(Push(QueueState, Held(p))) ELSE UNCHANGED <<queue, holeVars>>
      /\ NoteEnqueue(Held(p))
  BY <1>2, <1>3 DEF Enqueue, Waits
<1>5. /\ outrun' = outrun
      /\ overtook' = (\/ overtook
                      \/ \E r \in Publishers : \E it \in ToSet(pending[r]) : it.event.seq < Held(p).seq)
      /\ noticeLost' = (noticeLost \/ (Held(p).wanted /\ Len(queue) >= Capacity /\ IsMarker(Head(queue))))
  BY <1>4 DEF NoteEnqueue
<1>6. /\ pending' \in [Publishers -> Seq(Items)]
      /\ pending'[p] = <<>> /\ \A r \in Publishers \ {p} : pending'[r] = pending[r]
  BY <1>1, <1>2 DEF BusType
<1>7. \A r \in Publishers : Len(pending'[r]) <= 1
  <2> SUFFICES ASSUME NEW r \in Publishers PROVE Len(pending'[r]) <= 1
    OBVIOUS
  <2>1. CASE r = p
    BY <2>1, <1>6
  <2>2. CASE r # p
    BY <2>2, <1>6, <1>1 DEF BusType
  <2> QED BY <2>1, <2>2
<1>8. /\ ~(Waits(p))'
      /\ \A r \in Publishers : r # p => (Held(r))' = Held(r) /\ (Waits(r))' = Waits(r)
  BY <1>2, <1>6 DEF Waits, Held
<1>9. overtook' \in BOOLEAN /\ noticeLost' \in BOOLEAN
  BY <1>5
<1>10. ~overtook' => ~overtook /\ \A r \in Publishers : pending[r] # <<>> => ~(Held(r).seq < Held(p).seq)
  <2> HAVE ~overtook'
  <2>1. ~overtook /\ \A r \in Publishers : \A it \in ToSet(pending[r]) : ~(it.event.seq < Held(p).seq)
    BY <1>5, Zenon
  <2>2. \A r \in Publishers : pending[r] # <<>> => pending[r][1] \in ToSet(pending[r])
    BY <1>1, HeldType
  <2> QED BY <2>1, <2>2 DEF Held
<1>11. ~noticeLost' => ~noticeLost /\ ~(Held(p).wanted /\ Len(queue) >= Capacity /\ IsMarker(Head(queue)))
  BY <1>5, Zenon
<1>12. ~Waits(p) => UNCHANGED <<queue, dropped, firstDropped, lastDropped>>
  BY <1>4 DEF holeVars
<1>13. Waits(p) => SetQueue(Push(QueueState, Held(p)))
  BY <1>4
<1>14. \A r \in Publishers : (Waits(r))' => r # p
  BY <1>8
<1> QED BY <1>2, <1>5, <1>6, <1>7, <1>8, <1>9, <1>10, <1>11, <1>12, <1>13, <1>14

\* What is on its way stays as it is when an event goes to no queue.
LEMMA EnqueueNowhere ==
  ASSUME BusIInv, NEW p \in Publishers, Enqueue(p),
         UNCHANGED <<queue, dropped, firstDropped, lastDropped>>, Waits(p) => ~Held(p).wanted
  PROVE  BusIInv'
<1>1. BusType /\ BusRow /\ BusOnce /\ BusInOrder /\ BusEntitled /\ BusKept
  BY DEF BusIInv
<1>2. /\ epoch' = epoch /\ nextSeq' = nextSeq /\ ring' = ring /\ sub' = sub /\ nextSub' = nextSub
      /\ lastSeq' = lastSeq /\ delivered' = delivered /\ told' = told /\ entitled' = entitled
      /\ outrun' = outrun
      /\ pending[p] # <<>> /\ pending' \in [Publishers -> Seq(Items)]
      /\ pending'[p] = <<>> /\ \A r \in Publishers \ {p} : pending'[r] = pending[r]
      /\ \A r \in Publishers : Len(pending'[r]) <= 1
      /\ \A r \in Publishers : r # p => (Held(r))' = Held(r) /\ (Waits(r))' = Waits(r)
      /\ \A r \in Publishers : (Waits(r))' => r # p
      /\ overtook' \in BOOLEAN /\ noticeLost' \in BOOLEAN
      /\ (~overtook' => ~overtook) /\ (~noticeLost' => ~noticeLost)
  BY EnqueueFrame
<1>3. BusType'
  BY <1>1, <1>2 DEF BusType
<1>4. BusRow'
  BY <1>1, <1>2 DEF BusRow
<1>5. BusOnce'
  BY <1>1, <1>2 DEF BusOnce
<1>6. BusInOrder'
  BY <1>1, <1>2 DEF BusInOrder
<1>7. BusEntitled'
  BY <1>1, <1>2 DEF BusEntitled
<1>8. BusKept'
  <2>1. ASSUME NEW x \in entitled, Accounted(x) PROVE (Accounted(x))'
    <3>1. x.wanted
      BY <1>1 DEF BusEntitled
    <3>2. \A r \in Publishers : Waits(r) /\ Held(r) = x => r # p
      BY <3>1
    <3> QED BY <2>1, <3>2, <1>2 DEF Accounted
  <2> QED BY <2>1, <1>1, <1>2 DEF BusKept
<1> QED BY <1>3, <1>4, <1>5, <1>6, <1>7, <1>8 DEF BusIInv

\* An event that is wanted goes into the queue.
LEMMA EnqueueWanted ==
  ASSUME BusIInv, NEW p \in Publishers, Enqueue(p), Waits(p), Held(p).wanted
  PROVE  BusIInv'
<1> DEFINE q == QueueState  e == Held(p)  w == Push(q, e)  n == Len(queue)
<1>1. BusType /\ BusRow /\ BusOnce /\ BusInOrder /\ BusEntitled /\ BusKept
  BY DEF BusIInv
<1>2. /\ epoch' = epoch /\ nextSeq' = nextSeq /\ ring' = ring /\ sub' = sub /\ nextSub' = nextSub
      /\ lastSeq' = lastSeq /\ delivered' = delivered /\ told' = told /\ entitled' = entitled
      /\ outrun' = outrun
      /\ pending[p] # <<>> /\ pending' \in [Publishers -> Seq(Items)]
      /\ pending'[p] = <<>> /\ \A r \in Publishers \ {p} : pending'[r] = pending[r]
      /\ \A r \in Publishers : Len(pending'[r]) <= 1
      /\ \A r \in Publishers : r # p => (Held(r))' = Held(r) /\ (Waits(r))' = Waits(r)
      /\ \A r \in Publishers : (Waits(r))' => r # p
      /\ overtook' \in BOOLEAN /\ noticeLost' \in BOOLEAN
      /\ ~overtook' => ~overtook /\ \A r \in Publishers : pending[r] # <<>> => ~(Held(r).seq < e.seq)
      /\ ~noticeLost' => ~noticeLost
                         /\ ~(e.wanted /\ Len(queue) >= Capacity /\ IsMarker(Head(queue)))
  BY EnqueueFrame
<1>3. queue' = w.queue /\ dropped' = w.dropped /\ firstDropped' = w.first /\ lastDropped' = w.last
  BY EnqueueFrame DEF SetQueue
<1>4. /\ q \in Queues /\ q.queue = queue /\ q.dropped = dropped
      /\ q.first = firstDropped /\ q.last = lastDropped
      /\ queue \in Seq(Entry) /\ n \in Nat /\ dropped \in Nat /\ firstDropped \in Nat /\ lastDropped \in Nat
      /\ n <= Capacity + 1 /\ Capacity \in Nat \ {0} /\ nextSeq \in Nat \ {0}
      /\ \A i \in 1..n : queue[i] \in Entry
  BY <1>1, BusAssumption DEF BusType, Queues, QueueState
<1>5. e \in Event /\ e.seq \in 1..MaxSeq /\ e.wanted /\ ~IsMarker(e) /\ e \in Entry
  BY <1>1, <1>2, HeldType, EntryFacts
<1>6. Pushed(q, e, w)
  BY <1>4, <1>5, PushShape
<1> HIDE DEF q, w, e, n
<1>7. w \in Queues /\ w.queue \in Seq(Entry) /\ w.dropped \in Nat /\ w.first \in Nat /\ w.last \in Nat
  BY <1>6 DEF Pushed, Queues
<1>8. /\ Off(q) \in {0, 1} /\ Mark(q) \in {0, 1} /\ (Off(q) = 1 => Mark(q) = 0 /\ n >= Capacity)
      /\ (Mark(q) = 1 => n < Capacity /\ dropped > 0) /\ (Off(q) = 0 => n < Capacity)
      /\ (Off(q) = 0 /\ Mark(q) = 0 => dropped = 0)
  <2>1. (n >= Capacity \/ n < Capacity) /\ ~(n >= Capacity /\ n < Capacity)
    BY <1>4
  <2>2. ~(dropped > 0) => dropped = 0
    BY <1>4
  <2>3. n = Len(q.queue)
    BY <1>4 DEF n
  <2> QED BY <2>1, <2>2, <2>3, <1>4 DEF Off, Mark
<1>9. Len(queue') = n - Off(q) + Mark(q) + 1 /\ Len(queue') \in Nat /\ Len(queue') > 0
  <2>1. Len(queue') = n - Off(q) + Mark(q) + 1 /\ Off(q) <= n
    BY <1>3, <1>4, <1>6 DEF Pushed, n
  <2> QED BY <2>1, <1>4, <1>8
<1>E. /\ queue'[Len(queue')] = e /\ Len(queue') \in 1..Len(queue')
      /\ Mark(q) = 1 => queue'[n + 1] = Marker(dropped, firstDropped, lastDropped) /\ n + 1 \in 1..Len(queue')
  <2>1. /\ queue'[Len(queue')] = e
        /\ Mark(q) = 1 => queue'[n + 1] = Marker(dropped, firstDropped, lastDropped)
    BY <1>3, <1>4, <1>6 DEF Pushed, n
  <2>2. Len(queue') \in 1..Len(queue') /\ (Mark(q) = 1 => n + 1 \in 1..Len(queue'))
    BY <1>9, <1>8, <1>4
  <2> QED BY <2>1, <2>2
<1>10. /\ Off(q) = 1 => /\ dropped' = dropped + 1 /\ lastDropped' = queue[1].seq /\ n > 0
                        /\ firstDropped' = IF dropped = 0 THEN queue[1].seq ELSE firstDropped
       /\ Off(q) = 0 => dropped' = 0
  <2>1. Off(q) = 1 => n > 0
    BY <1>8, <1>4
  <2> QED BY <2>1, <1>3, <1>4, <1>6 DEF Pushed
<1>11. \A i \in 1..Len(queue') :
         \/ i + Off(q) \in 1..n /\ queue'[i] = queue[i + Off(q)]
         \/ Mark(q) = 1 /\ i = n + 1 /\ IsMarker(queue'[i])
         \/ i = Len(queue') /\ queue'[i] = e
  <2> SUFFICES ASSUME NEW i \in 1..Len(queue')
               PROVE  \/ i + Off(q) \in 1..n /\ queue'[i] = queue[i + Off(q)]
                      \/ Mark(q) = 1 /\ i = n + 1 /\ IsMarker(queue'[i])
                      \/ i = Len(queue') /\ queue'[i] = e
    OBVIOUS
  <2>1. i \in 1..Len(w.queue)
    BY <1>3
  <2>2. \/ i + Off(q) \in 1..Len(q.queue) /\ w.queue[i] = q.queue[i + Off(q)]
        \/ Mark(q) = 1 /\ i = Len(q.queue) + 1 /\ w.queue[i] = Marker(q.dropped, q.first, q.last)
        \/ i = Len(w.queue) /\ w.queue[i] = e
    BY <2>1, <1>4, <1>6, PushedEntries
  <2>3. IsMarker(Marker(q.dropped, q.first, q.last))
    BY <1>4, EntryFacts
  <2> QED BY <2>2, <2>3, <1>3, <1>4 DEF n
<1>12. \A i \in 1..n : i > Off(q) => i - Off(q) \in 1..Len(queue') /\ queue'[i - Off(q)] = queue[i]
  <2> SUFFICES ASSUME NEW i \in 1..n, i > Off(q)
               PROVE  i - Off(q) \in 1..Len(queue') /\ queue'[i - Off(q)] = queue[i]
    OBVIOUS
  <2>1. i - Off(q) \in 1..(n - Off(q)) /\ i - Off(q) \in 1..Len(queue') /\ (i - Off(q)) + Off(q) = i
    <3>1. \A m, k \in Nat : \A o, a \in {0, 1} : \A l \in Nat :
            l = m - o + a + 1 /\ k \in 1..m /\ k > o =>
              k - o \in 1..(m - o) /\ k - o \in 1..l /\ (k - o) + o = k
      OBVIOUS
    <3> QED BY <3>1, <1>4, <1>8, <1>9
  <2>2. \A k \in 1..(n - Off(q)) : queue'[k] = queue[k + Off(q)]
    BY <1>3, <1>4, <1>6 DEF Pushed, n
  <2> QED BY <2>1, <2>2
<1>N. n = Len(queue) /\ Waits(p) /\ e = Held(p)
  BY DEF n, e
<1>13. \A i \in 1..n : queue[i].seq \in Nat /\ (IsMarker(queue[i]) => queue[i].seq = 0)
  BY <1>4, EntryFacts DEF IsMarker
<1>14. e.seq \in Nat \ {0} /\ e.epoch = epoch /\ e.seq < nextSeq
  <2>1. e.epoch = epoch /\ e.seq < nextSeq
    BY <1>1, <1>2, <1>N DEF BusRow
  <2> QED BY <2>1, <1>5, BusAssumption
<1>15. BusType'
  <2>1. Len(queue') <= Capacity + 1
    BY <1>4, <1>8, <1>9
  <2> QED BY <2>1, <1>1, <1>2, <1>3, <1>7 DEF BusType
<1>16. BusRow'
  <2>1. \A i \in 1..Len(queue') : ~IsMarker(queue'[i]) =>
          queue'[i].epoch = epoch /\ queue'[i].wanted /\ queue'[i].seq < nextSeq
    <3>1. \A i \in 1..n : ~IsMarker(queue[i]) =>
            queue[i].epoch = epoch /\ queue[i].wanted /\ queue[i].seq < nextSeq
      BY <1>1, <1>N DEF BusRow
    <3> QED BY <3>1, <1>11, <1>5, <1>14
  <2>2. dropped' > 0 => lastDropped' < nextSeq
    <3> HAVE dropped' > 0
    <3>1. Off(q) = 1
      BY <1>10, <1>8
    <3>2. lastDropped' = queue[1].seq /\ 1 \in 1..n
      BY <3>1, <1>10, <1>4
    <3>3. CASE IsMarker(queue[1])
      BY <3>2, <3>3, <1>13, <1>4
    <3>4. CASE ~IsMarker(queue[1])
      BY <3>2, <3>4, <1>1, <1>N DEF BusRow
    <3> QED BY <3>3, <3>4
  <2>3. sub' # NoSub /\ sub' < nextSub'
    BY <1>1, <1>2, <1>N DEF BusRow, Waits
  <2>4. \A r \in Publishers : pending'[r] # <<>> =>
          /\ (Held(r))'.epoch = epoch /\ (Held(r))'.seq < nextSeq /\ pending'[r][1].to < nextSub
          /\ r # p /\ (Held(r))' = Held(r) /\ pending[r] # <<>>
    BY <1>1, <1>2 DEF BusRow
  <2>5. \A s, r \in Publishers : s # r /\ pending'[s] # <<>> /\ pending'[r] # <<>> =>
          (Held(s))'.seq # (Held(r))'.seq
    BY <2>4, <1>1 DEF BusRow
  <2> QED BY <2>1, <2>2, <2>3, <2>4, <2>5, <1>1, <1>2 DEF BusRow
<1>17. \A r \in Publishers : (Waits(r))' =>
         Waits(r) /\ (Held(r))' = Held(r) /\ Held(r).seq # e.seq /\ pending[r] # <<>>
         /\ Held(r).seq \in Nat \ {0} /\ Held(r) \in Event
  <2> SUFFICES ASSUME NEW r \in Publishers, (Waits(r))'
               PROVE  Waits(r) /\ (Held(r))' = Held(r) /\ Held(r).seq # e.seq /\ pending[r] # <<>>
                      /\ Held(r).seq \in Nat \ {0} /\ Held(r) \in Event
    OBVIOUS
  <2>1. r # p /\ Waits(r) /\ (Held(r))' = Held(r)
    BY <1>2
  <2>2. pending[r] # <<>>
    BY <2>1 DEF Waits
  <2>3. Held(r).seq # e.seq
    BY <2>1, <2>2, <1>1, <1>2, <1>N DEF BusRow
  <2>4. Held(r) \in Event /\ Held(r).seq \in 1..MaxSeq
    BY <2>2, <1>1, HeldType
  <2> QED BY <2>1, <2>2, <2>3, <2>4, BusAssumption
<1>18. BusOnce'
  <2>O. /\ \A i, j \in 1..n : ~IsMarker(queue[i]) /\ queue[i] = queue[j] => i = j
        /\ \A i \in 1..n, j \in 1..Len(delivered) : queue[i] # delivered[j]
        /\ \A r \in Publishers : Waits(r) =>
             /\ \A i \in 1..n : queue[i] # Held(r)
             /\ \A j \in 1..Len(delivered) : delivered[j] # Held(r)
    BY <1>1, <1>N DEF BusOnce
  <2>1. /\ \A i \in 1..n : queue[i] # e
        /\ \A j \in 1..Len(delivered) : delivered[j] # e /\ ~IsMarker(delivered[j])
    <3>1. \A j \in 1..Len(delivered) : delivered[j] \in Event
      BY <1>1 DEF BusType
    <3> QED BY <3>1, <2>O, <1>N, EntryFacts
  <2>2. \A i, j \in 1..Len(queue') : ~IsMarker(queue'[i]) /\ queue'[i] = queue'[j] => i = j
    <3> SUFFICES ASSUME NEW i \in 1..Len(queue'), NEW j \in 1..Len(queue'),
                        ~IsMarker(queue'[i]), ~IsMarker(queue'[j]), queue'[i] = queue'[j]
                 PROVE  i = j
      BY Zenon
    <3>1. CASE queue'[i] = e
      BY <3>1, <1>11, <2>1
    <3>2. CASE queue'[i] # e
      <4>1. /\ i + Off(q) \in 1..n /\ queue'[i] = queue[i + Off(q)]
            /\ j + Off(q) \in 1..n /\ queue'[j] = queue[j + Off(q)]
        BY <3>2, <1>11
      <4>2. i + Off(q) = j + Off(q)
        BY <4>1, <2>O
      <4> QED BY <4>2, <1>8, <1>9
    <3> QED BY <3>1, <3>2
  <2>3. \A i \in 1..Len(queue'), j \in 1..Len(delivered) : queue'[i] # delivered[j]
    BY <1>11, <2>1, <2>O
  <2>4. \A r \in Publishers : (Waits(r))' => \A i \in 1..Len(queue') : queue'[i] # Held(r)
    BY <1>11, <1>17, <2>O, EntryFacts
  <2> QED BY <2>2, <2>3, <2>4, <2>O, <1>17, <1>1, <1>2 DEF BusOnce
<1>19. ~overtook' => /\ \A i \in 1..n : queue[i].seq < e.seq
                     /\ \A j \in 1..Len(delivered) : delivered[j].epoch = epoch => delivered[j].seq < e.seq
                     /\ \A r \in Publishers : (Waits(r))' => e.seq < Held(r).seq
  <2> HAVE ~overtook'
  <2>1. ~overtook /\ \A r \in Publishers : pending[r] # <<>> => ~(Held(r).seq < e.seq)
    BY <1>2
  <2>2. /\ \A i \in 1..n : queue[i].seq < e.seq
        /\ \A j \in 1..Len(delivered) : delivered[j].epoch = epoch => delivered[j].seq < e.seq
    BY <2>1, <1>1, <1>N DEF BusInOrder
  <2>3. \A a, b \in Nat : ~(a < b) /\ a # b => b < a
    OBVIOUS
  <2>4. \A r \in Publishers : (Waits(r))' => e.seq < Held(r).seq
    BY <2>1, <2>3, <1>17, <1>14
  <2> QED BY <2>2, <2>4
<1>20. BusInOrder'
  <2> SUFFICES ASSUME ~overtook'
               PROVE
    /\ \A i, j \in 1..Len(delivered) :
         i < j /\ delivered[i].epoch = delivered[j].epoch => delivered[i].seq < delivered[j].seq
    /\ \A i, j \in 1..Len(queue') :
         i < j /\ ~IsMarker(queue'[i]) /\ ~IsMarker(queue'[j]) => queue'[i].seq < queue'[j].seq
    /\ \A i \in 1..Len(queue'), j \in 1..Len(delivered) :
         ~IsMarker(queue'[i]) /\ delivered[j].epoch = epoch => delivered[j].seq < queue'[i].seq
    /\ \A r \in Publishers : (Waits(r))' =>
         /\ \A i \in 1..Len(queue') : queue'[i].seq < Held(r).seq
         /\ \A j \in 1..Len(delivered) : delivered[j].epoch = epoch => delivered[j].seq < Held(r).seq
    BY <1>2, <1>17 DEF BusInOrder
  <2>O. /\ \A i, j \in 1..Len(delivered) :
             i < j /\ delivered[i].epoch = delivered[j].epoch => delivered[i].seq < delivered[j].seq
        /\ \A i, j \in 1..n :
             i < j /\ ~IsMarker(queue[i]) /\ ~IsMarker(queue[j]) => queue[i].seq < queue[j].seq
        /\ \A i \in 1..n, j \in 1..Len(delivered) :
             ~IsMarker(queue[i]) /\ delivered[j].epoch = epoch => delivered[j].seq < queue[i].seq
        /\ \A r \in Publishers : Waits(r) =>
             /\ \A i \in 1..n : queue[i].seq < Held(r).seq
             /\ \A j \in 1..Len(delivered) : delivered[j].epoch = epoch => delivered[j].seq < Held(r).seq
    BY <1>1, <1>2, <1>N DEF BusInOrder
  <2>1. \A i, j \in 1..Len(queue') :
         i < j /\ ~IsMarker(queue'[i]) /\ ~IsMarker(queue'[j]) => queue'[i].seq < queue'[j].seq
    <3> SUFFICES ASSUME NEW i \in 1..Len(queue'), NEW j \in 1..Len(queue'), i < j,
                        ~IsMarker(queue'[i]), ~IsMarker(queue'[j])
                 PROVE  queue'[i].seq < queue'[j].seq
      OBVIOUS
    <3>1. i # Len(queue')
      BY <1>9
    <3>2. i + Off(q) \in 1..n /\ queue'[i] = queue[i + Off(q)]
      BY <3>1, <1>11
    <3>3. CASE queue'[j] = e
      BY <3>2, <3>3, <1>19
    <3>4. CASE j + Off(q) \in 1..n /\ queue'[j] = queue[j + Off(q)]
      <4>1. i + Off(q) < j + Off(q)
        BY <1>8, <1>9
      <4> QED BY <3>2, <3>4, <4>1, <2>O
    <3> QED BY <3>3, <3>4, <1>11
  <2>2. \A i \in 1..Len(queue'), j \in 1..Len(delivered) :
         ~IsMarker(queue'[i]) /\ delivered[j].epoch = epoch => delivered[j].seq < queue'[i].seq
    BY <1>11, <1>19, <2>O
  <2>3. \A r \in Publishers : (Waits(r))' => \A i \in 1..Len(queue') : queue'[i].seq < Held(r).seq
    <3> SUFFICES ASSUME NEW r \in Publishers, (Waits(r))', NEW i \in 1..Len(queue')
                 PROVE  queue'[i].seq < Held(r).seq
      OBVIOUS
    <3>1. CASE queue'[i] = e
      BY <3>1, <1>19
    <3>2. CASE IsMarker(queue'[i])
      BY <3>2, <1>17 DEF IsMarker
    <3>3. CASE i + Off(q) \in 1..n /\ queue'[i] = queue[i + Off(q)]
      BY <3>3, <1>17, <2>O
    <3> QED BY <3>1, <3>2, <3>3, <1>11
  <2> QED BY <2>1, <2>2, <2>3, <2>O, <1>17
<1>21. BusEntitled'
  <2>1. e \in entitled
    BY <1>1, <1>5, <1>N DEF BusEntitled
  <2>2. epoch = 0 => \A i \in 1..Len(queue') : ~IsMarker(queue'[i]) => queue'[i] \in entitled
    BY <2>1, <1>11, <1>1, <1>N DEF BusEntitled
  <2> QED BY <2>2, <1>1, <1>2, <1>17 DEF BusEntitled
<1>22. BusKept'
  <2> SUFFICES ASSUME epoch = 0, ~overtook', ~noticeLost', ~outrun
               PROVE  /\ \A x \in entitled : (Accounted(x))'
                      /\ dropped' > 0 =>
                           /\ firstDropped' <= lastDropped'
                           /\ \A i \in 1..Len(queue') : ~IsMarker(queue'[i]) => lastDropped' < queue'[i].seq
                           /\ \A r \in Publishers : (Waits(r))' => lastDropped' < Held(r).seq
    <3>1. sub # NoSub
      BY <1>N DEF Waits
    <3> QED BY <3>1, <1>2, <1>17 DEF BusKept
  <2>1. ~overtook /\ ~noticeLost /\ ~(Len(queue) >= Capacity /\ IsMarker(Head(queue)))
    BY <1>2, <1>5
  <2>2. Off(q) = 1 => ~IsMarker(queue[1])
    <3>1. Off(q) = 1 => queue # <<>>
      BY <1>10, <1>N
    <3> QED BY <3>1, <2>1, <1>8, <1>4, <1>N
  <2>K. /\ \A x \in entitled : Accounted(x)
        /\ dropped > 0 =>
             /\ firstDropped <= lastDropped
             /\ \A i \in 1..n : ~IsMarker(queue[i]) => lastDropped < queue[i].seq
    BY <2>1, <1>1, <1>N DEF BusKept, Waits
  <2>3. Off(q) = 1 => /\ queue[1].seq \in Nat /\ 1 \in 1..n /\ dropped' > 0
                      /\ firstDropped' <= queue[1].seq /\ lastDropped' = queue[1].seq
                      /\ dropped > 0 => firstDropped' = firstDropped /\ lastDropped < queue[1].seq
    <3> HAVE Off(q) = 1
    <3>1. queue[1].seq \in Nat /\ 1 \in 1..n
      BY <1>10, <1>4, <1>13
    <3>2. CASE dropped = 0
      BY <3>1, <3>2, <1>10
    <3>3. CASE dropped > 0
      <4>1. firstDropped <= lastDropped /\ lastDropped < queue[1].seq
        BY <3>3, <3>1, <2>K, <2>2
      <4>2. firstDropped' = firstDropped /\ lastDropped' = queue[1].seq /\ dropped' = dropped + 1
        BY <3>3, <1>10
      <4> QED BY <4>1, <4>2, <3>1, <1>4
    <3> QED BY <3>2, <3>3, <1>4
  <2>4. dropped' > 0 => Off(q) = 1
    BY <1>10, <1>8
  <2>5. ASSUME NEW x \in entitled PROVE (Accounted(x))'
    <3>1. Accounted(x)
      BY <2>K
    <3>2. x \in Event /\ x.seq \in Nat
      <4>1. x \in Event
        BY <1>1 DEF BusType
      <4>2. x.seq \in 1..MaxSeq
        BY <4>1, EntryFacts
      <4> QED BY <4>1, <4>2, BusAssumption
    <3>3. CASE x \in told \/ \E i \in 1..Len(delivered) : delivered[i] = x
      BY <3>3, <1>2 DEF Accounted
    <3>4. CASE \E i \in 1..Len(queue) : queue[i] = x
      <4>1. PICK i \in 1..n : queue[i] = x
        BY <3>4, <1>N
      <4>2. CASE i > Off(q)
        BY <4>1, <4>2, <1>12 DEF Accounted
      <4>3. CASE ~(i > Off(q))
        <5>1. Off(q) = 1 /\ i = 1
          BY <4>3, <1>8
        <5>2. dropped' > 0 /\ firstDropped' <= x.seq /\ x.seq <= lastDropped'
          BY <5>1, <4>1, <2>3, <3>2
        <5> QED BY <5>2 DEF Accounted
      <4> QED BY <4>2, <4>3
    <3>5. CASE \E r \in Publishers : Waits(r) /\ Held(r) = x
      <4>1. PICK r \in Publishers : Waits(r) /\ Held(r) = x
        BY <3>5
      <4>2. CASE r = p
        BY <4>1, <4>2, <1>E, <1>N DEF Accounted
      <4>3. CASE r # p
        BY <4>1, <4>3, <1>2 DEF Accounted
      <4> QED BY <4>2, <4>3
    <3>6. CASE \E i \in 1..Len(queue) : IsMarker(queue[i]) /\ queue[i].from <= x.seq /\ x.seq <= queue[i].to
      <4>1. PICK i \in 1..n : IsMarker(queue[i]) /\ queue[i].from <= x.seq /\ x.seq <= queue[i].to
        BY <3>6, <1>N
      <4>2. i > Off(q)
        BY <4>1, <2>2, <1>8
      <4> QED BY <4>1, <4>2, <1>12 DEF Accounted
    <3>7. CASE dropped > 0 /\ firstDropped <= x.seq /\ x.seq <= lastDropped
      <4>1. CASE Off(q) = 1
        <5>1. dropped' > 0 /\ firstDropped' <= x.seq /\ x.seq <= lastDropped'
          <6>1. lastDropped < queue[1].seq /\ queue[1].seq \in Nat /\ lastDropped' = queue[1].seq
                /\ dropped' > 0 /\ firstDropped' = firstDropped
            BY <4>1, <3>7, <2>3
          <6>2. \A a, b, c \in Nat : a <= b /\ b < c => a <= c
            OBVIOUS
          <6> QED BY <6>1, <6>2, <3>2, <3>7, <1>4
        <5> QED BY <5>1 DEF Accounted
      <4>2. CASE Off(q) = 0
        <5>1. Mark(q) = 1
          BY <4>2, <3>7, <1>8
        <5>2. queue'[n + 1] = Marker(dropped, firstDropped, lastDropped) /\ n + 1 \in 1..Len(queue')
          BY <5>1, <1>E
        <5>3. IsMarker(queue'[n + 1]) /\ queue'[n + 1].from <= x.seq /\ x.seq <= queue'[n + 1].to
          BY <5>2, <3>7 DEF IsMarker, Marker
        <5> QED BY <5>2, <5>3 DEF Accounted
      <4> QED BY <4>1, <4>2, <1>8
    <3> QED BY <3>1, <3>3, <3>4, <3>5, <3>6, <3>7 DEF Accounted
  <2>6. ASSUME Off(q) = 1
        PROVE  /\ \A i \in 1..Len(queue') : ~IsMarker(queue'[i]) => queue[1].seq < queue'[i].seq
               /\ \A r \in Publishers : (Waits(r))' => queue[1].seq < Held(r).seq
    <3>1. \A i, j \in 1..n : i < j /\ ~IsMarker(queue[i]) /\ ~IsMarker(queue[j]) => queue[i].seq < queue[j].seq
      BY <2>1, <1>1, <1>N DEF BusInOrder
    <3>2. \A r \in Publishers : Waits(r) => \A i \in 1..n : queue[i].seq < Held(r).seq
      BY <2>1, <1>1, <1>N DEF BusInOrder
    <3>3. ASSUME NEW i \in 1..Len(queue'), ~IsMarker(queue'[i]) PROVE queue[1].seq < queue'[i].seq
      <4>1. CASE queue'[i] = e
        BY <4>1, <2>6, <2>3, <1>19
      <4>2. CASE i + Off(q) \in 1..n /\ queue'[i] = queue[i + Off(q)]
        <5>1. i + 1 \in 1..n /\ queue'[i] = queue[i + 1] /\ 1 < i + 1
          BY <4>2, <2>6, <1>9
        <5> QED BY <5>1, <3>1, <3>3, <2>2, <2>3, <2>6
      <4> QED BY <4>1, <4>2, <3>3, <1>11
    <3> QED BY <3>2, <3>3, <2>3, <2>6, <1>17
  <2> QED BY <2>3, <2>4, <2>5, <2>6
<1> QED BY <1>15, <1>16, <1>18, <1>20, <1>21, <1>22 DEF BusIInv

\* publish, after the lock.
LEMMA EnqueueStep == ASSUME BusIInv, NEW p \in Publishers, Enqueue(p) PROVE BusIInv'
<1>1. CASE ~Waits(p)
  BY <1>1, EnqueueFrame, EnqueueNowhere
<1>2. CASE Waits(p) /\ ~Held(p).wanted
  <2>1. Push(QueueState, Held(p)) = QueueState
    BY <1>2 DEF Push
  <2>2. UNCHANGED <<queue, dropped, firstDropped, lastDropped>>
    BY <2>1, <1>2, EnqueueFrame DEF SetQueue, QueueState
  <2> QED BY <2>2, <1>2, EnqueueNowhere
<1>3. CASE Waits(p) /\ Held(p).wanted
  BY <1>3, EnqueueWanted
<1> QED BY <1>1, <1>2, <1>3

(***************************************************************************)
(* The newest event.                                                       *)
(***************************************************************************)

\* The bus has few publishers for the length of a queue.
FewPublishers == IsFiniteSet(Publishers) /\ 2 * Cardinality(Publishers) <= Capacity + 2

\* How many may still put an event behind the newest.
LEMMA OthersCount ==
  ASSUME FewPublishers
  PROVE  /\ IsFiniteSet(Others) /\ Cardinality(Others) \in Nat
         /\ \A p \in Others :
              /\ IsFiniteSet(Others \ {p}) /\ Cardinality(Others) \in Nat \ {0}
              /\ Cardinality(Others \ {p}) = Cardinality(Others) - 1
              /\ 2 * Cardinality(Others \ {p}) <= Capacity
<1>1. Others \subseteq Publishers /\ IsFiniteSet(Publishers)
  BY DEF Others, FewPublishers
<1>2. /\ IsFiniteSet(Others) /\ Cardinality(Others) <= Cardinality(Publishers)
      /\ Cardinality(Others) \in Nat /\ Cardinality(Publishers) \in Nat
  BY <1>1, FS_Subset, FS_CardinalityType
<1>3. ASSUME NEW p \in Others
      PROVE  /\ IsFiniteSet(Others \ {p}) /\ Cardinality(Others) \in Nat \ {0}
             /\ Cardinality(Others \ {p}) = Cardinality(Others) - 1
             /\ 2 * Cardinality(Others \ {p}) <= Capacity
  <2>1. IsFiniteSet(Others \ {p}) /\ Cardinality(Others \ {p}) = Cardinality(Others) - 1
    BY <1>2, FS_RemoveElement
  <2>2. Cardinality(Others \ {p}) \in Nat
    BY <2>1, FS_CardinalityType
  <2>3. \A a, b, c, d \in Nat : a = b - 1 /\ b <= d /\ 2 * d <= c + 2 => b \in Nat \ {0} /\ 2 * a <= c
    OBVIOUS
  <2> QED BY <2>1, <2>2, <2>3, <1>2, BusAssumption DEF FewPublishers
<1> QED BY <1>2, <1>3

\* A stamped event that is wanted is the newest, and waits.
LEMMA StampNewest ==
  ASSUME BusIInv, BusNewest, NEW p \in Publishers, NEW wanted \in BOOLEAN, Stamp(p, wanted)
  PROVE  BusNewest'
<1> DEFINE ev == [epoch |-> epoch, seq |-> nextSeq, wanted |-> wanted]
           it == [event |-> ev, to |-> sub]
<1>1. /\ pending[p] = <<>> /\ pending' = [pending EXCEPT ![p] = <<it>>]
      /\ entitled' = IF wanted THEN entitled \cup {ev} ELSE entitled
      /\ epoch' = epoch /\ sub' = sub /\ queue' = queue /\ delivered' = delivered /\ outrun' = outrun
  BY DEF Stamp, holeVars, clientVars, noted
<1>2. BusType /\ BusEntitled
  BY DEF BusIInv
<1>3. /\ \A r \in Publishers : r # p => (Held(r))' = Held(r) /\ (Waits(r))' = Waits(r)
      /\ (Held(p))' = ev /\ (Waits(p))' = (sub # NoSub) /\ ~Waits(p)
  <2>1. pending'[p] = <<it>> /\ \A r \in Publishers \ {p} : pending'[r] = pending[r]
    BY <1>1, <1>2 DEF BusType
  <2>2. pending'[p] # <<>> /\ pending'[p][1] = it /\ it.event = ev /\ it.to = sub
    BY <2>1
  <2> HIDE DEF ev, it
  <2> QED BY <1>1, <2>1, <2>2 DEF Held, Waits
<1> SUFFICES ASSUME epoch = 0, sub # NoSub, ~outrun, NEW x \in entitled', (Newest(x))' PROVE (AtHand(x))'
  BY <1>1 DEF BusNewest, AtHand
<1>4. CASE wanted
  <2>1. ev \in entitled' /\ ev.seq = nextSeq /\ nextSeq \in Int
    BY <1>1, <1>2, <1>4, BusAssumption DEF BusType
  <2> HIDE DEF ev
  <2>2. nextSeq <= x.seq
    BY <2>1 DEF Newest
  <2>3. x \in entitled => x.seq < nextSeq /\ x.seq \in Nat
    BY <1>2, EntryFacts, BusAssumption DEF BusEntitled, BusType
  <2>4. x = ev
    BY <2>1, <2>2, <2>3, <1>1, <1>4
  <2> QED BY <2>4, <1>3 DEF AtHand
<1>5. CASE ~wanted
  <2>1. entitled' = entitled /\ ~ev.wanted
    BY <1>1, <1>5
  <2> HIDE DEF ev
  <2>2. Newest(x)
    BY <2>1 DEF Newest
  <2>3. AtHand(x)
    BY <2>1, <2>2 DEF BusNewest, AtHand
  <2>4. Others' = Others
    <3>1. \A r \in Publishers : ((Waits(r))' /\ (Held(r))'.wanted) <=> (Waits(r) /\ Held(r).wanted)
      BY <1>3, <2>1
    <3> QED BY <3>1 DEF Others
  <2>5. \A r \in Publishers : Waits(r) => (Waits(r))' /\ (Held(r))' = Held(r)
    BY <1>3
  <2> QED BY <2>3, <2>4, <2>5, <1>1 DEF AtHand
<1> QED BY <1>4, <1>5

\* No push evicts the newest event.
LEMMA EnqueueNewest ==
  ASSUME BusIInv, BusNewest, FewPublishers, NEW p \in Publishers, Enqueue(p)
  PROVE  BusNewest'
<1> DEFINE q == QueueState  e == Held(p)  w == Push(q, e)  n == Len(queue)
<1>1. BusType /\ BusEntitled
  BY DEF BusIInv
<1>2. /\ epoch' = epoch /\ sub' = sub /\ delivered' = delivered /\ entitled' = entitled /\ outrun' = outrun
      /\ \A r \in Publishers : r # p => (Held(r))' = Held(r) /\ (Waits(r))' = Waits(r)
      /\ ~(Waits(p))' /\ pending[p] # <<>>
      /\ Waits(p) => SetQueue(w)
      /\ ~Waits(p) => UNCHANGED <<queue, dropped, firstDropped, lastDropped>>
  BY EnqueueFrame
<1> HIDE DEF w
<1>3. SUFFICES ASSUME epoch = 0, sub # NoSub, ~outrun, NEW x \in entitled, Newest(x) PROVE (AtHand(x))'
  BY <1>2 DEF BusNewest, AtHand, Newest
<1>4. AtHand(x) /\ x.wanted
  BY <1>3, <1>1 DEF BusNewest, AtHand, BusEntitled
<1>5. Others' = Others \ {p}
  BY <1>2 DEF Others
<1>6. CASE ~(Waits(p) /\ e.wanted)
  <2>1. p \notin Others
    BY <1>6 DEF Others
  <2>2. Others' = Others
    BY <2>1, <1>5
  <2>3. queue' = queue
    <3>1. CASE ~Waits(p)
      BY <3>1, <1>2
    <3>2. CASE ~e.wanted /\ Waits(p)
      <4>1. w = QueueState
        BY <3>2 DEF Push, w
      <4> QED BY <4>1, <3>2, <1>2 DEF SetQueue, QueueState
    <3> QED BY <1>6, <3>1, <3>2
  <2>4. \A r \in Publishers : Waits(r) /\ Held(r) = x => (Waits(r))' /\ (Held(r))' = x
    BY <1>2, <1>4, <1>6
  <2> QED BY <1>2, <1>4, <2>2, <2>3, <2>4 DEF AtHand
<1>7. CASE Waits(p) /\ e.wanted
  <2>1. p \in Others
    BY <1>7 DEF Others
  <2>2. /\ Cardinality(Others) \in Nat \ {0} /\ Cardinality(Others') = Cardinality(Others) - 1
        /\ 2 * Cardinality(Others') <= Capacity
    BY <2>1, <1>5, OthersCount
  <2>3. /\ q \in Queues /\ q.queue = queue /\ n \in Nat /\ Capacity \in Nat \ {0}
    BY <1>1, BusAssumption DEF BusType, Queues, QueueState
  <2>4. e \in Event
    BY <1>1, <1>2, HeldType
  <2>5. Pushed(q, e, w) /\ queue' = w.queue
    BY <2>3, <2>4, <1>7, <1>2, PushShape DEF SetQueue, w
  <2> HIDE DEF q, e, n
  <2>6. /\ Len(queue') = n - Off(q) + Mark(q) + 1 /\ queue'[Len(queue')] = e
        /\ \A i \in 1..(n - Off(q)) : queue'[i] = queue[i + Off(q)]
    BY <2>3, <2>5 DEF Pushed, n
  <2>7. Off(q) \in {0, 1} /\ Mark(q) \in {0, 1} /\ (Off(q) = 1 => n >= Capacity) /\ Off(q) <= n
    BY <2>3, <2>5 DEF Off, Mark, n, Pushed
  <2>8. Len(queue') \in Nat /\ Len(queue') \in 1..Len(queue')
    BY <2>3, <2>6, <2>7
  <2>9. CASE \E i \in 1..Len(delivered) : delivered[i] = x
    BY <2>9, <1>2 DEF AtHand
  <2>10. CASE \E r \in Publishers : Waits(r) /\ Held(r) = x
    <3>1. PICK r \in Publishers : Waits(r) /\ Held(r) = x
      BY <2>10
    <3>2. CASE r # p
      BY <3>1, <3>2, <1>2 DEF AtHand
    <3>3. CASE r = p
      <4>1. queue'[Len(queue')] = x
        BY <3>1, <3>3, <2>6 DEF e
      <4>2. Len(queue') - Len(queue') + 2 * Cardinality(Others') <= Capacity
        BY <2>2, <2>8
      <4> QED BY <4>1, <4>2, <2>8 DEF AtHand
    <3> QED BY <3>2, <3>3
  <2>11. CASE \E i \in 1..Len(queue) : queue[i] = x /\ Len(queue) - i + 2 * Cardinality(Others) <= Capacity
    <3>1. PICK i \in 1..n : queue[i] = x /\ n - i + 2 * Cardinality(Others) <= Capacity
      BY <2>11 DEF n
    <3>3. /\ i > Off(q) /\ i - Off(q) \in 1..(n - Off(q)) /\ i - Off(q) \in 1..Len(queue')
          /\ (i - Off(q)) + Off(q) = i
          /\ Len(queue') - (i - Off(q)) + 2 * Cardinality(Others') <= Capacity
      <4>1. Cardinality(Others') \in Nat /\ Cardinality(Others) \in Nat /\ Cardinality(Others) > 0 /\ i \in Nat
        BY <2>2
      <4>2. i \in 1..n /\ n - i + 2 * Cardinality(Others) <= Capacity
        BY <3>1
      <4>3. /\ Cardinality(Others') = Cardinality(Others) - 1 /\ Capacity \in Nat /\ n \in Nat
            /\ Off(q) \in {0, 1} /\ Mark(q) \in {0, 1} /\ (Off(q) = 1 => n >= Capacity)
            /\ Len(queue') \in Nat /\ Len(queue') = n - Off(q) + Mark(q) + 1
        BY <2>2, <2>3, <2>6, <2>7, <2>8
      <4> DEFINE c == Cardinality(Others)  d == Cardinality(Others')  l == Len(queue')
                 o == Off(q)  a == Mark(q)
      <4>4. /\ c \in Nat /\ c > 0 /\ d \in Nat /\ d = c - 1 /\ l \in Nat /\ o \in {0, 1} /\ a \in {0, 1}
            /\ i \in 1..n /\ n - i + 2 * c <= Capacity /\ (o = 1 => n >= Capacity) /\ l = n - o + a + 1
        BY <4>1, <4>2, <4>3
      <4> HIDE DEF c, d, l, o, a
      <4>5. /\ i > o /\ i - o \in 1..(n - o) /\ i - o \in 1..l /\ (i - o) + o = i
            /\ l - (i - o) + 2 * d <= Capacity
        BY <4>4, <4>3
      <4> QED BY <4>5 DEF c, d, l, o, a
    <3>4. queue'[i - Off(q)] = x
      BY <3>1, <3>3, <2>6
    <3> QED BY <3>3, <3>4 DEF AtHand
  <2> QED BY <1>4, <2>9, <2>10, <2>11 DEF AtHand
<1> QED BY <1>6, <1>7

\* The newest event moves on, or is delivered.
LEMMA RecvNewest == ASSUME BusIInv, BusNewest, FewPublishers, Recv PROVE BusNewest'
<1> DEFINE e == queue[1]  n == Len(queue)
<1>1. /\ sub # NoSub /\ queue # <<>>
      /\ epoch' = epoch /\ pending' = pending /\ sub' = sub /\ entitled' = entitled /\ outrun' = outrun
  BY DEF Recv, busVars, holeVars, noted
<1>2. BusType /\ BusEntitled
  BY DEF BusIInv
<1>3. /\ n \in Nat /\ n > 0 /\ Head(queue) = e /\ Len(queue') = n - 1
      /\ \A i \in 1..(n - 1) : queue'[i] = queue[i + 1]
  BY <1>1, <1>2, FirstAndRest DEF BusType, Recv
<1>4. delivered \in Seq(Event) /\ (IsMarker(e) => delivered' = delivered)
      /\ (~IsMarker(e) => delivered' = Append(delivered, e))
  BY <1>2, <1>3 DEF BusType, Recv, RouteMessage
<1>5. Others' = Others /\ \A p \in Publishers : (Held(p))' = Held(p) /\ (Waits(p))' = Waits(p)
  BY <1>1 DEF Held, Waits, Others
<1>6. SUFFICES ASSUME epoch = 0, sub # NoSub, ~outrun, NEW x \in entitled, Newest(x) PROVE (AtHand(x))'
  BY <1>1 DEF BusNewest, AtHand, Newest
<1>7. AtHand(x) /\ x \in Event /\ ~IsMarker(x)
  <2>1. x \in Event
    BY <1>2 DEF BusType
  <2>2. AtHand(x)
    BY <1>6 DEF BusNewest, AtHand
  <2> QED BY <2>1, <2>2, EntryFacts
<1> HIDE DEF e, n
<1>8. CASE \E i \in 1..Len(delivered) : delivered[i] = x
  <2>1. PICK i \in 1..Len(delivered) : delivered[i] = x
    BY <1>8
  <2>2. i \in 1..Len(delivered') /\ delivered'[i] = x
    <3>1. CASE IsMarker(e)
      BY <3>1, <2>1, <1>4
    <3>2. CASE ~IsMarker(e)
      <4>1. e \in Entry
        BY <1>2, <1>3 DEF BusType, e, n
      <4>2. e \in Event
        BY <3>2, <4>1, EntryFacts
      <4> QED BY <3>2, <4>2, <2>1, <1>4
    <3> QED BY <3>1, <3>2
  <2> QED BY <2>2 DEF AtHand
<1>9. CASE \E p \in Publishers : Waits(p) /\ Held(p) = x
  BY <1>9, <1>5 DEF AtHand
<1>10. CASE \E i \in 1..Len(queue) : queue[i] = x /\ Len(queue) - i + 2 * Cardinality(Others) <= Capacity
  <2>1. PICK i \in 1..n : queue[i] = x /\ n - i + 2 * Cardinality(Others) <= Capacity
    BY <1>10 DEF n
  <2>2. CASE i = 1
    <3>1. delivered' = Append(delivered, x)
      BY <2>1, <2>2, <1>4, <1>7 DEF e
    <3>2. Len(delivered) + 1 \in 1..Len(delivered') /\ delivered'[Len(delivered) + 1] = x
      BY <3>1, <1>4, <1>7
    <3> QED BY <3>2 DEF AtHand
  <2>3. CASE i > 1
    <3>1. i - 1 \in 1..(n - 1) /\ (i - 1) + 1 = i /\ (n - 1) - (i - 1) = n - i
      BY <2>3, <1>3
    <3>2. queue'[i - 1] = x
      BY <3>1, <2>1, <1>3
    <3>3. i - 1 \in 1..Len(queue') /\ Len(queue') - (i - 1) + 2 * Cardinality(Others') <= Capacity
      BY <3>1, <2>1, <1>3, <1>5
    <3> QED BY <3>2, <3>3 DEF AtHand
  <2> QED BY <2>2, <2>3, <1>3
<1> QED BY <1>7, <1>8, <1>9, <1>10 DEF AtHand

\* The replay ends with the newest event.
LEMMA SubscribeNewest == ASSUME BusIInv, BusNewest, SubscribeAgain PROVE BusNewest'
<1> DEFINE q == Replayed
<1>1. /\ sub = NoSub /\ queue' = q.queue /\ sub' = nextSub
      /\ entitled' = (IF lastSeq = 0 THEN {} ELSE entitled) /\ outrun' = (outrun \/ Outruns)
      /\ epoch' = epoch /\ pending' = pending /\ delivered' = delivered
  BY DEF SubscribeAgain, SetQueue, busVars, clientVars
<1>2. BusType /\ BusRow /\ BusEntitled /\ BusIInv'
  BY SubscribeAgainStep DEF BusIInv
<1>3. RingRow
  BY <1>2, BusAssumption DEF RingRow, BusType, BusRow
<1>4. Caught(Len(ring), q)
  BY <1>3, ReplayCaught
<1> HIDE DEF q
<1>5. /\ Len(ring) \in Nat /\ nextSeq \in Nat /\ lastSeq \in Nat /\ nextSub \in Nat /\ Capacity \in Nat
      /\ Len(q.queue) \in Nat
  BY <1>2, <1>4, BusAssumption DEF BusType, Caught, Queues
<1>6. Others' = {}
  <2>1. ASSUME NEW p \in Publishers, pending[p] # <<>> PROVE pending[p][1].to # nextSub
    <3>1. pending[p][1].to < nextSub
      BY <2>1, <1>2 DEF BusRow
    <3> QED BY <3>1, <1>5
  <2>2. \A p \in Publishers : ~(Waits(p))'
    BY <2>1, <1>1 DEF Waits
  <2> QED BY <2>2 DEF Others
<1>7. SUFFICES ASSUME epoch = 0, ~outrun', NEW x \in entitled', (Newest(x))' PROVE (AtHand(x))'
  BY <1>1 DEF BusNewest, AtHand
<1>8. x \in entitled /\ lastSeq # 0 /\ entitled' = entitled /\ x.wanted /\ x.seq < nextSeq /\ ~Outruns
  <2>1. ~Outruns
    BY <1>1, <1>7, Zenon
  <2> QED BY <2>1, <1>1, <1>2 DEF BusEntitled
<1>9. x \in Event /\ x.seq \in Nat
  BY <1>8, <1>2, EntryFacts, BusAssumption DEF BusType
<1>10. PICK k \in 1..Len(delivered) : delivered[k].seq = lastSeq
  BY <1>8, <1>2 DEF BusRow
<1>11. delivered[k] \in entitled
  BY <1>7, <1>2 DEF BusEntitled
<1>12. lastSeq <= x.seq
  BY <1>7, <1>8, <1>10, <1>11 DEF Newest
<1>13. CASE x.seq = lastSeq
  <2>1. x = delivered[k]
    BY <1>8, <1>10, <1>11, <1>13, <1>2 DEF BusEntitled
  <2> QED BY <2>1, <1>1 DEF AtHand
<1>14. CASE x.seq > lastSeq
  <2> DEFINE j == x.seq - (nextSeq - Len(ring)) + 1
  <2>1. j \in 1..Len(ring) /\ nextSeq - Len(ring) + j - 1 = x.seq
    <3>1. nextSeq - Len(ring) <= lastSeq + 1
      BY <1>8, <1>5 DEF Outruns
    <3>2. \A a, b, c, d \in Nat : a < b /\ b - c <= d + 1 /\ a > d =>
            /\ a - (b - c) + 1 \in 1..c
            /\ b - c + (a - (b - c) + 1) - 1 = a
      OBVIOUS
    <3> QED BY <3>1, <3>2, <1>8, <1>9, <1>14, <1>5
  <2> HIDE DEF j
  <2>2. ring[j].seq = x.seq
    BY <2>1, <1>2 DEF BusRow
  <2>3. ring[j] = x
    BY <2>1, <2>2, <1>8, <1>2 DEF BusEntitled
  <2>4. Missed(ring[j]) /\ ring[j].wanted
    BY <2>3, <1>8, <1>14 DEF Missed
  <2> DEFINE l == Len(q.queue)
  <2>5. l > 0 /\ x.seq <= q.queue[l].seq
    BY <2>1, <2>3, <2>4, <1>4 DEF Caught
  <2>6. l \in 1..l /\ l \in Nat
    BY <2>5, <1>5
  <2>7. q.queue[l] \in entitled
    <3>1. PICK i \in 1..Len(ring) : q.queue[l] = ring[i]
      BY <2>6, <1>4 DEF Caught
    <3>2. ring[i] \in Event
      BY <1>2 DEF BusType
    <3>3. ~IsMarker(ring[i])
      BY <3>2, EntryFacts
    <3>4. epoch' = 0 => \A m \in 1..Len(queue') : ~IsMarker(queue'[m]) => queue'[m] \in entitled'
      BY <1>2 DEF BusIInv, BusEntitled
    <3> QED BY <3>1, <3>3, <3>4, <2>6, <1>1, <1>7, <1>8
  <2>8. q.queue[l] = x
    <3>1. q.queue[l].seq <= x.seq
      BY <2>7, <1>7, <1>8 DEF Newest
    <3>2. q.queue[l] \in Event
      BY <2>7, <1>2 DEF BusType
    <3>3. q.queue[l].seq \in 1..MaxSeq
      BY <3>2, EntryFacts
    <3>4. \A a \in 1..MaxSeq, b \in Nat : a <= b /\ b <= a => a = b
      BY BusAssumption
    <3>5. q.queue[l].seq = x.seq
      BY <3>1, <3>3, <3>4, <2>5, <1>9, Zenon
    <3> QED BY <3>5, <2>7, <1>8, <1>2 DEF BusEntitled
  <2>9. Cardinality(Others') = 0
    BY <1>6, FS_EmptySet
  <2>10. l - l + 2 * Cardinality(Others') <= Capacity
    BY <2>6, <2>9, <1>5
  <2> QED BY <2>6, <2>8, <2>10, <1>1 DEF AtHand
<1> QED BY <1>12, <1>13, <1>14, <1>9, <1>5

(***************************************************************************)
(* The invariants.                                                         *)
(***************************************************************************)

\* The invariants hold at first.
LEMMA BusStart == ASSUME Init PROVE BusIInv /\ BusNewest
<1>1. /\ epoch = 0 /\ nextSeq = 1 /\ ring = <<>> /\ pending = [p \in Publishers |-> <<>>]
      /\ sub = 0 /\ nextSub = 1 /\ queue = <<>> /\ dropped = 0 /\ firstDropped = 0 /\ lastDropped = 0
      /\ lastSeq = 0 /\ delivered = <<>> /\ told = {} /\ entitled = {}
      /\ overtook = FALSE /\ noticeLost = FALSE /\ outrun = FALSE
  BY DEF Init
<1>2. \A p \in Publishers : pending[p] = <<>> /\ Len(pending[p]) = 0 /\ ~Waits(p)
  BY <1>1 DEF Waits
<1>3. /\ \A i \in 1..Len(queue) : FALSE
      /\ \A i \in 1..Len(delivered) : FALSE
      /\ \A i \in 1..Len(ring) : FALSE
  BY <1>1
<1>4. BusType
  <2>1. pending \in [Publishers -> Seq(Items)] /\ \A p \in Publishers : Len(pending[p]) <= 1
    BY <1>1, <1>2
  <2>2. /\ ring \in Seq(Event) /\ Len(ring) <= RingCapacity
        /\ queue \in Seq(Entry) /\ Len(queue) <= Capacity + 1 /\ delivered \in Seq(Event)
    BY <1>1, BusAssumption
  <2>3. /\ epoch \in 0..MaxRestarts /\ nextSeq \in 1..(MaxSeq + 1) /\ nextSub \in 0..(MaxReconnects + 1)
        /\ sub \in 0..MaxReconnects /\ lastSeq \in 0..MaxSeq
    BY <1>1, BusAssumption
  <2> QED BY <1>1, <2>1, <2>2, <2>3 DEF BusType
<1>5. BusRow
  BY <1>1, <1>2, <1>3 DEF BusRow, NoSub
<1>6. BusOnce /\ BusInOrder /\ BusEntitled /\ BusKept /\ BusNewest
  BY <1>1, <1>2, <1>3 DEF BusOnce, BusInOrder, BusEntitled, BusKept, BusNewest
<1> QED BY <1>4, <1>5, <1>6 DEF BusIInv

\* A step that changes nothing.
LEMMA BusStutter == ASSUME BusIInv, UNCHANGED vars PROVE BusIInv' /\ (BusNewest => BusNewest')
<1>1. /\ epoch' = epoch /\ nextSeq' = nextSeq /\ ring' = ring /\ pending' = pending /\ sub' = sub
      /\ nextSub' = nextSub /\ queue' = queue /\ dropped' = dropped /\ firstDropped' = firstDropped
      /\ lastDropped' = lastDropped /\ lastSeq' = lastSeq /\ delivered' = delivered /\ told' = told
      /\ entitled' = entitled /\ overtook' = overtook /\ noticeLost' = noticeLost /\ outrun' = outrun
  BY DEF vars, busVars, holeVars, clientVars, noted
<1>2. /\ \A p \in Publishers : (Held(p))' = Held(p) /\ (Waits(p))' = Waits(p)
      /\ Others' = Others
  BY <1>1 DEF Held, Waits, Others
<1>3. \A x : (Accounted(x))' = Accounted(x) /\ (Newest(x))' = Newest(x)
             /\ (AtHand(x))' = AtHand(x)
  BY <1>1, <1>2 DEF Accounted, Newest, AtHand
<1>4. BusType' /\ BusRow' /\ BusOnce'
  BY <1>1, <1>2 DEF BusIInv, BusType, BusRow, BusOnce
<1>5. BusInOrder' /\ BusEntitled' /\ BusKept'
  BY <1>1, <1>2, <1>3 DEF BusIInv, BusInOrder, BusEntitled, BusKept
<1>6. BusNewest => BusNewest'
  BY <1>1, <1>2, <1>3 DEF BusNewest
<1> QED BY <1>4, <1>5, <1>6 DEF BusIInv

\* Every step keeps the inductive invariant.
LEMMA BusStep == ASSUME BusIInv, [Next]_vars PROVE BusIInv'
<1>1. ASSUME NEW p \in Publishers, NEW wanted \in BOOLEAN, Stamp(p, wanted) PROVE BusIInv'
  BY <1>1, StampStep
<1>2. ASSUME NEW p \in Publishers, Enqueue(p) PROVE BusIInv'
  BY <1>2, EnqueueStep
<1>3. CASE Recv
  BY <1>3, RecvStep
<1>4. CASE Disconnect
  BY <1>4, DisconnectStep
<1>5. CASE SubscribeAgain
  BY <1>5, SubscribeAgainStep
<1>6. CASE Restart
  BY <1>6, RestartStep
<1>7. CASE UNCHANGED vars
  BY <1>7, BusStutter
<1> QED BY <1>1, <1>2, <1>3, <1>4, <1>5, <1>6, <1>7 DEF Next

\* Every step keeps the newest event at hand.
LEMMA NewestStep == ASSUME FewPublishers, BusIInv, BusNewest, [Next]_vars PROVE BusNewest'
<1>1. ASSUME NEW p \in Publishers, NEW wanted \in BOOLEAN, Stamp(p, wanted) PROVE BusNewest'
  BY <1>1, StampNewest
<1>2. ASSUME NEW p \in Publishers, Enqueue(p) PROVE BusNewest'
  BY <1>2, EnqueueNewest
<1>3. CASE Recv
  BY <1>3, RecvNewest
<1>4. CASE Disconnect
  <2>1. sub' = NoSub
    BY <1>4 DEF Disconnect
  <2> QED BY <2>1 DEF BusNewest
<1>5. CASE SubscribeAgain
  BY <1>5, SubscribeNewest
<1>6. CASE Restart
  <2>1. sub' = NoSub
    BY <1>6 DEF Restart
  <2> QED BY <2>1 DEF BusNewest
<1>7. CASE UNCHANGED vars
  BY <1>7, BusStutter
<1> QED BY <1>1, <1>2, <1>3, <1>4, <1>5, <1>6, <1>7 DEF Next

\* The places of an event, as the properties name them.
LEMMA Places ==
  ASSUME BusIInv, NEW x \in entitled
  PROVE  /\ \A i \in 1..Len(delivered) : delivered[i] = x => x \in ToSet(delivered)
         /\ \A i \in 1..Len(queue) : queue[i] = x => x \in InQueue
         /\ \A p \in Publishers : Waits(p) /\ Held(p) = x => x \in Coming
<1>1. BusType
  BY DEF BusIInv
<1>2. x \in Event /\ ~IsMarker(x)
  BY <1>1, EntryFacts DEF BusType
<1>3. ASSUME NEW i \in 1..Len(delivered), delivered[i] = x PROVE x \in ToSet(delivered)
  BY <1>3, <1>1 DEF ToSet, BusType
<1>4. ASSUME NEW i \in 1..Len(queue), queue[i] = x PROVE x \in InQueue
  BY <1>4, <1>1, <1>2 DEF ToSet, BusType, InQueue
<1>5. ASSUME NEW p \in Publishers, Waits(p), Held(p) = x PROVE x \in Coming
  <2>1. pending[p] # <<>> /\ pending[p][1].to = sub
    BY <1>5 DEF Waits
  <2>2. pending[p][1] \in Items /\ pending[p][1] \in ToSet(pending[p])
    BY <2>1, <1>1, HeldType
  <2>3. pending[p][1] = [event |-> x, to |-> sub]
    BY <2>1, <2>2, <1>5 DEF Items, Held
  <2> QED BY <2>2, <2>3 DEF Coming
<1> QED BY <1>3, <1>4, <1>5

\* The newest event, as the property names its places.
LEMMA NewestIsThere == ASSUME BusIInv, BusNewest PROVE NewestGetsThrough
<1> SUFFICES ASSUME sub # NoSub, epoch = 0, ~outrun, NEW x \in entitled, \A y \in entitled : y.seq <= x.seq
             PROVE  x \in ToSet(delivered) \cup InQueue \cup Coming
  BY DEF NewestGetsThrough
<1>1. AtHand(x)
  BY DEF BusNewest, AtHand, Newest
<1> QED BY <1>1, Places DEF AtHand

\* The types of the bus.
LEMMA TypesHold == ASSUME BusIInv PROVE TypeOK
<1>1. BusType /\ BusRow
  BY DEF BusIInv
<1>2. ASSUME NEW p \in Publishers, NEW it \in ToSet(pending[p]) PROVE it.event \in Event
  <2>1. pending[p] \in Seq(Items)
    BY <1>1 DEF BusType
  <2>2. it \in Items
    BY <2>1 DEF ToSet
  <2> QED BY <2>2 DEF Items
<1>3. \A e \in ToSet(queue) : IsMarker(e) \/ e \in Event
  <2>1. \A e \in ToSet(queue) : e \in Entry
    BY <1>1 DEF ToSet, BusType
  <2> QED BY <2>1, EntryFacts
<1>4. ToSet(delivered) \subseteq Event
  BY <1>1 DEF ToSet, BusType
<1>5. sub \in (0..nextSub) \cup {NoSub}
  BY <1>1, BusAssumption DEF BusType, BusRow, NoSub
<1>6. {overtook, noticeLost, outrun} \subseteq BOOLEAN
  BY <1>1, Zenon DEF BusType
<1>7. {dropped, firstDropped, lastDropped} \subseteq Nat
  BY <1>1 DEF BusType
<1> QED BY <1>1, <1>2, <1>3, <1>4, <1>5, <1>6, <1>7 DEF TypeOK, BusType

\* What is accounted for is no silent gap.
LEMMA KeptIsGapless == ASSUME BusIInv PROVE NoSilentGap
<1> SUFFICES ASSUME epoch = 0, ~overtook, ~noticeLost, ~outrun, sub # NoSub, NEW x \in entitled
             PROVE  \/ x \in ToSet(delivered) \cup told
                    \/ x \in InQueue \cup Coming \cup MarkedInQueue \cup InHole
  BY DEF NoSilentGap, Gapless
<1>1. BusType /\ BusEntitled /\ BusKept
  BY DEF BusIInv
<1>2. Accounted(x)
  BY <1>1 DEF BusKept
<1>3. x.epoch = epoch /\ x \in Event /\ x.seq \in Nat
  BY <1>1, EntryFacts, BusAssumption DEF BusEntitled, BusType
<1>4. ASSUME NEW i \in 1..Len(queue), IsMarker(queue[i]), queue[i].from <= x.seq, x.seq <= queue[i].to
      PROVE  x \in MarkedInQueue
  <2>1. queue[i] \in Entry /\ queue[i] \in ToSet(queue)
    BY <1>1 DEF BusType, ToSet
  <2>2. queue[i].from \in Nat /\ queue[i].to \in Nat
    BY <2>1, <1>4 DEF Entry, Event, IsMarker
  <2>3. x.seq \in queue[i].from..queue[i].to
    BY <2>2, <1>3, <1>4
  <2> QED BY <2>1, <2>3, <1>3, <1>4 DEF MarkedInQueue
<1>5. ASSUME dropped > 0, firstDropped <= x.seq, x.seq <= lastDropped PROVE x \in InHole
  <2>1. x.seq \in firstDropped..lastDropped
    BY <1>5, <1>3, <1>1 DEF BusType
  <2> QED BY <2>1, <1>3, <1>5 DEF InHole
<1> QED BY <1>2, <1>4, <1>5, Places DEF Accounted

\* In the life of one daemon nothing the subscriber asked for is skipped
\* without a word, but for an overtaken publisher, a lost marker and a ring
\* that no longer reaches back: for any number of publishers, any capacities,
\* reconnects and restarts.
THEOREM GapSafe == Spec => []NoSilentGap
<1>1. Init => BusIInv
  BY BusStart
<1>2. BusIInv /\ [Next]_vars => BusIInv'
  BY BusStep
<1>3. BusIInv => NoSilentGap
  BY KeptIsGapless
<1> QED BY <1>1, <1>2, <1>3, PTL DEF Spec

\* The queue of a slow subscriber is bounded and lets the newest event through,
\* and events arrive once and in order, when the queue has room for what the
\* publishers may put behind an event.
THEOREM BusSafe == ASSUME FewPublishers PROVE Spec => []BusInv
<1>1. Init => BusIInv /\ BusNewest
  BY BusStart
<1>2. BusIInv /\ BusNewest /\ [Next]_vars => BusIInv' /\ BusNewest'
  BY BusStep, NewestStep
<1>3. BusIInv /\ BusNewest => BusInv
  <2> SUFFICES ASSUME BusIInv, BusNewest PROVE BusInv
    OBVIOUS
  <2>1. QueueBounded /\ NoDuplicates /\ InPublishOrder
    BY DEF BusIInv, BusType, BusOnce, BusInOrder, QueueBounded, NoDuplicates, InPublishOrder
  <2> QED BY <2>1, TypesHold, NewestIsThere DEF BusInv
<1> QED BY <1>1, <1>2, <1>3, PTL DEF Spec

==============================================================================
