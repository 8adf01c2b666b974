------------------------------- MODULE EventBus -------------------------------
(***************************************************************************)
(* homie-engine/src/events.rs: the event bus, its replay ring and one      *)
(* subscriber's bounded queue; homie-client's reconnecting consumer, which *)
(* remembers the largest seq it saw and resumes from it.                   *)
(*                                                                         *)
(* publish stamps an event, archives it and notes who is subscribed under  *)
(* the bus lock, and enqueues after releasing it, so two publishers may    *)
(* enqueue in either order.  An event is its daemon epoch, its seq and     *)
(* whether the subscriber's filter admits it.  Subscribers share nothing   *)
(* but the ring: one is modelled.  The forwarder thread between the queue  *)
(* and the socket is merged with the client's read.                        *)
(***************************************************************************)
EXTENDS Integers, Sequences, SequencesExt, FiniteSets

CONSTANTS
  Publishers,        \* threads that publish
  RingCapacity,      \* ring_capacity
  Capacity,          \* subscriber_capacity
  MaxSeq,            \* bound: events one daemon publishes
  MaxReconnects,     \* bound: subscriptions after the first
  MaxRestarts        \* bound: daemon restarts

ASSUME BusAssumption ==
  /\ RingCapacity \in Nat /\ Capacity \in Nat \ {0}
  /\ MaxSeq \in Nat /\ MaxReconnects \in Nat /\ MaxRestarts \in Nat

VARIABLES
  epoch,        \* daemon restarts so far
  nextSeq,      \* BusInner::next_seq
  ring,         \* archived events, oldest first
  pending,      \* per publisher: stamped, not yet enqueued events
  sub,          \* the live subscription's id, or NoSub
  nextSub,      \* BusInner::next_subscriber
  queue,        \* its queue: events and drop markers
  dropped, firstDropped, lastDropped,   \* the hole not announced yet
  lastSeq,      \* client: the largest seq seen (client.rs, fetch_max)
  delivered,    \* client: what it was given, in order
  told,         \* client: events some marker told it were dropped
  entitled,     \* history: admitted events stamped since it first subscribed
  overtook,     \* history: an event was enqueued before one with a smaller seq
  noticeLost,   \* history: a hole went untold: its marker evicted, or the stream gone
  outrun        \* history: the ring no longer reached back to where the client resumed

busVars    == <<epoch, nextSeq, ring>>
holeVars   == <<dropped, firstDropped, lastDropped>>
clientVars == <<lastSeq, delivered, told>>
noted      == <<overtook, noticeLost, outrun>>
vars == <<busVars, pending, sub, nextSub, queue, holeVars, clientVars, entitled, noted>>

NoSub    == -1
Event    == [epoch : 0..MaxRestarts, seq : 1..MaxSeq, wanted : BOOLEAN]
IsMarker(e) == e.seq = 0
Marker(count, from, to) == [seq |-> 0, dropped |-> count, from |-> from, to |-> to]

TypeOK ==
  /\ epoch \in 0..MaxRestarts /\ nextSeq \in 1..MaxSeq + 1
  /\ ring \in Seq(Event) /\ Len(ring) <= RingCapacity
  /\ \A p \in Publishers : \A q \in ToSet(pending[p]) : q.event \in Event
  /\ nextSub \in 0..MaxReconnects + 1
  /\ sub \in 0..nextSub \cup {NoSub}
  /\ \A e \in ToSet(queue) : IsMarker(e) \/ e \in Event
  /\ {dropped, firstDropped, lastDropped} \subseteq Nat
  /\ lastSeq \in 0..MaxSeq
  /\ ToSet(delivered) \subseteq Event /\ told \subseteq Event /\ entitled \subseteq Event
  /\ {overtook, noticeLost, outrun} \subseteq BOOLEAN

Init ==
  /\ epoch = 0 /\ nextSeq = 1 /\ ring = <<>>
  /\ pending = [p \in Publishers |-> <<>>]
  /\ sub = 0 /\ nextSub = 1
  /\ queue = <<>> /\ dropped = 0 /\ firstDropped = 0 /\ lastDropped = 0
  /\ lastSeq = 0 /\ delivered = <<>> /\ told = {}
  /\ entitled = {} /\ overtook = FALSE /\ noticeLost = FALSE /\ outrun = FALSE

-----------------------------------------------------------------------------
(* SubscriberQueue::push, on q = [queue, dropped, first, last].            *)

Evict(q) ==
  LET oldest == Head(q.queue) IN
  [queue   |-> Tail(q.queue),
   dropped |-> q.dropped + 1,
   first   |-> IF q.dropped = 0 THEN oldest.seq ELSE q.first,
   last    |-> oldest.seq]

\* Mutant: the count starts over and no marker is put.
AnnounceNothing(q) == [q EXCEPT !.dropped = 0]

Announce(q) ==
  [q EXCEPT !.queue = Append(@, Marker(q.dropped, q.first, q.last)), !.dropped = 0]

Push(q, e) ==
  IF ~e.wanted THEN q
  ELSE LET room == IF Len(q.queue) >= Capacity THEN Evict(q)
                   ELSE IF q.dropped > 0 THEN Announce(q) ELSE q
       IN [room EXCEPT !.queue = Append(@, e)]

QueueState == [queue |-> queue, dropped |-> dropped, first |-> firstDropped, last |-> lastDropped]
SetQueue(q) == queue' = q.queue /\ dropped' = q.dropped
               /\ firstDropped' = q.first /\ lastDropped' = q.last
FreshQueue == [queue |-> <<>>, dropped |-> 0, first |-> 0, last |-> 0]

-----------------------------------------------------------------------------
\* publish, under the bus lock: stamp, archive, note the subscriptions.
Stamp(p, wanted) ==
  LET event == [epoch |-> epoch, seq |-> nextSeq, wanted |-> wanted]
      longer == Append(ring, event) IN
  /\ pending[p] = <<>>
  /\ nextSeq <= MaxSeq
  /\ nextSeq' = nextSeq + 1
  /\ ring' = IF Len(longer) > RingCapacity THEN Tail(longer) ELSE longer
  /\ pending' = [pending EXCEPT ![p] = <<[event |-> event, to |-> sub]>>]
  /\ entitled' = IF wanted THEN entitled \cup {event} ELSE entitled
  /\ UNCHANGED <<epoch, sub, nextSub, queue, holeVars, clientVars, noted>>

\* What the properties make allowance for.
NoteEnqueue(e) ==
  /\ overtook' = \/ overtook
                 \/ \E p \in Publishers : \E it \in ToSet(pending[p]) : it.event.seq < e.seq
  /\ noticeLost' = \/ noticeLost
                   \/ e.wanted /\ Len(queue) >= Capacity /\ IsMarker(Head(queue))
  /\ UNCHANGED outrun

\* Mutant: the subscriptions are looked up when the event is enqueued.
EnqueueToCurrent(p) ==
  /\ pending[p] # <<>>
  /\ IF sub # NoSub THEN SetQueue(Push(QueueState, Head(pending[p]).event))
     ELSE UNCHANGED <<queue, holeVars>>
  /\ NoteEnqueue(Head(pending[p]).event)
  /\ pending' = [pending EXCEPT ![p] = <<>>]
  /\ UNCHANGED <<busVars, sub, nextSub, clientVars, entitled>>

\* publish, after the lock: a queue closed meanwhile takes nothing.
Enqueue(p) ==
  /\ pending[p] # <<>>
  /\ LET it == Head(pending[p]) IN
       /\ IF it.to = sub /\ sub # NoSub THEN SetQueue(Push(QueueState, it.event))
          ELSE UNCHANGED <<queue, holeVars>>
       /\ NoteEnqueue(it.event)
  /\ pending' = [pending EXCEPT ![p] = <<>>]
  /\ UNCHANGED <<busVars, sub, nextSub, clientVars, entitled>>

\* The client's route_message: an event raises last_seq, a marker (whose seq is
\* zero) only tells of the hole.
RouteMessage(e) ==
  IF IsMarker(e)
    THEN /\ told' = told \cup {x \in entitled : x.epoch = epoch
                                                /\ x.seq \in e.from..e.to}
         /\ UNCHANGED <<lastSeq, delivered>>
    ELSE /\ delivered' = Append(delivered, e)
         /\ lastSeq' = IF e.seq > lastSeq THEN e.seq ELSE lastSeq
         /\ UNCHANGED told

\* The forwarder passes on the oldest entry of the queue.
Recv ==
  /\ sub # NoSub /\ queue # <<>>
  /\ RouteMessage(Head(queue))
  /\ queue' = Tail(queue)
  /\ UNCHANGED <<busVars, pending, sub, nextSub, holeVars, entitled, noted>>

\* The connection breaks: the stream is dropped with whatever it holds.
Disconnect ==
  /\ sub # NoSub
  /\ sub' = NoSub
  /\ noticeLost' = (noticeLost \/ dropped > 0 \/ \E e \in ToSet(queue) : IsMarker(e))
  /\ SetQueue(FreshQueue)
  /\ UNCHANGED <<busVars, pending, nextSub, clientVars, entitled, overtook, outrun>>

\* What the client asks to be replayed: all after the last seq it saw, and
\* nothing if it saw none.
Missed(e) == lastSeq # 0 /\ e.seq > lastSeq

\* The replay pushes what was missed into the new queue, oldest first.
Replayed ==
  LET after[k \in 0..Len(ring)] ==
        IF k = 0 THEN FreshQueue
        ELSE IF Missed(ring[k]) THEN Push(after[k - 1], ring[k]) ELSE after[k - 1]
  IN after[Len(ring)]

\* Something the client has not seen has left the ring.
Outruns == lastSeq # 0 /\ nextSeq - Len(ring) > lastSeq + 1

\* subscribe: the replay goes into the new queue under the bus lock.
SubscribeAgain ==
  /\ sub = NoSub /\ nextSub <= MaxReconnects
  /\ SetQueue(Replayed)
  /\ sub' = nextSub /\ nextSub' = nextSub + 1
  \* Without a seq to resume from the client starts over.
  /\ entitled' = IF lastSeq = 0 THEN {} ELSE entitled
  /\ outrun' = (outrun \/ Outruns)
  /\ UNCHANGED <<busVars, pending, clientVars, overtook, noticeLost>>

\* The daemon is replaced: a new bus, counting from one.
Restart ==
  /\ epoch < MaxRestarts
  /\ epoch' = epoch + 1 /\ nextSeq' = 1 /\ ring' = <<>>
  /\ pending' = [p \in Publishers |-> <<>>]
  /\ sub' = NoSub /\ SetQueue(FreshQueue)
  \* What the old daemon never delivered died with it.
  /\ entitled' = {}
  /\ UNCHANGED <<nextSub, clientVars, noted>>

Next ==
  \/ \E p \in Publishers : \/ \E wanted \in BOOLEAN : Stamp(p, wanted)
                           \/ Enqueue(p)
  \/ Recv
  \/ Disconnect
  \/ SubscribeAgain
  \/ Restart

Spec == Init /\ [][Next]_vars

-----------------------------------------------------------------------------
InQueue == {e \in ToSet(queue) : ~IsMarker(e)}
Coming  == {x \in entitled : \E p \in Publishers :
                                [event |-> x, to |-> sub] \in ToSet(pending[p])}
MarkedInQueue ==
  {x \in entitled : \E m \in ToSet(queue) :
                      IsMarker(m) /\ x.epoch = epoch /\ x.seq \in m.from..m.to}
InHole == {x \in entitled : /\ dropped > 0 /\ x.epoch = epoch
                            /\ x.seq \in firstDropped..lastDropped}

\* Every event the subscriber asked for, up to the last seq it has seen, was
\* delivered, is on its way, or is inside a hole it was or will be told of.
Gapless ==
  sub # NoSub =>
    \A x \in entitled : x.seq <= lastSeq =>
      \/ x \in ToSet(delivered) \cup told
      \/ x \in InQueue \cup Coming \cup MarkedInQueue \cup InHole

\* "gapless reconnect via sinceSeq": in the life of one daemon nothing is
\* skipped without a word, unless a publisher was overtaken between the lock
\* and the queue, or the marker was lost (evicted itself, or dropped with the
\* stream it had not left), or the client stayed away until what it had not
\* seen left the ring: these three, and no other.
NoSilentGap == epoch = 0 /\ ~overtook /\ ~noticeLost /\ ~outrun => Gapless

\* Without the allowances: nothing is ever skipped without a word in the life
\* of one daemon, ...
NoSilentGapAtAll == epoch = 0 => Gapless

\* ... and none when the client comes back to another daemon.
NoGapAcrossRestarts == ~overtook /\ ~noticeLost /\ ~outrun => Gapless

\* No event reaches the client twice, however publishing, enqueueing and
\* resuming interleave.
NoDuplicates == \A i, j \in 1..Len(delivered) : delivered[i] = delivered[j] => i = j

\* Events of one epoch arrive in the order of their seqs, unless a publisher
\* was overtaken.
InPublishOrder ==
  ~overtook =>
    \A i, j \in 1..Len(delivered) :
      i < j /\ delivered[i].epoch = delivered[j].epoch => delivered[i].seq < delivered[j].seq

\* A subscriber that does not read costs at most its queue and one marker.
QueueBounded == Len(queue) <= Capacity + 1

\* "the newest state still gets through": whatever overflow evicts, in the
\* life of one daemon a connected subscriber has, or will get, the newest
\* event it asked for, as long as it comes back while the ring reaches back to
\* what it saw, and its queue has room for what the other publishers may put
\* behind that event: one event each, and a marker before it.
NewestGetsThrough ==
  sub # NoSub /\ epoch = 0 /\ ~outrun =>
    \A x \in entitled : (\A y \in entitled : y.seq <= x.seq) =>
      x \in ToSet(delivered) \cup InQueue \cup Coming

\* The queue of a slow subscriber is bounded and still lets the newest through,
\* and what arrives arrives once and in order.
BusInv == TypeOK /\ QueueBounded /\ NewestGetsThrough /\ NoDuplicates /\ InPublishOrder

=============================================================================
