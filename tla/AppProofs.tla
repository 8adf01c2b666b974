------------------------------ MODULE AppProofs -------------------------------
(***************************************************************************)
(* The safety of the app, for any bounds.  Reading back in a terminal: the *)
(* viewport, its cache and its fetches, and the find bar (ScrollSafe).     *)
(* The pane and its attachment: sizes, frames, states and repaints         *)
(* (PaneSafe).  The store of sessions: what it shows, hides and gives the  *)
(* terminal to (AppSafe).                                                  *)
(***************************************************************************)
EXTENDS MCPane, AppStore, Integers, FiniteSetTheorems, SequenceTheorems, WellFoundedInduction, TLAPS

-----------------------------------------------------------------------------
(* The inductive invariant.                                                *)

\* The emulator keeps at most what was written since it started.
EngineOK ==
  /\ written \in Nat /\ first \in Nat /\ seq \in Nat /\ altScreen \in BOOLEAN
  /\ first + Height <= written /\ written - first <= MaxLines
  /\ restarts \in Nat /\ fails \in Nat /\ alts \in Nat
  /\ restarts <= MaxTrouble /\ written <= MaxLines + restarts * Height
  /\ shown \in 0..written /\ alt \in BOOLEAN

\* A range that is asked for is not empty.
Proper(r) == r \in V!Ranges /\ (r = V!NoRange \/ r.lo < r.hi)

\* The viewport as its operations leave it.
ViewOK(v) ==
  /\ v = [offset |-> v.offset, anchor |-> v.anchor, live |-> v.live, known |-> v.known,
          cacheSeq |-> v.cacheSeq, cache |-> v.cache, inFlight |-> v.inFlight, queued |-> v.queued]
  /\ v.offset \in Nat /\ v.live \in 0..(MaxLines - Height) /\ v.known \in BOOLEAN
  /\ v.cacheSeq \in Nat \cup {V!None}
  /\ v.cache = [r \in DOMAIN v.cache |-> v.cache[r]] /\ DOMAIN v.cache \subseteq Nat
  /\ IsFiniteSet(DOMAIN v.cache) /\ Cardinality(DOMAIN v.cache) <= CacheCap
  /\ Proper(v.inFlight) /\ Proper(v.queued)
  /\ v.anchor = IF v.offset > 0 THEN v.live - v.offset ELSE V!NoAnchor
  /\ IF v.known THEN v.offset <= v.live ELSE v.live = 0

\* A fetch is under way or to come.
Served(v) == v.inFlight # V!NoRange \/ v.queued # V!NoRange

\* Until the first reply, a reader who is scrolled back is served.
BlindServed(v) == ~v.known /\ v.offset > 0 => Served(v)

\* A reply's rows are the Engine's as long as its content is the reply's.
ReplyOK(reply) ==
  /\ reply = [cells |-> reply.cells, live |-> reply.live, seq |-> reply.seq]
  /\ reply.live \in 0..(MaxLines - Height) /\ reply.seq \in Nat
  /\ reply.cells = [r \in DOMAIN reply.cells |-> reply.cells[r]]
  /\ DOMAIN reply.cells \subseteq Nat /\ IsFiniteSet(DOMAIN reply.cells)
  /\ restarts = 0 => reply.seq <= seq
  /\ restarts = 0 /\ reply.seq = seq => \A r \in DOMAIN reply.cells : reply.cells[r] = V!LineAt(r)

\* It has the rows that were asked for, as far as there are so many.
Answers(reply, range) ==
  \A r \in Nat : range.lo <= r /\ r < range.hi /\ r < reply.live + Height => r \in DOMAIN reply.cells

FetchOK ==
  \/ fetch = V!NoFetch /\ inFlight = V!NoRange
  \/ /\ inFlight # V!NoRange
     /\ \/ fetch = [st |-> "asked", range |-> inFlight]
        \/ fetch = [st |-> "failed"]
        \/ /\ fetch = [st |-> "answered", reply |-> fetch.reply]
           /\ ReplyOK(fetch.reply) /\ Answers(fetch.reply, inFlight)

\* A fetch that followed another asks for the whole window.
ChainOK ==
  /\ chain \in {0, 1} /\ stranded \in BOOLEAN
  /\ chain = 1 /\ inFlight # V!NoRange =>
       known /\ inFlight.lo <= live - offset /\ live - offset + Height <= inFlight.hi

CacheOK ==
  restarts = 0 =>
    /\ cacheSeq \in Nat => cacheSeq <= seq
    /\ cacheSeq = seq => \A r \in DOMAIN cache : cache[r] = V!LineAt(r)

SearchOK(s) ==
  /\ s.query \in Queries \cup {V!None} /\ s.gen \in Nat
  /\ \/ s = [st |-> "asked", query |-> s.query, gen |-> s.gen]
     \/ /\ s = [st |-> "answered", query |-> s.query, gen |-> s.gen, reply |-> s.reply, alt |-> s.alt]
        /\ ReplyOK(s.reply)

\* The matches of the query are there, or a search for them is due or under way.
Pursued ==
  query # V!None => \/ found = query \/ fails > 0 \/ "search" \in due
                    \/ \E s \in searches : s.query = query /\ s.gen = gen

\* One timer for each search that is due.
Due(k) == IF k \in due THEN 1 ELSE 0
TimersOK == Due("search") + Due("rescan") <= timers["search"] + timers["rescan"]

FindOK ==
  /\ query \in Queries \cup {V!None} /\ found \in Queries \cup {V!None} /\ gen \in Nat
  /\ due \subseteq V!Kinds /\ timers \in [V!Kinds -> Nat]
  /\ matches \subseteq Int /\ visStart \in Int
  /\ \A s \in searches : SearchOK(s)

ScrollIInv ==
  /\ EngineOK /\ ViewOK(V!View) /\ BlindServed(V!View) /\ FetchOK /\ ChainOK /\ CacheOK
  /\ V!Missing(V!View) # {} => inFlight # V!NoRange \/ stranded
  /\ FindOK /\ TimersOK /\ Pursued

-----------------------------------------------------------------------------
(* The viewport's operations.                                              *)

\* FiniteSetsExt's Max and Min, of two numbers.
LEMMA MaxOfTwo ==
  ASSUME NEW a \in Int, NEW b \in Int PROVE V!Max({a, b}) = IF a >= b THEN a ELSE b
  BY DEF V!Max

\* The same of Min.
LEMMA MinOfTwo ==
  ASSUME NEW a \in Int, NEW b \in Int PROVE V!Min({a, b}) = IF a <= b THEN a ELSE b
  BY DEF V!Min

\* The viewport counts as these proofs do.
LEMMA SameSize == \A S : V!Cardinality(S) = Cardinality(S)
  BY DEF V!Cardinality, Cardinality

\* The bounds are numbers.
LEMMA ScrollBounds ==
  /\ Height \in Nat \ {0} /\ HistoryCap \in Nat \ {0} /\ CacheCap \in Nat \ {0} /\ 3 * Height <= CacheCap
  /\ MaxLines \in Nat /\ Start \in Nat /\ Height <= Start /\ Start <= MaxLines /\ MaxTrouble \in Nat
  /\ Steps \subseteq Nat
  BY PaneAssumption DEF V!ScrollConstants

\* An offset is clamped to what the viewport knows of the history.
LEMMA ClampOK ==
  ASSUME NEW v, ViewOK(v), NEW n \in Int
  PROVE  /\ V!Clamp(v, n) \in Nat
         /\ V!Clamp(v, n) <= IF v.known THEN v.live ELSE v.offset + Height
         /\ n \in 0..v.live => V!Clamp(v, n) = n
         /\ n < 0 => V!Clamp(v, n) = 0
<1> DEFINE m == IF v.known THEN v.live ELSE v.offset + Height
<1>1. m \in Nat /\ v.live \in Nat
  BY ScrollBounds DEF ViewOK
<1>2. V!MaxOffset(v) = m
  BY <1>1, MaxOfTwo DEF V!MaxOffset
<1>3. V!Min({n, m}) = IF n <= m THEN n ELSE m
  BY <1>1, MinOfTwo
<1>4. V!Clamp(v, n) = IF V!Min({n, m}) <= 0 THEN 0 ELSE V!Min({n, m})
  <2> DEFINE k == V!Min({n, m})
  <2>1. k \in Int
    BY <1>1, <1>3
  <2>2. V!Clamp(v, n) = V!Max({0, k})
    BY <1>2 DEF V!Clamp
  <2> HIDE DEF k
  <2>3. V!Max({0, k}) = IF k <= 0 THEN 0 ELSE k
    BY <2>1, MaxOfTwo
  <2> QED BY <2>2, <2>3 DEF k
<1>5. m = (IF v.known THEN v.live ELSE v.offset + Height) /\ v.live <= m
  BY <1>1 DEF ViewOK
<1> HIDE DEF m
<1>6. /\ V!Clamp(v, n) \in Nat /\ V!Clamp(v, n) <= m
      /\ n < 0 => V!Clamp(v, n) = 0
      /\ n \in 0..m => V!Clamp(v, n) = n
  BY <1>1, <1>3, <1>4
<1> QED BY <1>1, <1>5, <1>6

\* Joining two ranges gives one, and none only of none.
LEMMA MergeOK ==
  ASSUME NEW r, NEW s, Proper(r), Proper(s), s # V!NoRange
  PROVE  Proper(V!Merge(r, s)) /\ V!Merge(r, s) # V!NoRange
<1> CASE r = V!NoRange
  BY DEF V!Merge
<1> CASE r # V!NoRange
  <2>1. r.lo \in Int /\ r.hi \in Int /\ s.lo \in Int /\ s.hi \in Int /\ r.lo < r.hi /\ s.lo < s.hi
    BY ScrollBounds DEF Proper, V!Ranges
  <2>2. V!Merge(r, s) = [lo |-> IF r.lo <= s.lo THEN r.lo ELSE s.lo,
                         hi |-> IF r.hi >= s.hi THEN r.hi ELSE s.hi]
    BY <2>1, MaxOfTwo, MinOfTwo DEF V!Merge
  <2> QED BY <2>1, <2>2 DEF Proper, V!Ranges, V!NoRange
<1> QED OBVIOUS

\* The range that is asked for holds the window, unless nothing is known yet and
\* the reader is more than a window back.
Request(v) == [lo |-> V!Max({V!Top(v) - Height, 0}), hi |-> V!Min({v.live, V!Top(v) + Height}) + Height]

\* It is a range, and holds the window.
LEMMA RequestOK ==
  ASSUME NEW v, ViewOK(v), v.offset > 0
  PROVE  /\ Request(v).lo < Request(v).hi => Proper(Request(v)) /\ Request(v) # V!NoRange
         /\ v.known \/ v.offset <= Height => Request(v).lo < Request(v).hi
         /\ v.known => Request(v).lo <= V!Top(v) /\ V!Top(v) + Height <= Request(v).hi
<1> DEFINE t == v.live - v.offset
<1>1. v.live \in Nat /\ v.offset \in Nat /\ t \in Int /\ v.live <= MaxLines - Height /\ t < v.live
  BY ScrollBounds DEF ViewOK
<1>2. Request(v) = [lo |-> IF t - Height >= 0 THEN t - Height ELSE 0,
                    hi |-> (IF v.live <= t + Height THEN v.live ELSE t + Height) + Height]
  BY <1>1, ScrollBounds, MaxOfTwo, MinOfTwo DEF Request, V!Top
<1>3. v.known => t >= 0
  BY <1>1 DEF ViewOK
<1>4. ~v.known => v.live = 0
  BY DEF ViewOK
<1>5. V!Top(v) = t
  BY DEF V!Top
<1>6. v.offset <= Height => t + Height >= v.live
  BY <1>1, ScrollBounds
<1> DEFINE lo == IF t - Height >= 0 THEN t - Height ELSE 0
           hi == (IF v.live <= t + Height THEN v.live ELSE t + Height) + Height
<1> HIDE DEF t
<1>7. /\ lo \in Int /\ hi \in Int /\ lo >= 0 /\ lo <= MaxLines /\ hi <= 2 * MaxLines
      /\ v.offset <= Height /\ ~v.known => lo < hi
      /\ v.known => lo <= t /\ t + Height <= hi /\ lo < hi
  BY <1>1, <1>3, <1>4, <1>6, ScrollBounds
<1>8. Request(v).lo = lo /\ Request(v).hi = hi /\ Request(v) = [lo |-> lo, hi |-> hi]
  BY <1>2
<1> HIDE DEF lo, hi
<1> QED BY <1>5, <1>7, <1>8, ScrollBounds DEF Proper, V!Ranges, V!NoRange

\* Before the first reply nothing of a window above the screen is there.
LEMMA BlindMissing ==
  ASSUME NEW v, ViewOK(v), ~v.known, v.offset > 0
  PROVE  V!Missing(v) # {}
<1>1. v.live = 0 /\ v.offset \in Nat /\ V!Top(v) = 0 - v.offset /\ DOMAIN v.cache \subseteq Nat
  BY DEF ViewOK, V!Top
<1>2. V!Min({v.live, V!Top(v) + Height}) = IF 0 <= V!Top(v) + Height THEN 0 ELSE V!Top(v) + Height
  <2>1. 0 \in Int /\ V!Top(v) + Height \in Int
    BY <1>1, ScrollBounds
  <2> QED BY <1>1, <2>1, MinOfTwo
<1>3. V!Top(v) \in V!Needed(v)
  BY <1>1, <1>2, ScrollBounds DEF V!Needed
<1>4. V!Top(v) \notin DOMAIN v.cache
  BY <1>1
<1> QED BY <1>1, <1>3, <1>4 DEF V!Missing

\* queue_missing queues what the window lacks, and changes nothing else.
LEMMA QueueMissingOK ==
  ASSUME NEW v, ViewOK(v)
  PROVE  LET w == V!QueueMissing(v) IN
         /\ w = [v EXCEPT !.queued = w.queued] /\ ViewOK(w)
         /\ Served(v) => Served(w)
         /\ V!Missing(v) # {} /\ (v.known \/ v.offset <= Height) => Served(w)
         /\ v.queued = V!NoRange /\ w.queued # V!NoRange =>
              w.queued = Request(v) /\ v.offset > 0 /\ V!Missing(v) # {}
         /\ v.queued = Request(v) => w = v
<1> DEFINE w == V!QueueMissing(v)
<1> DEFINE idle == V!Missing(v) = {} \/ Request(v) \in {v.inFlight, v.queued}
           bad  == ~(Request(v).lo < Request(v).hi)
<1>1. w = IF idle THEN v
          ELSE [v EXCEPT !.queued = IF Request(v).lo < Request(v).hi THEN V!Merge(@, Request(v)) ELSE @]
  BY DEF V!QueueMissing, Request
<1>2. v = [v EXCEPT !.queued = v.queued]
  BY DEF ViewOK
<1>3. V!Missing(v) # {} => v.offset > 0
  BY DEF ViewOK, V!Missing
<1>4. CASE idle \/ bad
  <2>1. w = v
    BY <1>1, <1>2, <1>4
  <2>2. V!Missing(v) # {} /\ (v.known \/ v.offset <= Height) => Served(v)
    BY <1>3, <1>4, RequestOK DEF Served
  <2> QED BY <1>2, <2>1, <2>2
<1>5. CASE ~idle /\ ~bad
  <2>1. w = [v EXCEPT !.queued = V!Merge(v.queued, Request(v))]
    BY <1>1, <1>5
  <2>2. Proper(Request(v)) /\ Request(v) # V!NoRange /\ v.offset > 0
    BY <1>3, <1>5, RequestOK
  <2>3. Proper(v.queued)
    BY DEF ViewOK
  <2>4. Proper(V!Merge(v.queued, Request(v))) /\ V!Merge(v.queued, Request(v)) # V!NoRange
    BY <2>2, <2>3, MergeOK
  <2>5. v.queued = V!NoRange => V!Merge(v.queued, Request(v)) = Request(v)
    BY DEF V!Merge
  <2>6. ViewOK(w)
    BY <2>1, <2>4 DEF ViewOK
  <2>7. w.queued = V!Merge(v.queued, Request(v))
    BY <2>1, <1>2
  <2> QED BY <1>5, <2>1, <2>2, <2>4, <2>5, <2>6, <2>7 DEF Served
<1> QED BY <1>4, <1>5

\* set_view_offset keeps the viewport well formed; from rest the window that has
\* not been seen is asked for.
LEMMA SetViewOffsetOK ==
  ASSUME NEW v, ViewOK(v), BlindServed(v), NEW n \in Int
  PROVE  LET w == V!SetViewOffset(v, n) IN
         /\ ViewOK(w) /\ BlindServed(w)
         /\ w.inFlight = v.inFlight /\ w.cache = v.cache /\ w.cacheSeq = v.cacheSeq
         /\ n = 0 => w.offset = 0
<1> DEFINE w == V!SetViewOffset(v, n)
           u == V!SyncAnchor([v EXCEPT !.offset = V!Clamp(v, n)])
<1>1. CASE V!Clamp(v, n) = v.offset
  <2>1. w = v
    BY <1>1 DEF V!SetViewOffset
  <2>2. n = 0 => v.offset = 0
    <3>1. v.live \in Nat
      BY ScrollBounds DEF ViewOK
    <3> QED BY <1>1, <3>1, ClampOK
  <2> QED BY <2>1, <2>2
<1>2. CASE V!Clamp(v, n) # v.offset
  <2>1. w = V!QueueMissing(u)
    BY <1>2 DEF V!SetViewOffset
  <2>2. u = [v EXCEPT !.offset = V!Clamp(v, n),
                      !.anchor = IF V!Clamp(v, n) > 0 THEN v.live - V!Clamp(v, n) ELSE V!NoAnchor]
    BY DEF V!SyncAnchor, ViewOK
  <2>3. ViewOK(u)
    <3>1. /\ V!Clamp(v, n) \in Nat
          /\ IF v.known THEN V!Clamp(v, n) <= v.live ELSE v.live = 0
      BY ClampOK DEF ViewOK
    <3> QED BY <2>2, <3>1 DEF ViewOK
  <2>4. /\ u.inFlight = v.inFlight /\ u.cache = v.cache /\ u.cacheSeq = v.cacheSeq /\ u.queued = v.queued
        /\ u.offset = V!Clamp(v, n) /\ u.known = v.known
    BY <2>2 DEF ViewOK
  <2>5. n = 0 => u.offset = 0
    <3>1. v.live \in Nat
      BY ScrollBounds DEF ViewOK
    <3> QED BY <2>4, <3>1, ClampOK
  <2>6. w.inFlight = u.inFlight /\ w.cache = u.cache /\ w.cacheSeq = u.cacheSeq /\ w.offset = u.offset
        /\ w.known = u.known /\ ViewOK(w)
    BY <2>1, <2>3, QueueMissingOK DEF ViewOK
  <2>7. ASSUME ~w.known, w.offset > 0 PROVE Served(w)
    <3>1. ~u.known /\ u.offset > 0 /\ ~v.known
      BY <2>4, <2>6, <2>7
    <3>2. CASE v.offset > 0
      BY <2>1, <2>3, <2>4, <3>1, <3>2, QueueMissingOK DEF Served, BlindServed
    <3>3. CASE v.offset = 0
      <4>1. u.offset <= Height
        BY <2>4, <3>1, <3>3, ClampOK, ScrollBounds DEF ViewOK
      <4> QED BY <2>1, <2>3, <3>1, <4>1, BlindMissing, QueueMissingOK
    <3> QED BY <3>2, <3>3 DEF ViewOK
  <2> QED BY <2>4, <2>5, <2>6, <2>7 DEF BlindServed
<1> QED BY <1>1, <1>2

\* begin_fetch: what is queued goes out if nothing is under way, and then all that
\* the window lacks is served.
LEMMA BeginFetchOK ==
  ASSUME NEW v, ViewOK(v), BlindServed(v)
  PROVE  LET w == V!BeginFetch(v) IN
         /\ ViewOK(w) /\ BlindServed(w)
         /\ w.offset = v.offset /\ w.anchor = v.anchor /\ w.live = v.live /\ w.known = v.known
         /\ w.cache = v.cache /\ w.cacheSeq = v.cacheSeq
         /\ V!Fetches(v) => v.inFlight = V!NoRange /\ w.inFlight # V!NoRange
         /\ ~V!Fetches(v) => w.inFlight = v.inFlight
         /\ V!Missing(w) # {} => w.inFlight # V!NoRange
         /\ V!Fetches(v) => w.inFlight = V!QueueMissing(v).queued
<1> DEFINE w == V!BeginFetch(v)
           u == V!QueueMissing(v)
<1>1. /\ u = [v EXCEPT !.queued = u.queued] /\ ViewOK(u) /\ (Served(v) => Served(u))
      /\ V!Missing(v) # {} /\ (v.known \/ v.offset <= Height) => Served(u)
  BY QueueMissingOK
<1>2. /\ u.offset = v.offset /\ u.anchor = v.anchor /\ u.live = v.live /\ u.known = v.known
      /\ u.cache = v.cache /\ u.cacheSeq = v.cacheSeq /\ u.inFlight = v.inFlight
  BY <1>1 DEF ViewOK
<1>3. V!Missing(v) # {} => Served(u)
  <2>1. V!Missing(v) # {} => v.offset > 0
    BY DEF ViewOK, V!Missing
  <2> QED BY <1>1, <2>1 DEF BlindServed, ViewOK
<1>4. BlindServed(u)
  BY <1>1, <1>2 DEF BlindServed
<1>5. CASE V!Fetches(v)
  <2>1. w = [u EXCEPT !.inFlight = u.queued, !.queued = V!NoRange]
    BY <1>5 DEF V!BeginFetch
  <2>2. u.queued # V!NoRange /\ v.inFlight = V!NoRange /\ Proper(u.queued) /\ Proper(V!NoRange)
    BY <1>1, <1>5 DEF V!Fetches, ViewOK, Proper, V!Ranges, V!NoRange
  <2>3. w.inFlight = u.queued
    BY <1>1, <2>1 DEF ViewOK
  <2>4. ViewOK(w)
    BY <1>1, <2>1, <2>2 DEF ViewOK
  <2>5. /\ w.offset = v.offset /\ w.anchor = v.anchor /\ w.live = v.live /\ w.known = v.known
        /\ w.cache = v.cache /\ w.cacheSeq = v.cacheSeq
    BY <1>2, <2>1
  <2> QED BY <1>5, <2>2, <2>3, <2>4, <2>5 DEF BlindServed, Served
<1>6. CASE ~V!Fetches(v)
  <2>1. w = u
    BY <1>6 DEF V!BeginFetch
  <2>2. V!Missing(u) = V!Missing(v)
    BY <1>2 DEF V!Missing, V!Needed, V!Top
  <2>3. V!Missing(v) # {} => v.inFlight # V!NoRange
    BY <1>2, <1>3, <1>6 DEF V!Fetches, Served
  <2> QED BY <1>1, <1>2, <1>4, <1>6, <2>1, <2>2, <2>3
<1> QED BY <1>5, <1>6

\* How far a row is from the window's top, which rows come before it when the
\* cache is cut, and which are kept.
Far(v, r) == V!Max({r - V!Top(v), V!Top(v) - r})
Before(v, r) == {s \in DOMAIN v.cache : Far(v, s) < Far(v, r) \/ (Far(v, s) = Far(v, r) /\ s > r)}
Kept(v) == {r \in DOMAIN v.cache : Cardinality(Before(v, r)) < CacheCap}

\* cap_cache_near_viewport keeps no more than the cache may hold, and the window.
LEMMA CapCacheOK ==
  ASSUME NEW v, DOMAIN v.cache \subseteq Nat, IsFiniteSet(DOMAIN v.cache), V!Top(v) \in Int
  PROVE  /\ V!CapCache(v) = [v EXCEPT !.cache = [r \in Kept(v) |-> v.cache[r]]]
         /\ Kept(v) \subseteq DOMAIN v.cache /\ IsFiniteSet(Kept(v)) /\ Cardinality(Kept(v)) <= CacheCap
         /\ \A r \in DOMAIN v.cache : V!Top(v) <= r /\ r < V!Top(v) + Height => r \in Kept(v)
<1> DEFINE D == DOMAIN v.cache
           t == V!Top(v)
           rank == [r \in Kept(v) |-> Cardinality(Before(v, r))]
<1>1. V!CapCache(v) = [v EXCEPT !.cache = [r \in Kept(v) |-> v.cache[r]]]
  BY SameSize DEF V!CapCache, Kept, Before, Far
<1>2. \A r \in D : Far(v, r) = IF r - t >= t - r THEN r - t ELSE t - r
  BY MaxOfTwo DEF Far
<1>3. \A r \in D : IsFiniteSet(Before(v, r)) /\ Cardinality(Before(v, r)) \in Nat
  <2> TAKE r \in D
  <2>1. Before(v, r) \in SUBSET D
    BY DEF Before
  <2> QED BY <2>1, FS_Subset, FS_CardinalityType
<1>4. Kept(v) \in SUBSET D
  BY DEF Kept
<1>5. ASSUME NEW r \in D, NEW s \in D, r \in Before(v, s)
      PROVE  Cardinality(Before(v, r)) < Cardinality(Before(v, s))
  <2>1. Before(v, r) \cup {r} \in SUBSET Before(v, s)
    <3>1. \A q \in D : Far(v, q) \in Int
      BY <1>2
    <3> QED BY <1>5, <3>1 DEF Before
  <2>2. r \notin Before(v, r)
    <3>1. Far(v, r) \in Int
      BY <1>2
    <3> QED BY <3>1 DEF Before
  <2>3. Cardinality(Before(v, r) \cup {r}) = Cardinality(Before(v, r)) + 1
    BY <1>3, <2>2, FS_AddElement
  <2>4. Cardinality(Before(v, r) \cup {r}) <= Cardinality(Before(v, s))
    BY <1>3, <2>1, FS_Subset
  <2> QED BY <1>3, <2>3, <2>4
<1>6. ASSUME NEW r \in D, NEW s \in D, r # s PROVE r \in Before(v, s) \/ s \in Before(v, r)
  <2>1. Far(v, r) \in Int /\ Far(v, s) \in Int /\ r \in Int /\ s \in Int
    BY <1>2
  <2> QED BY <1>6, <2>1 DEF Before
<1>7. rank \in Injection(Kept(v), 0..(CacheCap - 1))
  <2>1. rank \in [Kept(v) -> 0..(CacheCap - 1)]
    BY <1>3, <1>4, ScrollBounds DEF Kept
  <2>2. ASSUME NEW r \in Kept(v), NEW s \in Kept(v), rank[r] = rank[s] PROVE r = s
    <3>1. r \in D /\ s \in D /\ Cardinality(Before(v, r)) = Cardinality(Before(v, s))
      BY <1>4, <2>2
    <3> QED BY <1>3, <1>5, <1>6, <3>1
  <2> HIDE DEF rank
  <2> QED BY <2>1, <2>2 DEF Injection, IsInjective
<1>8. Cardinality(Kept(v)) <= CacheCap /\ IsFiniteSet(Kept(v))
  <2>1. IsFiniteSet(0..(CacheCap - 1)) /\ Cardinality(0..(CacheCap - 1)) = CacheCap
    <3>1. 0 \in Int /\ CacheCap - 1 \in Int /\ ~(0 > CacheCap - 1) /\ CacheCap - 1 - 0 + 1 = CacheCap
      BY ScrollBounds
    <3> QED BY <3>1, FS_Interval
  <2> QED BY <1>7, <2>1, FS_Injection
<1>9. ASSUME NEW r \in D, t <= r, r < t + Height PROVE r \in Kept(v)
  <2>1. \A s \in Before(v, r) : s \in (t - Height + 1)..(t + Height - 1)
    <3> TAKE s \in Before(v, r)
    <3>1. s \in D /\ s \in Int /\ r \in Int /\ Far(v, s) <= Far(v, r)
      BY <1>2 DEF Before
    <3>2. Far(v, r) = r - t
      BY <1>2, <1>9, <3>1
    <3>3. Far(v, s) = IF s - t >= t - s THEN s - t ELSE t - s
      BY <1>2, <3>1
    <3> QED BY <1>9, <3>1, <3>2, <3>3, ScrollBounds
  <2>2. /\ IsFiniteSet((t - Height + 1)..(t + Height - 1))
        /\ Cardinality((t - Height + 1)..(t + Height - 1)) = 2 * Height - 1
    <3> DEFINE a == t - Height + 1
               b == t + Height - 1
    <3>1. a \in Int /\ b \in Int /\ ~(a > b) /\ b - a + 1 = 2 * Height - 1
      BY ScrollBounds
    <3> HIDE DEF a, b
    <3>2. IsFiniteSet(a..b) /\ Cardinality(a..b) = 2 * Height - 1
      BY <3>1, FS_Interval
    <3> QED BY <3>2 DEF a, b
  <2> DEFINE near == (t - Height + 1)..(t + Height - 1)
  <2>3. Before(v, r) \in SUBSET near /\ IsFiniteSet(near) /\ Cardinality(near) = 2 * Height - 1
    BY <2>1, <2>2
  <2> HIDE DEF near
  <2>4. Cardinality(Before(v, r)) <= 2 * Height - 1
    <3>1. Cardinality(Before(v, r)) <= Cardinality(near)
      BY <2>3, FS_Subset
    <3> QED BY <2>3, <3>1
  <2> QED BY <1>3, <2>4, ScrollBounds DEF Kept
<1> QED BY <1>1, <1>4, <1>8, <1>9

\* A viewport of these fields.
Viewport(o, a, l, k, q, c, i, u) ==
  [offset |-> o, anchor |-> a, live |-> l, known |-> k, cacheSeq |-> q, cache |-> c,
   inFlight |-> i, queued |-> u]

\* apply_rows: the cache holds the reply's rows and, of the same content, older
\* ones; the row at the top stays there, so that a reply which has the whole
\* window leaves nothing missing.
LEMMA ApplyRowsOK ==
  ASSUME NEW v, ViewOK(v), NEW reply, ReplyOK(reply)
  PROVE  LET w == V!ApplyRows(v, reply) IN
         /\ ViewOK(w) /\ w.known /\ w.cacheSeq = reply.seq /\ w.inFlight = v.inFlight
         /\ \A r \in DOMAIN w.cache :
              \/ r \in DOMAIN reply.cells /\ w.cache[r] = reply.cells[r]
              \/ r \in DOMAIN v.cache /\ w.cache[r] = v.cache[r] /\ v.cacheSeq = reply.seq
         /\ w.queued # V!NoRange => w.queued = Request(w) /\ w.offset > 0 /\ V!Missing(w) # {}
         /\ \A range \in V!Ranges :
              v.known /\ range.lo <= V!Top(v) /\ V!Top(v) + Height <= range.hi /\ Answers(reply, range)
                => V!Missing(w) = {}
<1> DEFINE old == IF V!KeepsCache(v, reply) THEN v.cache ELSE V!NoRows
           rows == [r \in DOMAIN old \cup DOMAIN reply.cells |->
                      IF r \in DOMAIN reply.cells THEN reply.cells[r] ELSE old[r]]
           v1 == [v EXCEPT !.cache = rows, !.cacheSeq = reply.seq, !.live = reply.live, !.known = TRUE]
           n == IF v.anchor = V!NoAnchor THEN v.offset ELSE reply.live - v.anchor
           c == V!Clamp(v1, n)
           v2 == V!SyncAnchor([v1 EXCEPT !.offset = c])
           x == [V!CapCache(v2) EXCEPT !.queued = V!NoRange]
           w == V!ApplyRows(v, reply)
<1>1. w = V!QueueMissing(x)
  BY DEF V!ApplyRows
<1>2. /\ v.offset \in Nat /\ v.anchor \in Int /\ v.live \in Nat /\ reply.live \in Nat /\ n \in Int
      /\ reply.live <= MaxLines - Height
  BY ScrollBounds DEF ViewOK, ReplyOK, V!NoAnchor
<1>3. /\ DOMAIN old \subseteq Nat /\ IsFiniteSet(DOMAIN old)
      /\ \A r \in DOMAIN old : r \in DOMAIN v.cache /\ old[r] = v.cache[r] /\ v.cacheSeq = reply.seq
  <2>1. CASE V!KeepsCache(v, reply)
    BY <2>1 DEF ViewOK, V!KeepsCache
  <2>2. CASE ~V!KeepsCache(v, reply)
    <3>1. old = V!NoRows /\ DOMAIN V!NoRows = {}
      BY <2>2 DEF V!NoRows
    <3> QED BY <3>1, FS_EmptySet
  <2> QED BY <2>1, <2>2
<1>4. /\ DOMAIN rows = DOMAIN old \cup DOMAIN reply.cells
      /\ DOMAIN rows \subseteq Nat /\ IsFiniteSet(DOMAIN rows)
      /\ rows = [r \in DOMAIN rows |-> rows[r]]
      /\ \A r \in DOMAIN rows : \/ r \in DOMAIN reply.cells /\ rows[r] = reply.cells[r]
                                \/ r \in DOMAIN old /\ rows[r] = old[r]
  <2>1. IsFiniteSet(DOMAIN reply.cells) /\ DOMAIN reply.cells \subseteq Nat
    BY DEF ReplyOK
  <2> HIDE DEF old
  <2>2. DOMAIN rows = DOMAIN old \cup DOMAIN reply.cells
    OBVIOUS
  <2> QED BY <1>3, <2>1, <2>2, FS_Union
<1> HIDE DEF old, rows
<1>5. PICK yes : yes = TRUE
  BY Zenon
<1> HIDE DEF n
<1>5a. v1 = Viewport(v.offset, v.anchor, reply.live, yes, reply.seq, rows, v.inFlight, v.queued)
  <2> DEFINE a1 == [v EXCEPT !.cache = rows]
             a2 == [a1 EXCEPT !.cacheSeq = reply.seq]
             a3 == [a2 EXCEPT !.live = reply.live]
             a4 == [a3 EXCEPT !.known = yes]
  <2>1. v1 = [a3 EXCEPT !.known = TRUE]
    BY DEF ViewOK
  <2>2. v1 = a4
    <3> HIDE DEF a3, v1
    <3> QED BY <1>5, <2>1, Zenon
  <2> HIDE DEF v1
  <2>3. a1 = Viewport(v.offset, v.anchor, v.live, v.known, v.cacheSeq, rows, v.inFlight, v.queued)
    BY DEF ViewOK, Viewport
  <2> HIDE DEF a1
  <2>4. a2 = Viewport(v.offset, v.anchor, v.live, v.known, reply.seq, rows, v.inFlight, v.queued)
    BY <2>3 DEF Viewport
  <2> HIDE DEF a2
  <2>5. a3 = Viewport(v.offset, v.anchor, reply.live, v.known, reply.seq, rows, v.inFlight, v.queued)
    BY <2>4 DEF Viewport
  <2> HIDE DEF a3
  <2> QED BY <2>2, <2>5 DEF Viewport
<1>6. /\ V!MaxOffset(v1) = reply.live
      /\ c \in Nat /\ c <= reply.live
      /\ n \in 0..reply.live => c = n
      /\ n < 0 => c = 0
  <2>1. V!MaxOffset(v1) = reply.live
    <3>1. v1.live = reply.live /\ v1.known
      BY <1>5, <1>5a DEF Viewport
    <3> QED BY <1>2, <3>1, MaxOfTwo DEF V!MaxOffset
  <2>2. V!Min({n, reply.live}) = IF n <= reply.live THEN n ELSE reply.live
    BY <1>2, MinOfTwo
  <2> DEFINE k == V!Min({n, reply.live})
  <2>3. k \in Int
    BY <1>2, <2>2
  <2>4. c = V!Max({0, k})
    BY <2>1 DEF V!Clamp
  <2> HIDE DEF k, n, c
  <2>5. V!Max({0, k}) = IF 0 >= k THEN 0 ELSE k
    BY <2>3, MaxOfTwo
  <2> QED BY <1>2, <2>1, <2>2, <2>4, <2>5 DEF k
<1> HIDE DEF n, c
<1> DEFINE pin == IF c > 0 THEN reply.live - c ELSE V!NoAnchor
<1>7. v2 = Viewport(c, pin, reply.live, yes, reply.seq, rows, v.inFlight, v.queued)
  <2> DEFINE m == [v1 EXCEPT !.offset = c]
  <2> HIDE DEF v1
  <2>1. m = Viewport(c, v.anchor, reply.live, yes, reply.seq, rows, v.inFlight, v.queued)
    BY <1>5a DEF Viewport
  <2>2. m.offset = c /\ m.live = reply.live
    BY <2>1 DEF Viewport
  <2>3. v2 = [m EXCEPT !.anchor = pin]
    <3>1. v2 = V!SyncAnchor(m)
      OBVIOUS
    <3> HIDE DEF m, v2
    <3>2. (IF m.offset > 0 THEN m.live - m.offset ELSE V!NoAnchor) = pin
      BY <2>2
    <3> HIDE DEF pin
    <3> QED BY <3>1, <3>2, Zenon DEF V!SyncAnchor
  <2> HIDE DEF m, pin, v2
  <2> QED BY <2>1, <2>3 DEF Viewport
<1>8. V!Top(v2) = reply.live - c /\ V!Top(v2) \in Int /\ DOMAIN v2.cache = DOMAIN rows
  <2>1. v2.live = reply.live /\ v2.offset = c /\ v2.cache = rows
    BY <1>7 DEF Viewport
  <2> HIDE DEF v2
  <2> QED BY <1>2, <1>6, <2>1 DEF V!Top
<1> HIDE DEF v1, pin
<1>9. /\ V!CapCache(v2) = [v2 EXCEPT !.cache = [r \in Kept(v2) |-> v2.cache[r]]]
      /\ Kept(v2) \subseteq DOMAIN rows /\ IsFiniteSet(Kept(v2)) /\ Cardinality(Kept(v2)) <= CacheCap
      /\ \A r \in DOMAIN rows : V!Top(v2) <= r /\ r < V!Top(v2) + Height => r \in Kept(v2)
  <2> HIDE DEF v2
  <2> QED BY <1>4, <1>8, CapCacheOK
<1> DEFINE kept == [r \in Kept(v2) |-> rows[r]]
<1>10. x = Viewport(c, pin, reply.live, yes, reply.seq, kept, v.inFlight, V!NoRange)
  <2> HIDE DEF v2
  <2>1. v2.cache = rows
    BY <1>7 DEF Viewport
  <2>2. V!CapCache(v2) = [v2 EXCEPT !.cache = kept]
    BY <1>9, <2>1
  <2> HIDE DEF kept
  <2>3. V!CapCache(v2) = Viewport(c, pin, reply.live, yes, reply.seq, kept, v.inFlight, v.queued)
    BY <1>7, <2>2 DEF Viewport
  <2> QED BY <2>3 DEF Viewport, x
<1>11. DOMAIN kept = Kept(v2) /\ kept = [r \in DOMAIN kept |-> kept[r]]
       /\ \A r \in DOMAIN kept : kept[r] = rows[r]
  OBVIOUS
<1> HIDE DEF v2, kept, x
<1>11a. /\ x.offset = c /\ x.anchor = pin /\ x.live = reply.live /\ x.known = yes /\ x.cacheSeq = reply.seq
        /\ x.cache = kept /\ x.inFlight = v.inFlight /\ x.queued = V!NoRange
        /\ x = [offset |-> x.offset, anchor |-> x.anchor, live |-> x.live, known |-> x.known,
                cacheSeq |-> x.cacheSeq, cache |-> x.cache, inFlight |-> x.inFlight, queued |-> x.queued]
  BY <1>10 DEF Viewport
<1>12. ViewOK(x)
  <2>1. Proper(V!NoRange) /\ Proper(v.inFlight)
    BY ScrollBounds DEF Proper, V!Ranges, V!NoRange, ViewOK
  <2>2. reply.seq \in Nat
    BY DEF ReplyOK
  <2>3. IF x.known THEN x.offset <= x.live ELSE x.live = 0
    BY <1>5, <1>6, <1>11a
  <2>4. DOMAIN kept \subseteq Nat /\ IsFiniteSet(DOMAIN kept) /\ Cardinality(DOMAIN kept) <= CacheCap
    BY <1>4, <1>9, <1>11
  <2>5. x.known \in BOOLEAN
    BY <1>5, <1>11a, Zenon
  <2> QED BY <1>2, <1>6, <1>11, <1>11a, <2>1, <2>2, <2>3, <2>4, <2>5 DEF ViewOK, pin
<1>13. /\ w = [x EXCEPT !.queued = w.queued] /\ ViewOK(w)
       /\ w.queued # V!NoRange => w.queued = Request(x) /\ x.offset > 0 /\ V!Missing(x) # {}
  BY <1>1, <1>12, <1>11a, QueueMissingOK
<1> HIDE DEF w
<1>14. /\ w.offset = c /\ w.live = reply.live /\ w.known /\ w.cacheSeq = reply.seq /\ w.cache = kept
       /\ w.inFlight = v.inFlight /\ x.offset = c /\ x.live = reply.live /\ x.cache = kept
  <2>1. /\ w.offset = x.offset /\ w.live = x.live /\ w.known = x.known /\ w.cacheSeq = x.cacheSeq
        /\ w.cache = x.cache /\ w.inFlight = x.inFlight
    BY <1>13, <1>11a
  <2> QED BY <1>5, <1>11a, <2>1
<1>15. Request(w) = Request(x) /\ V!Top(w) = reply.live - c /\ V!Missing(w) = V!Missing(x)
  BY <1>14 DEF Request, V!Top, V!Missing, V!Needed
<1>16. ASSUME NEW r \in DOMAIN kept
       PROVE  \/ r \in DOMAIN reply.cells /\ kept[r] = reply.cells[r]
              \/ r \in DOMAIN v.cache /\ kept[r] = v.cache[r] /\ v.cacheSeq = reply.seq
  BY <1>3, <1>4, <1>9, <1>11
<1>17. ASSUME NEW range \in V!Ranges, v.known, range.lo <= V!Top(v), V!Top(v) + Height <= range.hi,
              Answers(reply, range), c > 0
       PROVE  V!Needed(w) \subseteq DOMAIN kept
  <2>1. v.offset > 0 => v.anchor = V!Top(v) /\ V!Top(v) >= 0 /\ V!Top(v) \in Nat /\ v.anchor # V!NoAnchor
    BY <1>2, <1>17, ScrollBounds DEF ViewOK, V!Top, V!NoAnchor
  <2>2. v.offset > 0
    <3>1. v.offset = 0 => n = 0
      BY DEF ViewOK, n
    <3> QED BY <1>2, <1>6, <1>17, <3>1
  <2>3. n = reply.live - V!Top(v)
    BY <2>1, <2>2 DEF n
  <2>4. c = reply.live - V!Top(v) /\ reply.live - c = V!Top(v)
    BY <1>2, <1>6, <1>17, <2>1, <2>2, <2>3
  <2>5. ASSUME NEW r \in V!Needed(w) PROVE r \in DOMAIN kept
    <3>1. V!Min({w.live, V!Top(w) + Height}) = IF w.live <= V!Top(w) + Height THEN w.live ELSE V!Top(w) + Height
      BY <1>14, <1>15, <1>2, <2>1, <2>2, <2>4, ScrollBounds, MinOfTwo
    <3>2. r \in Nat /\ V!Top(v) <= r /\ r < V!Top(v) + Height /\ r < reply.live
      BY <1>2, <1>14, <1>15, <2>1, <2>2, <2>4, <2>5, <3>1, ScrollBounds DEF V!Needed
    <3>3. range.lo <= r /\ r < range.hi /\ r < reply.live + Height
      BY <1>2, <1>17, <2>1, <2>2, <3>2, ScrollBounds DEF V!Ranges
    <3>4. r \in DOMAIN rows
      BY <1>4, <1>17, <3>2, <3>3 DEF Answers
    <3> QED BY <1>8, <1>9, <1>11, <2>4, <3>2, <3>4
  <2> QED BY <2>5
<1>18. ASSUME NEW range \in V!Ranges, v.known, range.lo <= V!Top(v), V!Top(v) + Height <= range.hi,
              Answers(reply, range)
       PROVE  V!Missing(w) = {}
  <2>1. CASE c > 0
    BY <1>14, <1>17, <1>18, <2>1 DEF V!Missing
  <2>2. CASE c = 0
    BY <1>14, <2>2 DEF V!Missing
  <2> QED BY <1>6, <2>1, <2>2
<1>19. \A r \in DOMAIN w.cache :
         \/ r \in DOMAIN reply.cells /\ w.cache[r] = reply.cells[r]
         \/ r \in DOMAIN v.cache /\ w.cache[r] = v.cache[r] /\ v.cacheSeq = reply.seq
  BY <1>14, <1>16
<1> QED BY <1>13, <1>14, <1>15, <1>18, <1>19 DEF w

-----------------------------------------------------------------------------
(* The steps.                                                              *)

\* Nothing is on its way at first.
LEMMA ScrollInit == V!Init => ScrollIInv
<1> SUFFICES ASSUME V!Init PROVE ScrollIInv
  OBVIOUS
<1> USE DEF V!Init
<1>1. EngineOK
  <2>1. written = Start /\ first = V!Max({0, Start - Height - HistoryCap})
    OBVIOUS
  <2>2. first = IF 0 >= Start - Height - HistoryCap THEN 0 ELSE Start - Height - HistoryCap
    BY <2>1, ScrollBounds, MaxOfTwo
  <2>3. altScreen \in BOOLEAN /\ alt \in BOOLEAN
    BY Zenon
  <2> QED BY <2>1, <2>2, <2>3, ScrollBounds DEF EngineOK
<1>2. ViewOK(V!View) /\ BlindServed(V!View) /\ V!Missing(V!View) = {}
  <2>1. Proper(V!NoRange)
    BY ScrollBounds DEF Proper, V!Ranges, V!NoRange
  <2>2. DOMAIN V!NoRows = {} /\ V!NoRows = [r \in DOMAIN V!NoRows |-> V!NoRows[r]]
    BY DEF V!NoRows
  <2>3. known \in BOOLEAN /\ ~known
    BY Zenon
  <2>4. IsFiniteSet(DOMAIN cache) /\ Cardinality(DOMAIN cache) = 0
    BY <2>2, FS_EmptySet
  <2> QED BY <2>1, <2>2, <2>3, <2>4, ScrollBounds DEF ViewOK, BlindServed, V!View, V!Missing, V!None
<1>3. FetchOK
  BY DEF FetchOK
<1>4. ChainOK
  <2>1. stranded \in BOOLEAN
    BY Zenon
  <2> QED BY <2>1 DEF ChainOK
<1>5. CacheOK
  BY DEF CacheOK, V!None
<1>6. FindOK /\ TimersOK /\ Pursued
  BY DEF FindOK, TimersOK, Due, Pursued, V!Kinds, V!None
<1> QED BY <1>1, <1>2, <1>3, <1>4, <1>5, <1>6 DEF ScrollIInv

\* The emulator rests, or its content counts on, or it was restarted.
Ages ==
  \/ UNCHANGED <<written, first, seq, altScreen, restarts>>
  \/ seq' = seq + 1 /\ UNCHANGED restarts
  \/ restarts' = restarts + 1

\* What was said of its rows remains true.
LEMMA AgesReply ==
  ASSUME EngineOK, Ages, NEW reply, ReplyOK(reply) PROVE ReplyOK(reply)'
<1>1. CASE UNCHANGED <<written, first, seq, altScreen, restarts>>
  BY <1>1 DEF ReplyOK, V!LineAt
<1>2. CASE seq' = seq + 1 /\ UNCHANGED restarts
  BY <1>2 DEF ReplyOK, EngineOK
<1>3. CASE restarts' = restarts + 1
  BY <1>3 DEF ReplyOK, EngineOK
<1> QED BY <1>1, <1>2, <1>3 DEF Ages

\* So does a search.
LEMMA AgesSearch ==
  ASSUME EngineOK, Ages, NEW s, SearchOK(s) PROVE SearchOK(s)'
  BY AgesReply DEF SearchOK

\* So does a fetch that is left alone.
LEMMA AgesFetch ==
  ASSUME EngineOK, Ages, FetchOK, UNCHANGED <<fetch, inFlight>> PROVE FetchOK'
<1>1. ReplyOK(fetch.reply) => ReplyOK(fetch.reply)'
  <2>1. ASSUME NEW reply, ReplyOK(reply) PROVE ReplyOK(reply)'
    BY <2>1, AgesReply
  <2> QED BY <2>1 DEF ReplyOK
<1> QED BY <1>1 DEF FetchOK, Answers

\* So does a cache that is left alone.
LEMMA AgesCache ==
  ASSUME EngineOK, Ages, CacheOK, UNCHANGED <<cache, cacheSeq>>, cacheSeq \in Nat \cup {V!None}
  PROVE  CacheOK'
<1>1. CASE UNCHANGED <<written, first, seq, altScreen, restarts>>
  BY <1>1 DEF CacheOK, V!LineAt
<1>2. CASE seq' = seq + 1 /\ UNCHANGED restarts
  BY <1>2 DEF CacheOK, EngineOK, V!None
<1>3. CASE restarts' = restarts + 1
  BY <1>3 DEF CacheOK, EngineOK
<1> QED BY <1>1, <1>2, <1>3 DEF Ages

\* A viewport that is left alone.
LEMMA ViewRests ==
  ASSUME ViewOK(V!View), BlindServed(V!View), UNCHANGED V!viewVars
  PROVE  ViewOK(V!View)' /\ BlindServed(V!View)' /\ V!Missing(V!View)' = V!Missing(V!View)
<1>1. V!View' = V!View
  BY DEF V!View, V!viewVars
<1> QED BY <1>1 DEF ViewOK, BlindServed, Served, V!Missing, V!Needed, V!Top

\* A viewport that becomes w is as w is.
LEMMA ViewBecomes ==
  ASSUME NEW w, ViewOK(w), BlindServed(w), V!Becomes(w)
  PROVE  ViewOK(V!View)' /\ BlindServed(V!View)' /\ V!Missing(V!View)' = V!Missing(w)
<1>1. V!View' = w
  BY DEF V!View, V!Becomes, ViewOK
<1> QED BY <1>1 DEF ViewOK, BlindServed, Served, V!Missing, V!Needed, V!Top

\* Products of the bounds.
LEMMA Product == ASSUME NEW n \in Nat PROVE n * Height \in Nat /\ (n + 1) * Height = n * Height + Height
  BY ScrollBounds

\* What find holds, while its variables rest.
LEMMA FindRests ==
  ASSUME EngineOK, Ages, FindOK, TimersOK, Pursued, UNCHANGED V!findVars,
         fails \in Nat, fails' \in Nat, fails' >= fails
  PROVE  FindOK' /\ TimersOK' /\ Pursued'
<1> USE DEF V!findVars
<1>1. FindOK'
  <2>1. \A s \in searches : SearchOK(s)'
    BY AgesSearch DEF FindOK
  <2> QED BY <2>1 DEF FindOK
<1>2. TimersOK'
  BY DEF TimersOK, Due
<1>3. Pursued'
  BY DEF Pursued
<1> QED BY <1>1, <1>2, <1>3

\* feed, a switch of the screen, and a restart.
LEMMA EngineSteps ==
  ASSUME ~Repeats, ScrollIInv, V!Output \/ V!SwitchScreen \/ V!Restart
  PROVE  ScrollIInv'
<1> USE DEF ScrollIInv, V!streamVars, V!ghostVars, V!boundVars
<1>1. /\ UNCHANGED <<V!streamVars, V!viewVars, fetch, V!findVars, V!ghostVars, fails>>
      /\ Ages
  BY DEF V!Output, V!SwitchScreen, V!Restart, Ages
<1>2. EngineOK'
  <2>1. CASE V!Output
    <3>1. V!Max({first, written' - Height - HistoryCap}) =
            IF first >= written' - Height - HistoryCap THEN first ELSE written' - Height - HistoryCap
      BY <2>1, ScrollBounds, MaxOfTwo DEF V!Output, EngineOK
    <3>2. restarts * Height \in Nat
      BY Product DEF EngineOK
    <3> QED BY <2>1, <3>1, <3>2, ScrollBounds DEF V!Output, EngineOK
  <2>2. CASE V!SwitchScreen
    <3>1. altScreen' \in BOOLEAN
      BY <2>2, Zenon DEF V!SwitchScreen, EngineOK
    <3> QED BY <2>2, <3>1 DEF V!SwitchScreen, V!Trouble, EngineOK
  <2>3. CASE V!Restart
    <3>1. altScreen' \in BOOLEAN
      BY <2>3, Zenon DEF V!Restart
    <3>2. (restarts + 1) * Height = restarts * Height + Height /\ restarts * Height \in Nat
      BY Product DEF EngineOK
    <3> QED BY <2>3, <3>1, <3>2, ScrollBounds DEF V!Restart, V!Trouble, EngineOK
  <2> QED BY <2>1, <2>2, <2>3
<1>3. ViewOK(V!View)' /\ BlindServed(V!View)' /\ V!Missing(V!View)' = V!Missing(V!View)
  BY <1>1, ViewRests
<1>4. FetchOK' /\ CacheOK'
  <2>1. cacheSeq \in Nat \cup {V!None}
    BY DEF ViewOK, V!View
  <2> QED BY <1>1, <2>1, AgesFetch, AgesCache DEF V!viewVars
<1>5. FindOK' /\ TimersOK' /\ Pursued'
  <2>1. fails \in Nat /\ fails' = fails
    BY <1>1 DEF EngineOK
  <2> QED BY <1>1, <2>1, FindRests
<1>6. ChainOK'
  BY <1>1 DEF ChainOK, V!viewVars
<1>7. inFlight' = inFlight /\ stranded' = stranded
  BY <1>1 DEF V!viewVars
<1> QED BY <1>2, <1>3, <1>4, <1>5, <1>6, <1>7

\* What all the other steps leave alone: the emulator, and what was said of it.
LEMMA EngineRests ==
  ASSUME EngineOK, UNCHANGED <<V!engineVars, V!streamVars, fails, alts, restarts>>
  PROVE  EngineOK' /\ Ages
  BY DEF EngineOK, Ages, V!engineVars, V!streamVars

\* A frame of the grid asks for one rescan, and for the timer to take it.
LEMMA GridFrameOK == ASSUME ScrollIInv, V!GridFrame PROVE ScrollIInv'
<1> USE DEF ScrollIInv
<1>1. /\ UNCHANGED <<V!engineVars, alt, V!viewVars, fetch, query, gen, searches, found, matches, visStart,
                     stranded, chain, fails, alts, restarts>>
      /\ shown' = written
  BY DEF V!GridFrame, V!ghostVars, V!boundVars
<1>2. EngineOK' /\ Ages
  BY <1>1 DEF EngineOK, Ages, V!engineVars
<1>3. ViewOK(V!View)' /\ BlindServed(V!View)' /\ V!Missing(V!View)' = V!Missing(V!View)
  BY <1>1, ViewRests
<1>4. FetchOK' /\ CacheOK' /\ ChainOK'
  <2>1. cacheSeq \in Nat \cup {V!None}
    BY DEF ViewOK, V!View
  <2>2. FetchOK' /\ CacheOK'
    BY <1>1, <1>2, <2>1, AgesFetch, AgesCache DEF V!viewVars
  <2> QED BY <1>1, <2>2 DEF ChainOK, V!viewVars
<1>5. FindOK' /\ Pursued'
  <2>1. \A s \in searches : SearchOK(s)'
    BY <1>2, AgesSearch DEF FindOK
  <2>2. due' \subseteq V!Kinds /\ due \subseteq due'
    BY DEF V!GridFrame, FindOK, V!Kinds
  <2>3. timers' \in [V!Kinds -> Nat]
    BY DEF V!GridFrame, FindOK, V!Kinds
  <2> QED BY <1>1, <2>1, <2>2, <2>3 DEF FindOK, Pursued
<1>6. TimersOK'
  <2>1. timers["search"] \in Nat /\ timers["rescan"] \in Nat
    BY DEF FindOK, V!Kinds
  <2>2. CASE V!Rescans
    <3>1. due' = due \cup {"rescan"} /\ timers' = [timers EXCEPT !["rescan"] = @ + 1] /\ "rescan" \notin due
      BY <2>2 DEF V!GridFrame, V!Rescans
    <3>2. timers'["rescan"] = timers["rescan"] + 1 /\ timers'["search"] = timers["search"]
      BY <3>1 DEF FindOK, V!Kinds
    <3>3. Due("rescan")' = 1 /\ Due("search")' = Due("search") /\ Due("rescan") = 0 /\ Due("search") \in Nat
      BY <3>1 DEF Due
    <3> QED BY <2>1, <3>2, <3>3 DEF TimersOK
  <2>3. CASE ~V!Rescans
    <3>1. due' = due /\ timers' = timers
      BY <2>3 DEF V!GridFrame, V!Rescans
    <3> QED BY <3>1 DEF TimersOK, Due
  <2> QED BY <2>2, <2>3
<1> QED BY <1>1, <1>2, <1>3, <1>4, <1>5, <1>6 DEF V!viewVars

\* enter_alt_screen returns to live.
LEMMA ModesFrameOK == ASSUME ScrollIInv, V!ModesFrame PROVE ScrollIInv'
<1> USE DEF ScrollIInv
<1>1. /\ UNCHANGED <<V!engineVars, shown, fetch, V!findVars, stranded, fails, alts, restarts>>
      /\ alt' = altScreen
  BY DEF V!ModesFrame, V!boundVars
<1>2. EngineOK' /\ Ages
  BY <1>1 DEF EngineOK, Ages, V!engineVars
<1>3. FindOK' /\ TimersOK' /\ Pursued'
  <2>1. fails \in Nat /\ fails' = fails
    BY <1>1 DEF EngineOK
  <2> QED BY <1>1, <1>2, <2>1, FindRests
<1>4. cacheSeq \in Nat \cup {V!None}
  BY DEF ViewOK, V!View
<1>5. CASE altScreen /\ offset # 0
  <2> DEFINE w == [V!View EXCEPT !.offset = 0, !.anchor = V!NoAnchor, !.queued = V!NoRange]
  <2>1. V!Becomes(w) /\ chain' = 0
    BY <1>5 DEF V!ModesFrame
  <2>2. /\ w.inFlight = inFlight /\ w.cache = cache /\ w.cacheSeq = cacheSeq /\ w.offset = 0
        /\ w.live = live /\ w.anchor = V!NoAnchor /\ w.queued = V!NoRange /\ w.known = known
        /\ w = [offset |-> w.offset, anchor |-> w.anchor, live |-> w.live, known |-> w.known,
                cacheSeq |-> w.cacheSeq, cache |-> w.cache, inFlight |-> w.inFlight, queued |-> w.queued]
    <3> DEFINE a0 == V!View
               a1 == [a0 EXCEPT !.offset = 0]
               a2 == [a1 EXCEPT !.anchor = V!NoAnchor]
               a3 == [a2 EXCEPT !.queued = V!NoRange]
    <3>1. w = a3
      BY DEF V!View
    <3> HIDE DEF w
    <3>2. a0 = Viewport(offset, anchor, live, known, cacheSeq, cache, inFlight, queued)
      BY DEF V!View, Viewport
    <3> HIDE DEF a0
    <3>3. a1 = Viewport(0, anchor, live, known, cacheSeq, cache, inFlight, queued)
      BY <3>2 DEF Viewport
    <3> HIDE DEF a1
    <3>4. a2 = Viewport(0, V!NoAnchor, live, known, cacheSeq, cache, inFlight, queued)
      BY <3>3 DEF Viewport
    <3> HIDE DEF a2
    <3>5. a3 = Viewport(0, V!NoAnchor, live, known, cacheSeq, cache, inFlight, V!NoRange)
      BY <3>4 DEF Viewport
    <3> HIDE DEF a3
    <3> QED BY <3>1, <3>5 DEF Viewport
  <2> HIDE DEF w
  <2>3. ViewOK(w)
    <3>1. Proper(V!NoRange)
      BY ScrollBounds DEF Proper, V!Ranges, V!NoRange
    <3> QED BY <2>2, <3>1, ScrollBounds DEF ViewOK, V!View
  <2>4. BlindServed(w) /\ V!Missing(w) = {}
    BY <2>2 DEF BlindServed, V!Missing
  <2>5. ViewOK(V!View)' /\ BlindServed(V!View)' /\ V!Missing(V!View)' = {}
    BY <2>1, <2>3, <2>4, ViewBecomes
  <2>6. inFlight' = inFlight /\ cache' = cache /\ cacheSeq' = cacheSeq
    BY <2>1, <2>2 DEF V!Becomes
  <2>7. FetchOK' /\ CacheOK'
    BY <1>1, <1>2, <1>4, <2>6, AgesFetch, AgesCache
  <2>8. ChainOK'
    BY <1>1, <2>1 DEF ChainOK
  <2> QED BY <1>2, <1>3, <2>5, <2>7, <2>8
<1>6. CASE ~(altScreen /\ offset # 0)
  <2>1. UNCHANGED <<V!viewVars, chain>>
    BY <1>6 DEF V!ModesFrame
  <2>2. ViewOK(V!View)' /\ BlindServed(V!View)' /\ V!Missing(V!View)' = V!Missing(V!View)
    BY <2>1, ViewRests
  <2>3. FetchOK' /\ CacheOK'
    BY <1>1, <1>2, <1>4, <2>1, AgesFetch, AgesCache DEF V!viewVars
  <2>4. ChainOK' /\ UNCHANGED <<inFlight, stranded>>
    BY <1>1, <2>1 DEF ChainOK, V!viewVars
  <2> QED BY <1>2, <1>3, <2>2, <2>3, <2>4
<1> QED BY <1>5, <1>6

\* A move after which nobody fetches: the pill, and going to a match.
LEMMA MoveOK ==
  ASSUME ScrollIInv, NEW n \in Int, V!Becomes(V!SetViewOffset(V!View, n)), chain' = 0, stranded' \in BOOLEAN,
         UNCHANGED <<V!engineVars, V!streamVars, fetch, V!findVars, fails, alts, restarts>>,
         n = 0 \/ stranded'
  PROVE  ScrollIInv'
<1> USE DEF ScrollIInv
<1> DEFINE w == V!SetViewOffset(V!View, n)
<1>1. EngineOK' /\ Ages
  BY EngineRests
<1>2. FindOK' /\ TimersOK' /\ Pursued'
  <2>1. fails \in Nat /\ fails' = fails
    BY DEF EngineOK
  <2> QED BY <1>1, <2>1, FindRests
<1>3. /\ ViewOK(w) /\ BlindServed(w)
      /\ w.inFlight = inFlight /\ w.cache = cache /\ w.cacheSeq = cacheSeq
      /\ n = 0 => w.offset = 0
  BY SetViewOffsetOK DEF V!View
<1>4. V!Becomes(w)
  OBVIOUS
<1> HIDE DEF w
<1>5. ViewOK(V!View)' /\ BlindServed(V!View)' /\ V!Missing(V!View)' = V!Missing(w)
  BY <1>3, <1>4, ViewBecomes
<1>6. inFlight' = inFlight /\ cache' = cache /\ cacheSeq' = cacheSeq
  BY <1>3, <1>4 DEF V!Becomes
<1>7. FetchOK' /\ CacheOK'
  <2>1. cacheSeq \in Nat \cup {V!None}
    BY DEF ViewOK, V!View
  <2> QED BY <1>1, <1>6, <2>1, AgesFetch, AgesCache
<1>8. ChainOK'
  BY DEF ChainOK
<1>9. n = 0 => V!Missing(w) = {}
  BY <1>3 DEF V!Missing
<1> QED BY <1>1, <1>2, <1>5, <1>7, <1>8, <1>9

\* The pill leaves nothing missing.
LEMMA ReturnToLiveOK == ASSUME ScrollIInv, V!ReturnToLive PROVE ScrollIInv'
<1>1. stranded' \in BOOLEAN
  BY DEF V!ReturnToLive, ScrollIInv, ChainOK
<1> QED BY <1>1, MoveOK DEF V!ReturnToLive, V!boundVars

\* Going to a match leaves it to the next wheel.
LEMMA NavigateOK == ASSUME ScrollIInv, NEW m \in matches, V!Navigate(m) PROVE ScrollIInv'
<1> DEFINE n == IF m >= visStart THEN 0 ELSE live + V!HistoryAnchor - m
<1>1. m \in Int /\ live \in Int /\ V!HistoryAnchor \in Int
  BY ScrollBounds DEF ScrollIInv, FindOK, ViewOK, V!View, V!HistoryAnchor
<1>2. n \in Int
  BY <1>1
<1>3. stranded' \in BOOLEAN /\ stranded'
  BY Zenon DEF V!Navigate
<1>4. V!Becomes(V!SetViewOffset(V!View, n))
  BY DEF V!Navigate
<1> HIDE DEF n
<1> QED BY <1>2, <1>3, <1>4, MoveOK DEF V!Navigate, V!findVars

\* What the emulator answers holds for it now, and has the rows it was asked for.
LEMMA ReplyIsOK ==
  ASSUME EngineOK, NEW lo \in Nat, NEW hi \in Nat, lo <= hi
  PROVE  /\ ReplyOK(V!Reply(lo, hi))
         /\ \A range : range.lo = lo /\ range.hi = hi => Answers(V!Reply(lo, hi), range)
<1> DEFINE h == V!HistorySize
           a == V!Min({V!Max({lo, 0}), h + Height})
           b == V!Min({a + (hi - lo), h + Height})
           cells == [r \in a..(b - 1) |-> V!LineAt(r)]
           reply == V!Reply(lo, hi)
<1>1. h \in Nat /\ h <= MaxLines - Height
  <2>1. CASE altScreen
    BY <2>1, ScrollBounds DEF V!HistorySize, EngineOK
  <2>2. CASE ~altScreen
    BY <2>2, ScrollBounds DEF V!HistorySize, EngineOK
  <2> QED BY <2>1, <2>2
<1>2. reply = [cells |-> cells, live |-> h, seq |-> seq]
  BY DEF V!Reply
<1> HIDE DEF h
<1>3. a = IF lo <= h + Height THEN lo ELSE h + Height
  <2>1. V!Max({lo, 0}) = lo
    BY MaxOfTwo
  <2>2. V!Min({lo, h + Height}) = IF lo <= h + Height THEN lo ELSE h + Height
    BY <1>1, ScrollBounds, MinOfTwo
  <2> QED BY <2>1, <2>2
<1>4. a \in Nat /\ a <= h + Height
  BY <1>1, <1>3, ScrollBounds
<1>5. b = IF a + (hi - lo) <= h + Height THEN a + (hi - lo) ELSE h + Height
  <2> HIDE DEF a
  <2> QED BY <1>1, <1>4, ScrollBounds, MinOfTwo
<1>6. b \in Nat
  <2> HIDE DEF a, b
  <2> QED BY <1>1, <1>4, <1>5, ScrollBounds
<1> HIDE DEF a, b
<1>7. DOMAIN cells = a..(b - 1) /\ \A r \in DOMAIN cells : cells[r] = V!LineAt(r)
  OBVIOUS
<1>8. cells = [r \in DOMAIN cells |-> cells[r]]
  OBVIOUS
<1>9. a..(b - 1) \subseteq Nat /\ IsFiniteSet(a..(b - 1))
  <2>1. a \in Int /\ b - 1 \in Int
    BY <1>4, <1>6
  <2> QED BY <1>4, <2>1, FS_Interval
<1> HIDE DEF cells, reply
<1>10. reply.cells = cells /\ reply.live = h /\ reply.seq = seq
       /\ reply = [cells |-> reply.cells, live |-> reply.live, seq |-> reply.seq]
  BY <1>2
<1>11. ReplyOK(reply)
  <2>1. seq \in Nat /\ reply.live \in 0..(MaxLines - Height)
    BY <1>1, <1>10, ScrollBounds DEF EngineOK
  <2>2. reply.cells = [r \in DOMAIN reply.cells |-> reply.cells[r]]
    BY <1>8, <1>10
  <2>3. DOMAIN reply.cells \subseteq Nat /\ IsFiniteSet(DOMAIN reply.cells)
    BY <1>7, <1>9, <1>10
  <2>4. \A r \in DOMAIN reply.cells : reply.cells[r] = V!LineAt(r)
    BY <1>7, <1>10
  <2> QED BY <1>10, <2>1, <2>2, <2>3, <2>4 DEF ReplyOK
<1>12. ASSUME NEW range, range.lo = lo, range.hi = hi, NEW r \in Nat, range.lo <= r, r < range.hi,
              r < reply.live + Height
       PROVE  r \in DOMAIN reply.cells
  <2>1. a = lo
    BY <1>1, <1>3, <1>10, <1>12, ScrollBounds
  <2>2. r < b
    BY <1>1, <1>5, <1>10, <1>12, <2>1, ScrollBounds
  <2> QED BY <1>6, <1>7, <1>10, <1>12, <2>1, <2>2
<1> QED BY <1>11, <1>12 DEF Answers, reply

\* The Engine answers, or the fetch fails.
LEMMA AnswerOK == ASSUME ScrollIInv, V!Answer PROVE ScrollIInv'
<1> USE DEF ScrollIInv
<1>1. UNCHANGED <<V!engineVars, V!streamVars, V!viewVars, V!findVars, stranded, chain, alts, restarts>>
  BY DEF V!Answer, V!ghostVars
<1>2. fails \in Nat /\ fails' \in Nat /\ fails' >= fails
  BY DEF V!Answer, EngineOK
<1>3. EngineOK' /\ Ages
  BY <1>1, <1>2 DEF EngineOK, Ages, V!engineVars, V!streamVars
<1>4. FindOK' /\ TimersOK' /\ Pursued'
  BY <1>1, <1>2, <1>3, FindRests
<1>5. ViewOK(V!View)' /\ BlindServed(V!View)' /\ V!Missing(V!View)' = V!Missing(V!View)
  BY <1>1, ViewRests
<1>6. CacheOK' /\ ChainOK' /\ UNCHANGED <<inFlight, stranded>>
  <2>1. cacheSeq \in Nat \cup {V!None}
    BY DEF ViewOK, V!View
  <2> QED BY <1>1, <1>3, <2>1, AgesCache DEF ChainOK, V!viewVars
<1>7. FetchOK'
  <2>1. inFlight # V!NoRange /\ fetch = [st |-> "asked", range |-> inFlight]
    BY DEF FetchOK, V!Answer, V!NoFetch
  <2>2. CASE fetch' = [st |-> "failed"]
    BY <1>6, <2>1, <2>2 DEF FetchOK
  <2>3. CASE fetch' = [st |-> "answered", reply |-> V!Reply(fetch.range.lo, fetch.range.hi)]
    <3> DEFINE reply == V!Reply(inFlight.lo, inFlight.hi)
    <3>1. inFlight.lo \in Nat /\ inFlight.hi \in Nat /\ inFlight.lo <= inFlight.hi
      BY <2>1, ScrollBounds DEF ViewOK, V!View, Proper, V!Ranges
    <3>2. ReplyOK(reply) /\ Answers(reply, inFlight)
      BY <3>1, ReplyIsOK
    <3>3. fetch' = [st |-> "answered", reply |-> reply]
      BY <2>1, <2>3
    <3> HIDE DEF reply
    <3>4. fetch'.reply = reply /\ fetch' = [st |-> "answered", reply |-> fetch'.reply]
      BY <3>3
    <3>5. ReplyOK(fetch.reply)'
      <4>1. ReplyOK(fetch'.reply)
        BY <3>2, <3>4
      <4> QED BY <1>1, <4>1 DEF ReplyOK, V!LineAt, V!engineVars
    <3>6. Answers(fetch.reply, inFlight)'
      BY <1>6, <3>2, <3>4 DEF Answers
    <3> QED BY <1>6, <2>1, <3>4, <3>5, <3>6 DEF FetchOK
  <2> QED BY <2>2, <2>3 DEF V!Answer
<1> QED BY <1>3, <1>4, <1>5, <1>6, <1>7

\* A failed fetch is queued again.
LEMMA FailFetchOK == ASSUME ScrollIInv, V!FailFetch PROVE ScrollIInv'
<1> USE DEF ScrollIInv
<1>1. /\ UNCHANGED <<V!engineVars, V!streamVars, V!findVars, chain, fails, alts, restarts>>
      /\ fetch' = V!NoFetch /\ fetch.st = "failed"
  BY DEF V!FailFetch, V!boundVars
<1>2. EngineOK' /\ Ages
  BY <1>1, EngineRests
<1>3. FindOK' /\ TimersOK' /\ Pursued'
  <2>1. fails \in Nat /\ fails' = fails
    BY <1>1 DEF EngineOK
  <2> QED BY <1>1, <1>2, <2>1, FindRests
<1> DEFINE w == [V!View EXCEPT !.inFlight = V!NoRange, !.queued = V!Merge(queued, inFlight)]
<1>4. w = Viewport(offset, anchor, live, known, cacheSeq, cache, V!NoRange, V!Merge(queued, inFlight))
  <2> DEFINE a0 == V!View
             a1 == [a0 EXCEPT !.inFlight = V!NoRange]
             a2 == [a1 EXCEPT !.queued = V!Merge(queued, inFlight)]
  <2>1. w = a2
    BY DEF V!View
  <2> HIDE DEF w
  <2>2. a0 = Viewport(offset, anchor, live, known, cacheSeq, cache, inFlight, queued)
    BY DEF V!View, Viewport
  <2> HIDE DEF a0
  <2>3. a1 = Viewport(offset, anchor, live, known, cacheSeq, cache, V!NoRange, queued)
    BY <2>2 DEF Viewport
  <2> HIDE DEF a1
  <2>4. a2 = Viewport(offset, anchor, live, known, cacheSeq, cache, V!NoRange, V!Merge(queued, inFlight))
    BY <2>3 DEF Viewport
  <2> QED BY <2>1, <2>4
<1>5. V!Becomes(w)
  BY DEF V!FailFetch
<1> HIDE DEF w
<1>6. inFlight # V!NoRange
  BY <1>1 DEF FetchOK, V!NoFetch
<1>7. Proper(V!Merge(queued, inFlight)) /\ V!Merge(queued, inFlight) # V!NoRange /\ Proper(V!NoRange)
  <2>1. Proper(queued) /\ Proper(inFlight)
    BY DEF ViewOK, V!View
  <2>2. Proper(V!NoRange)
    BY ScrollBounds DEF Proper, V!Ranges, V!NoRange
  <2> QED BY <1>6, <2>1, <2>2, MergeOK
<1>8. ViewOK(w)
  BY <1>4, <1>7 DEF ViewOK, V!View, Viewport
<1>9. BlindServed(w) /\ w.inFlight = V!NoRange
  BY <1>4, <1>7 DEF BlindServed, Served, Viewport
<1>10. ViewOK(V!View)' /\ BlindServed(V!View)'
  BY <1>5, <1>8, <1>9, ViewBecomes
<1>11. inFlight' = V!NoRange /\ cache' = cache /\ cacheSeq' = cacheSeq
  BY <1>4, <1>5 DEF V!Becomes, Viewport
<1>12. CacheOK'
  <2>1. cacheSeq \in Nat \cup {V!None}
    BY DEF ViewOK, V!View
  <2> QED BY <1>2, <1>11, <2>1, AgesCache
<1>13. stranded' /\ stranded' \in BOOLEAN
  BY Zenon DEF V!FailFetch
<1>14. FetchOK' /\ ChainOK'
  BY <1>1, <1>11, <1>13 DEF FetchOK, ChainOK
<1> QED BY <1>2, <1>3, <1>10, <1>12, <1>13, <1>14

\* pump_scrollback_fetch: after it, what the window lacks is being fetched.
LEMMA PumpOK ==
  ASSUME EngineOK, Ages, FetchOK, NEW v, ViewOK(v), BlindServed(v), V!Pump(v),
         v.inFlight \in {V!NoRange, inFlight}
  PROVE  /\ ViewOK(V!View)' /\ BlindServed(V!View)' /\ FetchOK'
         /\ (V!Missing(V!View)' # {} => inFlight' # V!NoRange)
         /\ cache' = v.cache /\ cacheSeq' = v.cacheSeq
         /\ offset' = v.offset /\ live' = v.live /\ known' = v.known
<1> DEFINE w == V!BeginFetch(v)
<1>1. /\ ViewOK(w) /\ BlindServed(w)
      /\ w.offset = v.offset /\ w.live = v.live /\ w.known = v.known
      /\ w.cache = v.cache /\ w.cacheSeq = v.cacheSeq
      /\ V!Fetches(v) => v.inFlight = V!NoRange /\ w.inFlight # V!NoRange
      /\ ~V!Fetches(v) => w.inFlight = v.inFlight
      /\ V!Missing(w) # {} => w.inFlight # V!NoRange
  BY BeginFetchOK
<1>2. /\ V!Becomes(w)
      /\ fetch' = IF V!Fetches(v) THEN [st |-> "asked", range |-> w.inFlight]
                  ELSE IF v.inFlight = V!NoRange THEN V!NoFetch ELSE fetch
  BY DEF V!Pump
<1> HIDE DEF w
<1>3. ViewOK(V!View)' /\ BlindServed(V!View)' /\ V!Missing(V!View)' = V!Missing(w)
  BY <1>1, <1>2, ViewBecomes
<1>4. /\ inFlight' = w.inFlight /\ cache' = w.cache /\ cacheSeq' = w.cacheSeq
      /\ offset' = w.offset /\ live' = w.live /\ known' = w.known
  BY <1>2 DEF V!Becomes
<1>5. FetchOK'
  <2>1. CASE V!Fetches(v)
    BY <1>1, <1>2, <1>4, <2>1 DEF FetchOK
  <2>2. CASE ~V!Fetches(v) /\ v.inFlight = V!NoRange
    BY <1>1, <1>2, <1>4, <2>2 DEF FetchOK
  <2>3. CASE ~V!Fetches(v) /\ v.inFlight # V!NoRange
    BY <1>1, <1>2, <1>4, <2>3, AgesFetch
  <2> QED BY <2>1, <2>2, <2>3
<1> QED BY <1>1, <1>3, <1>4, <1>5

\* The wheel.
LEMMA WheelOK == ASSUME ScrollIInv, NEW n \in Int, V!Wheel(n) PROVE ScrollIInv'
<1> USE DEF ScrollIInv
<1>1. UNCHANGED <<V!engineVars, V!streamVars, V!findVars, fails, alts, restarts>> /\ chain' = 0
  BY DEF V!Wheel
<1>2. EngineOK' /\ Ages
  BY <1>1, EngineRests
<1>3. FindOK' /\ TimersOK' /\ Pursued'
  <2>1. fails \in Nat /\ fails' = fails
    BY <1>1 DEF EngineOK
  <2> QED BY <1>1, <1>2, <2>1, FindRests
<1> DEFINE v == V!SetViewOffset(V!View, offset + n)
<1>4. V!Pump(v)
  BY DEF V!Wheel
<1>5. /\ ViewOK(v) /\ BlindServed(v)
      /\ v.inFlight = inFlight /\ v.cache = cache /\ v.cacheSeq = cacheSeq
  <2>1. offset + n \in Int
    BY DEF ViewOK, V!View
  <2> QED BY <2>1, SetViewOffsetOK DEF V!View
<1> HIDE DEF v
<1>6. /\ ViewOK(V!View)' /\ BlindServed(V!View)' /\ FetchOK'
      /\ V!Missing(V!View)' # {} => inFlight' # V!NoRange
      /\ cache' = cache /\ cacheSeq' = cacheSeq
  BY <1>2, <1>4, <1>5, PumpOK
<1>7. CacheOK'
  <2>1. cacheSeq \in Nat \cup {V!None}
    BY DEF ViewOK, V!View
  <2> QED BY <1>2, <1>6, <2>1, AgesCache
<1>8. ChainOK'
  <2>1. stranded' \in BOOLEAN
    BY <1>4, Zenon DEF V!Pump
  <2> QED BY <1>1, <2>1 DEF ChainOK
<1> QED BY <1>2, <1>3, <1>6, <1>7, <1>8

\* The rows of a viewport that took a reply are the Engine's.
LEMMA RowsAreTrue ==
  ASSUME EngineOK, CacheOK, Ages, UNCHANGED <<written, first, seq, altScreen, restarts>>,
         NEW reply, ReplyOK(reply), NEW w, cache' = w.cache, cacheSeq' = w.cacheSeq, w.cacheSeq = reply.seq,
         \A r \in DOMAIN w.cache :
           \/ r \in DOMAIN reply.cells /\ w.cache[r] = reply.cells[r]
           \/ r \in DOMAIN cache /\ w.cache[r] = cache[r] /\ cacheSeq = reply.seq
  PROVE  CacheOK'
<1> SUFFICES ASSUME restarts = 0
             PROVE  reply.seq <= seq /\ (reply.seq = seq => \A r \in DOMAIN w.cache : w.cache[r] = V!LineAt(r))
  BY DEF CacheOK, V!LineAt
<1>1. reply.seq <= seq
  BY DEF ReplyOK
<1>2. ASSUME reply.seq = seq, NEW r \in DOMAIN w.cache PROVE w.cache[r] = V!LineAt(r)
  BY <1>2 DEF ReplyOK, CacheOK
<1> QED BY <1>1, <1>2

\* A completed fetch: the window that was asked for is there, and another fetch
\* follows only if the reader has moved.
LEMMA CompleteFetchOK == ASSUME ScrollIInv, V!CompleteFetch PROVE ScrollIInv'
<1> USE DEF ScrollIInv
<1>1. /\ UNCHANGED <<V!engineVars, V!streamVars, V!findVars, fails, alts, restarts>>
      /\ fetch.st = "answered"
      /\ chain' = IF fetch'.st = "asked" THEN chain + 1 ELSE 0
  BY DEF V!CompleteFetch, V!boundVars
<1>2. EngineOK' /\ Ages
  BY <1>1, EngineRests
<1>3. FindOK' /\ TimersOK' /\ Pursued'
  <2>1. fails \in Nat /\ fails' = fails
    BY <1>1 DEF EngineOK
  <2> QED BY <1>1, <1>2, <2>1, FindRests
<1> DEFINE reply == fetch.reply
           v0 == [V!View EXCEPT !.inFlight = V!NoRange]
           v == V!ApplyRows(v0, reply)
<1>4. V!Pump(v)
  BY DEF V!CompleteFetch, V!CompleteAndPump
<1>5. inFlight # V!NoRange /\ ReplyOK(reply) /\ Answers(reply, inFlight)
  BY <1>1 DEF FetchOK, V!NoFetch
<1>6. v0 = Viewport(offset, anchor, live, known, cacheSeq, cache, V!NoRange, queued)
  BY DEF V!View, Viewport
<1>7. ViewOK(v0)
  <2>1. Proper(V!NoRange)
    BY ScrollBounds DEF Proper, V!Ranges, V!NoRange
  <2> HIDE DEF v0
  <2> QED BY <1>6, <2>1 DEF ViewOK, V!View, Viewport
<1> HIDE DEF v0, reply
<1>8. v0.cache = cache /\ v0.cacheSeq = cacheSeq /\ v0.inFlight = V!NoRange /\ v0.known = known
      /\ V!Top(v0) = live - offset
  BY <1>6 DEF Viewport, V!Top
<1>9. /\ ViewOK(v) /\ v.known /\ v.cacheSeq = reply.seq /\ v.inFlight = V!NoRange
      /\ \A r \in DOMAIN v.cache :
           \/ r \in DOMAIN reply.cells /\ v.cache[r] = reply.cells[r]
           \/ r \in DOMAIN cache /\ v.cache[r] = cache[r] /\ cacheSeq = reply.seq
      /\ v.queued # V!NoRange => v.queued = Request(v) /\ v.offset > 0 /\ V!Missing(v) # {}
      /\ known /\ inFlight.lo <= live - offset /\ live - offset + Height <= inFlight.hi => V!Missing(v) = {}
  <2>1. inFlight \in V!Ranges
    BY DEF ViewOK, V!View, Proper
  <2> QED BY <1>5, <1>7, <1>8, <2>1, ApplyRowsOK
<1> HIDE DEF v
<1>10. BlindServed(v)
  BY <1>9 DEF BlindServed
<1>11. /\ ViewOK(V!View)' /\ BlindServed(V!View)' /\ FetchOK'
       /\ V!Missing(V!View)' # {} => inFlight' # V!NoRange
       /\ cache' = v.cache /\ cacheSeq' = v.cacheSeq
       /\ offset' = v.offset /\ live' = v.live /\ known' = v.known
  BY <1>2, <1>4, <1>9, <1>10, PumpOK
<1>12. CacheOK'
  BY <1>1, <1>2, <1>5, <1>9, <1>11, RowsAreTrue DEF V!engineVars
<1>13. stranded' \in BOOLEAN
  BY <1>4, Zenon DEF V!Pump
<1>14. ChainOK'
  <2> DEFINE q == V!QueueMissing(v).queued
  <2>1. /\ fetch' = IF V!Fetches(v) THEN [st |-> "asked", range |-> V!BeginFetch(v).inFlight] ELSE V!NoFetch
        /\ inFlight' = V!BeginFetch(v).inFlight
    BY <1>4, <1>9 DEF V!Pump, V!Becomes
  <2>2. CASE ~V!Fetches(v)
    <3>1. chain' = 0
      BY <1>1, <2>1, <2>2 DEF V!NoFetch
    <3> QED BY <1>13, <3>1 DEF ChainOK
  <2>3. CASE V!Fetches(v)
    <3>1. q # V!NoRange /\ inFlight' = q /\ chain' = chain + 1
      BY <1>1, <1>9, <1>10, <2>1, <2>3, BeginFetchOK DEF V!Fetches
    <3>2. q = Request(v) /\ v.offset > 0 /\ V!Missing(v) # {}
      BY <1>9, <3>1, QueueMissingOK
    <3>3. chain = 0
      BY <1>5, <1>9, <3>2 DEF ChainOK
    <3>4. q.lo <= v.live - v.offset /\ v.live - v.offset + Height <= q.hi
      BY <1>9, <3>2, RequestOK DEF V!Top
    <3> QED BY <1>9, <1>11, <1>13, <3>1, <3>3, <3>4 DEF ChainOK
  <2> QED BY <2>2, <2>3
<1> QED BY <1>2, <1>3, <1>11, <1>12, <1>14

\* The find bar alone changes.
LEMMA FindAlone ==
  ASSUME ScrollIInv, UNCHANGED <<V!engineVars, V!streamVars, V!viewVars, fetch, V!ghostVars, alts, restarts>>,
         fails' \in Nat, FindOK', TimersOK', Pursued'
  PROVE  ScrollIInv'
<1> USE DEF ScrollIInv, V!ghostVars
<1>1. EngineOK' /\ Ages
  BY DEF EngineOK, Ages, V!engineVars, V!streamVars
<1>2. ViewOK(V!View)' /\ BlindServed(V!View)' /\ V!Missing(V!View)' = V!Missing(V!View)
  BY ViewRests
<1>3. FetchOK' /\ CacheOK' /\ ChainOK' /\ UNCHANGED <<inFlight, stranded>>
  <2>1. cacheSeq \in Nat \cup {V!None}
    BY DEF ViewOK, V!View
  <2>2. FetchOK' /\ CacheOK'
    BY <1>1, <2>1, AgesFetch, AgesCache DEF V!viewVars
  <2> QED BY <2>2 DEF ChainOK, V!viewVars
<1> QED BY <1>1, <1>2, <1>3

\* Searches that are under way stay what they are.
LEMMA SearchesRest ==
  ASSUME ScrollIInv, UNCHANGED <<V!engineVars, restarts>>, NEW s \in searches PROVE SearchOK(s)'
<1>1. EngineOK /\ Ages /\ SearchOK(s)
  BY DEF ScrollIInv, Ages, V!engineVars, FindOK
<1> QED BY <1>1, AgesSearch

\* A new query is due, and has a timer.
LEMMA SetQueryOK == ASSUME ScrollIInv, NEW q \in Queries \cup {V!None}, V!SetQuery(q) PROVE ScrollIInv'
<1> USE DEF ScrollIInv
<1>1. /\ UNCHANGED <<V!engineVars, V!streamVars, V!viewVars, fetch, searches, visStart, V!ghostVars,
                     fails, alts, restarts>>
      /\ query' = q /\ gen' = gen + 1 /\ due' = (IF q = V!None THEN {} ELSE {"search"})
      /\ timers' = [timers EXCEPT !["search"] = @ + 1]
      /\ matches' = (IF q = V!None THEN {} ELSE matches) /\ found' = (IF q = V!None THEN V!None ELSE found)
  BY DEF V!SetQuery
<1>2. FindOK'
  <2>1. \A s \in searches' : SearchOK(s)'
    BY <1>1, SearchesRest
  <2>2. timers' \in [V!Kinds -> Nat] /\ due' \subseteq V!Kinds
    <3>1. "search" \in V!Kinds /\ timers["search"] \in Nat
      BY DEF FindOK, V!Kinds
    <3>2. timers' \in [V!Kinds -> Nat]
      BY <1>1, <3>1 DEF FindOK
    <3> QED BY <1>1, <3>1, <3>2
  <2>3. matches' \subseteq Int /\ visStart' \in Int /\ gen' \in Nat
    <3>1. gen \in Nat /\ visStart \in Int /\ matches \subseteq Int
      BY DEF FindOK
    <3>2. matches' = {} \/ matches' = matches
      BY <1>1
    <3>3. visStart' = visStart /\ gen' = gen + 1
      BY <1>1
    <3>4. matches' \subseteq Int
      BY <3>1, <3>2
    <3> QED BY <3>1, <3>3, <3>4
  <2>4. query' \in Queries \cup {V!None} /\ found' \in Queries \cup {V!None}
    BY <1>1 DEF FindOK
  <2> QED BY <2>1, <2>2, <2>3, <2>4 DEF FindOK
<1>3. TimersOK'
  <2>1. /\ timers["search"] \in Nat /\ timers["rescan"] \in Nat
        /\ timers'["search"] = timers["search"] + 1 /\ timers'["rescan"] = timers["rescan"]
    BY <1>1 DEF FindOK, V!Kinds
  <2>2. Due("rescan")' = 0 /\ Due("search")' \in {0, 1}
    BY <1>1 DEF Due
  <2> QED BY <2>1, <2>2 DEF TimersOK
<1>4. Pursued'
  BY <1>1 DEF Pursued
<1>5. fails' \in Nat
  BY <1>1 DEF EngineOK
<1> QED BY <1>1, <1>2, <1>3, <1>4, <1>5, FindAlone

\* Without a query nothing is due.
LEMMA CloseFindOK == ASSUME ScrollIInv, V!CloseFind PROVE ScrollIInv'
<1> USE DEF ScrollIInv
<1>1. /\ UNCHANGED <<V!engineVars, V!streamVars, V!viewVars, fetch, searches, timers, V!ghostVars,
                     fails, alts, restarts>>
      /\ query' = V!None /\ gen' = 0 /\ due' = {} /\ matches' = {} /\ visStart' = V!None /\ found' = V!None
  BY DEF V!CloseFind, V!boundVars
<1>2. FindOK'
  <2>1. \A s \in searches' : SearchOK(s)'
    BY <1>1, SearchesRest
  <2> QED BY <1>1, <2>1 DEF FindOK, V!None
<1>3. TimersOK'
  <2>1. timers["search"] \in Nat /\ timers["rescan"] \in Nat
    BY DEF FindOK, V!Kinds
  <2> QED BY <1>1, <2>1 DEF TimersOK, Due
<1>4. Pursued'
  BY <1>1 DEF Pursued
<1>5. fails' \in Nat
  BY <1>1 DEF EngineOK
<1> QED BY <1>1, <1>2, <1>3, <1>4, <1>5, FindAlone

\* start_due_find: a timer that finds nothing ripe leaves a timer for what is due.
LEMMA TimerOK == ASSUME ScrollIInv, NEW k \in V!Kinds, V!Timer(k) PROVE ScrollIInv'
<1> USE DEF ScrollIInv
<1>1. /\ UNCHANGED <<V!engineVars, V!streamVars, V!viewVars, fetch, query, gen, matches, visStart, found,
                     V!ghostVars, fails, alts, restarts>>
      /\ timers[k] > 0 /\ timers' = [timers EXCEPT ![k] = @ - 1]
  BY DEF V!Timer, V!boundVars
<1>2. PICK ripe \in SUBSET due :
        /\ {j \in due : timers'[j] = 0} \subseteq ripe
        /\ due' = due \ V!Take(ripe)
        /\ searches' = searches \cup {[st |-> "asked", query |-> query, gen |-> gen] : j \in V!Take(ripe)}
  BY DEF V!Timer
<1>2a. PICK new : new = [st |-> "asked", query |-> query, gen |-> gen]
  OBVIOUS
<1>3. \A s \in searches' : s \in searches \/ s = new
  BY <1>2, <1>2a
<1>4. /\ timers' \in [V!Kinds -> Nat] /\ timers["search"] \in Nat /\ timers["rescan"] \in Nat
      /\ timers'["search"] + timers'["rescan"] = timers["search"] + timers["rescan"] - 1
  BY <1>1 DEF FindOK, V!Kinds
<1>5. FindOK'
  <2>1. SearchOK(new)'
    BY <1>1, <1>2a DEF SearchOK, FindOK
  <2>2. \A s \in searches : SearchOK(s)'
    BY <1>1, SearchesRest
  <2>3. \A s \in searches' : SearchOK(s)'
    BY <1>3, <2>1, <2>2
  <2>4. due' \subseteq V!Kinds
    BY <1>2 DEF FindOK
  <2> QED BY <1>1, <1>4, <2>3, <2>4 DEF FindOK
<1>6. TimersOK'
  <2> DEFINE a == timers'["search"]
             b == timers'["rescan"]
  <2>1. a \in Nat /\ b \in Nat /\ Due("search") + Due("rescan") <= a + b + 1
    BY <1>4 DEF TimersOK, Due, V!Kinds
  <2>2. Due("search")' <= Due("search") /\ Due("rescan")' <= Due("rescan")
    BY <1>2 DEF Due
  <2>3. CASE Due("search") + Due("rescan") <= a + b
    BY <2>1, <2>2, <2>3 DEF TimersOK, Due
  <2>4. CASE Due("search") + Due("rescan") = a + b + 1
    <3>1. ("search" \in due /\ a = 0) \/ ("rescan" \in due /\ b = 0)
      BY <2>1, <2>4 DEF Due
    <3>2. ripe # {} /\ ripe \subseteq V!Kinds
      BY <1>2, <3>1 DEF FindOK
    <3>3. V!Take(ripe) \subseteq ripe /\ ("search" \in V!Take(ripe) \/ "rescan" \in V!Take(ripe))
      BY <3>2 DEF V!Take, V!Kinds
    <3>4. Due("search")' + Due("rescan")' < Due("search") + Due("rescan")
      BY <1>2, <3>3 DEF Due
    <3> QED BY <2>1, <2>4, <3>4 DEF TimersOK, Due
  <2> QED BY <2>1, <2>3, <2>4 DEF Due
<1>7. Pursued'
  <2>1. ASSUME "search" \in due, "search" \notin due' PROVE new \in searches'
    BY <1>2, <1>2a, <2>1 DEF V!Take
  <2>2. new.query = query' /\ new.gen = gen'
    BY <1>1, <1>2a
  <2>3. searches \subseteq searches'
    BY <1>2
  <2> QED BY <1>1, <2>1, <2>2, <2>3 DEF Pursued
<1>8. fails' \in Nat
  BY <1>1 DEF EngineOK
<1> QED BY <1>1, <1>5, <1>6, <1>7, <1>8, FindAlone

\* A search is answered, or fails.
LEMMA AnswerSearchOK == ASSUME ScrollIInv, NEW s \in searches, V!AnswerSearch(s) PROVE ScrollIInv'
<1> USE DEF ScrollIInv
<1>0. PICK new : new = [st |-> "answered", query |-> s.query, gen |-> s.gen,
                        reply |-> V!Reply(0, V!HistorySize), alt |-> altScreen]
  OBVIOUS
<1>1. /\ UNCHANGED <<V!engineVars, V!streamVars, V!viewVars, fetch, query, gen, due, timers, matches, visStart,
                     found, V!ghostVars, alts, restarts>>
      /\ \/ searches' = (searches \ {s}) \cup {new} /\ UNCHANGED fails
         \/ fails' = fails + 1 /\ searches' = searches \ {s}
  BY <1>0 DEF V!AnswerSearch
<1>2. fails' \in Nat /\ fails \in Nat
  BY <1>1 DEF EngineOK
<1>3. SearchOK(s)
  BY DEF FindOK
<1>4. SearchOK(new)'
  <2>1. V!HistorySize \in Nat
    <3>1. CASE altScreen
      BY <3>1 DEF V!HistorySize
    <3>2. CASE ~altScreen
      BY <3>2, ScrollBounds DEF V!HistorySize, EngineOK
    <3> QED BY <3>1, <3>2
  <2> DEFINE reply == V!Reply(0, V!HistorySize)
  <2>2. ReplyOK(reply)
    BY <2>1, ReplyIsOK
  <2>3. new = [st |-> "answered", query |-> s.query, gen |-> s.gen, reply |-> reply, alt |-> altScreen]
    BY <1>0
  <2> HIDE DEF reply
  <2>4. SearchOK(new)
    BY <1>3, <2>2, <2>3 DEF SearchOK
  <2>5. EngineOK /\ Ages
    BY <1>1 DEF Ages, V!engineVars
  <2> QED BY <2>4, <2>5, AgesSearch
<1>5. FindOK'
  <2>1. \A x \in searches : SearchOK(x)'
    BY <1>1, SearchesRest
  <2>2. \A x \in searches' : SearchOK(x)'
    BY <1>1, <1>4, <2>1
  <2> QED BY <1>1, <2>2 DEF FindOK
<1>6. TimersOK'
  BY <1>1 DEF TimersOK, Due
<1>7. Pursued'
  <2>1. CASE fails' = fails + 1
    BY <1>2, <2>1 DEF Pursued
  <2>2. CASE searches' = (searches \ {s}) \cup {new} /\ UNCHANGED fails
    <3>1. new.query = s.query /\ new.gen = s.gen
      BY <1>0
    <3> QED BY <1>1, <2>2, <3>1 DEF Pursued
  <2> QED BY <1>1, <2>1, <2>2
<1> QED BY <1>1, <1>2, <1>5, <1>6, <1>7, FindAlone

\* apply_find_snapshot: the viewport takes the reply's geometry and no row of it.
LEMMA ApplySearchOK == ASSUME ScrollIInv, NEW s \in searches, V!ApplySearch(s) PROVE ScrollIInv'
<1> USE DEF ScrollIInv
<1>1. /\ UNCHANGED <<V!engineVars, V!streamVars, fetch, query, gen, due, timers, fails, alts, restarts>>
      /\ s.st = "answered" /\ searches' = searches \ {s}
  BY DEF V!ApplySearch, V!boundVars
<1>2. EngineOK' /\ Ages
  BY <1>1, EngineRests
<1>3. SearchOK(s) /\ ReplyOK(s.reply)
  BY <1>1 DEF FindOK, SearchOK
<1>4. \A x \in searches' : SearchOK(x)'
  <2>1. \A x \in searches : SearchOK(x)'
    BY <1>1, SearchesRest
  <2> QED BY <1>1, <2>1
<1>5. TimersOK'
  BY <1>1 DEF TimersOK, Due
<1>6. fails' \in Nat
  BY <1>1 DEF EngineOK
<1>7. CASE ~V!Accepts(s)
  <2>1. UNCHANGED <<V!viewVars, matches, visStart, found, V!ghostVars>>
    BY <1>7 DEF V!ApplySearch, V!ghostVars
  <2>2. FindOK'
    BY <1>1, <1>4, <2>1 DEF FindOK
  <2>3. Pursued'
    BY <1>1, <1>7, <2>1 DEF Pursued, V!Accepts
  <2> QED BY <1>1, <1>5, <1>6, <2>1, <2>2, <2>3, FindAlone
<1>8. CASE V!Accepts(s)
  <2> DEFINE bare == [s.reply EXCEPT !.cells = V!NoRows]
             w == V!ApplyRows(V!View, bare)
  <2>1. /\ V!Becomes(w) /\ matches' = V!BuildMatches(s) /\ visStart' = s.reply.live
        /\ found' = s.query /\ stranded' = TRUE /\ chain' = 0
    BY <1>8 DEF V!ApplySearch
  <2>2. ReplyOK(bare) /\ bare.seq = s.reply.seq /\ DOMAIN bare.cells = {}
    <3>1. DOMAIN V!NoRows = {} /\ V!NoRows = [r \in DOMAIN V!NoRows |-> V!NoRows[r]]
      BY DEF V!NoRows
    <3>2. bare.cells = V!NoRows /\ bare.live = s.reply.live /\ bare.seq = s.reply.seq
          /\ bare = [cells |-> bare.cells, live |-> bare.live, seq |-> bare.seq]
      BY <1>3 DEF ReplyOK
    <3>3. IsFiniteSet({})
      BY FS_EmptySet
    <3> HIDE DEF bare
    <3> QED BY <1>3, <3>1, <3>2, <3>3 DEF ReplyOK
  <2> HIDE DEF bare
  <2>3. /\ ViewOK(w) /\ w.known /\ w.cacheSeq = bare.seq /\ w.inFlight = inFlight
        /\ \A r \in DOMAIN w.cache :
             \/ r \in DOMAIN bare.cells /\ w.cache[r] = bare.cells[r]
             \/ r \in DOMAIN cache /\ w.cache[r] = cache[r] /\ cacheSeq = bare.seq
    BY <2>2, ApplyRowsOK DEF V!View
  <2> HIDE DEF w
  <2>4. ViewOK(V!View)' /\ BlindServed(V!View)'
    BY <2>1, <2>3, ViewBecomes DEF BlindServed
  <2>5. cache' = w.cache /\ cacheSeq' = w.cacheSeq /\ inFlight' = inFlight
    BY <2>1, <2>3 DEF V!Becomes
  <2>6. CacheOK'
    BY <1>1, <1>2, <2>2, <2>3, <2>5, RowsAreTrue DEF V!engineVars
  <2>7. FetchOK'
    BY <1>1, <1>2, <2>5, AgesFetch
  <2>8. stranded' \in BOOLEAN /\ stranded'
    BY <2>1, Zenon
  <2>9. ChainOK'
    BY <2>1, <2>8 DEF ChainOK
  <2>10. FindOK'
    <3>1. V!BuildMatches(s) \subseteq Int /\ s.reply.live \in Int
      BY <1>3, ScrollBounds DEF V!BuildMatches, ReplyOK
    <3> QED BY <1>1, <1>3, <1>4, <2>1, <3>1 DEF FindOK, SearchOK
  <2>11. Pursued'
    BY <1>1, <1>8, <2>1 DEF Pursued, V!Accepts
  <2> QED BY <1>2, <1>5, <2>4, <2>6, <2>7, <2>8, <2>9, <2>10, <2>11
<1> QED BY <1>7, <1>8

\* Every step preserves it.
LEMMA ScrollNext == ASSUME ~Repeats, ScrollIInv, [V!Next]_(V!scrollVars) PROVE ScrollIInv'
<1>1. CASE V!Output \/ V!SwitchScreen \/ V!Restart
  BY <1>1, EngineSteps
<1>2. CASE V!GridFrame \/ V!ModesFrame
  BY <1>2, GridFrameOK, ModesFrameOK
<1>3. ASSUME NEW n \in Steps, V!Wheel(n) \/ V!Wheel(0 - n) PROVE ScrollIInv'
  <2>1. n \in Int /\ 0 - n \in Int
    BY ScrollBounds
  <2> QED BY <1>3, <2>1, WheelOK
<1>4. CASE V!ReturnToLive \/ V!CloseFind
  BY <1>4, ReturnToLiveOK, CloseFindOK
<1>5. ASSUME NEW q \in Queries \cup {V!None}, V!SetQuery(q) PROVE ScrollIInv'
  BY <1>5, SetQueryOK
<1>6. ASSUME NEW m \in matches, V!Navigate(m) PROVE ScrollIInv'
  BY <1>6, NavigateOK
<1>7. CASE V!Fetching
  BY <1>7, AnswerOK, CompleteFetchOK, FailFetchOK DEF V!Fetching
<1>8. CASE V!Searching
  <2>1. ASSUME NEW k \in V!Kinds, V!Timer(k) PROVE ScrollIInv'
    BY <2>1, TimerOK
  <2>2. ASSUME NEW s \in searches, V!AnswerSearch(s) \/ V!ApplySearch(s) PROVE ScrollIInv'
    BY <2>2, AnswerSearchOK, ApplySearchOK
  <2> QED BY <1>8, <2>1, <2>2 DEF V!Searching
<1>9. CASE UNCHANGED V!scrollVars
  <2>1. /\ UNCHANGED <<V!engineVars, V!streamVars, V!viewVars, fetch, V!findVars, V!ghostVars>>
        /\ UNCHANGED <<fails, alts, restarts>>
    BY <1>9 DEF V!scrollVars, V!boundVars
  <2>2. EngineOK /\ Ages /\ fails \in Nat /\ fails' = fails
    BY <2>1, EngineRests DEF ScrollIInv, EngineOK
  <2>3. FindOK' /\ TimersOK' /\ Pursued'
    BY <2>1, <2>2, FindRests DEF ScrollIInv
  <2> QED BY <2>1, <2>2, <2>3, FindAlone
<1> QED BY <1>1, <1>2, <1>3, <1>4, <1>5, <1>6, <1>7, <1>8, <1>9 DEF V!Next

\* Of two kinds, the searches that are due are as many as are counted.
LEMMA DueCount ==
  ASSUME due \subseteq V!Kinds PROVE Cardinality(due) = Due("search") + Due("rescan")
<1> DEFINE a == {k \in {"search"} : k \in due}
           b == {k \in {"rescan"} : k \in due}
<1>1. due = a \cup b /\ a \cap b = {}
  BY DEF V!Kinds
<1>2. IsFiniteSet(a) /\ Cardinality(a) = Due("search")
  <2>1. a = IF "search" \in due THEN {"search"} ELSE {}
    OBVIOUS
  <2> QED BY <2>1, FS_EmptySet, FS_Singleton DEF Due
<1>3. IsFiniteSet(b) /\ Cardinality(b) = Due("rescan")
  <2>1. b = IF "rescan" \in due THEN {"rescan"} ELSE {}
    OBVIOUS
  <2> QED BY <2>1, FS_EmptySet, FS_Singleton DEF Due
<1> HIDE DEF a, b
<1>4. Cardinality(a \cup b) = Cardinality(a) + Cardinality(b) - Cardinality(a \cap b)
  BY <1>2, <1>3, FS_Union
<1>5. Cardinality(a \cap b) = 0
  BY <1>1, FS_EmptySet
<1> QED BY <1>1, <1>2, <1>3, <1>4, <1>5 DEF Due

\* It implies what the run checks.
LEMMA ScrollImplied == ScrollIInv => ScrollInv
<1> SUFFICES ASSUME ScrollIInv PROVE ScrollInv
  OBVIOUS
<1> USE DEF ScrollIInv
<1>1. V!TypeOK
  <2>1. written \in Height..(MaxLines + MaxTrouble * Height)
    <3>1. ASSUME NEW i \in Nat, i <= MaxTrouble PROVE i * Height <= MaxTrouble * Height
      BY <3>1, ScrollBounds
    <3>2. restarts * Height <= MaxTrouble * Height /\ restarts * Height \in Nat /\ MaxTrouble * Height \in Nat
      BY <3>1, Product, ScrollBounds DEF EngineOK
    <3> QED BY <3>2, ScrollBounds DEF EngineOK
  <2>2. first \in 0..written /\ seq \in Nat /\ shown \in 0..written /\ altScreen \in BOOLEAN /\ alt \in BOOLEAN
    BY ScrollBounds DEF EngineOK
  <2>3. offset \in Nat /\ anchor \in Int /\ live \in Nat /\ known \in BOOLEAN
    BY ScrollBounds DEF ViewOK, V!View, V!NoAnchor
  <2>4. /\ cacheSeq \in Nat \cup {V!None} /\ DOMAIN cache \subseteq Nat
        /\ V!Cardinality(DOMAIN cache) <= CacheCap
        /\ inFlight \in V!Ranges /\ queued \in V!Ranges
    BY SameSize DEF ViewOK, V!View, Proper
  <2>5. fetch.st \in {"none", "asked", "answered", "failed"}
    BY DEF FetchOK, V!NoFetch
  <2>6. stranded \in BOOLEAN /\ chain \in Nat
    BY DEF ChainOK
  <2> QED BY <2>1, <2>2, <2>3, <2>4, <2>5, <2>6 DEF V!TypeOK, FindOK
<1>2. V!CacheIsTrue
  BY DEF V!CacheIsTrue, CacheOK
<1>3. V!AnchorPins
  <2>1. /\ offset \in Nat /\ live \in Nat /\ live <= MaxLines - Height
        /\ anchor = IF offset > 0 THEN live - offset ELSE V!NoAnchor
        /\ known => offset <= live
    BY ScrollBounds DEF ViewOK, V!View
  <2>2. offset <= V!MaxOffset(V!View)
    <3>1. V!MaxOffset(V!View) = IF known THEN V!Max({live, 0}) ELSE offset + Height
      BY DEF V!MaxOffset, V!View
    <3>2. V!Max({live, 0}) = live
      BY <2>1, MaxOfTwo
    <3> QED BY <2>1, <3>1, <3>2, ScrollBounds
  <2>3. offset > 0 => live - offset # V!NoAnchor
    BY <2>1, ScrollBounds DEF V!NoAnchor
  <2> QED BY <2>1, <2>2, <2>3 DEF V!AnchorPins
<1>4. V!WindowServed
  <2>1. inFlight # V!NoRange <=> fetch # V!NoFetch
    <3>1. CASE fetch = V!NoFetch
      BY <3>1 DEF FetchOK, V!NoFetch
    <3>2. CASE fetch # V!NoFetch
      BY <3>2 DEF FetchOK
    <3> QED BY <3>1, <3>2
  <2> QED BY <2>1 DEF V!WindowServed
<1>5. V!DueIsTaken
  BY DueCount, SameSize DEF V!DueIsTaken, FindOK, TimersOK
<1>6. V!FindSettles
  <2>1. ASSUME timers = [k \in V!Kinds |-> 0] PROVE "search" \notin due
    <3>1. timers["search"] = 0 /\ timers["rescan"] = 0
      BY <2>1 DEF V!Kinds
    <3> QED BY <3>1 DEF TimersOK, Due
  <2> QED BY <2>1 DEF V!FindSettles, Pursued
<1>7. V!FingerSettles
  BY DEF ChainOK, V!FingerSettles
<1> QED BY <1>1, <1>2, <1>3, <1>4, <1>5, <1>6, <1>7 DEF ScrollInv, V!ScrollInv

\* scrollback.rs and find.rs: where a line never leaves the screen as it looked, a
\* cached row is the Engine's, the row at the top is pinned while the reader is
\* scrolled back, what the window lacks is fetched, every due search has its timer
\* and its matches come, and a wheel costs two fetches at most, over any output,
\* restarts, failures and switches of the screen.
THEOREM ScrollSafe == ASSUME ~Repeats PROVE V!Spec => []ScrollInv
BY ScrollInit, ScrollNext, ScrollImplied, PTL DEF V!Spec

-----------------------------------------------------------------------------
(* The pane: its inductive invariant.                                      *)

\* What a queue says last of the entries in T is in G, which is a part of T.
EndsIn(q, T, G) == \E k \in 1..Len(q) : q[k] \in G /\ \A j \in k + 1..Len(q) : q[j] \notin T

\* A queue says nothing of T.
NoneIn(q, T) == \A k \in 1..Len(q) : q[k] \notin T

\* What comes out of a queue, or else what is known without it, is in G.
Follows(q, T, G, rest) == EndsIn(q, T, G) \/ (NoneIn(q, T) /\ rest)

\* What the pane is told: frames, and events that are not frames.
Frames == [t : {"grid"}, full : BOOLEAN, rows : [P!Rows -> Nat], n : Nat]
Reports == [t : {"attaching", "live", "reconnecting"}]
Keys == [t : {"key"}]
PaneEvents == Frames \cup Reports \cup Keys

\* The frames that change a row, and those that leave v in it.
Touches(r) == {f \in Frames : f.full \/ f.n % 2 = r}
Shows(r, v) == {f \in Frames : IF f.full THEN f.rows[r] = v ELSE f.n % 2 = r /\ f.n = v}

\* An attachment task as its steps leave it.
TaskRecs == [st : {"connecting", "live", "retry", "closed"}, cmds : Seq(Sizes \cup {P!Close}),
             last : Sizes \cup {P!NoSize}, up : Seq(Sizes), down : Seq(Frames), cut : BOOLEAN]
TaskOK(a) == a \in TaskRecs

Holds == [held : {TRUE}, saw : BOOLEAN, parked : Seq(Frames)]

\* The frames that a hold keeps back.
HeldBack == IF hold.held THEN hold.parked ELSE <<>>

AttTypes == att = [i \in P!Ids |-> att[i]] /\ \A i \in P!Ids : TaskOK(att[i])
QueueTypes ==
  /\ inbox \in Seq(PaneEvents) /\ hold \in {P!NoHold} \cup Holds
  /\ grid \in [P!Rows -> Nat] /\ state \in {"attaching", "live", "reconnecting"}
EngineTypes == screen \in [P!Rows -> Nat] /\ version \in Nat /\ size \in Sizes \cup {P!NoSize}
               /\ missed \in BOOLEAN
SizeTypes ==
  /\ area \in Sizes /\ lastSize \in Sizes \cup {P!NoSize} /\ pend \in Sizes \cup {P!NoSize}
  /\ armed \in BOOLEAN /\ sent \in BOOLEAN
FlagTypes ==
  /\ selected \in BOOLEAN /\ told \in BOOLEAN /\ active \in BOOLEAN /\ notified \in BOOLEAN
  /\ paced \in BOOLEAN /\ sched \in BOOLEAN /\ budget \in 0..2 /\ stale \in Nat
PaneTypes == AttTypes /\ QueueTypes /\ EngineTypes /\ SizeTypes /\ FlagTypes

\* Two selections for each attachment after the first.
CountOK ==
  /\ count \in Nat \ {0} /\ selects \in Nat /\ selects <= MaxSelects
  /\ cur \in {P!NoId, count}
  /\ 2 * (count - 1) + (IF ~selected THEN 1 ELSE IF P!Resident THEN 0 ELSE 2) <= selects

\* The resident has the only attachment that is not closed, nothing of the others is on its
\* way to the Engine, and it is not told to close.
Alone ==
  /\ P!Resident => att[cur].st # "closed" /\ att[cur].cmds \in Seq(Sizes)
  /\ P!Resident \/ selected => \A i \in P!Ids \ {cur} : att[i] = P!Closed
  /\ ~P!Resident => hold = P!NoHold

\* The size of the viewport is the last one that was measured,
Measured == P!Resident /\ selected /\ ~notified /\ ~told => lastSize = area

\* which is pending, or on its way to the task, or the task's last size,
SizeWay(a, z) == Follows(a.cmds, Sizes, {z}, a.last = z)
SizeToTask ==
  P!Resident /\ lastSize # P!NoSize => IF pend # P!NoSize THEN pend = lastSize ELSE SizeWay(att[cur], lastSize)

\* which is on its way to the Engine, or the Engine's, or could not be set.
UpWay(a, z, m) == Follows(a.up, Sizes, {a.last}, a.last = P!NoSize \/ z = a.last \/ m)
Connected(a) == a.st = "live" /\ ~a.cut
SizeToEngine == P!Resident /\ Connected(att[cur]) => UpWay(att[cur], size, missed)

\* A row of the Engine's screen is in the connection, in the inbox, in the hold or in the grid,
\* and nothing behind it says otherwise.
KeptWay(kept, g, r, v) == Follows(kept, Touches(r), Shows(r, v), g[r] = v)
InboxWay(in, kept, g, r, v) == Follows(in, Touches(r), Shows(r, v), KeptWay(kept, g, r, v))
RowWay(down, in, kept, g, r, v) == Follows(down, Touches(r), Shows(r, v), InboxWay(in, kept, g, r, v))
RowsCome ==
  P!Resident /\ Connected(att[cur]) =>
    \A r \in P!Rows : RowWay(att[cur].down, inbox, HeldBack, grid, r, screen[r])

\* The name under which a task reports its state.
NameOf(st) == CASE st = "connecting" -> "attaching" [] st = "live" -> "live" [] OTHER -> "reconnecting"

\* The last state in the inbox, or else the pane's, is the task's.
StateWay(in, s, name) == Follows(in, Reports, {P!Event(name)}, s = name)
StateComes == P!Resident => StateWay(inbox, state, NameOf(att[cur].st))

PaneIInv ==
  /\ PaneTypes /\ CountOK /\ Alone /\ Measured /\ P!PendingIsArmed /\ SizeToTask /\ SizeToEngine
  /\ RowsCome /\ StateComes /\ P!PaintComes

-----------------------------------------------------------------------------
(* Queues.                                                                 *)

\* One more entry at the end of a queue.
LEMMA EndsAppend ==
  ASSUME NEW S, NEW q \in Seq(S), NEW e \in S, NEW T, NEW G
  PROVE  /\ e \in G => EndsIn(Append(q, e), T, G)
         /\ e \notin T /\ EndsIn(q, T, G) => EndsIn(Append(q, e), T, G)
         /\ e \notin T /\ NoneIn(q, T) => NoneIn(Append(q, e), T)
<1> DEFINE p == Append(q, e)  n == Len(q)
<1>1. /\ n \in Nat /\ Len(p) = n + 1 /\ p[n + 1] = e /\ p \in Seq(S)
      /\ \A k \in 1..n : p[k] = q[k]
  OBVIOUS
<1> HIDE DEF p
<1>2. ASSUME e \in G PROVE EndsIn(p, T, G)
  <2>1. n + 1 \in 1..Len(p) /\ \A j \in (n + 1) + 1..Len(p) : FALSE
    BY <1>1
  <2> QED BY <1>1, <1>2, <2>1 DEF EndsIn
<1>3. ASSUME e \notin T, EndsIn(q, T, G) PROVE EndsIn(p, T, G)
  <2>1. PICK k \in 1..n : q[k] \in G /\ \A j \in k + 1..n : q[j] \notin T
    BY <1>3 DEF EndsIn
  <2>2. k \in 1..Len(p) /\ p[k] \in G
    BY <1>1, <2>1
  <2>3. ASSUME NEW j \in k + 1..Len(p) PROVE p[j] \notin T
    <3>1. j = n + 1 \/ (j \in k + 1..n /\ j \in 1..n)
      BY <1>1, <2>1
    <3> QED BY <1>1, <1>3, <2>1, <3>1
  <2> QED BY <2>2, <2>3 DEF EndsIn
<1>4. ASSUME e \notin T, NoneIn(q, T) PROVE NoneIn(p, T)
  <2> SUFFICES ASSUME NEW k \in 1..Len(p) PROVE p[k] \notin T
    BY DEF NoneIn
  <2>1. k = n + 1 \/ k \in 1..n
    BY <1>1
  <2> QED BY <1>1, <1>4, <2>1 DEF NoneIn
<1> QED BY <1>2, <1>3, <1>4 DEF p

\* The first entry is taken from a queue.
LEMMA EndsTail ==
  ASSUME NEW S, NEW q \in Seq(S), q # <<>>, NEW T, NEW G
  PROVE  /\ Tail(q) \in Seq(S) /\ Head(q) \in S
         /\ EndsIn(q, T, G) => \/ EndsIn(Tail(q), T, G)
                               \/ NoneIn(Tail(q), T) /\ Head(q) \in G
         /\ NoneIn(q, T) => NoneIn(Tail(q), T) /\ Head(q) \notin T
<1> DEFINE p == Tail(q)  n == Len(q)
<1>1. /\ n \in Nat \ {0} /\ Len(p) = n - 1 /\ p \in Seq(S) /\ Head(q) = q[1] /\ q[1] \in S
      /\ \A k \in 1..n - 1 : p[k] = q[k + 1]
  OBVIOUS
<1> HIDE DEF p
<1>2. ASSUME EndsIn(q, T, G), ~EndsIn(p, T, G) PROVE NoneIn(p, T) /\ q[1] \in G
  <2>1. PICK k \in 1..n : q[k] \in G /\ \A j \in k + 1..n : q[j] \notin T
    BY <1>2 DEF EndsIn
  <2>2. ASSUME k # 1 PROVE FALSE
    <3>1. k - 1 \in 1..Len(p) /\ p[k - 1] = q[k]
      BY <1>1, <2>1, <2>2
    <3>2. ASSUME NEW j \in (k - 1) + 1..Len(p) PROVE p[j] \notin T
      <4>1. j \in 1..n - 1 /\ j + 1 \in k + 1..n
        BY <1>1, <2>1, <2>2
      <4> QED BY <1>1, <2>1, <4>1
    <3> QED BY <1>2, <2>1, <3>1, <3>2 DEF EndsIn
  <2>3. ASSUME NEW j \in 1..Len(p) PROVE p[j] \notin T
    <3>1. j \in 1..n - 1 /\ j + 1 \in k + 1..n
      BY <1>1, <2>1, <2>2
    <3> QED BY <1>1, <2>1, <3>1
  <2> QED BY <2>1, <2>2, <2>3 DEF NoneIn
<1>3. ASSUME NoneIn(q, T) PROVE NoneIn(p, T) /\ q[1] \notin T
  <2>1. ASSUME NEW j \in 1..Len(p) PROVE p[j] \notin T
    <3>1. j \in 1..n - 1 /\ j + 1 \in 1..n
      BY <1>1
    <3> QED BY <1>1, <1>3, <3>1 DEF NoneIn
  <2>2. 1 \in 1..n
    BY <1>1
  <2> QED BY <1>3, <2>1, <2>2 DEF NoneIn
<1> QED BY <1>1, <1>2, <1>3 DEF p

\* An empty queue, and one with an entry.
LEMMA EndsEmpty ==
  ASSUME NEW T, NEW G
  PROVE  /\ NoneIn(<<>>, T) /\ ~EndsIn(<<>>, T, G)
         /\ \A e : e \in G => EndsIn(<<e>>, T, G)
         /\ \A e : e \notin T => NoneIn(<<e>>, T)
<1>1. NoneIn(<<>>, T) /\ ~EndsIn(<<>>, T, G)
  BY DEF NoneIn, EndsIn
<1>2. \A e : e \in G => EndsIn(<<e>>, T, G)
  BY DEF EndsIn
<1>3. \A e : e \notin T => NoneIn(<<e>>, T)
  BY DEF NoneIn
<1> QED BY <1>1, <1>2, <1>3

\* What follows from a queue, with one more entry, without the first, and without any.
LEMMA FollowsAppend ==
  ASSUME NEW S, NEW q \in Seq(S), NEW e \in S, NEW T, NEW G \in SUBSET T, NEW c, NEW d
  PROVE  /\ e \in G => Follows(Append(q, e), T, G, d)
         /\ e \notin T /\ Follows(q, T, G, c) /\ (c => d) => Follows(Append(q, e), T, G, d)
  BY EndsAppend DEF Follows

\* The first entry goes where the queue leads.
LEMMA FollowsTail ==
  ASSUME NEW S, NEW q \in Seq(S), q # <<>>, NEW T, NEW G \in SUBSET T, NEW c, NEW d, Follows(q, T, G, c),
         Head(q) \in G => d, Head(q) \notin T /\ c => d
  PROVE  Follows(Tail(q), T, G, d)
  BY EndsTail DEF Follows

\* Nothing is left.
LEMMA FollowsEmpty ==
  ASSUME NEW T, NEW G, NEW c
  PROVE  Follows(<<>>, T, G, c) <=> c
  BY EndsEmpty DEF Follows

-----------------------------------------------------------------------------
(* Frames.                                                                 *)

\* A set of numbers that is not empty has a least one.
LEMMA LeastOf ==
  ASSUME NEW S \in SUBSET Nat, S # {}
  PROVE  \E x \in S : \A y \in S : x <= y
<1> DEFINE R == OpToRel(<, Nat)
<1>1. IsWellFoundedOn(R, Nat)
  BY NatLessThanWellFounded
<1>2. \A x, y \in Nat : x < y => <<x, y>> \in R
  BY DEF OpToRel
<1> HIDE DEF R
<1>3. PICK x \in S : \A y \in S : ~ (<<y, x>> \in R)
  BY <1>1, WFMin
<1>4. ASSUME NEW y \in S PROVE x <= y
  <2>1. x \in Nat /\ y \in Nat
    OBVIOUS
  <2>2. ~ (y < x)
    BY <1>2, <1>3, <2>1, Zenon
  <2> QED BY <2>1, <2>2
<1> QED BY <1>4

\* Induction over the numbers, for a set in the place of a predicate.
LEMMA InductionOver ==
  ASSUME NEW S, 0 \in S, \A n \in Nat : n \in S => n + 1 \in S
  PROVE  Nat \subseteq S
<1> SUFFICES ASSUME ~ (Nat \subseteq S) PROVE FALSE
  OBVIOUS
<1>1. (Nat \ S) # {} /\ (Nat \ S) \in SUBSET Nat
  OBVIOUS
<1>2. PICK x \in Nat \ S : \A y \in Nat \ S : x <= y
  BY <1>1, LeastOf
<1>3. x # 0 /\ x - 1 \in Nat
  BY <1>2
<1>4. x - 1 \in S
  BY <1>2, <1>3
<1> QED BY <1>2, <1>3, <1>4

\* GridBuffer::apply, for a row.
LEMMA AppliedRow ==
  ASSUME NEW g \in [P!Rows -> Nat], NEW f \in Frames, NEW r \in P!Rows
  PROVE  /\ P!Applied(g, f) \in [P!Rows -> Nat]
         /\ f \notin Touches(r) => P!Applied(g, f)[r] = g[r]
         /\ \A v : f \in Shows(r, v) => P!Applied(g, f)[r] = v
<1>1. f.full \in BOOLEAN /\ f.rows \in [P!Rows -> Nat] /\ f.n \in Nat
  BY DEF Frames
<1>2. f.n % 2 \in P!Rows
  BY <1>1 DEF P!Rows
<1>3. f \in Touches(r) <=> f.full \/ f.n % 2 = r
  BY DEF Touches
<1>4. ASSUME NEW v PROVE f \in Shows(r, v) <=> IF f.full THEN f.rows[r] = v ELSE f.n % 2 = r /\ f.n = v
  BY DEF Shows
<1>5. CASE f.full
  BY <1>1, <1>3, <1>4, <1>5 DEF P!Applied
<1>6. CASE ~f.full
  <2> DEFINE n == f.n  m == f.n % 2
  <2>1. n \in Nat /\ m \in P!Rows
    BY <1>1, <1>2
  <2>2. P!Applied(g, f) = [g EXCEPT ![m] = n]
    BY <1>6 DEF P!Applied
  <2>3. f \notin Touches(r) => m # r
    BY <1>3, <1>6
  <2>4. \A v : f \in Shows(r, v) => m = r /\ n = v
    BY <1>4, <1>6
  <2> HIDE DEF n, m
  <2>5. [g EXCEPT ![m] = n] \in [P!Rows -> Nat]
    BY <2>1
  <2>6. [g EXCEPT ![m] = n][r] = IF m = r THEN n ELSE g[r]
    BY <2>1
  <2> QED BY <2>2, <2>3, <2>4, <2>5, <2>6
<1> QED BY <1>5, <1>6

\* A frame that shows v in a row leaves it there.
LEMMA AppliedShows ==
  ASSUME NEW g \in [P!Rows -> Nat], NEW f \in Frames, NEW r \in P!Rows, NEW v, f \in Shows(r, v)
  PROVE  P!Applied(g, f)[r] = v
  BY AppliedRow

\* The grids of ApplyAll, after each of the first n frames.
Grids(g, fs, n, f) == f = [k \in 0..n |-> IF k = 0 THEN g ELSE P!Applied(f[k - 1], fs[k])]

\* There are such grids.
LEMMA GridsExist == ASSUME NEW g, NEW fs PROVE \A n \in Nat : \E f : Grids(g, fs, n, f)
<1> DEFINE S == {n \in Nat : \E f : Grids(g, fs, n, f)}
<1>1. 0 \in S
  <2> DEFINE f == [k \in 0..0 |-> g]
  <2>1. Grids(g, fs, 0, f)
    BY DEF Grids
  <2> QED BY <2>1
<1>2. ASSUME NEW n \in Nat, n \in S PROVE n + 1 \in S
  <2>1. PICK f : Grids(g, fs, n, f)
    BY <1>2
  <2> DEFINE h == [k \in 0..(n + 1) |-> IF k = n + 1 THEN P!Applied(f[n], fs[n + 1]) ELSE f[k]]
  <2>2. \A k \in 0..(n + 1) : h[k] = IF k = 0 THEN g ELSE P!Applied(h[k - 1], fs[k])
    BY <2>1 DEF Grids
  <2>3. Grids(g, fs, n + 1, h)
    BY <2>2 DEF Grids
  <2> QED BY <2>3
<1> HIDE DEF S
<1>3. Nat \subseteq S
  BY <1>1, <1>2, InductionOver
<1> QED BY <1>3 DEF S

\* ApplyAll is the last of them.
LEMMA ApplyAllLast ==
  ASSUME NEW g, NEW fs, Len(fs) \in Nat
  PROVE  \E f : Grids(g, fs, Len(fs), f) /\ P!ApplyAll(g, fs) = f[Len(fs)]
<1>1. \E f : Grids(g, fs, Len(fs), f)
  BY GridsExist
<1>2. P!ApplyAll(g, fs) = (CHOOSE f : Grids(g, fs, Len(fs), f))[Len(fs)]
  BY DEF P!ApplyAll, Grids
<1> QED BY <1>1, <1>2

\* A row after some frames: what the last that changes it left there.
LEMMA ApplyAllRow ==
  ASSUME NEW g \in [P!Rows -> Nat], NEW fs \in Seq(Frames)
  PROVE  /\ P!ApplyAll(g, fs) \in [P!Rows -> Nat]
         /\ \A r \in P!Rows : \A v : KeptWay(fs, g, r, v) => P!ApplyAll(g, fs)[r] = v
<1> DEFINE n == Len(fs)
<1>1. n \in Nat /\ \A k \in 1..n : fs[k] \in Frames
  OBVIOUS
<1>2. PICK f : Grids(g, fs, n, f) /\ P!ApplyAll(g, fs) = f[n]
  BY <1>1, ApplyAllLast
<1>3. f[0] = g /\ \A k \in 1..n : f[k] = P!Applied(f[k - 1], fs[k])
  BY <1>1, <1>2 DEF Grids
<1> HIDE DEF n
<1>4. \A k \in 0..n : f[k] \in [P!Rows -> Nat]
  <2> DEFINE S == {k \in Nat : k <= n => f[k] \in [P!Rows -> Nat]}
  <2>1. 0 \in S
    BY <1>3
  <2>2. ASSUME NEW k \in Nat, k \in S PROVE k + 1 \in S
    <3> SUFFICES ASSUME k + 1 <= n PROVE f[k + 1] \in [P!Rows -> Nat]
      OBVIOUS
    <3>1. k + 1 \in 1..n /\ f[k] \in [P!Rows -> Nat]
      BY <1>1, <2>2
    <3>2. f[k + 1] = P!Applied(f[k], fs[k + 1]) /\ fs[k + 1] \in Frames
      BY <1>1, <1>3, <3>1
    <3>3. 0 \in P!Rows
      BY DEF P!Rows
    <3>4. P!Applied(f[k], fs[k + 1]) \in [P!Rows -> Nat]
      BY <3>1, <3>2, <3>3, AppliedRow, Zenon
    <3> QED BY <3>2, <3>4
  <2> HIDE DEF S
  <2>3. Nat \subseteq S
    BY <2>1, <2>2, InductionOver
  <2> QED BY <1>1, <2>3 DEF S
<1>5. ASSUME NEW r \in P!Rows, NEW m \in 0..n, \A j \in m + 1..n : fs[j] \notin Touches(r)
      PROVE  f[n][r] = f[m][r]
  <2> DEFINE S == {k \in Nat : m <= k /\ k <= n => f[k][r] = f[m][r]}
  <2>1. 0 \in S
    BY <1>1
  <2>2. ASSUME NEW k \in Nat, k \in S PROVE k + 1 \in S
    <3> SUFFICES ASSUME m <= k + 1, k + 1 <= n PROVE f[k + 1][r] = f[m][r]
      OBVIOUS
    <3>1. CASE m = k + 1
      BY <3>1
    <3>2. CASE m # k + 1
      <4>1. k + 1 \in m + 1..n /\ k + 1 \in 1..n /\ k \in 0..n /\ m <= k /\ k <= n
        BY <1>1, <3>2
      <4>2. f[k + 1] = P!Applied(f[k], fs[k + 1]) /\ fs[k + 1] \in Frames /\ fs[k + 1] \notin Touches(r)
        <5>1. f[k + 1] = P!Applied(f[k + 1 - 1], fs[k + 1]) /\ k + 1 - 1 = k
          BY <1>3, <4>1
        <5>2. fs[k + 1] \in Frames
          BY <1>1, <4>1
        <5>3. fs[k + 1] \notin Touches(r)
          BY <1>5, <4>1
        <5> QED BY <5>1, <5>2, <5>3
      <4>3. P!Applied(f[k], fs[k + 1])[r] = f[k][r]
        <5>1. f[k] \in [P!Rows -> Nat]
          BY <1>4, <4>1
        <5> QED BY <4>2, <5>1, AppliedRow, Zenon
      <4>4. f[k][r] = f[m][r]
        BY <2>2, <4>1
      <4> QED BY <4>2, <4>3, <4>4
    <3> QED BY <3>1, <3>2
  <2> HIDE DEF S
  <2>3. Nat \subseteq S
    BY <2>1, <2>2, InductionOver
  <2> QED BY <1>1, <2>3 DEF S
<1>6. ASSUME NEW r \in P!Rows, NEW v, KeptWay(fs, g, r, v) PROVE f[n][r] = v
  <2>1. CASE EndsIn(fs, Touches(r), Shows(r, v))
    <3>1. PICK m \in 1..n : fs[m] \in Shows(r, v) /\ \A j \in m + 1..n : fs[j] \notin Touches(r)
      BY <2>1 DEF EndsIn, n
    <3>2. m \in 0..n /\ m - 1 \in 0..n
      BY <1>1
    <3>3. f[m] = P!Applied(f[m - 1], fs[m]) /\ fs[m] \in Frames
      BY <1>1, <1>3
    <3>4. f[m][r] = v
      <4>1. f[m - 1] \in [P!Rows -> Nat]
        BY <1>4, <3>2
      <4>2. P!Applied(f[m - 1], fs[m])[r] = v
        BY <3>1, <3>3, <4>1, AppliedShows
      <4> QED BY <3>3, <4>2
    <3> QED BY <1>5, <3>1, <3>2, <3>4
  <2>2. CASE NoneIn(fs, Touches(r)) /\ g[r] = v
    <3>1. \A j \in 0 + 1..n : fs[j] \notin Touches(r)
      BY <2>2, <1>1 DEF NoneIn, n
    <3>2. 0 \in 0..n
      BY <1>1
    <3> QED BY <1>3, <1>5, <2>2, <3>1, <3>2
  <2> QED BY <1>6, <2>1, <2>2 DEF KeptWay, Follows
<1>7. n \in 0..n
  BY <1>1
<1> QED BY <1>2, <1>4, <1>6, <1>7

-----------------------------------------------------------------------------
(* The way of a row.                                                       *)

\* What the pane is told is one of three kinds.
LEMMA EventKinds ==
  /\ \A e \in Frames : e.t = "grid" /\ e \notin Reports
  /\ \A e \in Reports : e.t \in {"attaching", "live", "reconnecting"} /\ e \notin Frames /\ e = P!Event(e.t)
  /\ \A e \in Keys : e.t = "key" /\ e \notin Frames /\ e \notin Reports
  /\ \A t \in {"attaching", "live", "reconnecting"} : P!Event(t) \in Reports
  /\ P!Event("key") \in Keys
  BY DEF Frames, Reports, Keys, P!Event

\* A frame for a row is a frame.
LEMMA FrameKinds ==
  ASSUME NEW r
  PROVE  Touches(r) \subseteq Frames /\ \A v : Shows(r, v) \subseteq Touches(r)
<1>1. Touches(r) \subseteq Frames
  BY DEF Touches
<1>2. ASSUME NEW v, NEW f \in Shows(r, v) PROVE f \in Touches(r)
  BY DEF Shows, Touches
<1> QED BY <1>1, <1>2

\* A weaker end for a queue.
LEMMA FollowsWeaker ==
  ASSUME NEW q, NEW T, NEW G, NEW c, NEW d, Follows(q, T, G, c), c => d
  PROVE  Follows(q, T, G, d)
  BY DEF Follows

\* ForwardChunk: from the connection to the inbox.
LEMMA RowForward ==
  ASSUME NEW down \in Seq(Frames), down # <<>>, NEW in \in Seq(PaneEvents), NEW kept, NEW g, NEW r, NEW v,
         RowWay(down, in, kept, g, r, v)
  PROVE  RowWay(Tail(down), Append(in, Head(down)), kept, g, r, v)
<1> DEFINE f == Head(down)  c == KeptWay(kept, g, r, v)  T == Touches(r)  G == Shows(r, v)
<1>1. f \in PaneEvents /\ G \in SUBSET T
  BY EndsTail, FrameKinds DEF PaneEvents
<1>2. f \in G => Follows(Append(in, f), T, G, c)
  BY <1>1, FollowsAppend
<1>3. f \notin T /\ Follows(in, T, G, c) => Follows(Append(in, f), T, G, c)
  BY <1>1, FollowsAppend
<1>4. Follows(down, T, G, Follows(in, T, G, c))
  BY DEF RowWay, InboxWay
<1>5. Follows(Tail(down), T, G, Follows(Append(in, f), T, G, c))
  <2> DEFINE x == Follows(in, T, G, c)  y == Follows(Append(in, f), T, G, c)
  <2>1. Follows(down, T, G, x) /\ (f \in G => y) /\ (f \notin T /\ x => y)
    BY <1>2, <1>3, <1>4
  <2>2. Follows(Tail(down), T, G, y)
    <3> HIDE DEF x, y, T, G
    <3> QED BY <1>1, <2>1, FollowsTail
  <2> QED BY <2>2
<1> QED BY <1>5 DEF RowWay, InboxWay

\* An event that is not a frame comes into the inbox.
LEMMA RowEvent ==
  ASSUME NEW down, NEW in \in Seq(PaneEvents), NEW e \in Reports \cup Keys, NEW kept, NEW g, NEW r, NEW v,
         RowWay(down, in, kept, g, r, v)
  PROVE  RowWay(down, Append(in, e), kept, g, r, v)
<1> DEFINE c == KeptWay(kept, g, r, v)  T == Touches(r)  G == Shows(r, v)
<1>1. e \in PaneEvents /\ e \notin T /\ G \in SUBSET T
  BY EventKinds, FrameKinds DEF PaneEvents
<1>2. Follows(in, T, G, c) => Follows(Append(in, e), T, G, c)
  BY <1>1, FollowsAppend
<1> QED BY <1>2, FollowsWeaker DEF RowWay, InboxWay

\* An entry is taken from the inbox: a frame is applied, or kept back, or both.
LEMMA RowTake ==
  ASSUME NEW down, NEW in \in Seq(PaneEvents), in # <<>>, NEW kept, NEW g, NEW kept1, NEW g1, NEW r, NEW v,
         RowWay(down, in, kept, g, r, v),
         Head(in) \in Shows(r, v) => KeptWay(kept1, g1, r, v),
         Head(in) \notin Touches(r) /\ KeptWay(kept, g, r, v) => KeptWay(kept1, g1, r, v)
  PROVE  RowWay(down, Tail(in), kept1, g1, r, v)
<1> DEFINE c == KeptWay(kept, g, r, v)  d == KeptWay(kept1, g1, r, v)  T == Touches(r)  G == Shows(r, v)
<1>1. G \in SUBSET T
  BY FrameKinds
<1>2. Follows(in, T, G, c) => Follows(Tail(in), T, G, d)
  <2>1. (Head(in) \in G => d) /\ (Head(in) \notin T /\ c => d)
    OBVIOUS
  <2> HIDE DEF c, d, T, G
  <2> QED BY <1>1, <2>1, FollowsTail
<1> QED BY <1>2, FollowsWeaker DEF RowWay, InboxWay

\* What is kept back and one frame more.
LEMMA KeptMore ==
  ASSUME NEW kept \in Seq(Frames), NEW f \in Frames, NEW g, NEW r, NEW v
  PROVE  /\ f \in Shows(r, v) => KeptWay(Append(kept, f), g, r, v)
         /\ f \notin Touches(r) /\ KeptWay(kept, g, r, v) => KeptWay(Append(kept, f), g, r, v)
<1>1. Shows(r, v) \in SUBSET Touches(r)
  BY FrameKinds
<1> QED BY <1>1, FollowsAppend DEF KeptWay

\* What is kept back is applied.
LEMMA KeptApplied ==
  ASSUME NEW kept \in Seq(Frames), NEW g \in [P!Rows -> Nat], NEW r \in P!Rows, NEW v, KeptWay(kept, g, r, v)
  PROVE  KeptWay(<<>>, P!ApplyAll(g, kept), r, v)
  BY ApplyAllRow, FollowsEmpty DEF KeptWay

\* ReleaseHold: the frames of the hold are applied.
LEMMA RowRelease ==
  ASSUME NEW down, NEW in, NEW kept \in Seq(Frames), NEW g \in [P!Rows -> Nat], NEW r \in P!Rows, NEW v,
         RowWay(down, in, kept, g, r, v)
  PROVE  RowWay(down, in, <<>>, P!ApplyAll(g, kept), r, v)
  BY KeptApplied, FollowsWeaker DEF RowWay, InboxWay

\* A frame that the Engine sends.
LEMMA RowSent ==
  ASSUME NEW down \in Seq(Frames), NEW in, NEW f \in Frames, NEW kept, NEW g, NEW r, NEW v
  PROVE  /\ f \in Shows(r, v) => RowWay(Append(down, f), in, kept, g, r, v)
         /\ f \in Shows(r, v) => RowWay(<<f>>, in, kept, g, r, v)
         /\ f \notin Touches(r) /\ RowWay(down, in, kept, g, r, v) => RowWay(Append(down, f), in, kept, g, r, v)
<1> DEFINE c == InboxWay(in, kept, g, r, v)  T == Touches(r)  G == Shows(r, v)
<1>1. G \in SUBSET T
  BY FrameKinds
<1>2. f \in G => Follows(Append(down, f), T, G, c)
  BY <1>1, FollowsAppend
<1>4. f \notin T /\ Follows(down, T, G, c) => Follows(Append(down, f), T, G, c)
  BY <1>1, FollowsAppend
<1>3. f \in G => Follows(<<f>>, T, G, c)
  <2> HIDE DEF c, T, G
  <2> QED BY EndsEmpty DEF Follows
<1> QED BY <1>2, <1>3, <1>4 DEF RowWay

-----------------------------------------------------------------------------
(* The attachment tasks.                                                   *)

\* A task and its fields.
TaskIs(b, st, cmds, last, up, down, cut) ==
  b \in TaskRecs /\ b.st = st /\ b.cmds = cmds /\ b.last = last /\ b.up = up /\ b.down = down /\ b.cut = cut

\* What the fields of a task are.
LEMMA TaskFields ==
  ASSUME NEW a \in TaskRecs
  PROVE  /\ a.st \in {"connecting", "live", "retry", "closed"} /\ a.cmds \in Seq(Sizes \cup {P!Close})
         /\ a.last \in Sizes \cup {P!NoSize} /\ a.up \in Seq(Sizes) /\ a.down \in Seq(Frames)
         /\ a.cut \in BOOLEAN
  BY DEF TaskRecs

\* One field of a task changes.
LEMMA TaskField ==
  ASSUME NEW a \in TaskRecs
  PROVE  /\ \A x \in {"connecting", "live", "retry", "closed"} :
              TaskIs([a EXCEPT !.st = x], x, a.cmds, a.last, a.up, a.down, a.cut)
         /\ \A x \in Seq(Sizes \cup {P!Close}) :
              TaskIs([a EXCEPT !.cmds = x], a.st, x, a.last, a.up, a.down, a.cut)
         /\ \A x \in Sizes \cup {P!NoSize} :
              TaskIs([a EXCEPT !.last = x], a.st, a.cmds, x, a.up, a.down, a.cut)
         /\ \A x \in Seq(Sizes) : TaskIs([a EXCEPT !.up = x], a.st, a.cmds, a.last, x, a.down, a.cut)
         /\ \A x \in Seq(Frames) : TaskIs([a EXCEPT !.down = x], a.st, a.cmds, a.last, a.up, x, a.cut)
         /\ \A x \in BOOLEAN : TaskIs([a EXCEPT !.cut = x], a.st, a.cmds, a.last, a.up, a.down, x)
<1>1. \A x \in {"connecting", "live", "retry", "closed"} :
              TaskIs([a EXCEPT !.st = x], x, a.cmds, a.last, a.up, a.down, a.cut)
  BY DEF TaskIs, TaskRecs
<1>2. \A x \in Seq(Sizes \cup {P!Close}) : TaskIs([a EXCEPT !.cmds = x], a.st, x, a.last, a.up, a.down, a.cut)
  BY DEF TaskIs, TaskRecs
<1>3. \A x \in Sizes \cup {P!NoSize} : TaskIs([a EXCEPT !.last = x], a.st, a.cmds, x, a.up, a.down, a.cut)
  BY DEF TaskIs, TaskRecs
<1>4. \A x \in Seq(Sizes) : TaskIs([a EXCEPT !.up = x], a.st, a.cmds, a.last, x, a.down, a.cut)
  BY DEF TaskIs, TaskRecs
<1>5. \A x \in Seq(Frames) : TaskIs([a EXCEPT !.down = x], a.st, a.cmds, a.last, a.up, x, a.cut)
  BY DEF TaskIs, TaskRecs
<1>6. \A x \in BOOLEAN : TaskIs([a EXCEPT !.cut = x], a.st, a.cmds, a.last, a.up, a.down, x)
  BY DEF TaskIs, TaskRecs
<1> QED BY <1>1, <1>2, <1>3, <1>4, <1>5, <1>6

\* Fields that change together.
LEMMA TaskConnects ==
  ASSUME NEW a \in TaskRecs, NEW u \in Seq(Sizes), NEW d \in Seq(Frames)
  PROVE  TaskIs([a EXCEPT !.st = "live", !.cut = FALSE, !.up = u, !.down = d],
                "live", a.cmds, a.last, u, d, FALSE)
  BY DEF TaskIs, TaskRecs

\* The connection is lost.
LEMMA TaskLoses ==
  ASSUME NEW a \in TaskRecs
  PROVE  TaskIs([a EXCEPT !.cut = TRUE, !.up = <<>>], a.st, a.cmds, a.last, <<>>, a.down, TRUE)
<1>1. ASSUME NEW u \in Seq(Sizes)
      PROVE  TaskIs([a EXCEPT !.cut = TRUE, !.up = u], a.st, a.cmds, a.last, u, a.down, TRUE)
  BY DEF TaskIs, TaskRecs
<1>2. <<>> \in Seq(Sizes)
  OBVIOUS
<1> QED BY <1>1, <1>2, Zenon

\* A command is taken.
LEMMA TaskTakes ==
  ASSUME NEW a \in TaskRecs, a.cmds # <<>>, NEW c \in Sizes, NEW b, b = [a EXCEPT !.cmds = Tail(@)]
  PROVE  LET u == IF a.st = "live" /\ ~a.cut THEN Append(a.up, c) ELSE a.up
         IN TaskIs([b EXCEPT !.last = c, !.up = IF b.st = "live" /\ ~b.cut THEN Append(@, c) ELSE @],
                   a.st, Tail(a.cmds), c, u, a.down, a.cut)
<1>1. Tail(a.cmds) \in Seq(Sizes \cup {P!Close})
  BY TaskFields
<1>2. TaskIs(b, a.st, Tail(a.cmds), a.last, a.up, a.down, a.cut)
  <2>1. b = [a EXCEPT !.cmds = Tail(a.cmds)]
    OBVIOUS
  <2> QED BY <1>1, <2>1, TaskField
<1> DEFINE u == IF a.st = "live" /\ ~a.cut THEN Append(a.up, c) ELSE a.up
<1>3. u \in Seq(Sizes)
  BY TaskFields
<1>4. [b EXCEPT !.last = c, !.up = IF b.st = "live" /\ ~b.cut THEN Append(@, c) ELSE @]
        = [[b EXCEPT !.last = c] EXCEPT !.up = u]
  <2>1. b.st = a.st /\ b.cut = a.cut /\ b.up = a.up
    BY <1>2 DEF TaskIs
  <2>2. (IF b.st = "live" /\ ~b.cut THEN Append(b.up, c) ELSE b.up) = u
    BY <2>1
  <2>3. [b EXCEPT !.last = c, !.up = IF b.st = "live" /\ ~b.cut THEN Append(@, c) ELSE @]
        = [b EXCEPT !.last = c, !.up = IF b.st = "live" /\ ~b.cut THEN Append(b.up, c) ELSE b.up]
    OBVIOUS
  <2> HIDE DEF u
  <2>4. [b EXCEPT !.last = c, !.up = u] = [[b EXCEPT !.last = c] EXCEPT !.up = u]
    BY <1>2 DEF TaskIs, TaskRecs
  <2> QED BY <2>2, <2>3, <2>4
<1> HIDE DEF u
<1>5. TaskIs([b EXCEPT !.last = c], a.st, Tail(a.cmds), c, a.up, a.down, a.cut)
  <2>1. b \in TaskRecs /\ c \in Sizes \cup {P!NoSize}
    BY <1>2 DEF TaskIs
  <2>2. TaskIs([b EXCEPT !.last = c], b.st, b.cmds, c, b.up, b.down, b.cut)
    BY <2>1, TaskField, Zenon
  <2> QED BY <1>2, <2>2, Zenon DEF TaskIs
<1>6. TaskIs([[b EXCEPT !.last = c] EXCEPT !.up = u], a.st, Tail(a.cmds), c, u, a.down, a.cut)
  <2> DEFINE d == [b EXCEPT !.last = c]
  <2>1. d \in TaskRecs
    BY <1>5 DEF TaskIs
  <2>2. TaskIs([d EXCEPT !.up = u], d.st, d.cmds, d.last, u, d.down, d.cut)
    <3> HIDE DEF d
    <3> QED BY <1>3, <2>1, TaskField, Zenon
  <2>3. d.st = a.st /\ d.cmds = Tail(a.cmds) /\ d.last = c /\ d.down = a.down /\ d.cut = a.cut
    BY <1>5 DEF TaskIs
  <2> HIDE DEF d
  <2>4. TaskIs([d EXCEPT !.up = u], a.st, Tail(a.cmds), c, u, a.down, a.cut)
    BY <2>2, <2>3, Zenon
  <2> QED BY <2>4 DEF d
<1> QED BY <1>4, <1>6 DEF u

-----------------------------------------------------------------------------
(* The way of a state.                                                     *)

\* A task reports its state.
LEMMA StateReport ==
  ASSUME NEW in \in Seq(PaneEvents), NEW s, NEW t \in {"attaching", "live", "reconnecting"}
  PROVE  StateWay(Append(in, P!Event(t)), s, t) /\ Append(in, P!Event(t)) \in Seq(PaneEvents)
<1>1. P!Event(t) \in PaneEvents /\ P!Event(t) \in Reports
  BY EventKinds DEF PaneEvents
<1> DEFINE e == P!Event(t)
<1>2. {e} \in SUBSET Reports /\ e \in {e}
  BY <1>1
<1>3. Follows(Append(in, e), Reports, {e}, s = t)
  <2> HIDE DEF e
  <2> QED BY <1>1, <1>2, FollowsAppend DEF e
<1> QED BY <1>1, <1>3 DEF StateWay

\* What is no state comes into the inbox.
LEMMA StateKey ==
  ASSUME NEW in \in Seq(PaneEvents), NEW e \in PaneEvents, e \notin Reports, NEW s,
         NEW t \in {"attaching", "live", "reconnecting"}, StateWay(in, s, t)
  PROVE  StateWay(Append(in, e), s, t)
<1>1. {P!Event(t)} \in SUBSET Reports
  BY EventKinds
<1> QED BY <1>1, FollowsAppend DEF StateWay

\* An entry is taken from the inbox.
LEMMA StateTake ==
  ASSUME NEW in \in Seq(PaneEvents), in # <<>>, NEW s, NEW s1, NEW t \in {"attaching", "live", "reconnecting"},
         StateWay(in, s, t), Head(in) \in Reports => s1 = Head(in).t, Head(in) \notin Reports => s1 = s
  PROVE  StateWay(Tail(in), s1, t)
<1>1. {P!Event(t)} \in SUBSET Reports
  BY EventKinds
<1>2. Head(in) \in {P!Event(t)} => s1 = t
  BY <1>1 DEF P!Event
<1>3. Head(in) \notin Reports /\ s = t => s1 = t
  OBVIOUS
<1> QED BY <1>1, <1>2, <1>3, FollowsTail DEF StateWay

\* The names of states.
LEMMA NameKinds ==
  /\ \A st : NameOf(st) \in {"attaching", "live", "reconnecting"}
  /\ NameOf("connecting") = "attaching" /\ NameOf("live") = "live" /\ NameOf("retry") = "reconnecting"
  BY DEF NameOf

-----------------------------------------------------------------------------
(* The pane's steps.                                                       *)

\* What the constants are.
LEMMA PaneBounds ==
  /\ MaxSelects \in Nat /\ MaxTrouble \in Nat /\ MaxEvents \in Nat /\ Overlaps \in BOOLEAN
  /\ Sizes # {} /\ P!NoSize \notin Sizes /\ P!Close \notin Sizes
  BY PaneAssumption DEF P!PaneConstants

\* A part of the invariant whose variables stay as they are holds after the step.
LEMMA PaneStays ==
  ASSUME PaneIInv
  PROVE  /\ att' = att => AttTypes'
         /\ inbox' = inbox /\ hold' = hold /\ grid' = grid /\ state' = state => QueueTypes'
         /\ screen' = screen /\ version' = version /\ size' = size /\ missed' = missed => EngineTypes'
         /\ area' = area /\ lastSize' = lastSize /\ pend' = pend /\ armed' = armed /\ sent' = sent => SizeTypes'
         /\ selected' = selected /\ told' = told /\ active' = active /\ notified' \in BOOLEAN
            /\ paced' = paced /\ sched' = sched /\ budget' = budget /\ stale' = stale => FlagTypes'
         /\ count' = count /\ selects' = selects /\ cur' = cur /\ selected' = selected => CountOK'
         /\ att' = att /\ cur' = cur /\ hold' = hold /\ selected' = selected => Alone'
         /\ cur' = cur /\ selected' = selected /\ (notified => notified') /\ told' = told
            /\ lastSize' = lastSize /\ area' = area => Measured'
         /\ pend' = pend /\ (armed => armed') => P!PendingIsArmed'
         /\ cur' = cur /\ att' = att /\ lastSize' = lastSize /\ pend' = pend => SizeToTask'
         /\ cur' = cur /\ att' = att /\ size' = size /\ missed' = missed => SizeToEngine'
         /\ cur' = cur /\ att' = att /\ inbox' = inbox /\ hold' = hold /\ grid' = grid /\ screen' = screen =>
              RowsCome'
         /\ cur' = cur /\ att' = att /\ inbox' = inbox /\ state' = state => StateComes'
         /\ active' = active /\ cur' = cur /\ selected' = selected /\ painted' = painted /\ grid' = grid
            /\ (notified => notified') /\ (sched => sched' \/ notified') /\ told' = told => P!PaintComes'
<1>1. att' = att => AttTypes'
  BY DEF PaneIInv, PaneTypes, AttTypes
<1>2. /\ inbox' = inbox /\ hold' = hold /\ grid' = grid /\ state' = state => QueueTypes'
      /\ screen' = screen /\ version' = version /\ size' = size /\ missed' = missed => EngineTypes'
      /\ area' = area /\ lastSize' = lastSize /\ pend' = pend /\ armed' = armed /\ sent' = sent => SizeTypes'
  BY Zenon DEF PaneIInv, PaneTypes, QueueTypes, EngineTypes, SizeTypes
<1>3. selected' = selected /\ told' = told /\ active' = active /\ notified' \in BOOLEAN
      /\ paced' = paced /\ sched' = sched /\ budget' = budget /\ stale' = stale => FlagTypes'
  BY Zenon DEF PaneIInv, PaneTypes, FlagTypes
<1>4. count' = count /\ selects' = selects /\ cur' = cur /\ selected' = selected => CountOK'
  BY DEF PaneIInv, CountOK, P!Resident
<1>5. att' = att /\ cur' = cur /\ hold' = hold /\ selected' = selected => Alone'
  BY DEF PaneIInv, Alone, P!Resident
<1>6. /\ cur' = cur /\ selected' = selected /\ (notified => notified') /\ told' = told
         /\ lastSize' = lastSize /\ area' = area => Measured'
      /\ pend' = pend /\ (armed => armed') => P!PendingIsArmed'
  BY Zenon DEF PaneIInv, Measured, P!Resident, P!PendingIsArmed
<1>7. /\ cur' = cur /\ att' = att /\ lastSize' = lastSize /\ pend' = pend => SizeToTask'
      /\ cur' = cur /\ att' = att /\ size' = size /\ missed' = missed => SizeToEngine'
  BY Zenon DEF PaneIInv, SizeToTask, SizeToEngine, P!Resident
<1>8. cur' = cur /\ att' = att /\ inbox' = inbox /\ hold' = hold /\ grid' = grid /\ screen' = screen =>
        RowsCome'
  BY Zenon DEF PaneIInv, RowsCome, HeldBack, P!Resident
<1>9. cur' = cur /\ att' = att /\ inbox' = inbox /\ state' = state => StateComes'
  BY Zenon DEF PaneIInv, StateComes, P!Resident
<1>10. active' = active /\ cur' = cur /\ selected' = selected /\ painted' = painted /\ grid' = grid
       /\ (notified => notified') /\ (sched => sched' \/ notified') /\ told' = told => P!PaintComes'
  BY DEF PaneIInv, P!PaintComes, P!Resident
<1> QED BY <1>1, <1>2, <1>3, <1>4, <1>5, <1>6, <1>7, <1>8, <1>9, <1>10, Zenon

\* The resident's attachment is one of the tasks.
LEMMA CurIsId ==
  ASSUME PaneIInv
  PROVE  /\ count \in P!Ids /\ (P!Resident => cur = count /\ cur \in P!Ids)
         /\ ~P!Resident /\ selected => count + 1 \in P!Ids
<1>1. /\ count \in Nat \ {0} /\ selects \in Nat /\ selects <= MaxSelects /\ MaxSelects \in Nat
      /\ cur \in {P!NoId, count}
      /\ 2 * (count - 1) + (IF ~selected THEN 1 ELSE IF P!Resident THEN 0 ELSE 2) <= selects
  BY PaneBounds DEF PaneIInv, CountOK
<1>2. \A c \in Nat \ {0}, s \in Nat, m \in Nat : s <= m /\ 2 * (c - 1) <= s => c \in 1..(1 + m \div 2)
  OBVIOUS
<1>3. \A c \in Nat \ {0}, s \in Nat, m \in Nat : s <= m /\ 2 * (c - 1) + 2 <= s => c + 1 \in 1..(1 + m \div 2)
  OBVIOUS
<1>4. 2 * (count - 1) <= selects /\ (~P!Resident /\ selected => 2 * (count - 1) + 2 <= selects)
  BY <1>1
<1> QED BY <1>1, <1>2, <1>3, <1>4 DEF P!Ids, P!Resident

\* A task that is not closed, or was sent sizes the Engine has yet to read, is the
\* resident's, if the session is resident or selected.
Mine(i) == P!Resident \/ selected => P!Resident /\ i = cur

LEMMA OnlyCur ==
  ASSUME PaneIInv, NEW i \in P!Ids, att[i].st # "closed" \/ att[i].up # <<>>
  PROVE  Mine(i)
<1>1. att[i] # P!Closed
  BY DEF P!Closed
<1> QED BY <1>1 DEF Mine, PaneIInv, Alone, P!Resident, P!NoId, P!Ids

\* The store selects this session or another.
LEMMA SelectStep ==
  ASSUME PaneIInv, ~Overlaps, P!Select PROVE PaneIInv'
<1>1. /\ selects < MaxSelects /\ selects' = selects + 1 /\ selected' = ~selected /\ told' = TRUE
      /\ \A i \in P!Ids \ {cur} : att[i] = P!Closed
      /\ att' = att /\ inbox' = inbox /\ hold' = hold /\ grid' = grid /\ state' = state /\ screen' = screen
      /\ version' = version /\ size' = size /\ missed' = missed /\ area' = area /\ lastSize' = lastSize /\ pend' = pend
      /\ armed' = armed /\ sent' = sent /\ count' = count /\ cur' = cur /\ painted' = painted
      /\ active' = active /\ notified' = notified /\ paced' = paced /\ sched' = sched
      /\ budget' = budget /\ stale' = stale
  BY DEF P!Select, P!attVars, P!paneVars, P!sizeVars, P!pacerVars, P!engineVars
<1>2. /\ AttTypes' /\ QueueTypes' /\ EngineTypes' /\ SizeTypes' /\ P!PendingIsArmed' /\ SizeToTask'
      /\ SizeToEngine' /\ RowsCome' /\ StateComes'
  BY <1>1, PaneStays, Zenon
<1>3. FlagTypes'
  BY <1>1, Zenon DEF PaneIInv, PaneTypes, FlagTypes
<1>4. CountOK'
  <2>1. /\ count \in Nat \ {0} /\ selects \in Nat /\ selects <= MaxSelects /\ MaxSelects \in Nat
        /\ cur \in {P!NoId, count} /\ selected \in BOOLEAN
        /\ 2 * (count - 1) + (IF ~selected THEN 1 ELSE IF P!Resident THEN 0 ELSE 2) <= selects
    BY PaneBounds DEF PaneIInv, CountOK, PaneTypes, FlagTypes
  <2>2. P!Resident' = P!Resident
    BY <1>1 DEF P!Resident
  <2>3. CASE selected
    <3>1. ~selected'
      BY <1>1, <2>3, Zenon
    <3>2. 2 * (count - 1) <= selects
      BY <2>1
    <3>3. 2 * (count - 1) + 1 <= selects + 1
      BY <2>1, <3>2
    <3> QED BY <1>1, <2>1, <2>2, <3>1, <3>3 DEF CountOK
  <2>4. CASE ~selected
    <3>1. selected'
      BY <1>1, <2>4, Zenon
    <3>2. 2 * (count - 1) + 1 <= selects
      BY <2>1, <2>4
    <3>3. 2 * (count - 1) + 2 <= selects + 1
      BY <2>1, <3>2
    <3> QED BY <1>1, <2>1, <2>2, <3>1, <3>3 DEF CountOK
  <2> QED BY <2>3, <2>4
<1>5. Alone'
  BY <1>1 DEF PaneIInv, Alone, P!Resident
<1>6. Measured' /\ P!PaintComes'
  BY <1>1 DEF Measured, P!PaintComes
<1> QED BY <1>2, <1>3, <1>4, <1>5, <1>6 DEF PaneIInv, PaneTypes

\* The user drags the window's edge.
LEMMA DragStep ==
  ASSUME PaneIInv, P!Drag PROVE PaneIInv'
<1>1. /\ area' \in Sizes /\ notified' = TRUE
      /\ att' = att /\ inbox' = inbox /\ hold' = hold /\ grid' = grid /\ state' = state /\ screen' = screen
      /\ version' = version /\ size' = size /\ missed' = missed /\ lastSize' = lastSize /\ pend' = pend /\ armed' = armed
      /\ sent' = sent /\ count' = count /\ cur' = cur /\ painted' = painted /\ selects' = selects
      /\ selected' = selected /\ told' = told /\ active' = active /\ paced' = paced /\ sched' = sched
      /\ budget' = budget /\ stale' = stale
  BY DEF P!Drag, P!attVars, P!paneVars, P!sizeVars, P!pacerVars, P!engineVars
<1>2. /\ AttTypes' /\ QueueTypes' /\ EngineTypes' /\ FlagTypes' /\ P!PendingIsArmed' /\ SizeToTask'
      /\ SizeToEngine' /\ RowsCome' /\ StateComes' /\ CountOK' /\ Alone' /\ P!PaintComes'
  BY <1>1, PaneStays, Zenon
<1>3. SizeTypes' /\ Measured'
  BY <1>1, Zenon DEF PaneIInv, PaneTypes, SizeTypes, Measured
<1> QED BY <1>2, <1>3 DEF PaneIInv, PaneTypes

\* A key is announced.
LEMMA TypeKeyStep ==
  ASSUME PaneIInv, P!TypeKey PROVE PaneIInv'
<1>1. /\ P!Resident /\ inbox' = Append(inbox, P!Event("key"))
      /\ att' = att /\ hold' = hold /\ grid' = grid /\ state' = state /\ screen' = screen
      /\ version' = version /\ size' = size /\ missed' = missed /\ area' = area /\ lastSize' = lastSize /\ pend' = pend
      /\ armed' = armed /\ sent' = sent /\ count' = count /\ cur' = cur /\ painted' = painted
      /\ selects' = selects /\ selected' = selected /\ told' = told /\ active' = active
      /\ notified' = notified /\ paced' = paced /\ sched' = sched /\ budget' = budget /\ stale' = stale
  BY DEF P!TypeKey, P!attVars, P!paneVars, P!sizeVars, P!pacerVars, P!engineVars
<1>0. notified \in BOOLEAN
  BY DEF PaneIInv, PaneTypes, FlagTypes
<1>2. /\ AttTypes' /\ EngineTypes' /\ SizeTypes' /\ FlagTypes' /\ P!PendingIsArmed' /\ SizeToTask'
      /\ SizeToEngine' /\ CountOK' /\ Alone' /\ Measured' /\ P!PaintComes'
  BY <1>0, <1>1, PaneStays, Zenon
<1>3. inbox \in Seq(PaneEvents) /\ P!Event("key") \in PaneEvents /\ P!Event("key") \in Reports \cup Keys
  BY EventKinds DEF PaneIInv, PaneTypes, QueueTypes, PaneEvents
<1>4. QueueTypes'
  BY <1>1, <1>3 DEF PaneIInv, PaneTypes, QueueTypes
<1>5. RowsCome'
  <2> SUFFICES ASSUME Connected(att[cur]), NEW r \in P!Rows
               PROVE  RowWay(att[cur].down, inbox', HeldBack, grid, r, screen[r])
    BY <1>1, Zenon DEF RowsCome, HeldBack
  <2>1. RowWay(att[cur].down, inbox, HeldBack, grid, r, screen[r])
    BY <1>1 DEF PaneIInv, RowsCome
  <2> QED BY <1>1, <1>3, <2>1, RowEvent
<1>6. StateComes'
  <2>1. P!Event("key") \notin Reports /\ NameOf(att[cur].st) \in {"attaching", "live", "reconnecting"}
    BY EventKinds, NameKinds
  <2>2. StateWay(inbox, state, NameOf(att[cur].st))
    BY <1>1 DEF PaneIInv, StateComes
  <2>3. StateWay(inbox', state, NameOf(att[cur].st))
    BY <1>1, <1>3, <2>1, <2>2, StateKey
  <2> QED BY <1>1, <2>3, Zenon DEF StateComes
<1> QED BY <1>2, <1>4, <1>5, <1>6 DEF PaneIInv, PaneTypes

\* The window comes to the front or leaves it.
LEMMA ChangeFocusStep ==
  ASSUME PaneIInv, P!ChangeFocus PROVE PaneIInv'
<1>1. /\ active' = ~active /\ notified' = (notified \/ active')
      /\ att' = att /\ inbox' = inbox /\ hold' = hold /\ grid' = grid /\ state' = state /\ screen' = screen
      /\ version' = version /\ size' = size /\ missed' = missed /\ area' = area /\ lastSize' = lastSize /\ pend' = pend
      /\ armed' = armed /\ sent' = sent /\ count' = count /\ cur' = cur /\ painted' = painted
      /\ selects' = selects /\ selected' = selected /\ told' = told /\ paced' = paced /\ sched' = sched
      /\ budget' = budget /\ stale' = stale
  BY DEF P!ChangeFocus, P!attVars, P!paneVars, P!sizeVars, P!pacerVars, P!engineVars
<1>2. /\ AttTypes' /\ QueueTypes' /\ EngineTypes' /\ SizeTypes' /\ P!PendingIsArmed' /\ SizeToTask'
      /\ SizeToEngine' /\ RowsCome' /\ StateComes' /\ CountOK' /\ Alone' /\ Measured'
  BY <1>1, PaneStays, Zenon
<1>3. FlagTypes'
  BY <1>1, Zenon DEF PaneIInv, PaneTypes, FlagTypes
<1>4. P!PaintComes'
  BY <1>1 DEF PaneIInv, PaneTypes, FlagTypes, P!PaintComes, P!Resident
<1> QED BY <1>2, <1>3, <1>4 DEF PaneIInv, PaneTypes

\* Another session is rendered.
LEMMA ElsewhereRendersStep ==
  ASSUME PaneIInv, P!ElsewhereRenders PROVE PaneIInv'
<1>1. /\ ~selected /\ notified' = FALSE /\ sent' = TRUE /\ armed' \in {armed, TRUE}
      /\ att' = att /\ inbox' = inbox /\ hold' = hold /\ grid' = grid /\ state' = state /\ screen' = screen
      /\ version' = version /\ size' = size /\ missed' = missed /\ area' = area /\ lastSize' = lastSize /\ pend' = pend
      /\ count' = count /\ cur' = cur /\ painted' = painted /\ selects' = selects
      /\ selected' = selected /\ told' = told /\ active' = active /\ paced' = paced /\ sched' = sched
      /\ budget' = budget /\ stale' = stale
  BY DEF P!ElsewhereRenders, P!attVars, P!paneVars, P!pacerVars, P!engineVars, P!boundVars
<1>2. /\ AttTypes' /\ QueueTypes' /\ EngineTypes' /\ SizeToTask' /\ FlagTypes' /\ SizeToEngine' /\ RowsCome'
      /\ StateComes' /\ CountOK' /\ Alone'
  BY <1>1, PaneStays, Zenon
<1>3. armed \in BOOLEAN
  BY DEF PaneIInv, PaneTypes, SizeTypes
<1>4. armed' \in BOOLEAN /\ (armed => armed')
  <2>1. armed' = armed \/ armed' = TRUE
    BY <1>1
  <2> QED BY <1>3, <2>1, Zenon
<1>6. P!PendingIsArmed'
  BY <1>1, <1>4, PaneStays, Zenon
<1>7. SizeTypes'
  BY <1>1, <1>4, Zenon DEF PaneIInv, PaneTypes, SizeTypes
<1>5. Measured' /\ P!PaintComes'
  BY <1>1, Zenon DEF Measured, P!PaintComes
<1> QED BY <1>2, <1>5, <1>6, <1>7 DEF PaneIInv, PaneTypes

\* A timer of the pacer fires.
LEMMA RepaintTimerStep ==
  ASSUME PaneIInv, P!RepaintTimer PROVE PaneIInv'
<1>1. /\ \/ sched /\ sched' = FALSE /\ notified' = TRUE /\ stale' = stale
         \/ stale > 0 /\ stale' = stale - 1 /\ sched' = sched /\ notified' = notified
         \/ stale > 0 /\ sched /\ sched' = FALSE /\ notified' = TRUE /\ stale' = stale
      /\ att' = att /\ inbox' = inbox /\ hold' = hold /\ grid' = grid /\ state' = state /\ screen' = screen
      /\ version' = version /\ size' = size /\ missed' = missed /\ area' = area /\ lastSize' = lastSize /\ pend' = pend
      /\ armed' = armed /\ sent' = sent /\ count' = count /\ cur' = cur /\ painted' = painted
      /\ selects' = selects /\ selected' = selected /\ told' = told /\ active' = active
      /\ paced' = paced /\ budget' = budget
  BY DEF P!RepaintTimer, P!attVars, P!paneVars, P!sizeVars, P!engineVars, P!boundVars
<1>2. /\ sched \in BOOLEAN /\ notified \in BOOLEAN /\ stale \in Nat /\ selected \in BOOLEAN
      /\ told \in BOOLEAN /\ active \in BOOLEAN /\ paced \in BOOLEAN /\ budget \in 0..2
  BY DEF PaneIInv, PaneTypes, FlagTypes
<1>3. /\ (notified => notified') /\ (sched => sched' \/ notified')
      /\ notified' \in BOOLEAN /\ sched' \in BOOLEAN /\ stale' \in Nat
  <2>1. stale > 0 => stale - 1 \in Nat
    BY <1>2
  <2> QED BY <1>1, <1>2, <2>1, Zenon
<1>4. FlagTypes'
  BY <1>1, <1>2, <1>3, Zenon DEF FlagTypes
<1>5. /\ AttTypes' /\ QueueTypes' /\ EngineTypes' /\ SizeTypes' /\ P!PendingIsArmed' /\ SizeToTask'
      /\ SizeToEngine' /\ RowsCome' /\ StateComes' /\ CountOK' /\ Alone' /\ Measured' /\ P!PaintComes'
  BY <1>1, <1>3, PaneStays, Zenon
<1> QED BY <1>4, <1>5 DEF PaneIInv, PaneTypes

-----------------------------------------------------------------------------
(* The steps of an attachment.                                             *)

\* A step of a task, as far as the pane sees it.
Stepped(i, b) ==
  /\ i \in P!Ids /\ att[i].st # "closed" /\ TaskOK(b) /\ P!Task(i, b) /\ P!TaskOnly
  /\ inbox' \in Seq(PaneEvents)
  /\ P!Resident =>
       /\ b.st # "closed" /\ b.cmds \in Seq(Sizes)
       /\ \A z \in Sizes : SizeWay(att[i], z) => SizeWay(b, z)
       /\ Connected(b) => UpWay(b, size, missed)
       /\ Connected(b) => \A r \in P!Rows : RowWay(b.down, inbox', HeldBack, grid, r, screen[r])
       /\ StateWay(inbox', state, NameOf(b.st))

\* The same, if the Engine has a hand in it and takes a size from the task.
MovesOnly == UNCHANGED <<selected, told, P!paneVars, area, P!sizeVars, active, notified, painted,
                         P!pacerVars, screen, size, version, selects>>
Moved(i, b) ==
  /\ i \in P!Ids /\ Mine(i) /\ TaskOK(b) /\ P!Task(i, b) /\ MovesOnly /\ missed' \in BOOLEAN
  /\ inbox' \in Seq(PaneEvents)
  /\ P!Resident =>
       /\ b.st # "closed" /\ b.cmds \in Seq(Sizes)
       /\ \A z \in Sizes : SizeWay(att[i], z) => SizeWay(b, z)
       /\ Connected(b) => UpWay(b, size, missed')
       /\ Connected(b) => \A r \in P!Rows : RowWay(b.down, inbox', HeldBack, grid, r, screen[r])
       /\ StateWay(inbox', state, NameOf(b.st))

\* It keeps the invariant.
LEMMA MoveStep ==
  ASSUME PaneIInv, NEW i, NEW b, Moved(i, b) PROVE PaneIInv'
<1>1. /\ att' = [att EXCEPT ![i] = b] /\ cur' = cur /\ count' = count /\ hold' = hold /\ grid' = grid
      /\ state' = state /\ screen' = screen /\ version' = version /\ size' = size /\ area' = area
      /\ lastSize' = lastSize /\ pend' = pend /\ armed' = armed /\ sent' = sent /\ painted' = painted
      /\ selects' = selects /\ selected' = selected /\ told' = told /\ active' = active
      /\ notified' = notified /\ paced' = paced /\ sched' = sched /\ budget' = budget /\ stale' = stale
  BY DEF Moved, P!Task, MovesOnly, P!paneVars, P!sizeVars, P!pacerVars
<1>2. /\ i \in P!Ids /\ TaskOK(b) /\ inbox' \in Seq(PaneEvents) /\ Mine(i) /\ missed' \in BOOLEAN
      /\ notified \in BOOLEAN /\ lastSize \in Sizes \cup {P!NoSize}
  BY DEF Moved, PaneIInv, PaneTypes, FlagTypes, SizeTypes
<1>15. EngineTypes'
  BY <1>1, <1>2 DEF PaneIInv, PaneTypes, EngineTypes
<1>3. /\ SizeTypes' /\ FlagTypes' /\ P!PendingIsArmed' /\ CountOK' /\ Measured'
      /\ P!PaintComes'
  BY <1>1, <1>2, PaneStays, Zenon
<1>4. att = [j \in P!Ids |-> att[j]] /\ \A j \in P!Ids : TaskOK(att[j])
  BY DEF PaneIInv, PaneTypes, AttTypes
<1>5. /\ att' = [j \in P!Ids |-> att'[j]] /\ att'[i] = b
      /\ \A j \in P!Ids : j # i => att'[j] = att[j]
  BY <1>1, <1>2, <1>4
<1>6. AttTypes'
  <2>1. ASSUME NEW j \in P!Ids PROVE TaskOK(att'[j])
    BY <1>2, <1>4, <1>5
  <2> QED BY <1>5, <2>1 DEF AttTypes
<1>7. QueueTypes'
  BY <1>1, <1>2 DEF PaneIInv, PaneTypes, QueueTypes
<1>8. P!Resident => i = cur /\ att'[cur] = b
  BY <1>2, <1>5 DEF Mine
<1>9. P!Resident' <=> P!Resident
  BY <1>1 DEF P!Resident
<1>10. Alone'
  <2>1. P!Resident' => att'[cur'].st # "closed" /\ att'[cur'].cmds \in Seq(Sizes)
    BY <1>1, <1>8, <1>9 DEF Moved
  <2>2. ASSUME P!Resident' \/ selected', NEW j \in P!Ids \ {cur'} PROVE att'[j] = P!Closed
    <3>1. P!Resident
      BY <1>1, <1>2, <1>9, <2>2 DEF Mine
    <3>2. j # i /\ j \in P!Ids \ {cur}
      BY <1>1, <1>8, <3>1
    <3>3. att[j] = P!Closed
      BY <3>1, <3>2 DEF PaneIInv, Alone
    <3> QED BY <1>5, <3>2, <3>3
  <2>3. ~P!Resident' => hold' = P!NoHold
    BY <1>1, <1>9 DEF PaneIInv, Alone
  <2> QED BY <2>1, <2>2, <2>3 DEF Alone
<1>11. SizeToTask'
  <2> SUFFICES ASSUME P!Resident, lastSize # P!NoSize, pend = P!NoSize PROVE SizeWay(b, lastSize)
    <3>1. P!Resident /\ lastSize # P!NoSize /\ pend # P!NoSize => pend = lastSize
      BY DEF PaneIInv, SizeToTask
    <3> QED BY <1>1, <1>8, <1>9, <3>1, Zenon DEF SizeToTask
  <2>1. SizeWay(att[i], lastSize) /\ lastSize \in Sizes
    BY <1>2, <1>8 DEF PaneIInv, SizeToTask
  <2> QED BY <2>1 DEF Moved
<1>12. SizeToEngine'
  BY <1>1, <1>8, <1>9 DEF Moved, SizeToEngine
<1>13. RowsCome'
  <2> SUFFICES ASSUME P!Resident, Connected(b), NEW r \in P!Rows
               PROVE  RowWay(b.down, inbox', HeldBack, grid, r, screen[r])
    BY <1>1, <1>8, <1>9, Zenon DEF RowsCome, HeldBack
  <2> QED BY DEF Moved
<1>14. StateComes'
  BY <1>1, <1>8, <1>9 DEF Moved, StateComes
<1> QED BY <1>3, <1>15, <1>6, <1>7, <1>10, <1>11, <1>12, <1>13, <1>14 DEF PaneIInv, PaneTypes

LEMMA TaskStep ==
  ASSUME PaneIInv, NEW i, NEW b, Stepped(i, b) PROVE PaneIInv'
<1>1. i \in P!Ids /\ att[i].st # "closed" /\ P!TaskOnly /\ missed \in BOOLEAN
  BY DEF Stepped, PaneIInv, PaneTypes, EngineTypes
<1>2. Mine(i)
  BY <1>1, OnlyCur
<1>3. MovesOnly /\ missed' = missed
  BY <1>1 DEF P!TaskOnly, MovesOnly, P!engineVars
<1>4. Moved(i, b)
  BY <1>1, <1>2, <1>3 DEF Stepped, Moved
<1> QED BY <1>4, MoveStep

\* What a step of a task finds.
LEMMA TaskBefore ==
  ASSUME PaneIInv, NEW i \in P!Ids
  PROVE  /\ TaskOK(att[i]) /\ att[i] \in TaskRecs /\ inbox \in Seq(PaneEvents)
         /\ missed \in BOOLEAN
         /\ screen \in [P!Rows -> Nat] /\ version \in Nat /\ size \in Sizes \cup {P!NoSize}
         /\ P!Resident /\ att[i].st # "closed" =>
              /\ i = cur /\ att[i].cmds \in Seq(Sizes)
              /\ StateWay(inbox, state, NameOf(att[i].st))
              /\ Connected(att[i]) => UpWay(att[i], size, missed)
              /\ Connected(att[i]) => \A r \in P!Rows : RowWay(att[i].down, inbox, HeldBack, grid, r, screen[r])
<1>1. TaskOK(att[i]) /\ inbox \in Seq(PaneEvents) /\ screen \in [P!Rows -> Nat] /\ version \in Nat
      /\ size \in Sizes \cup {P!NoSize} /\ missed \in BOOLEAN
  BY DEF PaneIInv, PaneTypes, AttTypes, QueueTypes, EngineTypes
<1>2. att[i] \in TaskRecs
  BY <1>1 DEF TaskOK
<1>4. ASSUME P!Resident, att[i].st # "closed"
      PROVE  /\ i = cur /\ att[i].cmds \in Seq(Sizes)
             /\ StateWay(inbox, state, NameOf(att[i].st))
             /\ Connected(att[i]) => UpWay(att[i], size, missed)
             /\ Connected(att[i]) => \A r \in P!Rows : RowWay(att[i].down, inbox, HeldBack, grid, r, screen[r])
  <2>1. i = cur
    BY <1>4, OnlyCur DEF Mine
  <2> QED BY <1>4, <2>1 DEF PaneIInv, Alone, StateComes, SizeToEngine, RowsCome
<1> QED BY <1>1, <1>2, <1>4

\* The task takes a size, and passes it on.
LEMMA SizeTake ==
  ASSUME NEW cmds \in Seq(Sizes), cmds # <<>>, NEW last, NEW z \in Sizes, Follows(cmds, Sizes, {z}, last = z)
  PROVE  Follows(Tail(cmds), Sizes, {z}, Head(cmds) = z)
<1>1. {z} \in SUBSET Sizes /\ Head(cmds) \in Sizes
  BY EndsTail
<1>2. (Head(cmds) \in {z} => Head(cmds) = z) /\ (Head(cmds) \notin Sizes /\ last = z => Head(cmds) = z)
  BY <1>1
<1> QED BY <1>1, <1>2, FollowsTail

\* The newest size is behind all others in a connection.
LEMMA UpAppend ==
  ASSUME NEW up \in Seq(Sizes), NEW z \in Sizes, NEW c
  PROVE  Follows(Append(up, z), Sizes, {z}, c) /\ Follows(<<z>>, Sizes, {z}, c)
<1>1. {z} \in SUBSET Sizes /\ z \in {z}
  OBVIOUS
<1>2. Follows(Append(up, z), Sizes, {z}, c)
  BY <1>1, FollowsAppend
<1>3. Follows(<<z>>, Sizes, {z}, c)
  BY <1>1, EndsEmpty DEF Follows
<1> QED BY <1>2, <1>3

\* A snapshot shows every row.
LEMMA SnapshotShows ==
  ASSUME NEW rows \in [P!Rows -> Nat], NEW n \in Nat
  PROVE  /\ P!Frame(TRUE, rows, n) \in Frames
         /\ \A r \in P!Rows : P!Frame(TRUE, rows, n) \in Shows(r, rows[r])
<1>1. P!Frame(TRUE, rows, n) \in Frames
  BY DEF Frames, P!Frame
<1>2. P!Frame(TRUE, rows, n).full = TRUE /\ P!Frame(TRUE, rows, n).rows = rows
  BY DEF P!Frame
<1> QED BY <1>1, <1>2 DEF Shows

\* SessionAttachment::connect
LEMMA ConnectStep ==
  ASSUME PaneIInv, NEW i \in P!Ids, P!Connect(i) PROVE PaneIInv'
<1> DEFINE a == att[i]  f == P!Frame(TRUE, screen, version)
           b == [a EXCEPT !.st = "live", !.cut = FALSE, !.up = P!Resend(a), !.down = <<f>>]
<1>1. a.st = "connecting" /\ inbox' = Append(inbox, P!Event("live")) /\ P!TaskOnly /\ P!Task(i, b)
  BY DEF P!Connect, P!Reports
<1>2. a \in TaskRecs /\ inbox \in Seq(PaneEvents) /\ screen \in [P!Rows -> Nat] /\ version \in Nat
  BY TaskBefore
<1>3. a.last \in Sizes \cup {P!NoSize}
  BY <1>2, TaskFields
<1>4. f \in Frames /\ \A r \in P!Rows : f \in Shows(r, screen[r])
  BY <1>2, SnapshotShows
<1>5. P!Resend(a) \in Seq(Sizes) /\ <<f>> \in Seq(Frames)
  <2>1. a.last = P!NoSize \/ (a.last # P!NoSize /\ a.last \in Sizes)
    BY <1>3
  <2>2. P!Resend(a) = <<>> \/ (a.last \in Sizes /\ P!Resend(a) = <<a.last>>)
    BY <2>1 DEF P!Resend
  <2>3. <<>> \in Seq(Sizes) /\ \A z \in Sizes : <<z>> \in Seq(Sizes)
    OBVIOUS
  <2> HIDE DEF a, f
  <2>4. P!Resend(a) \in Seq(Sizes)
    BY <2>2, <2>3, Zenon
  <2>5. <<f>> \in Seq(Frames)
    BY <1>4
  <2> QED BY <2>4, <2>5
<1> HIDE DEF a, f
<1>6. TaskIs(b, "live", a.cmds, a.last, P!Resend(a), <<f>>, FALSE)
  BY <1>2, <1>5, TaskConnects
<1> HIDE DEF b
<1>7. /\ b \in TaskRecs /\ b.st = "live" /\ b.cmds = a.cmds /\ b.last = a.last /\ b.up = P!Resend(a)
      /\ b.down = <<f>> /\ b.cut = FALSE
  BY <1>6 DEF TaskIs
<1>8. TaskOK(b)
  BY <1>7 DEF TaskOK
<1>9. UpWay(b, size, missed)
  <2>1. CASE a.last = P!NoSize
    <3>1. P!Resend(a) = <<>>
      BY <2>1 DEF P!Resend
    <3> QED BY <1>7, <2>1, <3>1, FollowsEmpty DEF UpWay
  <2>2. CASE a.last # P!NoSize
    <3>1. P!Resend(a) = <<a.last>> /\ a.last \in Sizes /\ <<>> \in Seq(Sizes)
      BY <1>3, <2>2 DEF P!Resend
    <3> QED BY <1>7, <3>1, UpAppend DEF UpWay
  <2> QED BY <2>1, <2>2
<1>10. \A r \in P!Rows : RowWay(b.down, inbox', HeldBack, grid, r, screen[r])
  <2>1. <<>> \in Seq(Frames)
    OBVIOUS
  <2> QED BY <1>4, <1>7, <2>1, RowSent
<1>11. StateWay(inbox', state, NameOf(b.st)) /\ inbox' \in Seq(PaneEvents)
  BY <1>1, <1>2, <1>7, StateReport, NameKinds
<1>12. P!Resident => b.cmds \in Seq(Sizes)
  BY <1>1, <1>7, TaskBefore DEF a
<1>13. \A z \in Sizes : SizeWay(a, z) => SizeWay(b, z)
  BY <1>7 DEF SizeWay
<1>14. Stepped(i, b)
  BY <1>1, <1>7, <1>8, <1>9, <1>10, <1>11, <1>12, <1>13 DEF Stepped, a
<1> QED BY <1>14, TaskStep

\* A task whose connection is not there reports another state.
LEMMA ReportStep ==
  ASSUME PaneIInv, NEW i \in P!Ids, att[i].st \in {"connecting", "live", "retry"},
         NEW s \in {"connecting", "retry"}, P!Task(i, [att[i] EXCEPT !.st = s]), P!TaskOnly,
         P!Reports(i, NameOf(s))
  PROVE  PaneIInv'
<1> DEFINE a == att[i]  b == [a EXCEPT !.st = s]
<1>1. inbox' = Append(inbox, P!Event(NameOf(s))) /\ NameOf(s) \in {"attaching", "live", "reconnecting"}
  BY NameKinds DEF P!Reports
<1>2. a \in TaskRecs /\ inbox \in Seq(PaneEvents) /\ a.st # "closed"
  BY TaskBefore
<1>3. P!Resident => a.cmds \in Seq(Sizes)
  BY <1>2, TaskBefore
<1>0. P!Task(i, b) /\ att[i] = a
  OBVIOUS
<1> HIDE DEF a
<1>4. TaskIs(b, s, a.cmds, a.last, a.up, a.down, a.cut)
  BY <1>2, TaskField
<1> HIDE DEF b
<1>5. b \in TaskRecs /\ b.st = s /\ b.cmds = a.cmds /\ b.last = a.last /\ b.st # "closed" /\ ~Connected(b)
  BY <1>4 DEF TaskIs, Connected
<1>6. TaskOK(b) /\ \A z \in Sizes : SizeWay(a, z) => SizeWay(b, z)
  BY <1>5 DEF TaskOK, SizeWay
<1>7. StateWay(inbox', state, NameOf(b.st)) /\ inbox' \in Seq(PaneEvents)
  BY <1>1, <1>2, <1>5, StateReport
<1>8. Stepped(i, b)
  BY <1>0, <1>2, <1>3, <1>5, <1>6, <1>7 DEF Stepped
<1> QED BY <1>8, TaskStep

\* The connection is lost.
LEMMA LoseStep ==
  ASSUME PaneIInv, NEW i \in P!Ids, P!Lose(i) PROVE PaneIInv'
<1> DEFINE a == att[i]  b == [a EXCEPT !.cut = TRUE, !.up = <<>>]
<1>0. P!Task(i, b) /\ att[i] = a /\ a.st = "live" /\ P!TaskOnly /\ inbox' = inbox
  BY DEF P!Lose
<1>2. a \in TaskRecs /\ inbox \in Seq(PaneEvents)
  BY TaskBefore
<1>3. P!Resident => a.cmds \in Seq(Sizes) /\ StateWay(inbox, state, NameOf(a.st))
  BY <1>0, TaskBefore
<1> HIDE DEF a
<1>4. TaskIs(b, a.st, a.cmds, a.last, <<>>, a.down, TRUE)
  BY <1>2, TaskLoses
<1> HIDE DEF b
<1>5. b \in TaskRecs /\ b.st = "live" /\ b.cmds = a.cmds /\ b.last = a.last /\ ~Connected(b)
  BY <1>0, <1>4 DEF TaskIs, Connected
<1>6. TaskOK(b) /\ \A z \in Sizes : SizeWay(a, z) => SizeWay(b, z)
  BY <1>5 DEF TaskOK, SizeWay
<1>8. Stepped(i, b)
  BY <1>0, <1>2, <1>3, <1>5, <1>6 DEF Stepped
<1> QED BY <1>8, TaskStep

\* A frame goes from the connection to the pane.
LEMMA ForwardChunkStep ==
  ASSUME PaneIInv, NEW i \in P!Ids, P!ForwardChunk(i) PROVE PaneIInv'
<1> DEFINE a == att[i]  b == [a EXCEPT !.down = Tail(a.down)]
<1>0. /\ P!Task(i, b) /\ att[i] = a /\ a.st = "live" /\ P!TaskOnly /\ a.down # <<>>
      /\ inbox' = Append(inbox, Head(a.down))
  <2>1. [a EXCEPT !.down = Tail(@)] = b
    OBVIOUS
  <2> QED BY <2>1 DEF P!ForwardChunk
<1>2. a \in TaskRecs /\ inbox \in Seq(PaneEvents)
  BY TaskBefore
<1>3. P!Resident =>
       /\ a.cmds \in Seq(Sizes) /\ StateWay(inbox, state, NameOf(a.st))
       /\ Connected(a) => UpWay(a, size, missed)
       /\ Connected(a) => \A r \in P!Rows : RowWay(a.down, inbox, HeldBack, grid, r, screen[r])
  BY <1>0, TaskBefore
<1> HIDE DEF a
<1>1. a.down \in Seq(Frames) /\ Tail(a.down) \in Seq(Frames) /\ Head(a.down) \in Frames
  <2>1. a.down \in Seq(Frames)
    BY <1>2, TaskFields
  <2> QED BY <1>0, <2>1, EndsTail
<1>4. TaskIs(b, a.st, a.cmds, a.last, a.up, Tail(a.down), a.cut)
  BY <1>1, <1>2, TaskField
<1> HIDE DEF b
<1>5. /\ b \in TaskRecs /\ b.st = "live" /\ b.cmds = a.cmds /\ b.last = a.last /\ b.up = a.up
      /\ b.down = Tail(a.down) /\ b.cut = a.cut
  BY <1>0, <1>4 DEF TaskIs
<1>6. /\ TaskOK(b) /\ \A z \in Sizes : SizeWay(a, z) => SizeWay(b, z)
      /\ Connected(b) <=> Connected(a)
      /\ UpWay(a, size, missed) => UpWay(b, size, missed)
  BY <1>0, <1>5 DEF TaskOK, SizeWay, Connected, UpWay
<1>7. Head(a.down) \in PaneEvents /\ Head(a.down) \notin Reports /\ inbox' \in Seq(PaneEvents)
  BY <1>0, <1>1, <1>2, EventKinds DEF PaneEvents
<1>8. P!Resident => StateWay(inbox', state, NameOf(b.st))
  BY <1>0, <1>2, <1>3, <1>5, <1>7, StateKey, NameKinds
<1>9. ASSUME P!Resident, Connected(b), NEW r \in P!Rows
      PROVE  RowWay(b.down, inbox', HeldBack, grid, r, screen[r])
  <2>1. RowWay(a.down, inbox, HeldBack, grid, r, screen[r])
    BY <1>3, <1>6, <1>9
  <2> QED BY <1>0, <1>1, <1>2, <1>5, <2>1, RowForward
<1>10. Stepped(i, b)
  BY <1>0, <1>3, <1>5, <1>6, <1>7, <1>8, <1>9 DEF Stepped
<1> QED BY <1>10, TaskStep

\* A task takes a command.
LEMMA TakeCommandStep ==
  ASSUME PaneIInv, NEW i \in P!Ids, P!TakeCommand(i) PROVE PaneIInv'
<1> DEFINE a == att[i]  c == Head(a.cmds)  d == [a EXCEPT !.cmds = Tail(@)]
           b == [d EXCEPT !.last = c, !.up = IF d.st = "live" /\ ~d.cut THEN Append(@, c) ELSE @]
<1>0. /\ a.st \in {"live", "retry"} /\ a.cmds # <<>> /\ inbox' = inbox /\ P!TaskOnly
      /\ IF c = P!Close THEN P!Task(i, P!Parting(d.up)) ELSE P!Task(i, b)
  BY DEF P!TakeCommand
<1>1. att[i] = a /\ d = [a EXCEPT !.cmds = Tail(@)]
  OBVIOUS
<1>2. a \in TaskRecs /\ inbox \in Seq(PaneEvents)
  BY TaskBefore
<1>3. P!Resident =>
       /\ a.cmds \in Seq(Sizes) /\ StateWay(inbox, state, NameOf(a.st))
       /\ Connected(a) => \A r \in P!Rows : RowWay(a.down, inbox, HeldBack, grid, r, screen[r])
  BY <1>0, TaskBefore
<1> HIDE DEF a
<1>4. a.cmds \in Seq(Sizes \cup {P!Close}) /\ c \in Sizes \cup {P!Close} /\ a.up \in Seq(Sizes)
  <2>1. a.cmds \in Seq(Sizes \cup {P!Close}) /\ a.up \in Seq(Sizes)
    BY <1>2, TaskFields
  <2> QED BY <1>0, <2>1, EndsTail
<1>5. P!Resident => c \in Sizes /\ c # P!Close
  BY <1>0, <1>3, EndsTail, PaneBounds
<1>6. CASE c = P!Close
  <2>1. P!Closed \in TaskRecs
    BY DEF TaskRecs, P!Closed
  <2>2. d.up = a.up
    BY <1>2 DEF TaskRecs
  <2>3. TaskOK(P!Parting(d.up))
    BY <1>4, <2>1, <2>2, TaskField DEF TaskOK, TaskIs, P!Parting
  <2>4. Stepped(i, P!Parting(d.up))
    BY <1>0, <1>1, <1>2, <1>5, <1>6, <2>3 DEF Stepped
  <2> QED BY <2>4, TaskStep
<1>7. CASE c # P!Close
  <2> DEFINE u == IF a.st = "live" /\ ~a.cut THEN Append(a.up, c) ELSE a.up
  <2>1. c \in Sizes
    BY <1>4, <1>7
  <2> HIDE DEF c, d
  <2>2. TaskIs(b, a.st, Tail(a.cmds), c, u, a.down, a.cut)
    BY <1>0, <1>1, <1>2, <2>1, TaskTakes
  <2> HIDE DEF b
  <2>3. /\ b \in TaskRecs /\ b.st = a.st /\ b.cmds = Tail(a.cmds) /\ b.last = c /\ b.up = u
        /\ b.down = a.down /\ b.cut = a.cut
    BY <2>2 DEF TaskIs
  <2>4. TaskOK(b) /\ b.st # "closed" /\ (Connected(b) <=> Connected(a))
    BY <1>0, <2>3 DEF TaskOK, Connected
  <2>5. ASSUME P!Resident, NEW z \in Sizes, SizeWay(a, z) PROVE SizeWay(b, z)
    BY <1>0, <1>3, <2>3, <2>5, SizeTake DEF SizeWay, c
  <2>6. Connected(b) => UpWay(b, size, missed)
    <3>1. Connected(b) => u = Append(a.up, c)
      BY <2>4 DEF Connected
    <3> QED BY <1>4, <2>1, <2>3, <3>1, UpAppend DEF UpWay
  <2>7. P!Resident => b.cmds \in Seq(Sizes)
    BY <1>0, <1>3, <2>3, EndsTail
  <2>8. P!Task(i, b)
    BY <1>0, <1>7 DEF c
  <2>9. Stepped(i, b)
    BY <1>0, <1>1, <1>2, <1>3, <2>3, <2>4, <2>5, <2>6, <2>7, <2>8 DEF Stepped
  <2> QED BY <2>9, TaskStep
<1> QED BY <1>6, <1>7

-----------------------------------------------------------------------------
(* The Engine's steps.                                                     *)

\* What the Engine may have taken from the tasks before it sends.
Tasks(tasks) ==
  /\ tasks = [j \in P!Ids |-> tasks[j]]
  /\ \A j \in P!Ids : /\ TaskOK(tasks[j]) /\ tasks[j].st = att[j].st /\ tasks[j].cmds = att[j].cmds
                      /\ tasks[j].last = att[j].last /\ tasks[j].down = att[j].down /\ tasks[j].cut = att[j].cut
                      /\ att[j] = P!Closed => tasks[j] = P!Closed

\* The Engine sends a frame to every sink.
LEMMA EngineStep ==
  ASSUME PaneIInv, NEW tasks, Tasks(tasks), NEW f \in Frames, att' = P!Sent(tasks, f), P!EngineOnly,
         EngineTypes',
         P!Resident /\ Connected(att[cur]) => UpWay(tasks[cur], size', missed'),
         \A r \in P!Rows : f \in Shows(r, screen'[r]) \/ (f \notin Touches(r) /\ screen'[r] = screen[r])
  PROVE  PaneIInv'
<1>1. /\ cur' = cur /\ count' = count /\ hold' = hold /\ grid' = grid /\ inbox' = inbox
      /\ state' = state /\ area' = area /\ lastSize' = lastSize /\ pend' = pend /\ armed' = armed
      /\ sent' = sent /\ painted' = painted /\ selects' = selects /\ selected' = selected /\ told' = told
      /\ active' = active /\ notified' = notified /\ paced' = paced /\ sched' = sched
      /\ budget' = budget /\ stale' = stale
  BY DEF P!EngineOnly, P!paneVars, P!sizeVars, P!pacerVars
<1>2. notified \in BOOLEAN
  BY DEF PaneIInv, PaneTypes, FlagTypes
<1>3. /\ QueueTypes' /\ SizeTypes' /\ FlagTypes' /\ P!PendingIsArmed' /\ CountOK' /\ Measured'
      /\ P!PaintComes'
  BY <1>1, <1>2, PaneStays, Zenon
<1>4. ASSUME NEW j \in P!Ids
      PROVE  /\ TaskOK(att'[j]) /\ att'[j].st = att[j].st /\ att'[j].cmds = att[j].cmds
             /\ att'[j].last = att[j].last /\ att'[j].up = tasks[j].up /\ att'[j].cut = att[j].cut
             /\ att'[j].down = IF Connected(att[j]) THEN Append(att[j].down, f) ELSE att[j].down
             /\ att[j] = P!Closed => att'[j] = P!Closed
  <2> DEFINE a == tasks[j]
  <2>1. /\ TaskOK(a) /\ a \in TaskRecs /\ a.st = att[j].st /\ a.cmds = att[j].cmds
        /\ a.last = att[j].last /\ a.down = att[j].down /\ a.cut = att[j].cut
        /\ att[j] = P!Closed => a = P!Closed
    BY DEF Tasks, TaskOK
  <2>2. att'[j] = IF a.st = "live" /\ ~a.cut THEN [a EXCEPT !.down = Append(@, f)] ELSE a
    BY DEF P!Sent
  <2> HIDE DEF a
  <2>3. CASE a.st = "live" /\ ~a.cut
    <3>1. Append(a.down, f) \in Seq(Frames)
      BY <2>1, TaskFields
    <3>2. att'[j] = [a EXCEPT !.down = Append(a.down, f)]
      BY <2>2, <2>3
    <3>3. TaskIs(att'[j], a.st, a.cmds, a.last, a.up, Append(a.down, f), a.cut)
      BY <2>1, <3>1, <3>2, TaskField
    <3>4. Connected(att[j]) /\ att[j] # P!Closed
      BY <2>1, <2>3 DEF Connected, P!Closed
    <3> QED BY <2>1, <2>3, <3>3, <3>4 DEF TaskIs, TaskOK, a
  <2>4. CASE ~(a.st = "live" /\ ~a.cut)
    <3>1. att'[j] = a /\ ~Connected(att[j])
      BY <2>1, <2>2, <2>4 DEF Connected
    <3> QED BY <2>1, <3>1 DEF a
  <2> QED BY <2>3, <2>4
<1>5. AttTypes'
  <2>1. att' = [j \in P!Ids |-> att'[j]]
    BY DEF P!Sent
  <2> QED BY <1>4, <2>1 DEF AttTypes
<1>6. P!Resident' <=> P!Resident
  BY <1>1 DEF P!Resident
<1>7. P!Resident => cur \in P!Ids
  BY CurIsId
<1>8. Alone'
  <2>1. P!Resident' => att'[cur'].st # "closed" /\ att'[cur'].cmds \in Seq(Sizes)
    BY <1>1, <1>4, <1>6, <1>7 DEF PaneIInv, Alone
  <2>2. ASSUME P!Resident' \/ selected', NEW j \in P!Ids \ {cur'} PROVE att'[j] = P!Closed
    BY <1>1, <1>4, <1>6, <2>2 DEF PaneIInv, Alone
  <2>3. ~P!Resident' => hold' = P!NoHold
    BY <1>1, <1>6 DEF PaneIInv, Alone
  <2> QED BY <2>1, <2>2, <2>3 DEF Alone
<1>9. SizeToTask'
  <2> SUFFICES ASSUME P!Resident, lastSize # P!NoSize, pend = P!NoSize PROVE SizeWay(att'[cur], lastSize)
    <3>1. P!Resident /\ lastSize # P!NoSize /\ pend # P!NoSize => pend = lastSize
      BY DEF PaneIInv, SizeToTask
    <3> QED BY <1>1, <1>6, <3>1, Zenon DEF SizeToTask
  <2>1. SizeWay(att[cur], lastSize)
    BY DEF PaneIInv, SizeToTask
  <2> QED BY <1>4, <1>7, <2>1 DEF SizeWay
<1>10. P!Resident => (Connected(att'[cur]) <=> Connected(att[cur]))
  BY <1>4, <1>7 DEF Connected
<1>11. SizeToEngine'
  <2> SUFFICES ASSUME P!Resident, Connected(att[cur]) PROVE UpWay(att'[cur], size', missed')
    BY <1>1, <1>6, <1>10, Zenon DEF SizeToEngine
  <2>1. UpWay(tasks[cur], size', missed') /\ tasks[cur].last = att[cur].last
    BY <1>7 DEF Tasks
  <2> QED BY <1>4, <1>7, <2>1 DEF UpWay
<1>12. RowsCome'
  <2> SUFFICES ASSUME P!Resident, Connected(att[cur]), NEW r \in P!Rows
               PROVE  RowWay(att'[cur].down, inbox, HeldBack, grid, r, screen'[r])
    BY <1>1, <1>6, <1>10, Zenon DEF RowsCome, HeldBack
  <2>1. att'[cur].down = Append(att[cur].down, f) /\ att[cur].down \in Seq(Frames)
    <3>1. att[cur] \in TaskRecs
      BY <1>7, TaskBefore
    <3> QED BY <1>4, <1>7, <3>1, TaskFields
  <2>2. RowWay(att[cur].down, inbox, HeldBack, grid, r, screen[r])
    BY DEF PaneIInv, RowsCome
  <2>3. f \in Shows(r, screen'[r]) \/ (f \notin Touches(r) /\ screen'[r] = screen[r])
    OBVIOUS
  <2> QED BY <2>1, <2>2, <2>3, RowSent
<1>13. StateComes'
  BY <1>1, <1>4, <1>6, <1>7 DEF PaneIInv, StateComes
<1> QED BY <1>3, <1>5, <1>8, <1>9, <1>11, <1>12, <1>13 DEF PaneIInv, PaneTypes

\* The session's output changes a row.
LEMMA OutputStep ==
  ASSUME PaneIInv, P!Output PROVE PaneIInv'
<1> DEFINE n == version + 1  m == (version + 1) % 2  f == P!Frame(FALSE, screen', n)
<1>1. /\ version' = n /\ screen' = [screen EXCEPT ![m] = n] /\ size' = size /\ missed' = missed /\ P!EngineOnly
      /\ att' = P!Sent(att, f)
  BY DEF P!Output
<1>2. screen \in [P!Rows -> Nat] /\ version \in Nat /\ size \in Sizes \cup {P!NoSize} /\ missed \in BOOLEAN
  BY DEF PaneIInv, PaneTypes, EngineTypes
<1>3. n \in Nat /\ m \in P!Rows /\ m = n % 2
  BY <1>2 DEF P!Rows
<1> HIDE DEF n, m
<1>4. EngineTypes'
  BY <1>1, <1>2, <1>3 DEF EngineTypes
<1>5. f \in Frames /\ f.full = FALSE /\ f.n = n
  BY <1>3, <1>4 DEF Frames, P!Frame, EngineTypes
<1> HIDE DEF f
<1>6. ASSUME NEW r \in P!Rows
      PROVE  f \in Shows(r, screen'[r]) \/ (f \notin Touches(r) /\ screen'[r] = screen[r])
  <2>1. screen'[r] = IF m = r THEN n ELSE screen[r]
    BY <1>1, <1>2, <1>3
  <2>2. CASE m = r
    <3>1. f \in Shows(r, n)
      BY <1>3, <1>5, <2>2 DEF Shows
    <3> QED BY <2>1, <2>2, <3>1
  <2>3. CASE m # r
    <3>1. f \notin Touches(r)
      BY <1>3, <1>5, <2>3 DEF Touches
    <3> QED BY <2>1, <2>3, <3>1
  <2> QED BY <2>2, <2>3
<1>7. Tasks(att)
  BY DEF Tasks, PaneIInv, PaneTypes, AttTypes
<1>8. P!Resident /\ Connected(att[cur]) => UpWay(att[cur], size', missed')
  BY <1>1 DEF PaneIInv, SizeToEngine
<1> QED BY <1>1, <1>4, <1>5, <1>6, <1>7, <1>8, EngineStep

\* The Engine takes a size from a task.
LEMMA SizeTaken ==
  ASSUME PaneIInv, NEW i \in P!Ids, att[i].up # <<>>, NEW b, b = [att[i] EXCEPT !.up = Tail(@)]
  PROVE  /\ TaskIs(b, att[i].st, att[i].cmds, att[i].last, Tail(att[i].up), att[i].down, att[i].cut)
         /\ Head(att[i].up) \in Sizes /\ Mine(i) /\ [att EXCEPT ![i].up = Tail(@)] = [att EXCEPT ![i] = b]
         /\ P!Resident /\ Connected(att[i]) => UpWay(b, Head(att[i].up), FALSE) /\ UpWay(b, size, TRUE)
<1> DEFINE a == att[i]  z == Head(a.up)
<1>1. a \in TaskRecs /\ b = [a EXCEPT !.up = Tail(a.up)] /\ a.up # <<>> /\ Mine(i)
  BY TaskBefore, OnlyCur
<1>2. P!Resident /\ Connected(a) => UpWay(a, size, missed)
  BY TaskBefore DEF Connected
<1>3. att = [j \in P!Ids |-> att[j]]
  BY DEF PaneIInv, PaneTypes, AttTypes
<1>4. [att EXCEPT ![i].up = Tail(@)] = [att EXCEPT ![i] = b]
  BY <1>3
<1> HIDE DEF a
<1>5. a.up \in Seq(Sizes) /\ Tail(a.up) \in Seq(Sizes) /\ z \in Sizes
  <2>1. a.up \in Seq(Sizes)
    BY <1>1, TaskFields
  <2> QED BY <1>1, <2>1, EndsTail
<1>6. TaskIs(b, a.st, a.cmds, a.last, Tail(a.up), a.down, a.cut)
  BY <1>1, <1>5, TaskField
<1>7. b.last = a.last /\ b.up = Tail(a.up)
  BY <1>6 DEF TaskIs
<1>8. ASSUME P!Resident, Connected(a) PROVE UpWay(b, z, FALSE) /\ UpWay(b, size, TRUE)
  <2> DEFINE c == a.last = P!NoSize \/ size = a.last \/ missed
             d == a.last = P!NoSize \/ z = a.last \/ FALSE
             e == a.last = P!NoSize \/ size = a.last \/ TRUE
  <2>1. Follows(a.up, Sizes, {a.last}, c)
    BY <1>2, <1>8 DEF UpWay
  <2>2. CASE a.last \in Sizes
    <3>1. /\ (z \in {a.last} => d) /\ (z \notin Sizes /\ c => d) /\ {a.last} \in SUBSET Sizes
          /\ (z \in {a.last} => e) /\ (z \notin Sizes /\ c => e)
      BY <1>5, <2>2
    <3>2. Follows(Tail(a.up), Sizes, {a.last}, d) /\ Follows(Tail(a.up), Sizes, {a.last}, e)
      <4> HIDE DEF c, d, e
      <4> QED BY <1>1, <1>5, <2>1, <3>1, FollowsTail
    <3> QED BY <1>7, <3>2 DEF UpWay
  <2>3. CASE a.last \notin Sizes
    <3>1. ~EndsIn(a.up, Sizes, {a.last})
      BY <1>5, <2>3 DEF EndsIn
    <3>2. NoneIn(a.up, Sizes)
      BY <2>1, <3>1 DEF Follows
    <3> QED BY <1>1, <1>5, <3>2, EndsTail
  <2> QED BY <2>2, <2>3
<1> QED BY <1>1, <1>4, <1>5, <1>6, <1>8 DEF a

\* No more than that happens: the size is the session's already, or could not be set.
LEMMA TakenOnly ==
  ASSUME PaneIInv, NEW i \in P!Ids, att[i].up # <<>>, att' = [att EXCEPT ![i].up = Tail(@)], P!EngineOnly,
         screen' = screen, version' = version, size' = size,
         missed' = TRUE \/ (missed' = FALSE /\ Head(att[i].up) = size)
  PROVE  PaneIInv'
<1> DEFINE a == att[i]  b == [a EXCEPT !.up = Tail(@)]
<1>1. /\ TaskIs(b, a.st, a.cmds, a.last, Tail(a.up), a.down, a.cut) /\ Mine(i)
      /\ att' = [att EXCEPT ![i] = b]
      /\ P!Resident /\ Connected(a) => UpWay(b, Head(a.up), FALSE) /\ UpWay(b, size, TRUE)
  BY SizeTaken
<1>2. inbox \in Seq(PaneEvents)
  BY TaskBefore
<1>3. P!Resident =>
       /\ a.st # "closed" /\ a.cmds \in Seq(Sizes) /\ StateWay(inbox, state, NameOf(a.st))
       /\ Connected(a) => \A r \in P!Rows : RowWay(a.down, inbox, HeldBack, grid, r, screen[r])
  <2>1. P!Resident => a.st # "closed"
    BY <1>1 DEF Mine, PaneIInv, Alone
  <2> QED BY <2>1, TaskBefore
<1>4. P!Task(i, b) /\ MovesOnly /\ inbox' = inbox
  BY <1>1 DEF P!Task, MovesOnly, P!EngineOnly
<1>5. att[i] = a
  OBVIOUS
<1> HIDE DEF a, b
<1>6. /\ b \in TaskRecs /\ b.st = a.st /\ b.cmds = a.cmds /\ b.last = a.last /\ b.down = a.down /\ b.cut = a.cut
  BY <1>1 DEF TaskIs
<1>7. TaskOK(b) /\ (Connected(b) <=> Connected(a)) /\ \A y \in Sizes : SizeWay(a, y) => SizeWay(b, y)
  BY <1>6 DEF TaskOK, Connected, SizeWay
<1>8. P!Resident /\ Connected(b) => UpWay(b, size, missed')
  BY <1>1, <1>5, <1>7
<1>9. missed' \in BOOLEAN
  OBVIOUS
<1>10. Moved(i, b)
  BY <1>1, <1>2, <1>3, <1>4, <1>5, <1>6, <1>7, <1>8, <1>9 DEF Moved
<1> QED BY <1>10, MoveStep

\* Session::resize
LEMMA TakeResizeStep ==
  ASSUME PaneIInv, NEW i \in P!Ids, P!TakeResize(i) PROVE PaneIInv'
<1> DEFINE a == att[i]  z == Head(a.up)  b == [a EXCEPT !.up = Tail(@)]
           rest == [att EXCEPT ![i].up = Tail(@)]
<1>1. /\ a.up # <<>> /\ P!EngineOnly /\ missed' = FALSE
      /\ IF z = size THEN att' = rest /\ UNCHANGED <<screen, size, version>>
         ELSE /\ size' = z /\ version' = version + 1 /\ screen' = [r \in P!Rows |-> version']
              /\ att' = P!Sent(rest, P!Frame(TRUE, screen', version'))
  BY DEF P!TakeResize
<1>2. CASE z = size
  BY <1>1, <1>2, TakenOnly
<1>3. CASE z # size
  <2> DEFINE f == P!Frame(TRUE, screen', version')
  <2>1. /\ size' = z /\ version' = version + 1 /\ screen' = [r \in P!Rows |-> version']
        /\ att' = P!Sent(rest, f)
    BY <1>1, <1>3
  <2>2. /\ TaskIs(b, a.st, a.cmds, a.last, Tail(a.up), a.down, a.cut) /\ z \in Sizes /\ Mine(i)
        /\ rest = [att EXCEPT ![i] = b]
        /\ P!Resident /\ Connected(a) => UpWay(b, z, FALSE)
    BY <1>1, SizeTaken
  <2>3. version \in Nat /\ att = [j \in P!Ids |-> att[j]] /\ \A j \in P!Ids : TaskOK(att[j])
    BY DEF PaneIInv, PaneTypes, EngineTypes, AttTypes
  <2>4. EngineTypes'
    <3>1. version' \in Nat /\ screen' \in [P!Rows -> Nat] /\ size' \in Sizes
      <4> HIDE DEF f, z, rest
      <4> QED BY <2>1, <2>2, <2>3
    <3>2. missed' \in BOOLEAN
      BY <1>1
    <3> QED BY <3>1, <3>2 DEF EngineTypes
  <2>5. f \in Frames /\ \A r \in P!Rows : f \in Shows(r, screen'[r])
    <3>1. screen' \in [P!Rows -> Nat] /\ version' \in Nat
      BY <2>4 DEF EngineTypes
    <3> QED BY <3>1, SnapshotShows
  <2>6. rest = [j \in P!Ids |-> rest[j]] /\ rest[i] = b /\ \A j \in P!Ids : j # i => rest[j] = att[j]
    BY <2>2, <2>3
  <2>7. a # P!Closed /\ att[i] = a
    BY <1>1 DEF P!Closed
  <2> HIDE DEF f, a, b, rest, z
  <2>8. /\ TaskOK(b) /\ b.st = a.st /\ b.cmds = a.cmds /\ b.last = a.last /\ b.down = a.down /\ b.cut = a.cut
    BY <2>2 DEF TaskIs, TaskOK
  <2>9. Tasks(rest)
    <3>1. ASSUME NEW j \in P!Ids
          PROVE  /\ TaskOK(rest[j]) /\ rest[j].st = att[j].st /\ rest[j].cmds = att[j].cmds
                 /\ rest[j].last = att[j].last /\ rest[j].down = att[j].down /\ rest[j].cut = att[j].cut
                 /\ att[j] = P!Closed => rest[j] = P!Closed
      <4>1. CASE j = i
        BY <2>6, <2>7, <2>8, <4>1
      <4>2. CASE j # i
        BY <2>3, <2>6, <4>2
      <4> QED BY <4>1, <4>2
    <3> QED BY <2>6, <3>1 DEF Tasks
  <2>10. P!Resident /\ Connected(att[cur]) => UpWay(rest[cur], size', missed')
    BY <1>1, <2>1, <2>2, <2>6, <2>7 DEF Mine
  <2> QED BY <1>1, <2>1, <2>4, <2>5, <2>9, <2>10, EngineStep
<1> QED BY <1>2, <1>3

\* The size could not be set.
LEMMA ResizeFailsStep ==
  ASSUME PaneIInv, NEW i \in P!Ids, P!ResizeFails(i) PROVE PaneIInv'
<1>1. /\ att[i].up # <<>> /\ att' = [att EXCEPT ![i].up = Tail(@)] /\ missed' = TRUE /\ P!EngineOnly
      /\ screen' = screen /\ version' = version /\ size' = size
  BY DEF P!ResizeFails
<1> QED BY <1>1, TakenOnly


-----------------------------------------------------------------------------
(* The pane's own steps.                                                   *)

\* What a hold keeps back.
LEMMA HoldFacts ==
  ASSUME PaneIInv
  PROVE  /\ HeldBack \in Seq(Frames)
         /\ hold.held => hold \in Holds /\ HeldBack = hold.parked /\ hold.saw \in BOOLEAN
         /\ ~hold.held => hold = P!NoHold /\ HeldBack = <<>>
<1>1. hold \in {P!NoHold} \cup Holds
  BY DEF PaneIInv, PaneTypes, QueueTypes
<1>2. CASE hold = P!NoHold
  <2>1. hold.held = FALSE
    BY <1>2 DEF P!NoHold
  <2>2. HeldBack = <<>>
    BY <2>1 DEF HeldBack
  <2> QED BY <1>2, <2>1, <2>2
<1>3. CASE hold \in Holds
  <2>1. hold.held = TRUE /\ hold.parked \in Seq(Frames) /\ hold.saw \in BOOLEAN
    BY <1>3 DEF Holds
  <2>2. HeldBack = hold.parked
    BY <2>1 DEF HeldBack
  <2> QED BY <1>3, <2>1, <2>2
<1> QED BY <1>1, <1>2, <1>3

\* A size is put among the commands of the resident's task.
LEMMA TellStep ==
  ASSUME PaneIInv, P!Resident, NEW z \in Sizes, att' = [att EXCEPT ![cur] = P!Tell(@, z)], cur' = cur,
         selected' = selected, inbox' = inbox, grid' = grid, screen' = screen, state' = state, size' = size, missed' = missed,
         HeldBack' = HeldBack
  PROVE  AttTypes' /\ Alone' /\ SizeToEngine' /\ RowsCome' /\ StateComes' /\ SizeWay(att'[cur], z)
<1> DEFINE a == att[cur]  b == [a EXCEPT !.cmds = Append(a.cmds, z)]
<1>1. cur \in P!Ids /\ P!Resident'
  BY CurIsId DEF P!Resident
<1>2. a \in TaskRecs /\ a.st # "closed" /\ a.cmds \in Seq(Sizes)
  BY <1>1, TaskBefore DEF PaneIInv, Alone
<1>3. att = [j \in P!Ids |-> att[j]] /\ \A j \in P!Ids : TaskOK(att[j])
  BY DEF PaneIInv, PaneTypes, AttTypes
<1>4. /\ att' = [j \in P!Ids |-> att'[j]] /\ att'[cur] = b
      /\ \A j \in P!Ids : j # cur => att'[j] = att[j]
  <2>1. P!Tell(a, z) = b
    BY DEF P!Tell
  <2>2. att' = [att EXCEPT ![cur] = P!Tell(a, z)]
    OBVIOUS
  <2> HIDE DEF b
  <2> QED BY <1>1, <1>3, <2>1, <2>2
<1>5. a.cmds \in Seq(Sizes \cup {P!Close}) /\ Append(a.cmds, z) \in Seq(Sizes \cup {P!Close})
      /\ Append(a.cmds, z) \in Seq(Sizes)
  BY <1>2, TaskFields
<1>0. att[cur] = a
  OBVIOUS
<1> HIDE DEF a
<1>6. TaskIs(b, a.st, Append(a.cmds, z), a.last, a.up, a.down, a.cut)
  BY <1>2, <1>5, TaskField
<1> HIDE DEF b
<1>7. /\ b \in TaskRecs /\ b.st = a.st /\ b.cmds = Append(a.cmds, z) /\ b.last = a.last /\ b.up = a.up
      /\ b.down = a.down /\ b.cut = a.cut
  BY <1>6 DEF TaskIs
<1>8. TaskOK(b) /\ (Connected(b) <=> Connected(a))
  BY <1>2, <1>7 DEF TaskOK, Connected
<1>9. AttTypes'
  <2>1. ASSUME NEW j \in P!Ids PROVE TaskOK(att'[j])
    BY <1>3, <1>4, <1>8
  <2> QED BY <1>4, <2>1 DEF AttTypes
<1>10. Alone'
  <2>1. att'[cur'].st # "closed" /\ att'[cur'].cmds \in Seq(Sizes)
    BY <1>2, <1>4, <1>5, <1>7
  <2>2. ASSUME NEW j \in P!Ids \ {cur'} PROVE att'[j] = P!Closed
    BY <1>4 DEF PaneIInv, Alone
  <2> QED BY <1>1, <2>1, <2>2 DEF Alone
<1>11. SizeToEngine'
  <2> SUFFICES ASSUME Connected(a) PROVE UpWay(b, size, missed)
    BY <1>4, <1>8, Zenon DEF SizeToEngine
  <2>1. UpWay(a, size, missed)
    BY <1>0 DEF PaneIInv, SizeToEngine
  <2> QED BY <1>7, <2>1 DEF UpWay
<1>12. RowsCome'
  <2> SUFFICES ASSUME Connected(a), NEW r \in P!Rows
               PROVE  RowWay(b.down, inbox, HeldBack, grid, r, screen[r])
    BY <1>4, <1>8, Zenon DEF RowsCome
  <2> QED BY <1>0, <1>7 DEF PaneIInv, RowsCome
<1>13. StateComes'
  BY <1>0, <1>4, <1>7 DEF PaneIInv, StateComes
<1>14. SizeWay(b, z)
  BY <1>2, <1>7, UpAppend DEF SizeWay
<1> QED BY <1>4, <1>9, <1>10, <1>11, <1>12, <1>13, <1>14

\* The tick carries what is pending.
LEMMA FlushStep ==
  ASSUME PaneIInv, P!Flush PROVE PaneIInv'
<1>1. /\ armed' = FALSE /\ sent' = TRUE /\ pend' = P!NoSize
      /\ att' = IF P!Resident /\ pend # P!NoSize THEN [att EXCEPT ![cur] = P!Tell(@, pend)] ELSE att
      /\ inbox' = inbox /\ hold' = hold /\ grid' = grid /\ state' = state /\ screen' = screen
      /\ version' = version /\ size' = size /\ missed' = missed /\ area' = area /\ lastSize' = lastSize
      /\ count' = count /\ cur' = cur /\ painted' = painted /\ selects' = selects /\ selected' = selected
      /\ told' = told /\ active' = active /\ notified' = notified /\ paced' = paced /\ sched' = sched
      /\ budget' = budget /\ stale' = stale
  BY DEF P!Flush, P!paneVars, P!pacerVars, P!engineVars, P!boundVars
<1>2. notified \in BOOLEAN /\ pend \in Sizes \cup {P!NoSize}
  BY DEF PaneIInv, PaneTypes, FlagTypes, SizeTypes
<1>3. QueueTypes' /\ EngineTypes' /\ FlagTypes' /\ CountOK' /\ Measured' /\ P!PaintComes'
  BY <1>1, <1>2, PaneStays, Zenon
<1>4. SizeTypes' /\ P!PendingIsArmed'
  BY <1>1 DEF PaneIInv, PaneTypes, SizeTypes, P!PendingIsArmed
<1>5. CASE P!Resident /\ pend # P!NoSize
  <2>1. pend \in Sizes /\ HeldBack' = HeldBack /\ att' = [att EXCEPT ![cur] = P!Tell(@, pend)]
    BY <1>1, <1>2, <1>5 DEF HeldBack
  <2>2. AttTypes' /\ Alone' /\ SizeToEngine' /\ RowsCome' /\ StateComes' /\ SizeWay(att'[cur], pend)
    BY <1>1, <1>5, <2>1, TellStep
  <2>3. lastSize # P!NoSize => pend = lastSize
    BY <1>5 DEF PaneIInv, SizeToTask
  <2>4. SizeToTask'
    BY <1>1, <2>2, <2>3, Zenon DEF SizeToTask
  <2> QED BY <1>3, <1>4, <2>2, <2>4 DEF PaneIInv, PaneTypes
<1>6. CASE ~(P!Resident /\ pend # P!NoSize)
  <2>1. att' = att
    BY <1>1, <1>6
  <2>2. AttTypes' /\ Alone' /\ SizeToEngine' /\ RowsCome' /\ StateComes'
    BY <1>1, <2>1, PaneStays, Zenon
  <2>3. SizeToTask'
    BY <1>1, <1>6, <2>1 DEF PaneIInv, SizeToTask, P!Resident
  <2> QED BY <1>3, <1>4, <2>2, <2>3 DEF PaneIInv, PaneTypes
<1> QED BY <1>5, <1>6

\* A size is measured, and sent or left for the tick.
LEMMA MeasureStep ==
  ASSUME PaneIInv, P!Resident, NEW plan, NEW holds \in BOOLEAN, P!Measure(plan, holds), cur' = cur,
         selected' = selected, inbox' = inbox, grid' = grid, screen' = screen, state' = state, size' = size, missed' = missed,
         area' = area
  PROVE  /\ AttTypes' /\ Alone' /\ SizeToEngine' /\ RowsCome' /\ StateComes' /\ SizeToTask'
         /\ SizeTypes' /\ P!PendingIsArmed' /\ lastSize' = area /\ count' = count
         /\ hold' \in {P!NoHold} \cup Holds
<1>1. /\ area \in Sizes /\ lastSize \in Sizes \cup {P!NoSize} /\ pend \in Sizes \cup {P!NoSize}
      /\ armed \in BOOLEAN /\ sent \in BOOLEAN /\ hold \in {P!NoHold} \cup Holds
  BY DEF PaneIInv, PaneTypes, SizeTypes, QueueTypes
<1>2. P!NoSize \notin Sizes
  BY PaneBounds
<1>3. CASE lastSize = area
  <2>1. /\ att' = att /\ count' = count /\ lastSize' = lastSize /\ pend' = pend /\ armed' = armed
        /\ sent' = sent /\ hold' = hold
    BY <1>3 DEF P!Measure, P!attVars, P!sizeVars
  <2>2. /\ AttTypes' /\ Alone' /\ SizeToEngine' /\ RowsCome' /\ StateComes' /\ SizeToTask' /\ SizeTypes'
        /\ P!PendingIsArmed'
    BY <2>1, PaneStays, Zenon
  <2> QED BY <1>1, <1>3, <2>1, <2>2
<1>4. CASE lastSize # area
  <2>1. lastSize' = area /\ plan \in P!Plans(lastSize = P!NoSize)
    BY <1>4 DEF P!Measure
  <2>2. CASE plan = "now"
    <3>1. /\ sent' = TRUE /\ pend' = P!NoSize /\ armed' = armed /\ count' = count
          /\ att' = [att EXCEPT ![cur] = P!Tell(@, area)]
          /\ hold' = IF ~holds THEN hold ELSE [held |-> TRUE, saw |-> FALSE,
                                               parked |-> IF hold.held THEN hold.parked ELSE <<>>]
      BY <1>4, <2>2 DEF P!Measure
    <3>2. /\ hold' \in {P!NoHold} \cup Holds /\ HeldBack' = HeldBack
      <4>1. CASE ~holds
        BY <1>1, <3>1, <4>1 DEF HeldBack
      <4>2. CASE holds
        <5>1. HeldBack \in Seq(Frames)
          BY HoldFacts
        <5>2. hold' = [held |-> TRUE, saw |-> FALSE, parked |-> HeldBack]
          BY <3>1, <4>2 DEF HeldBack
        <5>3. hold' \in Holds /\ hold'.held = TRUE /\ hold'.parked = HeldBack
          BY <5>1, <5>2 DEF Holds
        <5> QED BY <5>3 DEF HeldBack
      <4> QED BY <4>1, <4>2
    <3>3. AttTypes' /\ Alone' /\ SizeToEngine' /\ RowsCome' /\ StateComes' /\ SizeWay(att'[cur], area)
      BY <1>1, <3>1, <3>2, TellStep
    <3>4. SizeToTask' /\ P!PendingIsArmed'
      BY <2>1, <3>1, <3>3, Zenon DEF SizeToTask, P!PendingIsArmed
    <3>5. SizeTypes'
      BY <1>1, <2>1, <3>1 DEF SizeTypes
    <3> QED BY <2>1, <3>1, <3>2, <3>3, <3>4, <3>5
  <2>3. CASE plan \in {"fold", "arm"}
    <3>1. att' = att /\ count' = count /\ hold' = hold /\ pend' = area /\ sent' = sent /\ armed' = TRUE
      <4>1. plan = "fold" => armed
        BY <2>1 DEF P!Plans
      <4>2. CASE plan = "fold"
        <5>1. att' = att /\ count' = count /\ hold' = hold /\ pend' = area /\ sent' = sent /\ armed' = armed
          BY <1>4, <4>2 DEF P!Measure, P!Fold, P!attVars
        <5>2. armed = TRUE
          BY <1>1, <4>1, <4>2, Zenon
        <5> QED BY <5>1, <5>2
      <4>3. CASE plan = "arm"
        BY <1>4, <4>3 DEF P!Measure, P!attVars
      <4> QED BY <2>3, <4>2, <4>3
    <3>2. AttTypes' /\ Alone' /\ SizeToEngine' /\ RowsCome' /\ StateComes'
      BY <3>1, PaneStays, Zenon
    <3>3. SizeToTask'
      BY <1>1, <1>2, <2>1, <3>1, Zenon DEF SizeToTask
    <3>4. P!PendingIsArmed' /\ SizeTypes'
      BY <1>1, <2>1, <3>1 DEF P!PendingIsArmed, SizeTypes
    <3> QED BY <1>1, <2>1, <3>1, <3>2, <3>3, <3>4
  <2>4. plan \in {"now", "fold", "arm"}
    BY <2>1 DEF P!Plans
  <2> QED BY <2>2, <2>3, <2>4
<1> QED BY <1>3, <1>4

\* The session is rendered.
LEMMA RenderStep ==
  ASSUME PaneIInv, P!Render PROVE PaneIInv'
<1>1. /\ notified' = FALSE /\ P!Resident /\ selected /\ painted' = grid
      /\ inbox' = inbox /\ grid' = grid /\ state' = state /\ screen' = screen
      /\ version' = version /\ size' = size /\ missed' = missed /\ area' = area /\ selects' = selects /\ selected' = selected
      /\ told' = told /\ active' = active /\ paced' = paced /\ sched' = sched
      /\ budget' = budget /\ stale' = stale
      /\ \E plan \in {"now", "fold", "arm"}, holds \in BOOLEAN : P!Measure(plan, holds)
  BY DEF P!Render, P!pacerVars, P!engineVars, P!boundVars
<1>2. PICK plan \in {"now", "fold", "arm"}, holds \in BOOLEAN : P!Measure(plan, holds)
  BY <1>1
<1>3. cur' = cur
  BY <1>2 DEF P!Measure, P!attVars, P!Fold
<1>4. /\ AttTypes' /\ Alone' /\ SizeToEngine' /\ RowsCome' /\ StateComes' /\ SizeToTask'
      /\ SizeTypes' /\ P!PendingIsArmed' /\ lastSize' = area /\ count' = count
      /\ hold' \in {P!NoHold} \cup Holds
  BY <1>1, <1>2, <1>3, MeasureStep
<1>5. EngineTypes' /\ FlagTypes' /\ CountOK'
  BY <1>1, <1>3, <1>4, PaneStays, Zenon
<1>6. QueueTypes'
  BY <1>1, <1>4, Zenon DEF PaneIInv, PaneTypes, QueueTypes
<1>7. Measured' /\ P!PaintComes'
  BY <1>1, <1>4, Zenon DEF Measured, P!PaintComes
<1> QED BY <1>4, <1>5, <1>6, <1>7 DEF PaneIInv, PaneTypes

\* The frames of one paint: the pane is painted again, now or by a timer.
LEMMA AppliesStep ==
  ASSUME PaneIInv, NEW fs \in Seq(Frames), P!ApplyUpdates(fs), cur' = cur, selected' = selected,
         active' = active, told' = told, painted' = painted
  PROVE  FlagTypes' /\ P!PaintComes' /\ (notified => notified') /\ grid' \in [P!Rows -> Nat]
<1>1. /\ selected \in BOOLEAN /\ told \in BOOLEAN /\ active \in BOOLEAN /\ notified \in BOOLEAN
      /\ paced \in BOOLEAN /\ sched \in BOOLEAN /\ budget \in 0..2 /\ stale \in Nat
      /\ grid \in [P!Rows -> Nat]
  BY DEF PaneIInv, PaneTypes, FlagTypes, QueueTypes
<1>2. grid' \in [P!Rows -> Nat]
  BY <1>1, ApplyAllRow DEF P!ApplyUpdates
<1>3. CASE active /\ selected /\ grid' # grid
  <2>1. P!OnDamage
    BY <1>3 DEF P!ApplyUpdates
  <2>2. budget > 0 => budget - 1 \in 0..2
    BY <1>1
  <2>3. stale + 1 \in Nat /\ (IF sched THEN stale + 1 ELSE stale) \in Nat
    BY <1>1
  <2>4. /\ notified' \in BOOLEAN /\ paced' \in BOOLEAN /\ sched' \in BOOLEAN /\ budget' \in 0..2
        /\ stale' \in Nat /\ (notified => notified') /\ (notified' \/ sched')
    <3>1. CASE /\ budget > 0 /\ budget' = budget - 1 /\ paced' = TRUE /\ notified' = TRUE
               /\ sched' = FALSE /\ stale' = IF sched THEN stale + 1 ELSE stale
      BY <2>2, <2>3, <3>1, Zenon
    <3>2. CASE /\ budget = 0 /\ ~sched /\ paced' = TRUE /\ notified' = TRUE
               /\ UNCHANGED <<budget, sched, stale>>
      <4>1. budget' = budget /\ sched' = sched /\ stale' = stale
        BY <3>2
      <4> QED BY <1>1, <3>2, <4>1, Zenon
    <3>3. CASE /\ budget = 0 /\ ~sched /\ paced /\ sched' = TRUE
               /\ UNCHANGED <<budget, paced, stale, notified>>
      <4>1. budget' = budget /\ paced' = paced /\ stale' = stale /\ notified' = notified
        BY <3>3
      <4>2. sched' = TRUE
        BY <3>3
      <4> QED BY <1>1, <4>1, <4>2, Zenon
    <3>4. CASE budget = 0 /\ sched /\ UNCHANGED <<P!pacerVars, notified>>
      <4>1. budget' = budget /\ paced' = paced /\ sched' = sched /\ stale' = stale /\ notified' = notified
        BY <3>4 DEF P!pacerVars
      <4>2. sched' = TRUE
        BY <1>1, <3>4, <4>1
      <4> QED BY <1>1, <4>1, <4>2, Zenon
    <3> QED BY <2>1, <3>1, <3>2, <3>3, <3>4 DEF P!OnDamage
  <2>5. FlagTypes'
    BY <1>1, <2>4, Zenon DEF FlagTypes
  <2>6. P!PaintComes'
    BY <2>4, Zenon DEF P!PaintComes
  <2> QED BY <1>2, <2>4, <2>5, <2>6
<1>4. CASE ~(active /\ selected /\ grid' # grid)
  <2>1. budget' = budget /\ paced' = paced /\ sched' = sched /\ stale' = stale /\ notified' = notified
    BY <1>4 DEF P!ApplyUpdates, P!pacerVars
  <2>2. FlagTypes'
    BY <1>1, <2>1, Zenon DEF FlagTypes
  <2>3. P!PaintComes'
    <3>1. CASE grid' = grid
      BY <2>1, <3>1, PaneStays, Zenon
    <3>2. CASE ~(active /\ selected)
      BY <3>2, Zenon DEF P!PaintComes
    <3> QED BY <1>4, <3>1, <3>2
  <2> QED BY <1>2, <2>1, <2>2, <2>3
<1> QED BY <1>3, <1>4

\* The hold's time is up.
LEMMA ReleaseHoldStep ==
  ASSUME PaneIInv, P!ReleaseHold PROVE PaneIInv'
<1>1. /\ hold.held /\ hold' = P!NoHold /\ P!ApplyUpdates(hold.parked)
      /\ att' = att /\ inbox' = inbox /\ state' = state /\ screen' = screen
      /\ version' = version /\ size' = size /\ missed' = missed /\ area' = area /\ lastSize' = lastSize /\ pend' = pend
      /\ armed' = armed /\ sent' = sent /\ count' = count /\ cur' = cur /\ painted' = painted
      /\ selects' = selects /\ selected' = selected /\ told' = told /\ active' = active
  BY DEF P!ReleaseHold, P!attVars, P!sizeVars, P!engineVars, P!boundVars
<1>2. hold.parked = HeldBack /\ HeldBack \in Seq(Frames)
  BY <1>1, HoldFacts
<1>3. FlagTypes' /\ P!PaintComes' /\ (notified => notified') /\ grid' \in [P!Rows -> Nat]
  BY <1>1, <1>2, AppliesStep
<1>4. /\ AttTypes' /\ EngineTypes' /\ SizeTypes' /\ P!PendingIsArmed' /\ SizeToTask'
      /\ SizeToEngine' /\ StateComes' /\ CountOK' /\ Measured'
  BY <1>1, <1>3, PaneStays, Zenon
<1>5. QueueTypes'
  BY <1>1, <1>3 DEF PaneIInv, PaneTypes, QueueTypes
<1>6. Alone'
  BY <1>1 DEF PaneIInv, Alone, P!Resident
<1>7. RowsCome'
  <2>1. HeldBack' = <<>> /\ grid' = P!ApplyAll(grid, HeldBack) /\ grid \in [P!Rows -> Nat]
    BY <1>1, <1>2 DEF HeldBack, P!NoHold, P!ApplyUpdates, PaneIInv, PaneTypes, QueueTypes
  <2> SUFFICES ASSUME P!Resident, Connected(att[cur]), NEW r \in P!Rows
               PROVE  RowWay(att[cur].down, inbox, <<>>, grid', r, screen[r])
    BY <1>1, <2>1, Zenon DEF RowsCome, P!Resident
  <2>2. RowWay(att[cur].down, inbox, HeldBack, grid, r, screen[r])
    BY DEF PaneIInv, RowsCome
  <2> QED BY <1>2, <2>1, <2>2, RowRelease
<1> QED BY <1>3, <1>4, <1>5, <1>6, <1>7 DEF PaneIInv, PaneTypes

\* What HandleFrame does for the rows.
LEMMA FrameStep ==
  ASSUME PaneIInv, inbox # <<>>, inbox' = Tail(inbox), Head(inbox) \in Frames, P!HandleFrame(Head(inbox)),
         cur' = cur, att' = att, screen' = screen, selected' = selected, active' = active, told' = told,
         painted' = painted
  PROVE  /\ FlagTypes' /\ P!PaintComes' /\ (notified => notified') /\ grid' \in [P!Rows -> Nat]
         /\ hold' \in {P!NoHold} \cup Holds /\ RowsCome' /\ (~P!Resident => hold' = hold)
<1> DEFINE f == Head(inbox)
<1>1. /\ grid \in [P!Rows -> Nat] /\ inbox \in Seq(PaneEvents) /\ hold \in {P!NoHold} \cup Holds
      /\ notified \in BOOLEAN
  BY DEF PaneIInv, PaneTypes, QueueTypes, FlagTypes
<1>2. f \in Frames
  OBVIOUS
<1>3. HeldBack \in Seq(Frames) /\ <<>> \in Seq(Frames)
  BY HoldFacts
<1>4. ASSUME P!Resident, Connected(att[cur]), NEW r \in P!Rows
      PROVE  RowWay(att[cur].down, inbox, HeldBack, grid, r, screen[r])
  BY <1>4 DEF PaneIInv, RowsCome
<1>5. ASSUME ~P!Resident
      PROVE  /\ FlagTypes' /\ P!PaintComes' /\ (notified => notified') /\ grid' = grid
             /\ hold' = hold /\ RowsCome'
  <2>1. /\ grid' = grid /\ hold' = hold /\ budget' = budget /\ paced' = paced /\ sched' = sched
        /\ stale' = stale /\ notified' = notified
    BY <1>5 DEF P!HandleFrame, P!pacerVars
  <2>2. FlagTypes' /\ P!PaintComes'
    BY <1>1, <2>1, PaneStays, Zenon
  <2>3. RowsCome'
    BY <1>5, Zenon DEF RowsCome, P!Resident
  <2> QED BY <2>1, <2>2, <2>3
\* Without a hold the frame is applied.
<1>6. ASSUME P!Resident, ~hold.held
      PROVE  /\ FlagTypes' /\ P!PaintComes' /\ (notified => notified') /\ grid' \in [P!Rows -> Nat]
             /\ hold' = hold /\ RowsCome'
  <2>1. P!ApplyUpdates(<<f>>) /\ hold' = hold /\ <<f>> \in Seq(Frames) /\ <<f>> = Append(<<>>, f)
    BY <1>2, <1>6 DEF P!HandleFrame
  <2>2. FlagTypes' /\ P!PaintComes' /\ (notified => notified') /\ grid' \in [P!Rows -> Nat]
    BY <2>1, AppliesStep
  <2>3. HeldBack = <<>> /\ HeldBack' = <<>> /\ grid' = P!ApplyAll(grid, <<f>>)
    BY <1>6, <2>1, HoldFacts DEF HeldBack, P!ApplyUpdates
  <2>4. ASSUME Connected(att[cur]), NEW r \in P!Rows
        PROVE  RowWay(att[cur].down, Tail(inbox), <<>>, grid', r, screen[r])
    <3> DEFINE v == screen[r]
    <3>1. /\ f \in Shows(r, v) => KeptWay(<<f>>, grid, r, v)
          /\ f \notin Touches(r) /\ KeptWay(<<>>, grid, r, v) => KeptWay(<<f>>, grid, r, v)
      BY <1>2, <1>3, <2>1, KeptMore
    <3>2. KeptWay(<<f>>, grid, r, v) => KeptWay(<<>>, grid', r, v)
      BY <1>1, <2>1, <2>3, KeptApplied
    <3>3. RowWay(att[cur].down, inbox, <<>>, grid, r, v)
      BY <1>4, <1>6, <2>3, <2>4
    <3> HIDE DEF v
    <3>4. /\ f \in Shows(r, v) => KeptWay(<<>>, grid', r, v)
          /\ f \notin Touches(r) /\ KeptWay(<<>>, grid, r, v) => KeptWay(<<>>, grid', r, v)
      BY <3>1, <3>2, Zenon
    <3>5. PICK g1 : g1 = grid'
      OBVIOUS
    <3>6. RowWay(att[cur].down, Tail(inbox), <<>>, g1, r, v)
      BY <1>1, <3>3, <3>4, <3>5, RowTake
    <3> QED BY <3>5, <3>6 DEF v
  <2>5. RowsCome'
    BY <2>3, <2>4, Zenon DEF RowsCome
  <2> QED BY <2>1, <2>2, <2>5
\* The frame ends the hold: all are applied.
<1>7. ASSUME P!Resident, hold.held, P!Completes(f)
      PROVE  /\ FlagTypes' /\ P!PaintComes' /\ (notified => notified') /\ grid' \in [P!Rows -> Nat]
             /\ hold' = P!NoHold /\ RowsCome'
  <2> DEFINE fs == Append(HeldBack, f)
  <2>1. P!ApplyUpdates(fs) /\ hold' = P!NoHold /\ fs \in Seq(Frames)
    BY <1>2, <1>3, <1>7, HoldFacts DEF P!HandleFrame
  <2>2. FlagTypes' /\ P!PaintComes' /\ (notified => notified') /\ grid' \in [P!Rows -> Nat]
    BY <2>1, AppliesStep
  <2>3. HeldBack' = <<>> /\ grid' = P!ApplyAll(grid, fs)
    BY <2>1 DEF HeldBack, P!ApplyUpdates, P!NoHold
  <2>4. ASSUME Connected(att[cur]), NEW r \in P!Rows
        PROVE  RowWay(att[cur].down, Tail(inbox), <<>>, grid', r, screen[r])
    <3> DEFINE v == screen[r]
    <3>1. /\ f \in Shows(r, v) => KeptWay(fs, grid, r, v)
          /\ f \notin Touches(r) /\ KeptWay(HeldBack, grid, r, v) => KeptWay(fs, grid, r, v)
      BY <1>2, <1>3, KeptMore
    <3>2. KeptWay(fs, grid, r, v) => KeptWay(<<>>, grid', r, v)
      BY <1>1, <2>1, <2>3, KeptApplied
    <3>3. RowWay(att[cur].down, inbox, HeldBack, grid, r, v)
      BY <1>4, <1>7, <2>4
    <3> HIDE DEF v, fs
    <3>4. /\ f \in Shows(r, v) => KeptWay(<<>>, grid', r, v)
          /\ f \notin Touches(r) /\ KeptWay(HeldBack, grid, r, v) => KeptWay(<<>>, grid', r, v)
      BY <3>1, <3>2, Zenon
    <3>5. PICK g1 : g1 = grid'
      OBVIOUS
    <3>6. RowWay(att[cur].down, Tail(inbox), <<>>, g1, r, v)
      BY <1>1, <3>3, <3>4, <3>5, RowTake
    <3> QED BY <3>5, <3>6 DEF v
  <2>5. RowsCome'
    BY <1>7, <2>3, <2>4, Zenon DEF RowsCome, P!Resident
  <2> QED BY <2>1, <2>2, <2>5
\* The frame is kept back.
<1>8. ASSUME P!Resident, hold.held, ~P!Completes(f)
      PROVE  /\ FlagTypes' /\ P!PaintComes' /\ (notified => notified') /\ grid' = grid
             /\ hold' \in Holds /\ RowsCome'
  <2>1. /\ hold' = P!Parked(f) /\ grid' = grid /\ budget' = budget /\ paced' = paced /\ sched' = sched
        /\ stale' = stale /\ notified' = notified
    BY <1>8 DEF P!HandleFrame, P!pacerVars
  <2>2. FlagTypes' /\ P!PaintComes'
    BY <1>1, <2>1, PaneStays, Zenon
  <2>3. hold \in Holds /\ HeldBack = hold.parked /\ f.full \in BOOLEAN /\ hold.saw \in BOOLEAN
    BY <1>2, <1>8, HoldFacts DEF Frames
  <2>4. hold' \in Holds /\ hold'.held /\ hold'.parked = Append(HeldBack, f)
    <3> DEFINE q == Append(hold.parked, f)  s == hold.saw \/ f.full
    <3>1. P!Parked(f) = [hold EXCEPT !.parked = q, !.saw = s]
      BY DEF P!Parked
    <3>2. q \in Seq(Frames) /\ s \in BOOLEAN
      BY <1>2, <1>3, <2>3
    <3> HIDE DEF q, s
    <3>3. [hold EXCEPT !.parked = q, !.saw = s] \in Holds /\ [hold EXCEPT !.parked = q, !.saw = s].parked = q
      BY <2>3, <3>2 DEF Holds
    <3>4. \A h \in Holds : h.held = TRUE
      BY DEF Holds
    <3> QED BY <2>1, <2>3, <3>1, <3>3, <3>4 DEF q
  <2>5. HeldBack' = Append(HeldBack, f)
    BY <2>4 DEF HeldBack
  <2>6. ASSUME Connected(att[cur]), NEW r \in P!Rows
        PROVE  RowWay(att[cur].down, Tail(inbox), Append(HeldBack, f), grid, r, screen[r])
    <3> DEFINE v == screen[r]  kept == Append(HeldBack, f)
    <3>1. /\ f \in Shows(r, v) => KeptWay(kept, grid, r, v)
          /\ f \notin Touches(r) /\ KeptWay(HeldBack, grid, r, v) => KeptWay(kept, grid, r, v)
      BY <1>2, <1>3, KeptMore
    <3>2. RowWay(att[cur].down, inbox, HeldBack, grid, r, v)
      BY <1>4, <1>8, <2>6
    <3> HIDE DEF v, kept
    <3>3. RowWay(att[cur].down, Tail(inbox), kept, grid, r, v)
      BY <1>1, <3>1, <3>2, RowTake
    <3> QED BY <3>3 DEF v, kept
  <2>7. RowsCome'
    BY <1>8, <2>1, <2>5, <2>6, Zenon DEF RowsCome, P!Resident
  <2> QED BY <2>1, <2>2, <2>4, <2>7
<1> QED BY <1>1, <1>5, <1>6, <1>7, <1>8

\* An entry of the inbox is handled.
LEMMA HandlePaneEventStep ==
  ASSUME PaneIInv, P!HandlePaneEvent PROVE PaneIInv'
<1> DEFINE e == Head(inbox)
<1>1. /\ inbox # <<>> /\ inbox' = Tail(inbox)
      /\ \/ e.t = "grid" /\ P!HandleFrame(e) /\ state' = state
         \/ /\ e.t = "key" /\ budget' = 2 /\ grid' = grid /\ state' = state /\ hold' = hold /\ paced' = paced
            /\ sched' = sched /\ stale' = stale /\ notified' = notified
         \/ /\ e.t \notin {"grid", "key"} /\ P!HandleState(e) /\ grid' = grid /\ hold' = hold
            /\ budget' = budget /\ paced' = paced /\ sched' = sched /\ stale' = stale
      /\ att' = att /\ screen' = screen
      /\ version' = version /\ size' = size /\ missed' = missed /\ area' = area /\ lastSize' = lastSize /\ pend' = pend
      /\ armed' = armed /\ sent' = sent /\ count' = count /\ cur' = cur /\ painted' = painted
      /\ selects' = selects /\ selected' = selected /\ told' = told /\ active' = active
  BY DEF P!HandlePaneEvent, P!attVars, P!paneVars, P!sizeVars, P!pacerVars, P!engineVars, P!boundVars
<1>2. /\ inbox \in Seq(PaneEvents) /\ hold \in {P!NoHold} \cup Holds /\ grid \in [P!Rows -> Nat]
      /\ state \in {"attaching", "live", "reconnecting"}
      /\ selected \in BOOLEAN /\ told \in BOOLEAN /\ active \in BOOLEAN /\ notified \in BOOLEAN
      /\ paced \in BOOLEAN /\ sched \in BOOLEAN /\ budget \in 0..2 /\ stale \in Nat
  BY DEF PaneIInv, PaneTypes, QueueTypes, FlagTypes
<1>3. inbox' \in Seq(PaneEvents) /\ e \in PaneEvents
  BY <1>1, <1>2, EndsTail
<1>4. /\ e \in Frames \/ e \in Reports \/ e \in Keys
      /\ e \in Frames <=> e.t = "grid"
      /\ e \in Keys <=> e.t = "key"
      /\ e \in Reports <=> e.t \notin {"grid", "key"}
  BY <1>3, EventKinds DEF PaneEvents
<1> HIDE DEF e
<1>5. AttTypes' /\ EngineTypes' /\ SizeTypes' /\ P!PendingIsArmed' /\ SizeToTask' /\ SizeToEngine' /\ CountOK'
  BY <1>1, PaneStays, Zenon
<1>6. ASSUME ~P!Resident => hold' = hold PROVE Alone'
  BY <1>1, <1>6 DEF PaneIInv, Alone, P!Resident
<1>7. ASSUME e \in Reports => state' = e.t \/ ~P!Resident, e \notin Reports => state' = state PROVE StateComes'
  <2> SUFFICES ASSUME P!Resident PROVE StateWay(Tail(inbox), state', NameOf(att[cur].st))
    BY <1>1, Zenon DEF StateComes, P!Resident
  <2>1. /\ StateWay(inbox, state, NameOf(att[cur].st))
        /\ NameOf(att[cur].st) \in {"attaching", "live", "reconnecting"}
    BY NameKinds DEF PaneIInv, StateComes
  <2>2. PICK s1 : s1 = state'
    OBVIOUS
  <2>3. StateWay(Tail(inbox), s1, NameOf(att[cur].st))
    BY <1>1, <1>2, <1>7, <2>1, <2>2, StateTake DEF e
  <2> QED BY <2>2, <2>3
<1>8. ASSUME e \notin Frames, hold' = hold, grid' = grid PROVE RowsCome'
  <2> SUFFICES ASSUME P!Resident, Connected(att[cur]), NEW r \in P!Rows
               PROVE  RowWay(att[cur].down, Tail(inbox), HeldBack, grid, r, screen[r])
    BY <1>1, <1>8, Zenon DEF RowsCome, HeldBack, P!Resident
  <2>1. RowWay(att[cur].down, inbox, HeldBack, grid, r, screen[r])
    BY DEF PaneIInv, RowsCome
  <2>2. Head(inbox) \notin Shows(r, screen[r])
    BY <1>8, FrameKinds DEF e
  <2> QED BY <1>1, <1>2, <2>1, <2>2, RowTake
<1>9. ASSUME notified => notified' PROVE Measured'
  BY <1>1, <1>9, PaneStays, Zenon
<1>10. CASE e \in Frames
  <2>1. P!HandleFrame(e) /\ state' = state
    BY <1>1, <1>4, <1>10
  <2>2. /\ FlagTypes' /\ P!PaintComes' /\ (notified => notified') /\ grid' \in [P!Rows -> Nat]
        /\ hold' \in {P!NoHold} \cup Holds /\ RowsCome' /\ (~P!Resident => hold' = hold)
    BY <1>1, <1>10, <2>1, FrameStep DEF e
  <2>3. QueueTypes'
    BY <1>2, <1>3, <2>1, <2>2 DEF QueueTypes
  <2>4. Alone' /\ StateComes' /\ Measured'
    BY <1>4, <1>6, <1>7, <1>9, <1>10, <2>1, <2>2
  <2> QED BY <1>5, <2>2, <2>3, <2>4 DEF PaneIInv, PaneTypes
<1>11. CASE e \in Keys
  <2>1. /\ budget' = 2 /\ grid' = grid /\ state' = state /\ hold' = hold /\ paced' = paced
        /\ sched' = sched /\ stale' = stale /\ notified' = notified
    BY <1>1, <1>4, <1>11
  <2>2. FlagTypes'
    <3>1. budget' \in 0..2
      BY <2>1
    <3> QED BY <1>1, <1>2, <2>1, <3>1, Zenon DEF FlagTypes
  <2>3. QueueTypes'
    BY <1>2, <1>3, <2>1 DEF QueueTypes
  <2>4. P!PaintComes'
    BY <1>1, <2>1, PaneStays, Zenon
  <2>5. e \notin Frames /\ e \notin Reports
    BY <1>4, <1>11
  <2>6. Alone' /\ StateComes' /\ RowsCome' /\ Measured'
    BY <1>6, <1>7, <1>8, <1>9, <2>1, <2>5
  <2> QED BY <1>5, <2>2, <2>3, <2>4, <2>6 DEF PaneIInv, PaneTypes
<1>12. CASE e \in Reports
  <2>1. /\ P!HandleState(e) /\ grid' = grid /\ hold' = hold
        /\ budget' = budget /\ paced' = paced /\ sched' = sched /\ stale' = stale
    BY <1>1, <1>4, <1>12
  <2>2. state' = (IF P!Resident THEN e.t ELSE state) /\ notified' = (notified \/ selected)
    BY <2>1 DEF P!HandleState
  <2>3. notified' \in BOOLEAN /\ (notified => notified')
    BY <1>2, <2>2, Zenon
  <2>4. FlagTypes' /\ P!PaintComes'
    BY <1>1, <2>1, <2>3, PaneStays, Zenon
  <2>5. QueueTypes'
    BY <1>2, <1>3, <1>12, <2>1, <2>2, EventKinds DEF QueueTypes
  <2>6. e \notin Frames /\ (state' = e.t \/ ~P!Resident)
    BY <1>4, <1>12, <2>2
  <2>7. Alone' /\ StateComes' /\ RowsCome' /\ Measured'
    BY <1>6, <1>7, <1>8, <1>9, <1>12, <2>1, <2>3, <2>6
  <2> QED BY <1>5, <2>4, <2>5, <2>7 DEF PaneIInv, PaneTypes
<1> QED BY <1>4, <1>10, <1>11, <1>12

\* Another session is selected, and this one leaves the pane.
LEMMA EvictStep ==
  ASSUME PaneIInv, P!StoreChange, P!Evict PROVE PaneIInv'
<1>1. /\ P!Resident /\ ~selected /\ cur' = P!NoId /\ att' = [att EXCEPT ![cur].cmds = Append(@, P!Close)]
      /\ hold' = P!NoHold /\ count' = count /\ inbox' = inbox /\ state' = state /\ lastSize' = lastSize
      /\ told' = FALSE /\ notified' = TRUE /\ selected' = selected /\ grid' = grid /\ area' = area
      /\ pend' = pend /\ armed' = armed /\ sent' = sent /\ active' = active /\ painted' = painted
      /\ budget' = budget /\ paced' = paced /\ sched' = sched /\ stale' = stale
      /\ screen' = screen /\ size' = size /\ missed' = missed /\ version' = version /\ selects' = selects
  BY DEF P!StoreChange, P!Evict, P!pacerVars, P!engineVars, P!boundVars
<1>2. ~P!Resident'
  BY <1>1 DEF P!Resident
<1>3. EngineTypes' /\ SizeTypes' /\ P!PendingIsArmed'
  BY <1>1, PaneStays, Zenon
<1>4. SizeToTask' /\ SizeToEngine' /\ RowsCome' /\ StateComes' /\ P!PaintComes' /\ Measured'
  BY <1>2, Zenon DEF SizeToTask, SizeToEngine, RowsCome, StateComes, P!PaintComes, Measured
<1>5. QueueTypes' /\ FlagTypes'
  BY <1>1 DEF PaneIInv, PaneTypes, QueueTypes, FlagTypes
<1>6. CountOK'
  <2>1. /\ count \in Nat \ {0} /\ selects \in Nat /\ selects <= MaxSelects
        /\ 2 * (count - 1) + 1 <= selects
    BY <1>1 DEF PaneIInv, CountOK
  <2> QED BY <1>1, <2>1 DEF CountOK
<1>7. AttTypes'
  <2> DEFINE a == att[cur]  b == [a EXCEPT !.cmds = Append(a.cmds, P!Close)]
  <2>1. cur \in P!Ids /\ att[cur] = a
    BY <1>1, CurIsId
  <2>2. a \in TaskRecs /\ a.st # "closed"
    BY <1>1, <2>1, TaskBefore DEF PaneIInv, Alone
  <2>3. att = [j \in P!Ids |-> att[j]] /\ \A j \in P!Ids : TaskOK(att[j])
    BY DEF PaneIInv, PaneTypes, AttTypes
  <2>4. att' = [att EXCEPT ![cur] = b]
    BY <1>1, <2>1, <2>3
  <2> HIDE DEF a
  <2>5. Append(a.cmds, P!Close) \in Seq(Sizes \cup {P!Close})
    BY <2>2, TaskFields
  <2>6. TaskIs(b, a.st, Append(a.cmds, P!Close), a.last, a.up, a.down, a.cut)
    BY <2>2, <2>5, TaskField
  <2> HIDE DEF b
  <2>7. TaskOK(b)
    BY <2>2, <2>6 DEF TaskIs, TaskOK
  <2>8. att' = [j \in P!Ids |-> att'[j]] /\ \A j \in P!Ids : att'[j] = IF j = cur THEN b ELSE att[j]
    BY <2>1, <2>3, <2>4
  <2> QED BY <2>3, <2>7, <2>8 DEF AttTypes
<1>8. Alone'
  BY <1>1, <1>2, Zenon DEF Alone
<1> QED BY <1>3, <1>4, <1>5, <1>6, <1>7, <1>8 DEF PaneIInv, PaneTypes

\* The session is selected and gets an attachment.
LEMMA PromoteStep ==
  ASSUME PaneIInv, P!StoreChange, P!Promote PROVE PaneIInv'
<1>1. /\ ~P!Resident /\ selected /\ count' = count + 1 /\ cur' = count'
      /\ att' = [att EXCEPT ![cur'] = P!Fresh] /\ inbox' = Append(inbox, P!Event("attaching"))
      /\ state' = "attaching" /\ lastSize' = P!NoSize /\ hold' = hold
      /\ told' = FALSE /\ notified' = TRUE /\ selected' = selected /\ grid' = grid /\ area' = area
      /\ pend' = pend /\ armed' = armed /\ sent' = sent /\ active' = active /\ painted' = painted
      /\ budget' = budget /\ paced' = paced /\ sched' = sched /\ stale' = stale
      /\ screen' = screen /\ size' = size /\ missed' = missed /\ version' = version /\ selects' = selects
  BY DEF P!StoreChange, P!Promote, P!pacerVars, P!engineVars, P!boundVars
<1>2. count + 1 \in P!Ids /\ count + 1 # P!NoId
  BY <1>1, CurIsId DEF P!Ids, P!NoId
<1>3. P!Resident' /\ cur' = count + 1
  BY <1>1, <1>2 DEF P!Resident
<1>4. att = [j \in P!Ids |-> att[j]] /\ \A j \in P!Ids : TaskOK(att[j])
  BY DEF PaneIInv, PaneTypes, AttTypes
<1>5. att' = [j \in P!Ids |-> att'[j]] /\ \A j \in P!Ids : att'[j] = IF j = cur' THEN P!Fresh ELSE att[j]
  BY <1>1, <1>2, <1>3, <1>4
<1>6. /\ P!Fresh \in TaskRecs /\ P!Fresh.st = "connecting" /\ P!Fresh.cmds = <<>>
  <2>1. P!Closed \in TaskRecs /\ P!Closed.cmds = <<>>
    BY DEF P!Closed, TaskRecs
  <2>2. TaskIs(P!Fresh, "connecting", P!Closed.cmds, P!Closed.last, P!Closed.up, P!Closed.down, P!Closed.cut)
    BY <2>1, TaskField DEF P!Fresh
  <2> QED BY <2>1, <2>2 DEF TaskIs
<1>7. TaskOK(P!Fresh) /\ att'[cur'] = P!Fresh
  BY <1>2, <1>3, <1>5, <1>6 DEF TaskOK
<1>8. AttTypes'
  BY <1>4, <1>5, <1>7 DEF AttTypes
<1>9. inbox \in Seq(PaneEvents)
  BY DEF PaneIInv, PaneTypes, QueueTypes
<1>10. inbox' \in Seq(PaneEvents) /\ StateWay(inbox', state', "attaching")
  <2>1. PICK s : s = state'
    OBVIOUS
  <2>2. Append(inbox, P!Event("attaching")) \in Seq(PaneEvents)
        /\ StateWay(Append(inbox, P!Event("attaching")), s, "attaching")
    BY <1>9, StateReport
  <2> QED BY <1>1, <2>1, <2>2
<1>11. QueueTypes' /\ FlagTypes' /\ SizeTypes'
  BY <1>1, <1>10 DEF PaneIInv, PaneTypes, QueueTypes, FlagTypes, SizeTypes
<1>12. EngineTypes' /\ P!PendingIsArmed'
  BY <1>1, PaneStays, Zenon
<1>13. CountOK'
  <2>1. /\ count \in Nat \ {0} /\ selects \in Nat /\ selects <= MaxSelects
        /\ 2 * (count - 1) + 2 <= selects
    BY <1>1 DEF PaneIInv, CountOK
  <2>2. count + 1 \in Nat \ {0} /\ 2 * ((count + 1) - 1) + 0 <= selects
    BY <2>1
  <2> QED BY <1>1, <1>3, <2>1, <2>2 DEF CountOK
<1>14. Alone'
  <2>1. att'[cur'].st # "closed" /\ att'[cur'].cmds \in Seq(Sizes)
    <3>1. <<>> \in Seq(Sizes)
      OBVIOUS
    <3> QED BY <1>6, <1>7, <3>1
  <2>2. ASSUME NEW j \in P!Ids \ {cur'} PROVE att'[j] = P!Closed
    <3>1. j \in P!Ids \ {cur}
      BY <1>1 DEF P!Resident, P!Ids, P!NoId
    <3>2. att[j] = P!Closed
      BY <1>1, <3>1 DEF PaneIInv, Alone
    <3> QED BY <1>5, <3>2
  <2> QED BY <1>3, <2>1, <2>2 DEF Alone
<1>15. ~Connected(att'[cur']) /\ NameOf(att'[cur'].st) = "attaching"
  BY <1>6, <1>7, NameKinds DEF Connected
<1>16. SizeToTask' /\ SizeToEngine' /\ RowsCome' /\ StateComes'
  BY <1>1, <1>10, <1>15, Zenon DEF SizeToTask, SizeToEngine, RowsCome, StateComes
<1>17. Measured' /\ P!PaintComes'
  BY <1>1, Zenon DEF Measured, P!PaintComes
<1> QED BY <1>8, <1>11, <1>12, <1>13, <1>14, <1>16, <1>17 DEF PaneIInv, PaneTypes

\* The pane follows the store.
LEMMA StoreChangeStep ==
  ASSUME PaneIInv, P!StoreChange PROVE PaneIInv'
<1>1. CASE P!Evict
  BY <1>1, EvictStep
<1>2. CASE P!Promote
  BY <1>2, PromoteStep
<1>3. CASE P!Resident = selected /\ UNCHANGED <<P!attVars, inbox, state, hold, lastSize>>
  <2>1. /\ cur' = cur /\ count' = count /\ att' = att /\ inbox' = inbox /\ state' = state /\ hold' = hold
        /\ lastSize' = lastSize
        /\ told' = FALSE /\ notified' = TRUE /\ selected' = selected /\ grid' = grid /\ area' = area
        /\ pend' = pend /\ armed' = armed /\ sent' = sent /\ active' = active /\ painted' = painted
        /\ budget' = budget /\ paced' = paced /\ sched' = sched /\ stale' = stale
        /\ screen' = screen /\ size' = size /\ missed' = missed /\ version' = version /\ selects' = selects
    BY <1>3 DEF P!StoreChange, P!attVars, P!pacerVars, P!engineVars, P!boundVars
  <2>2. /\ AttTypes' /\ QueueTypes' /\ EngineTypes' /\ SizeTypes' /\ P!PendingIsArmed' /\ SizeToTask'
        /\ SizeToEngine' /\ RowsCome' /\ StateComes' /\ CountOK' /\ Alone'
    BY <2>1, PaneStays, Zenon
  <2>3. FlagTypes'
    BY <2>1, Zenon DEF PaneIInv, PaneTypes, FlagTypes
  <2>4. Measured' /\ P!PaintComes'
    BY <2>1, Zenon DEF Measured, P!PaintComes
  <2> QED BY <2>2, <2>3, <2>4 DEF PaneIInv, PaneTypes
<1> QED BY <1>1, <1>2, <1>3 DEF P!StoreChange, P!Reconcile

-----------------------------------------------------------------------------
(* The pane is safe.                                                       *)

\* The invariant holds at the start.
LEMMA PaneStart == ASSUME P!Init PROVE PaneIInv
<1>1. /\ selected = TRUE /\ told = FALSE /\ cur = 1 /\ count = 1 /\ selects = 0
      /\ att = [i \in P!Ids |-> IF i = 1 THEN P!Fresh ELSE P!Closed]
      /\ inbox = <<P!Event("attaching")>> /\ state = "attaching" /\ hold = P!NoHold
      /\ area = (CHOOSE z \in Sizes : TRUE) /\ lastSize = P!NoSize /\ pend = P!NoSize
      /\ armed = FALSE /\ sent = FALSE /\ active = TRUE /\ notified = TRUE
      /\ budget = 0 /\ paced = FALSE /\ sched = FALSE /\ stale = 0 /\ size = P!NoSize /\ version = 1
      /\ missed = FALSE
  BY DEF P!Init
<1>2. grid \in [P!Rows -> Nat] /\ screen \in [P!Rows -> Nat] /\ area \in Sizes /\ MaxSelects \in Nat
  BY <1>1, PaneBounds DEF P!Init
<1>3. P!Resident /\ 1 \in P!Ids
  BY <1>1, <1>2 DEF P!Resident, P!NoId, P!Ids
<1>4. P!Closed \in TaskRecs /\ P!Closed.cmds = <<>> /\ P!Closed.st = "closed"
  BY DEF P!Closed, TaskRecs
<1>5. P!Fresh \in TaskRecs /\ P!Fresh.st = "connecting" /\ P!Fresh.cmds = <<>>
  <2>2. TaskIs(P!Fresh, "connecting", P!Closed.cmds, P!Closed.last, P!Closed.up, P!Closed.down, P!Closed.cut)
    BY <1>4, TaskField DEF P!Fresh
  <2> QED BY <1>4, <2>2 DEF TaskIs
<1>6. TaskOK(P!Fresh) /\ TaskOK(P!Closed)
  BY <1>4, <1>5 DEF TaskOK
<1>7. AttTypes /\ att[cur] = P!Fresh /\ \A i \in P!Ids \ {cur} : att[i] = P!Closed
  BY <1>1, <1>3, <1>6 DEF AttTypes
<1>8. inbox \in Seq(PaneEvents) /\ StateWay(inbox, state, "attaching")
  <2>1. <<>> \in Seq(PaneEvents) /\ inbox = Append(<<>>, P!Event("attaching"))
    BY <1>1
  <2> QED BY <2>1, StateReport
<1>9. QueueTypes /\ EngineTypes /\ SizeTypes /\ FlagTypes
  <2>1. QueueTypes
    BY <1>1, <1>2, <1>8 DEF QueueTypes
  <2>2. EngineTypes /\ SizeTypes
    <3>1. version \in Nat /\ lastSize \in Sizes \cup {P!NoSize} /\ pend \in Sizes \cup {P!NoSize}
          /\ size \in Sizes \cup {P!NoSize}
      BY <1>1
    <3> QED BY <1>1, <1>2, <3>1, Zenon DEF EngineTypes, SizeTypes
  <2>3. FlagTypes
    <3>1. budget \in 0..2 /\ stale \in Nat
      BY <1>1
    <3> QED BY <1>1, <3>1, Zenon DEF FlagTypes
  <2> QED BY <2>1, <2>2, <2>3
<1>10. CountOK
  <2>1. 2 * (count - 1) + (IF ~selected THEN 1 ELSE IF P!Resident THEN 0 ELSE 2) <= selects
    BY <1>1, <1>3
  <2> QED BY <1>1, <1>2, <2>1 DEF CountOK
<1>11. Alone
  <2>1. <<>> \in Seq(Sizes)
    OBVIOUS
  <2> QED BY <1>3, <1>4, <1>5, <1>7, <2>1 DEF Alone
<1>12. ~Connected(att[cur]) /\ NameOf(att[cur].st) = "attaching"
  BY <1>5, <1>7, NameKinds DEF Connected
<1>13. SizeToTask /\ SizeToEngine /\ RowsCome /\ StateComes /\ Measured /\ P!PendingIsArmed /\ P!PaintComes
  BY <1>1, <1>8, <1>12, Zenon
     DEF SizeToTask, SizeToEngine, RowsCome, StateComes, Measured, P!PendingIsArmed, P!PaintComes
<1> QED BY <1>7, <1>9, <1>10, <1>11, <1>13 DEF PaneIInv, PaneTypes

\* Every step keeps it.
LEMMA PaneNext ==
  ASSUME PaneIInv, ~Overlaps, [P!Next]_(P!termVars) PROVE PaneIInv'
<1>1. CASE UNCHANGED P!termVars
  <2>1. /\ att' = att /\ inbox' = inbox /\ hold' = hold /\ grid' = grid /\ state' = state /\ screen' = screen
        /\ version' = version /\ size' = size /\ missed' = missed /\ area' = area /\ lastSize' = lastSize /\ pend' = pend
        /\ armed' = armed /\ sent' = sent /\ count' = count /\ cur' = cur /\ painted' = painted
        /\ selects' = selects /\ selected' = selected /\ told' = told /\ active' = active
        /\ notified' = notified /\ paced' = paced /\ sched' = sched /\ budget' = budget /\ stale' = stale
    BY <1>1 DEF P!termVars, P!attVars, P!paneVars, P!sizeVars, P!pacerVars, P!engineVars, P!boundVars
  <2>2. notified \in BOOLEAN
    BY DEF PaneIInv, PaneTypes, FlagTypes
  <2>3. /\ AttTypes' /\ QueueTypes' /\ EngineTypes' /\ SizeTypes' /\ FlagTypes' /\ P!PendingIsArmed'
        /\ SizeToTask' /\ SizeToEngine' /\ RowsCome' /\ StateComes' /\ CountOK' /\ Alone' /\ Measured'
        /\ P!PaintComes'
    BY <2>1, <2>2, PaneStays, Zenon
  <2> QED BY <2>3 DEF PaneIInv, PaneTypes
<1>2. CASE P!Select \/ P!Output \/ P!Drag \/ P!TypeKey \/ P!ChangeFocus
  BY <1>2, SelectStep, OutputStep, DragStep, TypeKeyStep, ChangeFocusStep
<1>3. CASE P!StoreChange \/ P!Render \/ P!ElsewhereRenders \/ P!Flush
  BY <1>3, StoreChangeStep, RenderStep, ElsewhereRendersStep, FlushStep
<1>4. CASE P!HandlePaneEvent \/ P!ReleaseHold \/ P!RepaintTimer
  BY <1>4, HandlePaneEventStep, ReleaseHoldStep, RepaintTimerStep
<1>5. ASSUME NEW i \in P!Ids, P!Attachment(i) PROVE PaneIInv'
  <2>1. CASE P!Connect(i) \/ P!Lose(i) \/ P!ForwardChunk(i) \/ P!TakeCommand(i) \/ P!TakeResize(i)
         \/ P!ResizeFails(i)
    BY <2>1, ConnectStep, LoseStep, ForwardChunkStep, TakeCommandStep, TakeResizeStep, ResizeFailsStep
  <2>2. CASE P!ConnectFails(i)
    BY <2>2, ReportStep, NameKinds DEF P!ConnectFails
  <2>3. CASE P!Ends(i)
    BY <2>3, ReportStep, NameKinds DEF P!Ends
  <2>4. CASE P!Retry(i)
    BY <2>4, ReportStep, NameKinds DEF P!Retry
  <2> QED BY <1>5, <2>1, <2>2, <2>3, <2>4 DEF P!Attachment
<1> QED BY <1>1, <1>2, <1>3, <1>4, <1>5 DEF P!Next

\* It implies what is promised of a pane at rest.
LEMMA PaneImplies == ASSUME PaneIInv PROVE PaneInv
<1>1. P!TypeOK
  <2>1. count \in P!Ids /\ cur \in {P!NoId, count}
    BY CurIsId DEF PaneIInv, CountOK
  <2>2. ASSUME NEW i \in P!Ids
        PROVE  /\ att[i].st \in {"connecting", "live", "retry", "closed"}
               /\ att[i].last \in Sizes \cup {P!NoSize} /\ att[i].cut \in BOOLEAN
    BY TaskBefore, TaskFields
  <2>3. hold.held \in BOOLEAN
    <3>1. hold \in {P!NoHold} \cup Holds
      BY DEF PaneIInv, PaneTypes, QueueTypes
    <3>2. P!NoHold.held = FALSE
      BY DEF P!NoHold
    <3>3. \A h \in Holds : h.held = TRUE
      BY DEF Holds
    <3> QED BY <3>1, <3>2, <3>3
  <2>4. /\ grid \in [P!Rows -> Nat] /\ screen \in [P!Rows -> Nat]
        /\ state \in {"attaching", "live", "reconnecting"} /\ area \in Sizes
        /\ {lastSize, pend, size} \subseteq Sizes \cup {P!NoSize} /\ missed \in BOOLEAN
    BY DEF PaneIInv, PaneTypes, QueueTypes, EngineTypes, SizeTypes
  <2>5. /\ selected \in BOOLEAN /\ armed \in BOOLEAN /\ sent \in BOOLEAN /\ active \in BOOLEAN
        /\ notified \in BOOLEAN /\ told \in BOOLEAN /\ paced \in BOOLEAN /\ sched \in BOOLEAN
        /\ budget \in 0..2 /\ stale \in Nat
    BY DEF PaneIInv, PaneTypes, SizeTypes, FlagTypes
  <2>6. {selected, armed, sent, active, notified, told, paced, sched} \subseteq BOOLEAN
    BY <2>5
  <2> QED BY <2>1, <2>2, <2>3, <2>4, <2>5, <2>6 DEF P!TypeOK
<1>2. ASSUME P!Rests
      PROVE  /\ P!Resident /\ selected /\ ~notified /\ ~told /\ inbox = <<>> /\ Connected(att[cur])
             /\ att[cur].st = "live" /\ att[cur].cmds = <<>> /\ att[cur].up = <<>> /\ att[cur].down = <<>>
  BY <1>2 DEF P!Rests, Connected
<1>3. ASSUME P!Rests, ~armed, ~missed PROVE size = area
  <2>1. lastSize = area /\ area \in Sizes /\ lastSize # P!NoSize
    BY <1>2, <1>3, PaneBounds DEF PaneIInv, Measured, PaneTypes, SizeTypes
  <2>2. pend = P!NoSize
    BY <1>3 DEF PaneIInv, P!PendingIsArmed
  <2>3. att[cur].last = lastSize
    BY <1>2, <1>3, <2>1, <2>2, FollowsEmpty DEF PaneIInv, SizeToTask, SizeWay
  <2>4. att[cur].last = P!NoSize \/ size = att[cur].last
    <3>1. Follows(<<>>, Sizes, {att[cur].last}, att[cur].last = P!NoSize \/ size = att[cur].last \/ missed)
      BY <1>2, <1>3 DEF PaneIInv, SizeToEngine, UpWay
    <3> QED BY <1>3, <3>1, FollowsEmpty
  <2> QED BY <2>1, <2>3, <2>4
<1>4. ASSUME P!Rests, ~hold.held PROVE grid = screen
  <2>1. grid \in [P!Rows -> Nat] /\ screen \in [P!Rows -> Nat] /\ HeldBack = <<>>
    BY <1>4 DEF PaneIInv, PaneTypes, QueueTypes, EngineTypes, HeldBack
  <2>2. ASSUME NEW r \in P!Rows PROVE grid[r] = screen[r]
    <3>1. RowWay(<<>>, <<>>, <<>>, grid, r, screen[r])
      BY <1>2, <1>4, <2>1 DEF PaneIInv, RowsCome
    <3>2. InboxWay(<<>>, <<>>, grid, r, screen[r])
      BY <3>1, EndsEmpty DEF RowWay, Follows
    <3>3. KeptWay(<<>>, grid, r, screen[r])
      BY <3>2, EndsEmpty DEF InboxWay, Follows
    <3> QED BY <3>3, EndsEmpty DEF KeptWay, Follows
  <2> QED BY <2>1, <2>2
<1>5. ASSUME P!Rests PROVE state = "live"
  <2>1. StateWay(<<>>, state, "live")
    BY <1>2, <1>5, NameKinds DEF PaneIInv, StateComes
  <2> QED BY <2>1, EndsEmpty DEF StateWay, Follows
<1>6. P!PaintComes /\ P!PendingIsArmed
  BY DEF PaneIInv
<1> QED BY <1>1, <1>3, <1>4, <1>5, <1>6
        DEF PaneInv, P!PaneInv, P!SizeArrives, P!GridIsScreen, P!StateIsTrue

\* terminal_pane/: for any sizes and bounds, when a session is not selected again before the
\* Engine has seen its last attachment close, the size a drag ends on reaches the Engine, which
\* sets it unless the pty or its holder refuses, the pane has the Engine's screen and paints it,
\* and it shows the state its attachment is in.
THEOREM PaneSafe == ASSUME ~Overlaps PROVE P!Spec => []PaneInv
<1>1. P!Init => PaneIInv
  BY PaneStart
<1>2. PaneIInv /\ [P!Next]_(P!termVars) => PaneIInv'
  BY PaneNext
<1>3. PaneIInv => PaneInv
  BY PaneImplies
<1> QED BY <1>1, <1>2, <1>3, PTL DEF P!Spec

-----------------------------------------------------------------------------
(* The store: what its operations change.                                  *)

\* The Engine's records, the events about a session, and the requests.
Recs == Records \cup {None}
Told == [id : Ids, rec : Recs]
About(id) == [id : {id}, rec : Recs]
Tells(id, r) == {[id |-> id, rec |-> r]}
Effs == [op : Ops \ {"reopen"}, id : Ids] \cup {Effect("reopen", NoId)}
Stores ==
  [ses : [Ids -> Recs], sel : Ids \cup {NoId}, res : Ids \cup {NoId}, closing : SUBSET Ids,
   tried : SUBSET Ids, asked : Ids \cup {NoId}, eff : Seq(Effs)]

\* A store and its fields.
StoreIs(t, ses, sel, res, closing, tried, asked, eff) ==
  /\ t \in Stores /\ t.ses = ses /\ t.sel = sel /\ t.res = res
  /\ t.closing = closing /\ t.tried = tried /\ t.asked = asked /\ t.eff = eff

\* What the fields of a store are.
LEMMA StoreFields ==
  ASSUME NEW s \in Stores
  PROVE  /\ s.ses \in [Ids -> Recs] /\ s.sel \in Ids \cup {NoId} /\ s.res \in Ids \cup {NoId}
         /\ s.closing \in SUBSET Ids /\ s.tried \in SUBSET Ids /\ s.asked \in Ids \cup {NoId}
         /\ s.eff \in Seq(Effs)
  BY DEF Stores

\* One field of a store changes.
LEMMA StoreField ==
  ASSUME NEW s \in Stores
  PROVE  /\ \A x \in [Ids -> Recs] :
              StoreIs([s EXCEPT !.ses = x], x, s.sel, s.res, s.closing, s.tried, s.asked, s.eff)
         /\ \A x \in Ids \cup {NoId} :
              StoreIs([s EXCEPT !.sel = x], s.ses, x, s.res, s.closing, s.tried, s.asked, s.eff)
         /\ \A x \in Ids \cup {NoId} :
              StoreIs([s EXCEPT !.res = x], s.ses, s.sel, x, s.closing, s.tried, s.asked, s.eff)
         /\ \A x \in SUBSET Ids :
              StoreIs([s EXCEPT !.closing = x], s.ses, s.sel, s.res, x, s.tried, s.asked, s.eff)
         /\ \A x \in SUBSET Ids :
              StoreIs([s EXCEPT !.tried = x], s.ses, s.sel, s.res, s.closing, x, s.asked, s.eff)
         /\ \A x \in Ids \cup {NoId} :
              StoreIs([s EXCEPT !.asked = x], s.ses, s.sel, s.res, s.closing, s.tried, x, s.eff)
         /\ \A x \in Seq(Effs) :
              StoreIs([s EXCEPT !.eff = x], s.ses, s.sel, s.res, s.closing, s.tried, s.asked, x)
<1>1. \A x \in [Ids -> Recs] :
        StoreIs([s EXCEPT !.ses = x], x, s.sel, s.res, s.closing, s.tried, s.asked, s.eff)
  BY DEF StoreIs, Stores
<1>2. \A x \in Ids \cup {NoId} :
        StoreIs([s EXCEPT !.sel = x], s.ses, x, s.res, s.closing, s.tried, s.asked, s.eff)
  BY DEF StoreIs, Stores
<1>3. \A x \in Ids \cup {NoId} :
        StoreIs([s EXCEPT !.res = x], s.ses, s.sel, x, s.closing, s.tried, s.asked, s.eff)
  BY DEF StoreIs, Stores
<1>4. \A x \in SUBSET Ids :
        StoreIs([s EXCEPT !.closing = x], s.ses, s.sel, s.res, x, s.tried, s.asked, s.eff)
  BY DEF StoreIs, Stores
<1>5. \A x \in SUBSET Ids :
        StoreIs([s EXCEPT !.tried = x], s.ses, s.sel, s.res, s.closing, x, s.asked, s.eff)
  BY DEF StoreIs, Stores
<1>6. \A x \in Ids \cup {NoId} :
        StoreIs([s EXCEPT !.asked = x], s.ses, s.sel, s.res, s.closing, s.tried, x, s.eff)
  BY DEF StoreIs, Stores
<1>7. \A x \in Seq(Effs) :
        StoreIs([s EXCEPT !.eff = x], s.ses, s.sel, s.res, s.closing, s.tried, s.asked, x)
  BY DEF StoreIs, Stores
<1> QED BY <1>1, <1>2, <1>3, <1>4, <1>5, <1>6, <1>7

\* Requests are added behind the others.
More(p, q) == q \in Seq(Effs) /\ Len(p) <= Len(q) /\ \A k \in 1..Len(p) : q[k] = p[k]

\* No request is added.
LEMMA MoreItself == ASSUME NEW p \in Seq(Effs) PROVE More(p, p)
  BY DEF More

\* Requests are added twice.
LEMMA MoreOn ==
  ASSUME NEW p \in Seq(Effs), NEW q, NEW r, More(p, q), More(q, r)
  PROVE  More(p, r)
<1>1. q \in Seq(Effs) /\ r \in Seq(Effs) /\ Len(p) \in Nat /\ Len(q) \in Nat /\ Len(r) \in Nat
  BY DEF More
<1>2. Len(p) <= Len(q) /\ Len(q) <= Len(r)
  BY DEF More
<1>3. Len(p) <= Len(r) /\ \A k \in 1..Len(p) : k \in 1..Len(q)
  BY <1>1, <1>2
<1> QED BY <1>1, <1>3 DEF More

\* A request is in a queue.
In(q, op, id) == \E k \in 1..Len(q) : q[k] = Effect(op, id)

\* A request stays when others are added.
LEMMA InMore ==
  ASSUME NEW p \in Seq(Effs), NEW q, More(p, q), NEW op, NEW id, In(p, op, id)
  PROVE  In(q, op, id)
<1>1. q \in Seq(Effs) /\ Len(p) \in Nat /\ Len(q) \in Nat /\ Len(p) <= Len(q)
  BY DEF More
<1>2. \A k \in 1..Len(p) : k \in 1..Len(q)
  BY <1>1
<1> QED BY <1>2 DEF In, More

\* A request is added.
LEMMA AppendMore ==
  ASSUME NEW p \in Seq(Effs), NEW op, NEW id, Effect(op, id) \in Effs
  PROVE  More(p, Append(p, Effect(op, id))) /\ In(Append(p, Effect(op, id)), op, id)
<1> DEFINE e == Effect(op, id)  q == Append(p, e)
<1> HIDE DEF e
<1>1. e \in Effs
  BY DEF e
<1>2. /\ q \in Seq(Effs) /\ Len(p) \in Nat /\ Len(q) = Len(p) + 1 /\ q[Len(p) + 1] = e
      /\ \A k \in 1..Len(p) : q[k] = p[k]
  BY <1>1
<1> HIDE DEF q
<1>3. Len(p) <= Len(q) /\ Len(p) + 1 \in 1..Len(q)
  BY <1>2
<1>4. More(p, q)
  BY <1>2, <1>3 DEF More
<1>5. In(q, op, id)
  BY <1>2, <1>3 DEF In, e
<1> QED BY <1>4, <1>5 DEF q, e

\* The requests for a session that the Engine answers with an event if it knows it.
LEMMA EffKinds ==
  ASSUME NEW id \in Ids
  PROVE  \A op \in {"seen", "remove", "resume", "archive", "unarchive", "spawn"} : Effect(op, id) \in Effs
  BY DEF Effs, Effect, Ops

-----------------------------------------------------------------------------
(* A selection changes only what is selected, the terminal and the requests. *)

\* Another selection and more requests; the sessions are the same.
Keeps(s, t) ==
  t \in Stores /\ t.ses = s.ses /\ t.closing = s.closing /\ t.asked = s.asked /\ More(s.eff, t.eff)

\* One selection after another.
LEMMA KeepsOn ==
  ASSUME NEW s \in Stores, NEW t, NEW u, Keeps(s, t), Keeps(t, u)
  PROVE  Keeps(s, u)
<1>1. s.eff \in Seq(Effs)
  BY StoreFields
<1>2. More(s.eff, u.eff)
  BY <1>1, MoreOn DEF Keeps
<1> QED BY <1>2, Zenon DEF Keeps

\* No selection at all.
LEMMA KeepsItself == ASSUME NEW s \in Stores PROVE Keeps(s, s)
  BY MoreItself, StoreFields DEF Keeps

\* What counts as active depends on the sessions only.
LEMMA ActiveSame ==
  ASSUME NEW s, NEW t, t.ses = s.ses, NEW id
  PROVE  (Active(t, id) <=> Active(s, id)) /\ (Present(t, id) <=> Present(s, id))
  BY DEF Active, Present

\* Emit
LEMMA EmitIs ==
  ASSUME NEW s \in Stores, NEW op, NEW id, Effect(op, id) \in Effs
  PROVE  /\ Keeps(s, Emit(s, op, id)) /\ Emit(s, op, id).sel = s.sel /\ Emit(s, op, id).res = s.res
         /\ Emit(s, op, id).tried = s.tried
         /\ In(Emit(s, op, id).eff, op, id)
<1> DEFINE q == Append(s.eff, Effect(op, id))
<1>1. s.eff \in Seq(Effs)
  BY StoreFields
<1>2. q \in Seq(Effs) /\ More(s.eff, q) /\ In(q, op, id)
  BY <1>1, AppendMore
<1> HIDE DEF q
<1>3. StoreIs([s EXCEPT !.eff = q], s.ses, s.sel, s.res, s.closing, s.tried, s.asked, q)
  BY <1>2, StoreField
<1>4. Emit(s, op, id) = [s EXCEPT !.eff = q]
  BY DEF Emit, q
<1> QED BY <1>2, <1>3, <1>4 DEF StoreIs, Keeps

\* auto_resume_if_needed
LEMMA AutoResumeIs ==
  ASSUME NEW s \in Stores, NEW id \in Ids
  PROVE  Keeps(s, AutoResume(s, id)) /\ AutoResume(s, id).sel = s.sel /\ AutoResume(s, id).res = s.res
<1> DEFINE x == s.tried \cup {id}  t == [s EXCEPT !.tried = x]
<1>1. x \in SUBSET Ids
  BY StoreFields
<1> HIDE DEF x
<1>2. StoreIs(t, s.ses, s.sel, s.res, s.closing, x, s.asked, s.eff)
  BY <1>1, StoreField
<1>3. t = [s EXCEPT !.tried = @ \cup {id}]
  BY DEF x
<1> HIDE DEF t
<1>4. Keeps(s, t) /\ t.sel = s.sel /\ t.res = s.res
  BY <1>2, MoreItself, StoreFields DEF StoreIs, Keeps
<1>5. Effect("resume", id) \in Effs
  BY EffKinds
<1> DEFINE u == Emit(t, "resume", id)
<1>6. Keeps(t, u) /\ u.sel = t.sel /\ u.res = t.res
  BY <1>2, <1>5, EmitIs DEF StoreIs
<1>7. Keeps(s, u) /\ u.sel = s.sel /\ u.res = s.res
  BY <1>4, <1>6, KeepsOn
<1>8. AutoResume(s, id) = u \/ AutoResume(s, id) = s
  BY <1>3 DEF AutoResume
<1> HIDE DEF u
<1> QED BY <1>7, <1>8, KeepsItself

\* focus_session
LEMMA FocusIs ==
  ASSUME NEW s \in Stores, NEW id \in Ids
  PROVE  /\ Keeps(s, Focus(s, id)) /\ Focus(s, id).sel = id
         /\ Active(s, id) => Focus(s, id).res = id /\ In(Focus(s, id).eff, "seen", id)
<1> DEFINE t == [s EXCEPT !.sel = id]  u == [t EXCEPT !.res = id]  v == Emit(u, "seen", id)
           w == IF Active(s, id) THEN v ELSE t
<1>1. StoreIs(t, s.ses, id, s.res, s.closing, s.tried, s.asked, s.eff)
  BY StoreField
<1>2. Focus(s, id) = AutoResume(w, id)
  BY DEF Focus
<1> HIDE DEF t
<1>3. StoreIs(u, t.ses, t.sel, id, t.closing, t.tried, t.asked, t.eff)
  BY <1>1, StoreField DEF StoreIs
<1> HIDE DEF u
<1>4. Keeps(s, t) /\ t.sel = id
  BY <1>1, MoreItself, StoreFields DEF StoreIs, Keeps
<1>5. Keeps(s, u) /\ u.sel = id /\ u.res = id /\ u \in Stores
  BY <1>1, <1>3, MoreItself, StoreFields DEF StoreIs, Keeps
<1>6. Effect("seen", id) \in Effs
  BY EffKinds
<1>7. Keeps(u, v) /\ v.sel = u.sel /\ v.res = u.res /\ In(v.eff, "seen", id)
  BY <1>5, <1>6, EmitIs
<1> HIDE DEF v
<1>8. Keeps(s, v) /\ v.sel = id /\ v.res = id
  BY <1>5, <1>7, KeepsOn
<1>9. Keeps(s, w) /\ w.sel = id /\ (Active(s, id) => w.res = id /\ In(w.eff, "seen", id))
  BY <1>4, <1>7, <1>8
<1> HIDE DEF w
<1>10. w \in Stores /\ w.eff \in Seq(Effs)
  BY <1>9, StoreFields DEF Keeps
<1> DEFINE f == AutoResume(w, id)
<1>11. Keeps(w, f) /\ f.sel = w.sel /\ f.res = w.res
  BY <1>10, AutoResumeIs
<1> HIDE DEF f
<1>12. Keeps(s, f)
  BY <1>9, <1>11, KeepsOn
<1>13. ASSUME In(w.eff, "seen", id) PROVE In(f.eff, "seen", id)
  <2>1. More(w.eff, f.eff)
    BY <1>11 DEF Keeps
  <2> QED BY <1>10, <1>13, <2>1, InMore
<1>14. f.sel = id /\ (Active(s, id) => f.res = id /\ In(f.eff, "seen", id))
  BY <1>9, <1>11, <1>13, Zenon
<1> QED BY <1>2, <1>12, <1>14, Zenon DEF f

\* What is selected, and not archived, has the terminal.
HasTerminal(s, U) == s.sel \in Ids /\ Active(s, s.sel) /\ s.sel \notin U => s.res = s.sel

\* What is focused has the terminal.
LEMMA FocusTerminal ==
  ASSUME NEW s \in Stores, NEW id \in Ids, NEW U
  PROVE  HasTerminal(Focus(s, id), U)
<1>1. Focus(s, id).ses = s.ses /\ Focus(s, id).sel = id /\ (Active(s, id) => Focus(s, id).res = id)
  BY FocusIs DEF Keeps
<1>2. Active(Focus(s, id), id) <=> Active(s, id)
  BY <1>1, ActiveSame
<1> QED BY <1>1, <1>2, Zenon DEF HasTerminal

\* A choice among sessions.
LEMMA PickIs ==
  ASSUME NEW S \in SUBSET Ids
  PROVE  Pick(S) \in S \/ (S = {} /\ Pick(S) = NoId)
  BY DEF Pick

\* set_selected: a session, or none.
LEMMA SetSelectedIs ==
  ASSUME NEW s \in Stores, NEW id \in Ids \cup {NoId}, NEW U
  PROVE  /\ Keeps(s, SetSelected(s, id)) /\ SetSelected(s, id).sel = id /\ HasTerminal(SetSelected(s, id), U)
         /\ id \in Ids /\ Active(s, id) => SetSelected(s, id).res = id
<1>1. CASE id = NoId
  <2>1. SetSelected(s, id) = [s EXCEPT !.sel = NoId]
    BY <1>1 DEF SetSelected
  <2>2. StoreIs([s EXCEPT !.sel = NoId], s.ses, NoId, s.res, s.closing, s.tried, s.asked, s.eff)
    BY StoreField
  <2>3. Keeps(s, SetSelected(s, id)) /\ SetSelected(s, id).sel = id
    BY <1>1, <2>1, <2>2, MoreItself, StoreFields DEF StoreIs, Keeps
  <2> QED BY <1>1, <2>3, AppAssumption DEF HasTerminal
<1>2. CASE id # NoId
  <2>1. id \in Ids /\ SetSelected(s, id) = Focus(s, id)
    BY <1>2 DEF SetSelected
  <2> QED BY <2>1, FocusIs, FocusTerminal, Zenon
<1> QED BY <1>1, <1>2

\* auto_select
LEMMA AutoSelectIs ==
  ASSUME NEW s \in Stores, NEW U
  PROVE  Keeps(s, AutoSelect(s)) /\ (HasTerminal(s, U) => HasTerminal(AutoSelect(s), U))
<1> DEFINE S == {id \in Ids \ s.closing : Active(s, id)}
<1>1. Pick(S) \in Ids \cup {NoId}
  BY PickIs
<1>2. AutoSelect(s) = s \/ AutoSelect(s) = SetSelected(s, Pick(S))
  BY DEF AutoSelect
<1> HIDE DEF S
<1> QED BY <1>1, <1>2, SetSelectedIs, KeepsItself

\* focus_neighbor: away from the session.
LEMMA FocusNeighborIs ==
  ASSUME NEW s \in Stores, NEW id \in Ids, s.sel = id, NEW U
  PROVE  LET t == FocusNeighbor(s, id)
         IN Keeps(s, t) /\ t.sel # id /\ (t.sel \in Ids => t.res = t.sel)
<1> DEFINE S == Rows(s) \ {id}  n == Pick(S)  t == FocusNeighbor(s, id)
<1>1. S \in SUBSET Ids /\ \A x \in S : Active(s, x) /\ x # id
  BY DEF Rows
<1>2. n \in S \/ n = NoId
  BY <1>1, PickIs
<1>3. t = SetSelected(s, n)
  BY DEF FocusNeighbor
<1> HIDE DEF S, n, t
<1>4. n \in Ids \cup {NoId} /\ n # id /\ (n \in Ids => Active(s, n))
  BY <1>1, <1>2, AppAssumption
<1>5. Keeps(s, t) /\ t.sel = n /\ (n \in Ids /\ Active(s, n) => t.res = n)
  BY <1>3, <1>4, SetSelectedIs
<1> QED BY <1>4, <1>5 DEF t

-----------------------------------------------------------------------------
(* A session is closed, told of, forgotten or listed.                      *)

\* The terminal is taken from a session that is not selected any more.
LEMMA LoseTerminalIs ==
  ASSUME NEW s \in Stores, NEW id \in Ids
  PROVE  /\ Keeps(s, LoseTerminal(s, id)) /\ LoseTerminal(s, id).sel = s.sel
         /\ \A x \in Ids : x # id /\ s.res = x => LoseTerminal(s, id).res = x
<1> DEFINE r == IF s.res = id THEN NoId ELSE s.res
<1>1. r \in Ids \cup {NoId} /\ \A x \in Ids : x # id /\ s.res = x => r = x
  BY StoreFields
<1>2. LoseTerminal(s, id) = [s EXCEPT !.res = r]
  BY DEF LoseTerminal
<1> HIDE DEF r
<1>3. StoreIs([s EXCEPT !.res = r], s.ses, s.sel, r, s.closing, s.tried, s.asked, s.eff)
  BY <1>1, StoreField
<1> QED BY <1>1, <1>2, <1>3, MoreItself, StoreFields DEF StoreIs, Keeps

\* The selection leaves a session, and so does the terminal.
Left(s, id) == LoseTerminal(IF s.sel = id THEN FocusNeighbor(s, id) ELSE s, id)

\* The neighbor has the terminal; another selection keeps it.
LEMMA LeftIs ==
  ASSUME NEW s \in Stores, NEW id \in Ids, NEW U
  PROVE  LET t == Left(s, id)
         IN /\ Keeps(s, t) /\ t.sel # id
            /\ s.sel = id /\ t.sel \in Ids => t.res = t.sel
            /\ s.sel # id => t.sel = s.sel
            /\ s.sel # id /\ s.sel \in Ids /\ s.res = s.sel => t.res = t.sel
<1> DEFINE n == IF s.sel = id THEN FocusNeighbor(s, id) ELSE s  t == LoseTerminal(n, id)
<1>1. ASSUME s.sel = id PROVE Keeps(s, n) /\ n.sel # id /\ (n.sel \in Ids => n.res = n.sel)
  BY <1>1, FocusNeighborIs
<1>2. ASSUME s.sel # id PROVE n = s
  BY <1>2
<1>3. Left(s, id) = t
  BY DEF Left
<1> HIDE DEF n
<1>4. Keeps(s, n) /\ n.sel # id /\ n \in Stores
  BY <1>1, <1>2, KeepsItself DEF Keeps
<1>5. n.sel \in Ids \cup {NoId}
  BY <1>4, StoreFields
<1>6. Keeps(n, t) /\ t.sel = n.sel /\ \A x \in Ids : x # id /\ n.res = x => t.res = x
  BY <1>4, LoseTerminalIs
<1> HIDE DEF t
<1>7. Keeps(s, t)
  BY <1>4, <1>6, KeepsOn
<1>8. s.sel = id /\ t.sel \in Ids => t.res = t.sel
  BY <1>1, <1>6, Zenon
<1>9. s.sel # id => t.sel = s.sel
  BY <1>2, <1>6, Zenon
<1>10. s.sel # id /\ s.sel \in Ids /\ s.res = s.sel => t.res = t.sel
  BY <1>2, <1>6, Zenon
<1> QED BY <1>3, <1>4, <1>6, <1>7, <1>8, <1>9, <1>10, Zenon

\* The selection that is left over has the terminal.
LEMMA LeftTerminal ==
  ASSUME NEW s \in Stores, NEW id \in Ids, NEW U, s.sel = id \/ HasTerminal(s, U)
  PROVE  LET t == Left(s, id) IN t.sel \in Ids /\ Active(s, t.sel) /\ t.sel \notin U => t.res = t.sel
<1> DEFINE t == Left(s, id)
<1>1. /\ t.sel # id /\ (s.sel = id /\ t.sel \in Ids => t.res = t.sel) /\ (s.sel # id => t.sel = s.sel)
      /\ (s.sel # id /\ s.sel \in Ids /\ s.res = s.sel => t.res = t.sel)
  BY LeftIs, Zenon
<1> HIDE DEF t
<1>2. SUFFICES ASSUME t.sel \in Ids, Active(s, t.sel), t.sel \notin U PROVE t.res = t.sel
  BY DEF t
<1>3. CASE s.sel = id
  BY <1>1, <1>2, <1>3
<1>4. CASE s.sel # id
  <2>1. t.sel = s.sel
    BY <1>1, <1>4
  <2>2. s.sel \in Ids /\ Active(s, s.sel) /\ s.sel \notin U
    BY <1>2, <2>1
  <2>3. s.res = s.sel
    BY <1>4, <2>2 DEF HasTerminal
  <2> QED BY <1>1, <1>4, <2>2, <2>3
<1> QED BY <1>3, <1>4

\* remove_sessions
LEMMA RemoveSessionIs ==
  ASSUME NEW s \in Stores, NEW id \in Ids, NEW U
  PROVE  LET t == RemoveSession(s, id)
         IN /\ t \in Stores /\ t.ses = s.ses /\ t.closing = s.closing \cup {id} /\ t.asked = s.asked
            /\ More(s.eff, t.eff) /\ In(t.eff, "remove", id)
            /\ s.sel = id \/ HasTerminal(s, U) => HasTerminal(t, U)
<1> DEFINE l == Left(s, id)  x == l.closing \cup {id}  c == [l EXCEPT !.closing = x]  t == Emit(c, "remove", id)
<1>1. /\ Keeps(s, l)
      /\ s.sel = id \/ HasTerminal(s, U) =>
           (l.sel \in Ids /\ Active(s, l.sel) /\ l.sel \notin U => l.res = l.sel)
  BY LeftIs, LeftTerminal, Zenon
<1>2. RemoveSession(s, id) = t
  BY DEF RemoveSession, Left
<1> HIDE DEF l
<1>3. l \in Stores /\ x \in SUBSET Ids
  BY <1>1, StoreFields DEF Keeps
<1> HIDE DEF x
<1>4. StoreIs(c, l.ses, l.sel, l.res, x, l.tried, l.asked, l.eff)
  BY <1>3, StoreField
<1> HIDE DEF c
<1>5. Keeps(c, t) /\ t.sel = c.sel /\ t.res = c.res /\ In(t.eff, "remove", id)
  BY <1>4, EmitIs, EffKinds DEF StoreIs
<1> HIDE DEF t
<1>6. t \in Stores /\ t.ses = s.ses /\ t.closing = s.closing \cup {id} /\ t.asked = s.asked
  BY <1>1, <1>4, <1>5 DEF StoreIs, Keeps, x
<1>7. More(s.eff, t.eff)
  <2>1. s.eff \in Seq(Effs) /\ More(s.eff, c.eff) /\ More(c.eff, t.eff)
    BY <1>1, <1>4, <1>5, StoreFields DEF StoreIs, Keeps
  <2> QED BY <2>1, MoreOn
<1>8. ASSUME s.sel = id \/ HasTerminal(s, U) PROVE HasTerminal(t, U)
  <2>1. Active(t, l.sel) <=> Active(s, l.sel)
    BY <1>6, ActiveSame
  <2>2. t.sel = l.sel /\ t.res = l.res
    BY <1>4, <1>5 DEF StoreIs
  <2> QED BY <1>1, <1>8, <2>1, <2>2, Zenon DEF HasTerminal
<1> QED BY <1>2, <1>5, <1>6, <1>7, <1>8, Zenon

\* upsert_session: the record as told, with the terminal if the selection waited for it.
Put(s, id, r) ==
  [s EXCEPT !.ses[id] = r, !.res = IF s.ses[id] = None /\ s.sel = id /\ ~r.arch THEN id ELSE @]

\* What it changes.
LEMMA PutIs ==
  ASSUME NEW s \in Stores, NEW id \in Ids, NEW r \in Recs
  PROVE  LET t == Put(s, id, r)
         IN /\ t \in Stores /\ t.ses = [s.ses EXCEPT ![id] = r] /\ t.closing = s.closing /\ t.asked = s.asked
            /\ t.eff = s.eff /\ t.sel = s.sel
            /\ (s.sel # id => t.res = s.res) /\ (s.ses[id] # None => t.res = s.res)
<1> DEFINE f == [s.ses EXCEPT ![id] = r]  x == IF s.ses[id] = None /\ s.sel = id /\ ~r.arch THEN id ELSE s.res
           u == [s EXCEPT !.ses = f]
<1>1. f \in [Ids -> Recs] /\ x \in Ids \cup {NoId}
  BY StoreFields
<1>2. (s.sel # id => x = s.res) /\ (s.ses[id] # None => x = s.res)
  OBVIOUS
<1>3. Put(s, id, r) = [s EXCEPT !.ses[id] = r, !.res = x]
  BY DEF Put
<1> HIDE DEF x
<1>4. [s EXCEPT !.ses[id] = r, !.res = x] = [u EXCEPT !.res = x]
  BY DEF Stores
<1> HIDE DEF f
<1>5. StoreIs(u, f, s.sel, s.res, s.closing, s.tried, s.asked, s.eff)
  BY <1>1, StoreField
<1> HIDE DEF u
<1>6. StoreIs([u EXCEPT !.res = x], u.ses, u.sel, x, u.closing, u.tried, u.asked, u.eff)
  BY <1>1, <1>5, StoreField DEF StoreIs
<1> QED BY <1>2, <1>3, <1>4, <1>5, <1>6 DEF StoreIs, f

\* Another session's record makes no difference to the terminal.
LEMMA OtherTerminal ==
  ASSUME NEW s \in Stores, NEW t \in Stores, NEW id \in Ids, NEW r, NEW U, NEW W, U \subseteq W,
         HasTerminal(s, U), t.ses = [s.ses EXCEPT ![id] = r], t.sel = s.sel, t.res = s.res, s.sel # id
  PROVE  HasTerminal(t, W)
<1>1. SUFFICES ASSUME t.sel \in Ids, Active(t, t.sel), t.sel \notin W PROVE t.res = t.sel
  BY DEF HasTerminal
<1>2. t.ses[s.sel] = s.ses[s.sel]
  BY <1>1, StoreFields
<1>3. Active(s, s.sel)
  BY <1>1, <1>2 DEF Active, Present
<1> QED BY <1>1, <1>3 DEF HasTerminal

\* upsert_session.  What was selected in the archive and is told to be out of it gets no terminal.
LEMMA UpsertIs ==
  ASSUME NEW s \in Stores, NEW id \in Ids, NEW r \in Records
  PROVE  LET t == Upsert(s, id, r)
         IN /\ t \in Stores /\ t.ses = [s.ses EXCEPT ![id] = r] /\ t.asked = s.asked /\ More(s.eff, t.eff)
            /\ t.closing = s.closing \/ (t.closing = s.closing \cup {id} /\ In(t.eff, "remove", id))
<1> DEFINE p == Put(s, id, r)  u == AutoResume(p, id)  t == Upsert(s, id, r)
<1>1. r \in Recs
  BY DEF Recs
<1>2. /\ p \in Stores /\ p.ses = [s.ses EXCEPT ![id] = r] /\ p.closing = s.closing /\ p.asked = s.asked
      /\ p.eff = s.eff
  BY <1>1, PutIs
<1>3. \/ t = RemoveSession(p, id)
      \/ t = u
      \/ t = Focus(u, id)
      \/ t = AutoSelect(u)
  BY DEF Upsert, Put
<1> HIDE DEF p, t
<1>4. Keeps(p, u) /\ u \in Stores
  BY <1>2, AutoResumeIs DEF Keeps
<1> HIDE DEF u
<1>5. CASE t = RemoveSession(p, id)
  <2>1. /\ t \in Stores /\ t.ses = p.ses /\ t.closing = p.closing \cup {id} /\ t.asked = p.asked
        /\ More(p.eff, t.eff) /\ In(t.eff, "remove", id)
    BY <1>2, <1>5, RemoveSessionIs
  <2> QED BY <1>2, <2>1 DEF t
<1>6. CASE t # RemoveSession(p, id)
  <2>1. Keeps(p, t)
    BY <1>2, <1>3, <1>4, <1>6, FocusIs, AutoSelectIs, KeepsOn
  <2> QED BY <1>2, <2>1 DEF Keeps, t
<1> QED BY <1>5, <1>6

\* upsert_session and the terminal.
LEMMA UpsertTerminal ==
  ASSUME NEW s \in Stores, NEW id \in Ids, NEW r \in Records, NEW U, NEW W, U \subseteq W, HasTerminal(s, U),
         s.sel = id /\ Present(s, id) /\ ~Active(s, id) /\ Active(Upsert(s, id, r), id) => id \in W
  PROVE  HasTerminal(Upsert(s, id, r), W)
<1> DEFINE p == Put(s, id, r)  u == AutoResume(p, id)  t == Upsert(s, id, r)
<1>1. r \in Recs
  BY DEF Recs
<1>2. /\ p \in Stores /\ p.ses = [s.ses EXCEPT ![id] = r] /\ p.sel = s.sel
      /\ s.sel # id => p.res = s.res
      /\ s.ses[id] # None => p.res = s.res
  BY <1>1, PutIs
<1>3. \/ t = RemoveSession(p, id)
      \/ t = u /\ s.ses[id] # None
      \/ t = Focus(u, id)
      \/ t = AutoSelect(u) /\ s.sel # id
  BY DEF Upsert, Put
<1> HIDE DEF p, t
<1>4. u \in Stores /\ u.ses = p.ses /\ u.sel = p.sel /\ u.res = p.res
  BY <1>2, AutoResumeIs DEF Keeps
<1> HIDE DEF u
<1>5. ASSUME s.sel # id PROVE HasTerminal(p, W) /\ HasTerminal(u, W)
  BY <1>2, <1>4, <1>5, OtherTerminal
<1>6. CASE t = RemoveSession(p, id)
  <2>1. p.sel = id \/ HasTerminal(p, W)
    BY <1>2, <1>5
  <2>2. HasTerminal(RemoveSession(p, id), W)
    BY <1>2, <2>1, RemoveSessionIs, Zenon
  <2> QED BY <1>6, <2>2 DEF t
<1>7. CASE t = u /\ s.ses[id] # None
  <2>1. CASE s.sel # id
    BY <1>5, <1>7, <2>1 DEF t
  <2>2. CASE s.sel = id
    <3>1. SUFFICES ASSUME t.sel \in Ids, Active(t, t.sel), t.sel \notin W PROVE t.res = t.sel
      BY DEF HasTerminal, t
    <3>2. t.sel = id /\ t.res = s.res
      BY <1>2, <1>4, <1>7, <2>2
    <3>3. Present(s, id)
      BY <1>7 DEF Present
    <3>4. Active(s, id) /\ id \notin U
      BY <3>1, <3>2, <3>3, <2>2 DEF t
    <3> QED BY <2>2, <3>2, <3>4 DEF HasTerminal
  <2> QED BY <2>1, <2>2
<1>8. CASE t = Focus(u, id)
  BY <1>4, <1>8, FocusTerminal DEF t
<1>9. CASE t = AutoSelect(u) /\ s.sel # id
  <2>1. HasTerminal(u, W)
    BY <1>5, <1>9
  <2>2. HasTerminal(AutoSelect(u), W)
    BY <1>4, <2>1, AutoSelectIs
  <2> QED BY <1>9, <2>2 DEF t
<1> QED BY <1>3, <1>6, <1>7, <1>8, <1>9

\* remove_session_record
LEMMA RemoveRecordIs ==
  ASSUME NEW s \in Stores, NEW id \in Ids, NEW U
  PROVE  LET t == RemoveRecord(s, id)
         IN /\ t \in Stores /\ t.ses = [s.ses EXCEPT ![id] = None] /\ t.asked = s.asked /\ More(s.eff, t.eff)
            /\ t.closing \subseteq s.closing /\ (Present(s, id) => id \notin t.closing)
            /\ HasTerminal(s, U) => HasTerminal(t, U)
<1> DEFINE l == Left(s, id)  t == RemoveRecord(s, id)
<1>1. CASE ~Present(s, id)
  <2>1. t = s
    BY <1>1 DEF RemoveRecord
  <2>2. s.ses = [s.ses EXCEPT ![id] = None]
    BY <1>1, StoreFields DEF Present
  <2> QED BY <1>1, <2>1, <2>2, MoreItself, StoreFields
<1>2. CASE Present(s, id)
  <2> DEFINE f == [l.ses EXCEPT ![id] = None]  x == l.closing \ {id}  u == [l EXCEPT !.ses = f]
  <2>1. t = [l EXCEPT !.ses[id] = None, !.closing = @ \ {id}]
    BY <1>2 DEF RemoveRecord, Left
  <2>2. Keeps(s, l) /\ l.sel # id
    BY LeftIs, Zenon
  <2>3. HasTerminal(s, U) => (l.sel \in Ids /\ Active(s, l.sel) /\ l.sel \notin U => l.res = l.sel)
    BY LeftTerminal, Zenon
  <2> HIDE DEF l, t
  <2>4. l \in Stores /\ f \in [Ids -> Recs] /\ x \in SUBSET Ids
    BY <2>2, StoreFields DEF Keeps, Recs
  <2>5. t = [u EXCEPT !.closing = x]
    BY <2>1, <2>4 DEF Stores
  <2>6. f = [s.ses EXCEPT ![id] = None] /\ x = s.closing \ {id}
    BY <2>2 DEF Keeps
  <2> HIDE DEF f, x
  <2>7. StoreIs(u, f, l.sel, l.res, l.closing, l.tried, l.asked, l.eff)
    BY <2>4, StoreField
  <2> HIDE DEF u
  <2>8. StoreIs([u EXCEPT !.closing = x], u.ses, u.sel, u.res, x, u.tried, u.asked, u.eff)
    BY <2>4, <2>7, StoreField DEF StoreIs
  <2>9. /\ t \in Stores /\ t.ses = f /\ t.asked = s.asked /\ More(s.eff, t.eff)
        /\ t.closing = s.closing \ {id} /\ t.sel = l.sel /\ t.res = l.res
    BY <2>2, <2>5, <2>6, <2>7, <2>8 DEF StoreIs, Keeps
  <2>10. ASSUME HasTerminal(s, U) PROVE HasTerminal(t, U)
    <3>1. SUFFICES ASSUME t.sel \in Ids, Active(t, t.sel), t.sel \notin U PROVE t.res = t.sel
      BY DEF HasTerminal
    <3>2. t.ses[l.sel] = s.ses[l.sel]
      BY <2>2, <2>6, <2>9, <3>1, StoreFields
    <3>3. Active(s, l.sel)
      BY <2>9, <3>1, <3>2 DEF Active, Present
    <3> QED BY <2>3, <2>9, <2>10, <3>1, <3>3, Zenon
  <2>11. t.closing \subseteq s.closing /\ id \notin t.closing
    BY <2>9
  <2> QED BY <2>6, <2>9, <2>10, <2>11, Zenon DEF t
<1> QED BY <1>1, <1>2

\* handle_event
LEMMA ApplyIs ==
  ASSUME NEW s \in Stores, NEW e \in Told
  PROVE  LET t == Apply(s, e)
         IN /\ t \in Stores /\ t.ses = [s.ses EXCEPT ![e.id] = e.rec] /\ More(s.eff, t.eff)
            /\ \A x \in t.closing : x \in s.closing \/ (x = e.id /\ In(t.eff, "remove", x) /\ e.rec # None)
            /\ e.rec = None /\ Present(s, e.id) => e.id \notin t.closing
<1> DEFINE t == Apply(s, e)
<1>1. e.id \in Ids /\ e.rec \in Recs
  BY DEF Told
<1>2. CASE e.rec = None
  <2>1. t = RemoveRecord(s, e.id)
    BY <1>2 DEF Apply
  <2>2. /\ t \in Stores /\ t.ses = [s.ses EXCEPT ![e.id] = None] /\ More(s.eff, t.eff)
        /\ t.closing \subseteq s.closing /\ (Present(s, e.id) => e.id \notin t.closing)
    BY <1>1, <2>1, RemoveRecordIs
  <2> QED BY <1>2, <2>2
<1>3. CASE e.rec # None /\ s.ses[e.id] = e.rec
  <2>1. t = s
    BY <1>3 DEF Apply
  <2>2. s.ses = [s.ses EXCEPT ![e.id] = e.rec]
    BY <1>1, <1>3, StoreFields
  <2> QED BY <1>3, <2>1, <2>2, MoreItself, StoreFields
<1>4. CASE e.rec # None /\ s.ses[e.id] # e.rec
  <2>1. t = Upsert(s, e.id, e.rec) /\ e.rec \in Records
    BY <1>1, <1>4 DEF Apply, Recs
  <2>2. /\ t \in Stores /\ t.ses = [s.ses EXCEPT ![e.id] = e.rec] /\ More(s.eff, t.eff)
        /\ t.closing = s.closing \/ (t.closing = s.closing \cup {e.id} /\ In(t.eff, "remove", e.id))
    BY <1>1, <2>1, UpsertIs
  <2> QED BY <1>4, <2>2
<1> QED BY <1>2, <1>3, <1>4

\* handle_event and the terminal.
LEMMA ApplyTerminal ==
  ASSUME NEW s \in Stores, NEW e \in Told, NEW U, NEW W, U \subseteq W, HasTerminal(s, U),
         s.sel = e.id /\ Present(s, e.id) /\ ~Active(s, e.id) /\ Active(Apply(s, e), e.id) => e.id \in W
  PROVE  HasTerminal(Apply(s, e), W)
<1>1. e.id \in Ids /\ e.rec \in Recs
  BY DEF Told
<1>2. HasTerminal(s, W)
  BY DEF HasTerminal
<1>3. CASE e.rec = None
  <2>1. Apply(s, e) = RemoveRecord(s, e.id)
    BY <1>3 DEF Apply
  <2>2. HasTerminal(RemoveRecord(s, e.id), W)
    BY <1>1, <1>2, RemoveRecordIs, Zenon
  <2> QED BY <2>1, <2>2
<1>4. CASE e.rec # None /\ s.ses[e.id] = e.rec
  <2>1. Apply(s, e) = s
    BY <1>4 DEF Apply
  <2> QED BY <1>2, <2>1
<1>5. CASE e.rec # None /\ s.ses[e.id] # e.rec
  <2>1. Apply(s, e) = Upsert(s, e.id, e.rec) /\ e.rec \in Records
    BY <1>1, <1>5 DEF Apply, Recs
  <2> QED BY <1>1, <2>1, UpsertTerminal
<1> QED BY <1>3, <1>4, <1>5

\* hydrate
LEMMA HydrateIs ==
  ASSUME NEW s \in Stores, NEW rows \in [Ids -> Recs], NEW U
  PROVE  LET t == Hydrate(s, rows)
         IN t \in Stores /\ t.ses = rows /\ t.closing = {} /\ More(s.eff, t.eff) /\ HasTerminal(t, U)
<1> DEFINE x == IF s.sel # NoId /\ rows[s.sel] = None THEN NoId ELSE s.sel
           a == [s EXCEPT !.ses = rows]  b == [a EXCEPT !.closing = {}]  c == [b EXCEPT !.sel = x]
           t == AutoSelect(c)
           u == IF t.sel # NoId /\ Active(t, t.sel) THEN [t EXCEPT !.res = t.sel] ELSE t
           h == Hydrate(s, rows)
<1>1. x \in Ids \cup {NoId}
  BY StoreFields
<1>2. [s EXCEPT !.ses = rows, !.closing = {}, !.sel = IF @ # NoId /\ rows[@] = None THEN NoId ELSE @]
       = [s EXCEPT !.ses = rows, !.closing = {}, !.sel = x]
  OBVIOUS
<1>3. h = IF u.sel = NoId THEN u ELSE AutoResume(u, u.sel)
  <2>1. [s EXCEPT !.ses = rows, !.closing = {}, !.sel = x] = c
    <3> HIDE DEF x
    <3> QED BY DEF Stores
  <2> QED BY <1>2, <2>1, Zenon DEF Hydrate
<1> HIDE DEF x, h
<1>4. StoreIs(a, rows, s.sel, s.res, s.closing, s.tried, s.asked, s.eff)
  BY StoreField
<1> HIDE DEF a
<1>5. StoreIs(b, a.ses, a.sel, a.res, {}, a.tried, a.asked, a.eff)
  BY <1>4, StoreField DEF StoreIs
<1> HIDE DEF b
<1>6. StoreIs(c, b.ses, x, b.res, b.closing, b.tried, b.asked, b.eff)
  BY <1>1, <1>5, StoreField DEF StoreIs
<1> HIDE DEF c
<1>7. c \in Stores /\ c.ses = rows /\ c.closing = {} /\ c.eff = s.eff
  BY <1>4, <1>5, <1>6 DEF StoreIs
<1>8. Keeps(c, t) /\ t \in Stores /\ t.sel \in Ids \cup {NoId}
  BY <1>7, AutoSelectIs, StoreFields DEF Keeps
<1> HIDE DEF t
<1>9. StoreIs([t EXCEPT !.res = t.sel], t.ses, t.sel, t.sel, t.closing, t.tried, t.asked, t.eff)
  BY <1>8, StoreField
<1>10. u \in Stores /\ Keeps(t, u) /\ u.sel = t.sel /\ (t.sel \in Ids /\ Active(t, t.sel) => u.res = u.sel)
  <2>1. CASE t.sel # NoId /\ Active(t, t.sel)
    <3>1. u = [t EXCEPT !.res = t.sel]
      BY <2>1
    <3> HIDE DEF u
    <3> QED BY <1>8, <1>9, <3>1, MoreItself, StoreFields DEF StoreIs, Keeps
  <2>2. CASE ~(t.sel # NoId /\ Active(t, t.sel))
    <3>1. u = t
      BY <2>2
    <3>2. ~(t.sel \in Ids /\ Active(t, t.sel))
      BY <2>2, AppAssumption
    <3> HIDE DEF u
    <3> QED BY <1>8, <3>1, <3>2, KeepsItself
  <2> QED BY <2>1, <2>2
<1> HIDE DEF u
<1>11. h \in Stores /\ Keeps(u, h) /\ h.sel = u.sel /\ h.res = u.res
  <2>1. u.sel \in Ids \cup {NoId}
    BY <1>8, <1>10
  <2> QED BY <1>3, <1>10, <2>1, AutoResumeIs, KeepsItself DEF Keeps
<1>12. h.ses = rows /\ h.closing = {} /\ h.ses = t.ses
  BY <1>7, <1>8, <1>10, <1>11 DEF Keeps
<1>13. More(s.eff, h.eff)
  <2>1. Keeps(c, h)
    BY <1>7, <1>8, <1>10, <1>11, KeepsOn
  <2> QED BY <1>7, <2>1 DEF Keeps
<1>14. HasTerminal(h, U)
  <2>1. Active(h, t.sel) <=> Active(t, t.sel)
    BY <1>12, ActiveSame
  <2>2. h.sel = t.sel /\ (t.sel \in Ids /\ Active(t, t.sel) => h.res = t.sel)
    BY <1>10, <1>11
  <2> QED BY <2>1, <2>2, Zenon DEF HasTerminal
<1> QED BY <1>11, <1>12, <1>13, <1>14, Zenon DEF h

-----------------------------------------------------------------------------
(* The inductive invariant of the store.                                   *)

\* What is left of a queue without its first m entries.
After(q, m) == [k \in 1..(Len(q) - m) |-> q[k + m]]

\* The last word on session x in a queue is r, or there is none and what is held without it holds.
WayOf(q, x, r, rest) == Follows(q, About(x), Tells(x, r), rest)

\* The Engine answers these requests with an event, if it knows the session.
Answered == {"seen", "remove", "archive", "unarchive"}
Owed(q, id) == \E op \in Answered : In(q, op, id)

RecordTypes == record \in [Ids -> Recs] /\ shut \in Seq([id : Ids, rec : Records]) /\ stream \in Seq(Told)
LinkTypes == link \in BOOLEAN /\ outdated \in BOOLEAN
ListIs(l, q) ==
  l \in {NoList, Asked} \/ (l \in [at : {"taken"}, rows : [Ids -> Recs], behind : Nat] /\ l.behind <= Len(q))
ListTypes == ListIs(list, stream)
StoreTypes == store \in Stores /\ shelved \subseteq Ids /\ unshelved \subseteq Ids /\ fresh \subseteq Newcomers
AnswerIs(a, q) ==
  a = NoAnswer \/ (a \in [op : {"spawn", "reopen"}, id : Ids, rec : Records] /\ q # <<>> /\ Head(q).op = a.op)
AnswerTypes == AnswerIs(answer, store.eff)

\* The watcher: it watches what has a record, and copies records.
watch == <<noted, copies, astray>>
WatchTypes ==
  /\ noted \subseteq Ids /\ astray \subseteq Ids /\ copies \subseteq [id : Ids, rec : Records]
  /\ \A x \in noted : record[x] # None

\* The sessions whose events are true: the watcher owes none, and none was lost or old.
Sure == {x \in Ids : x \notin astray /\ ~Awaited(x)}

\* The last event about a session that is on its way is what the Engine holds.
StreamTrue == link => \A x \in Sure : WayOf(stream, x, record[x], TRUE)

\* A list that was taken, with the events behind it, leads to what the Engine holds.
ListTrue ==
  link /\ ~outdated /\ list \notin {NoList, Asked} =>
    \A x \in Sure : WayOf(After(stream, list.behind), x, record[x], list.rows[x] = record[x])

\* So does the store, with the events on their way; or the Engine is yet to answer a request with one.
Listed == link /\ ~outdated /\ list = NoList
Right(ses, q, x, r) == ses[x] = r \/ (r # None /\ Owed(q, x))
StoreTrue == Listed => \A x \in Sure : WayOf(stream, x, record[x], Right(store.ses, store.eff, x, record[x]))

\* A row is hidden while the request to close it, or the word that it is closed, is on its way.
ClosingKnown == \A x \in store.closing : store.ses[x] # None
Gone(q, x) == \E k \in 1..Len(q) : q[k] = [id |-> x, rec |-> None]
ClosingEnds ==
  Listed => \A x \in store.closing : x \in astray \/ In(store.eff, "remove", x) \/ Gone(stream, x)

Attached == HasTerminal(store, unshelved)

StoreIInv ==
  /\ RecordTypes /\ LinkTypes /\ ListTypes /\ StoreTypes /\ AnswerTypes /\ WatchTypes
  /\ StreamTrue /\ ListTrue /\ StoreTrue /\ ClosingKnown /\ ClosingEnds /\ Attached

-----------------------------------------------------------------------------
(* The event stream.                                                       *)

\* The events about a session.
LEMMA TellsIs ==
  ASSUME NEW x \in Ids, NEW r \in Recs
  PROVE  /\ Tells(x, r) \in SUBSET About(x) /\ [id |-> x, rec |-> r] \in Told
         /\ \A e \in Told : e \in About(x) <=> e.id = x
         /\ \A e \in Told : e \in Tells(x, r) => e.id = x /\ e.rec = r
  BY DEF Tells, About, Told

\* One more event: about this session, and about another.
LEMMA WaySame ==
  ASSUME NEW q \in Seq(Told), NEW x \in Ids, NEW r \in Recs, NEW c
  PROVE  WayOf(Append(q, [id |-> x, rec |-> r]), x, r, c)
<1> DEFINE e == [id |-> x, rec |-> r]
<1>1. e \in Told /\ Tells(x, r) \in SUBSET About(x)
  BY TellsIs
<1>2. e \in Tells(x, r)
  BY DEF Tells
<1> HIDE DEF e
<1>3. Follows(Append(q, e), About(x), Tells(x, r), c)
  BY <1>1, <1>2, FollowsAppend
<1> QED BY <1>3 DEF WayOf, e

\* One more event about another session.
LEMMA WayOther ==
  ASSUME NEW q \in Seq(Told), NEW x \in Ids, NEW r \in Recs, NEW e \in Told, e.id # x, NEW c, NEW d,
         WayOf(q, x, r, c), c => d
  PROVE  WayOf(Append(q, e), x, r, d)
<1>1. e \notin About(x) /\ Tells(x, r) \in SUBSET About(x)
  BY TellsIs
<1> QED BY <1>1, FollowsAppend DEF WayOf

\* The first event is taken.
LEMMA WayTail ==
  ASSUME NEW q \in Seq(Told), q # <<>>, NEW x \in Ids, NEW r \in Recs, NEW c, NEW d, WayOf(q, x, r, c),
         Head(q).id = x /\ Head(q).rec = r => d, Head(q).id # x /\ c => d
  PROVE  WayOf(Tail(q), x, r, d)
<1>1. Head(q) \in Told
  BY EndsTail
<1>2. /\ Tells(x, r) \in SUBSET About(x)
      /\ Head(q) \in Tells(x, r) => Head(q).id = x /\ Head(q).rec = r
      /\ Head(q) \notin About(x) => Head(q).id # x
  BY <1>1, TellsIs
<1>3. (Head(q) \in Tells(x, r) => d) /\ (Head(q) \notin About(x) /\ c => d)
  BY <1>2
<1>4. Follows(q, About(x), Tells(x, r), c)
  BY DEF WayOf
<1>5. Follows(Tail(q), About(x), Tells(x, r), d)
  BY <1>2, <1>3, <1>4, FollowsTail
<1> QED BY <1>5 DEF WayOf

\* A weaker end.
LEMMA WayWeaker ==
  ASSUME NEW q, NEW x, NEW r, NEW c, NEW d, WayOf(q, x, r, c), c => d
  PROVE  WayOf(q, x, r, d)
  BY DEF WayOf, Follows

\* No event is left.
LEMMA WayEmpty ==
  ASSUME NEW x, NEW r, NEW c
  PROVE  WayOf(<<>>, x, r, c) <=> c
  BY FollowsEmpty DEF WayOf

\* The events behind a list.
LEMMA AfterIs ==
  ASSUME NEW q \in Seq(Told), NEW m \in Nat, m <= Len(q)
  PROVE  /\ After(q, m) \in Seq(Told) /\ Len(After(q, m)) = Len(q) - m
         /\ \A k \in 1..(Len(q) - m) : After(q, m)[k] = q[k + m]
<1> DEFINE n == Len(q) - m
<1>1. Len(q) \in Nat /\ n \in Nat
  OBVIOUS
<1>2. \A k \in 1..n : k + m \in 1..Len(q)
  BY <1>1
<1>3. After(q, m) = [k \in 1..n |-> q[k + m]]
  BY DEF After
<1> HIDE DEF n
<1>4. \A k \in 1..n : q[k + m] \in Told
  BY <1>2
<1>5. After(q, m) \in [1..n -> Told]
  BY <1>3, <1>4
<1>6. After(q, m) \in Seq(Told) /\ Len(After(q, m)) = n
  BY <1>1, <1>5, LenProperties, SeqDef
<1> QED BY <1>3, <1>6 DEF n

\* One more event behind a list.
LEMMA AfterAppend ==
  ASSUME NEW q \in Seq(Told), NEW e \in Told, NEW m \in Nat, m <= Len(q)
  PROVE  After(Append(q, e), m) = Append(After(q, m), e) /\ m <= Len(Append(q, e))
<1> DEFINE p == Append(q, e)  n == Len(q)  a == After(q, m)  b == After(p, m)
<1>1. p \in Seq(Told) /\ n \in Nat /\ Len(p) = n + 1 /\ p[n + 1] = e /\ \A k \in 1..n : p[k] = q[k]
  OBVIOUS
<1>2. a \in Seq(Told) /\ Len(a) = n - m /\ \A k \in 1..(n - m) : a[k] = q[k + m]
  BY AfterIs
<1> HIDE DEF p, a, b
<1>3. m <= Len(p)
  BY <1>1
<1>4. b \in Seq(Told) /\ Len(b) = Len(p) - m /\ \A k \in 1..(Len(p) - m) : b[k] = p[k + m]
  BY <1>1, <1>3, AfterIs DEF b
<1> DEFINE d == Append(a, e)  j == n - m
<1>5. j \in Nat /\ Len(b) = j + 1 /\ Len(p) - m = j + 1 /\ j + 1 + m = n + 1
  BY <1>1, <1>4
<1>6. d \in Seq(Told) /\ Len(d) = j + 1 /\ d[j + 1] = e /\ \A k \in 1..j : d[k] = a[k]
  BY <1>2
<1> HIDE DEF d, j
<1>7. ASSUME NEW k \in 1..(j + 1) PROVE b[k] = d[k]
  <2>1. b[k] = p[k + m]
    BY <1>4, <1>5
  <2>2. CASE k = j + 1
    BY <1>1, <1>5, <1>6, <2>1, <2>2
  <2>3. CASE k \in 1..j
    <3>1. k + m \in 1..n
      BY <1>1, <1>5, <2>3 DEF j
    <3>2. a[k] = q[k + m]
      BY <1>2, <2>3 DEF j
    <3> QED BY <1>1, <1>6, <2>1, <2>3, <3>1, <3>2
  <2> QED BY <1>5, <2>2, <2>3
<1>8. b = d
  BY <1>4, <1>5, <1>6, <1>7, SeqEqual
<1> QED BY <1>3, <1>8 DEF b, d, p, a

\* An event older than the list is taken.
LEMMA AfterTail ==
  ASSUME NEW q \in Seq(Told), q # <<>>, NEW m \in Nat, 0 < m, m <= Len(q)
  PROVE  After(Tail(q), m - 1) = After(q, m) /\ m - 1 \in Nat /\ m - 1 <= Len(Tail(q))
<1> DEFINE p == Tail(q)  n == Len(q)  i == m - 1
<1>1. p \in Seq(Told) /\ n \in Nat /\ Len(p) = n - 1 /\ \A k \in 1..(n - 1) : p[k] = q[k + 1]
  OBVIOUS
<1> HIDE DEF p
<1>2. /\ i \in Nat /\ i <= Len(p) /\ Len(p) - i = n - m
      /\ \A k \in 1..(n - m) : k + i \in 1..(n - 1) /\ (k + i) + 1 = k + m
  BY <1>1
<1> HIDE DEF i
<1> DEFINE a == After(q, m)  b == After(p, i)
<1>3. a \in Seq(Told) /\ Len(a) = n - m /\ \A k \in 1..(n - m) : a[k] = q[k + m]
  BY AfterIs
<1>4. b \in Seq(Told) /\ Len(b) = n - m /\ \A k \in 1..(n - m) : b[k] = p[k + i]
  <2>1. b \in Seq(Told) /\ Len(b) = Len(p) - i /\ \A k \in 1..(Len(p) - i) : b[k] = p[k + i]
    BY <1>1, <1>2, AfterIs, Zenon
  <2> HIDE DEF b
  <2>2. Len(p) - i = n - m
    BY <1>2
  <2> QED BY <2>1, <2>2, Zenon
<1> HIDE DEF a, b
<1>5. \A k \in 1..(n - m) : b[k] = a[k]
  BY <1>1, <1>2, <1>3, <1>4
<1>6. b = a
  BY <1>3, <1>4, <1>5, SeqEqual
<1> QED BY <1>2, <1>6 DEF a, b, p, i

\* A list that was just taken has no event behind it.
LEMMA AfterAll ==
  ASSUME NEW q \in Seq(Told)
  PROVE  After(q, Len(q)) = <<>>
<1>1. Len(q) \in Nat /\ Len(q) <= Len(q) /\ Len(q) - Len(q) = 0
  OBVIOUS
<1>2. After(q, Len(q)) \in Seq(Told) /\ Len(After(q, Len(q))) = 0
  BY <1>1, AfterIs
<1> QED BY <1>2, EmptySeq

\* A list, once applied, is as good as the events it leaves.
LEMMA AfterWay ==
  ASSUME NEW q \in Seq(Told), NEW m \in Nat, m <= Len(q), NEW x, NEW r, NEW c,
         WayOf(q, x, r, TRUE), WayOf(After(q, m), x, r, c)
  PROVE  WayOf(q, x, r, c)
<1> DEFINE a == After(q, m)  T == About(x)  G == Tells(x, r)
<1>1. Len(q) \in Nat /\ a \in Seq(Told) /\ Len(a) = Len(q) - m /\ \A k \in 1..(Len(q) - m) : a[k] = q[k + m]
  BY AfterIs
<1> HIDE DEF a, T, G
<1>2. ASSUME EndsIn(a, T, G) PROVE EndsIn(q, T, G)
  <2>1. PICK k \in 1..Len(a) : a[k] \in G /\ \A j \in k + 1..Len(a) : a[j] \notin T
    BY <1>2 DEF EndsIn
  <2>2. k + m \in 1..Len(q) /\ q[k + m] \in G
    BY <1>1, <2>1
  <2>3. ASSUME NEW j \in (k + m) + 1..Len(q) PROVE q[j] \notin T
    <3>1. j - m \in k + 1..Len(a) /\ j - m \in 1..(Len(q) - m) /\ (j - m) + m = j
      BY <1>1, <2>1
    <3> QED BY <1>1, <2>1, <3>1
  <2> QED BY <2>2, <2>3 DEF EndsIn
<1> QED BY <1>2 DEF WayOf, Follows, a, T, G

\* A request that is not the first is still to come.
LEMMA InTail ==
  ASSUME NEW q \in Seq(Effs), q # <<>>, NEW op, NEW id, In(q, op, id), Head(q) # Effect(op, id)
  PROVE  In(Tail(q), op, id)
<1> DEFINE p == Tail(q)  n == Len(q)
<1>1. n \in Nat /\ p \in Seq(Effs) /\ Len(p) = n - 1 /\ Head(q) = q[1] /\ \A k \in 1..(n - 1) : p[k] = q[k + 1]
  OBVIOUS
<1> HIDE DEF p
<1>2. PICK k \in 1..n : q[k] = Effect(op, id)
  BY DEF In
<1>3. k # 1
  BY <1>1, <1>2
<1>4. k - 1 \in 1..(n - 1) /\ (k - 1) + 1 = k
  BY <1>1, <1>2, <1>3
<1>5. p[k - 1] = Effect(op, id)
  BY <1>1, <1>2, <1>4
<1>6. In(p, op, id)
  BY <1>1, <1>4, <1>5 DEF In
<1> QED BY <1>6 DEF p

\* Another request is done with.
LEMMA OwedTail ==
  ASSUME NEW q \in Seq(Effs), q # <<>>, NEW id, Owed(q, id), Head(q).op \notin Answered \/ Head(q).id # id
  PROVE  Owed(Tail(q), id)
<1>1. PICK op \in Answered : In(q, op, id)
  BY DEF Owed
<1>2. Head(q) # Effect(op, id)
  BY DEF Effect
<1> QED BY <1>1, <1>2, InTail DEF Owed

\* Requests are added.
LEMMA OwedMore ==
  ASSUME NEW p \in Seq(Effs), NEW q, More(p, q), NEW id, Owed(p, id)
  PROVE  Owed(q, id)
  BY InMore DEF Owed

\* The word that a session is gone is taken when it is the first.
LEMMA GoneTail ==
  ASSUME NEW q \in Seq(Told), q # <<>>, NEW x, Gone(q, x)
  PROVE  Gone(Tail(q), x) \/ Head(q) = [id |-> x, rec |-> None]
<1> DEFINE p == Tail(q)  n == Len(q)
<1>1. n \in Nat /\ Len(p) = n - 1 /\ Head(q) = q[1] /\ \A k \in 1..(n - 1) : p[k] = q[k + 1]
  OBVIOUS
<1> HIDE DEF p
<1>2. PICK k \in 1..n : q[k] = [id |-> x, rec |-> None]
  BY DEF Gone
<1>3. ASSUME k # 1 PROVE Gone(p, x)
  <2>1. k - 1 \in 1..(n - 1) /\ (k - 1) + 1 = k
    BY <1>1, <1>2, <1>3
  <2>2. p[k - 1] = [id |-> x, rec |-> None]
    BY <1>1, <1>2, <2>1
  <2> QED BY <1>1, <2>1, <2>2 DEF Gone
<1> QED BY <1>1, <1>2, <1>3 DEF p

\* One more event.
LEMMA GoneAppend ==
  ASSUME NEW q \in Seq(Told), NEW e \in Told, NEW x
  PROVE  /\ Gone(q, x) => Gone(Append(q, e), x)
         /\ e = [id |-> x, rec |-> None] => Gone(Append(q, e), x)
<1> DEFINE p == Append(q, e)  n == Len(q)
<1>1. n \in Nat /\ Len(p) = n + 1 /\ p[n + 1] = e /\ \A k \in 1..n : p[k] = q[k]
  OBVIOUS
<1> HIDE DEF p
<1>2. n + 1 \in 1..Len(p) /\ \A k \in 1..n : k \in 1..Len(p)
  BY <1>1
<1>3. Gone(q, x) => Gone(p, x)
  BY <1>1, <1>2 DEF Gone
<1>4. e = [id |-> x, rec |-> None] => Gone(p, x)
  BY <1>1, <1>2 DEF Gone
<1> QED BY <1>3, <1>4 DEF p

-----------------------------------------------------------------------------
(* What each part of the invariant depends on.                             *)

\* Each part holds while what it is about stays the same.
LEMMA StoreStays ==
  ASSUME StoreIInv
  PROVE  /\ record' = record /\ shut' = shut /\ stream' = stream => RecordTypes'
         /\ link' = link /\ outdated' = outdated => LinkTypes'
         /\ list' = list /\ stream' = stream => ListTypes'
         /\ store' = store /\ shelved' = shelved /\ unshelved' = unshelved /\ fresh' = fresh => StoreTypes'
         /\ answer' = answer /\ store' = store => AnswerTypes'
         /\ record' = record /\ watch' = watch => WatchTypes' /\ Sure' = Sure
         /\ link' = link /\ stream' = stream /\ record' = record /\ watch' = watch => StreamTrue'
         /\ link' = link /\ outdated' = outdated /\ list' = list /\ stream' = stream /\ record' = record
              /\ watch' = watch => ListTrue'
         /\ link' = link /\ outdated' = outdated /\ list' = list /\ stream' = stream /\ record' = record
              /\ store' = store /\ watch' = watch => StoreTrue' /\ ClosingEnds'
         /\ store' = store => ClosingKnown'
         /\ store' = store /\ unshelved' = unshelved => Attached'
<1> USE DEF StoreIInv
<1>1. record' = record /\ shut' = shut /\ stream' = stream => RecordTypes'
  BY Zenon DEF RecordTypes
<1>2. link' = link /\ outdated' = outdated => LinkTypes'
  BY Zenon DEF LinkTypes
<1>3. list' = list /\ stream' = stream => ListTypes'
  BY Zenon DEF ListTypes
<1>4. store' = store /\ shelved' = shelved /\ unshelved' = unshelved /\ fresh' = fresh => StoreTypes'
  BY Zenon DEF StoreTypes
<1>5. answer' = answer /\ store' = store => AnswerTypes'
  BY Zenon DEF AnswerTypes
<1>0. record' = record /\ watch' = watch => WatchTypes' /\ Sure' = Sure
  <2>1. SUFFICES ASSUME record' = record, watch' = watch PROVE WatchTypes' /\ Sure' = Sure
    OBVIOUS
  <2>2. noted' = noted /\ copies' = copies /\ astray' = astray
    BY <2>1 DEF watch
  <2>3. WatchTypes'
    BY <2>1, <2>2, Zenon DEF WatchTypes
  <2>4. Sure' = Sure
    BY <2>1, <2>2, Zenon DEF Sure, Awaited
  <2> QED BY <2>3, <2>4
<1>6. link' = link /\ stream' = stream /\ record' = record /\ watch' = watch => StreamTrue'
  BY <1>0, Zenon DEF StreamTrue
<1>7. link' = link /\ outdated' = outdated /\ list' = list /\ stream' = stream /\ record' = record
        /\ watch' = watch => ListTrue'
  <2>1. SUFFICES ASSUME link' = link, outdated' = outdated, list' = list, stream' = stream, record' = record,
                        watch' = watch, link', ~outdated', list' \notin {NoList, Asked}, NEW x \in Sure'
                 PROVE  WayOf(After(stream', list'.behind), x, record'[x], list'.rows[x] = record'[x])
    BY DEF ListTrue
  <2>2. link /\ ~outdated /\ x \in Sure
    BY <1>0, <2>1, Zenon
  <2> QED BY <2>1, <2>2 DEF ListTrue
<1>8. link' = link /\ outdated' = outdated /\ list' = list /\ stream' = stream /\ record' = record
        /\ store' = store /\ watch' = watch => StoreTrue' /\ ClosingEnds'
  <2>1. SUFFICES ASSUME link' = link, outdated' = outdated, list' = list, stream' = stream, record' = record,
                        store' = store, watch' = watch
                 PROVE  StoreTrue' /\ ClosingEnds'
    OBVIOUS
  <2>2. Listed' => Listed
    BY <2>1, Zenon DEF Listed
  <2>3. Sure' = Sure /\ astray' = astray
    BY <1>0, <2>1 DEF watch
  <2>4. StoreTrue'
    BY <2>1, <2>2, <2>3 DEF StoreTrue
  <2>5. ClosingEnds'
    BY <2>1, <2>2, <2>3 DEF ClosingEnds
  <2> QED BY <2>4, <2>5
<1>9. store' = store => ClosingKnown'
  BY Zenon DEF ClosingKnown
<1>10. store' = store /\ unshelved' = unshelved => Attached'
  BY Zenon DEF Attached
<1> QED BY <1>0, <1>1, <1>2, <1>3, <1>4, <1>5, <1>6, <1>7, <1>8, <1>9, <1>10, Zenon

-----------------------------------------------------------------------------
(* The user.                                                               *)

\* The first request stays the first.
LEMMA HeadMore ==
  ASSUME NEW p \in Seq(Effs), p # <<>>, NEW q, More(p, q)
  PROVE  q # <<>> /\ Head(q) = Head(p)
<1>1. q \in Seq(Effs) /\ Len(p) \in Nat /\ Len(q) \in Nat /\ Len(p) # 0 /\ Len(p) <= Len(q)
  BY DEF More
<1>2. 1 \in 1..Len(p) /\ Len(q) # 0
  BY <1>1
<1>3. q[1] = p[1]
  BY <1>2 DEF More
<1> QED BY <1>1, <1>2, <1>3

\* A store the user has changed: a session may be told otherwise than the Engine holds it as long as the
\* Engine is to answer, and a row that hides has its request.
LEMMA UserStep ==
  ASSUME StoreIInv,
         record' = record, shut' = shut, stream' = stream, link' = link, list' = list, answer' = answer,
         outdated' = outdated, watch' = watch, unshelved' = unshelved,
         shelved' \subseteq Ids, fresh' \subseteq Newcomers,
         store' \in Stores, More(store.eff, store'.eff), HasTerminal(store', unshelved),
         \A x \in Ids : \/ store'.ses[x] = store.ses[x]
                        \/ store.ses[x] # None /\ store'.ses[x] # None /\ Owed(store'.eff, x),
         \A x \in store'.closing : x \in store.closing \/ (store.ses[x] # None /\ In(store'.eff, "remove", x))
  PROVE  StoreIInv'
<1>1. RecordTypes' /\ LinkTypes' /\ ListTypes' /\ StreamTrue' /\ ListTrue' /\ WatchTypes' /\ Sure' = Sure
  BY StoreStays, Zenon
<1>2. StoreTypes'
  BY Zenon DEF StoreIInv, StoreTypes
<1>3. Attached'
  BY Zenon DEF Attached
<1>4. store \in Stores /\ store.eff \in Seq(Effs) /\ store.closing \subseteq Ids /\ store'.closing \subseteq Ids
  <2>1. store \in Stores
    BY Zenon DEF StoreIInv, StoreTypes
  <2> QED BY <2>1, StoreFields
<1>5. AnswerTypes'
  <2>1. store.eff # <<>> => store'.eff # <<>> /\ Head(store'.eff) = Head(store.eff)
    BY <1>4, HeadMore
  <2> QED BY <2>1, Zenon DEF StoreIInv, AnswerTypes, AnswerIs
<1>6. ClosingKnown'
  <2> SUFFICES ASSUME NEW x \in store'.closing PROVE store'.ses[x] # None
    BY DEF ClosingKnown
  <2>1. store.ses[x] # None
    BY DEF StoreIInv, ClosingKnown
  <2> QED BY <1>4, <2>1
<1>7. ClosingEnds'
  <2> SUFFICES ASSUME Listed', NEW x \in store'.closing
               PROVE  x \in astray' \/ In(store'.eff, "remove", x) \/ Gone(stream', x)
    BY DEF ClosingEnds
  <2>1. Listed /\ astray' = astray
    BY DEF Listed, watch
  <2>2. CASE x \in store.closing
    <3>1. x \in astray \/ In(store.eff, "remove", x) \/ Gone(stream, x)
      BY <2>1, <2>2, Zenon DEF StoreIInv, ClosingEnds
    <3> QED BY <1>4, <2>1, <3>1, InMore
  <2>3. CASE x \notin store.closing
    BY <2>3
  <2> QED BY <2>2, <2>3
<1>8. StoreTrue'
  <2> SUFFICES ASSUME Listed', NEW x \in Sure'
               PROVE  WayOf(stream', x, record'[x], Right(store'.ses, store'.eff, x, record'[x]))
    BY DEF StoreTrue
  <2>1. Listed /\ x \in Sure /\ x \in Ids
    BY <1>1 DEF Listed, Sure
  <2>2. WayOf(stream, x, record[x], Right(store.ses, store.eff, x, record[x]))
    BY <2>1, Zenon DEF StoreIInv, StoreTrue
  <2>3. ASSUME Right(store.ses, store.eff, x, record[x]) PROVE Right(store'.ses, store'.eff, x, record[x])
    <3>1. Owed(store.eff, x) => Owed(store'.eff, x)
      BY <1>4, OwedMore
    <3> QED BY <2>1, <2>3, <3>1 DEF Right
  <2>4. WayOf(stream, x, record[x], Right(store'.ses, store'.eff, x, record[x]))
    BY <2>2, <2>3, WayWeaker
  <2> QED BY <2>4
<1> QED BY <1>1, <1>2, <1>3, <1>5, <1>6, <1>7, <1>8, Zenon DEF StoreIInv

\* The same where the user's step leaves the sessions alone.
LEMMA UserKeeps ==
  ASSUME StoreIInv,
         record' = record, shut' = shut, stream' = stream, link' = link, list' = list, answer' = answer,
         outdated' = outdated, watch' = watch, unshelved' = unshelved,
         shelved' \subseteq Ids, fresh' \subseteq Newcomers,
         NEW s \in Stores, Keeps(store, s), store' = s, HasTerminal(s, unshelved)
  PROVE  StoreIInv'
<1>1. store' \in Stores /\ More(store.eff, store'.eff) /\ HasTerminal(store', unshelved)
  BY Zenon DEF Keeps
<1>2. store'.ses = store.ses /\ store'.closing = store.closing
  BY Zenon DEF Keeps
<1> QED BY <1>1, <1>2, UserStep

\* What the types say of the state.
LEMMA TypesGive ==
  ASSUME StoreIInv
  PROVE  /\ store \in Stores /\ store.eff \in Seq(Effs) /\ store.closing \subseteq Ids
         /\ store.ses \in [Ids -> Recs] /\ store.asked \in Ids \cup {NoId} /\ store.sel \in Ids \cup {NoId}
         /\ shelved \subseteq Ids /\ fresh \subseteq Newcomers /\ HasTerminal(store, unshelved)
         /\ record \in [Ids -> Recs] /\ stream \in Seq(Told) /\ shut \in Seq([id : Ids, rec : Records])
         /\ noted \subseteq Ids /\ astray \subseteq Ids /\ copies \subseteq [id : Ids, rec : Records]
<1>1. store \in Stores /\ shelved \subseteq Ids /\ fresh \subseteq Newcomers
  BY Zenon DEF StoreIInv, StoreTypes
<1>2. HasTerminal(store, unshelved)
  BY Zenon DEF StoreIInv, Attached
<1>3. record \in [Ids -> Recs] /\ stream \in Seq(Told) /\ shut \in Seq([id : Ids, rec : Records])
  BY Zenon DEF StoreIInv, RecordTypes
<1>4. noted \subseteq Ids /\ astray \subseteq Ids /\ copies \subseteq [id : Ids, rec : Records]
  BY Zenon DEF StoreIInv, WatchTypes
<1> QED BY <1>1, <1>2, <1>3, <1>4, StoreFields

\* Select
LEMMA SelectSessionStep == ASSUME StoreIInv, NEW id \in Ids, Select(id) PROVE StoreIInv'
<1> DEFINE s == Focus(store, id)
<1>1. Keeps(store, s) /\ HasTerminal(s, unshelved) /\ s \in Stores
  BY TypesGive, FocusIs, FocusTerminal DEF Keeps
<1>2. store' = s /\ shelved' = shelved /\ fresh' = fresh
  BY DEF Select
<1>3. /\ record' = record /\ shut' = shut /\ stream' = stream /\ link' = link /\ list' = list
      /\ answer' = answer /\ outdated' = outdated /\ watch' = watch /\ unshelved' = unshelved
  BY DEF Select, Clicked, engineVars, watch
<1> HIDE DEF s
<1>4. shelved' \subseteq Ids /\ fresh' \subseteq Newcomers
  BY <1>2, TypesGive
<1> QED BY <1>1, <1>2, <1>3, <1>4, UserKeeps

\* Asking about a close, and letting it be.
LEMMA AskedIs ==
  ASSUME StoreIInv, NEW x \in Ids \cup {NoId}
  PROVE  LET s == [store EXCEPT !.asked = x]
         IN s \in Stores /\ s.ses = store.ses /\ s.closing = store.closing /\ s.eff = store.eff
            /\ s.sel = store.sel /\ HasTerminal(s, unshelved)
<1> DEFINE s == [store EXCEPT !.asked = x]
<1>1. StoreIs(s, store.ses, store.sel, store.res, store.closing, store.tried, x, store.eff)
  BY TypesGive, StoreField
<1> HIDE DEF s
<1>2. s \in Stores /\ s.ses = store.ses /\ s.closing = store.closing /\ s.eff = store.eff
  BY <1>1 DEF StoreIs
<1>3. s.sel = store.sel /\ s.res = store.res
  BY <1>1 DEF StoreIs
<1>4. Active(s, s.sel) <=> Active(store, store.sel)
  BY <1>2, <1>3, ActiveSame
<1>5. HasTerminal(s, unshelved)
  BY <1>3, <1>4, TypesGive, Zenon DEF HasTerminal
<1> QED BY <1>2, <1>3, <1>5 DEF s

\* A step that changes no session and hides no row.
LEMMA UserSame ==
  ASSUME StoreIInv,
         record' = record, shut' = shut, stream' = stream, link' = link, list' = list, answer' = answer,
         outdated' = outdated, watch' = watch, unshelved' = unshelved,
         shelved' \subseteq Ids, fresh' \subseteq Newcomers,
         store' \in Stores, store'.ses = store.ses, store'.closing = store.closing, More(store.eff, store'.eff),
         HasTerminal(store', unshelved)
  PROVE  StoreIInv'
  BY UserStep

\* A step that closes a session.
LEMMA UserRemoves ==
  ASSUME StoreIInv,
         record' = record, shut' = shut, stream' = stream, link' = link, list' = list, answer' = answer,
         outdated' = outdated, watch' = watch, unshelved' = unshelved,
         shelved' \subseteq Ids, fresh' \subseteq Newcomers,
         NEW s \in Stores, s.ses = store.ses, s.closing = store.closing, s.eff = store.eff,
         HasTerminal(s, unshelved), NEW id \in Ids, Present(store, id), store' = RemoveSession(s, id)
  PROVE  StoreIInv'
<1> DEFINE t == RemoveSession(s, id)
<1>1. /\ t \in Stores /\ t.ses = s.ses /\ t.closing = s.closing \cup {id} /\ More(s.eff, t.eff)
      /\ In(t.eff, "remove", id) /\ HasTerminal(t, unshelved)
  BY RemoveSessionIs, Zenon
<1>2. store' = t /\ store.ses[id] # None
  BY DEF Present
<1> HIDE DEF t
<1>3. /\ store' \in Stores /\ store'.ses = store.ses /\ More(store.eff, store'.eff)
      /\ HasTerminal(store', unshelved) /\ store'.closing = store.closing \cup {id}
      /\ In(store'.eff, "remove", id)
  BY <1>1, <1>2
<1>4. \A x \in store'.closing : x \in store.closing \/ (store.ses[x] # None /\ In(store'.eff, "remove", x))
  BY <1>2, <1>3
<1> QED BY <1>3, <1>4, UserStep

\* request_close
LEMMA RequestCloseStep == ASSUME StoreIInv, NEW id \in Ids, RequestClose(id) PROVE StoreIInv'
<1>1. /\ record' = record /\ shut' = shut /\ stream' = stream /\ link' = link /\ list' = list
      /\ answer' = answer /\ outdated' = outdated /\ watch' = watch /\ unshelved' = unshelved
  BY DEF RequestClose, Clicked, engineVars, watch
<1>2. Present(store, id) /\ shelved' = shelved \ {id} /\ fresh' = fresh
  BY DEF RequestClose
<1>3. shelved' \subseteq Ids /\ fresh' \subseteq Newcomers
  BY <1>2, TypesGive
<1>4. CASE store' = [store EXCEPT !.asked = id]
  <2>1. /\ store' \in Stores /\ store'.ses = store.ses /\ store'.closing = store.closing
        /\ store'.eff = store.eff /\ HasTerminal(store', unshelved)
    BY <1>4, AskedIs
  <2>2. More(store.eff, store'.eff)
    BY <2>1, MoreItself, TypesGive
  <2> QED BY <1>1, <1>3, <2>1, <2>2, UserSame
<1>5. CASE store' = RemoveSession(store, id)
  BY <1>1, <1>2, <1>3, <1>5, TypesGive, UserRemoves
<1> QED BY <1>4, <1>5 DEF RequestClose

\* confirm_pending_close, of a session that is still there.
LEMMA ConfirmStep == ASSUME ~LateConfirm, StoreIInv, ConfirmPendingClose PROVE StoreIInv'
<1> DEFINE s == [store EXCEPT !.asked = NoId]
<1>1. /\ record' = record /\ shut' = shut /\ stream' = stream /\ link' = link /\ list' = list
      /\ answer' = answer /\ outdated' = outdated /\ watch' = watch /\ unshelved' = unshelved
  BY DEF ConfirmPendingClose, Clicked, engineVars, watch
<1>2. store.asked # NoId /\ Present(store, store.asked) /\ fresh' = fresh
  BY DEF ConfirmPendingClose
<1>3. shelved' = shelved \ {store.asked} /\ store' = RemoveSession(s, store.asked)
  BY DEF ConfirmPendingClose
<1>4. store.asked \in Ids /\ shelved' \subseteq Ids /\ fresh' \subseteq Newcomers
  BY <1>2, <1>3, TypesGive
<1>5. /\ s \in Stores /\ s.ses = store.ses /\ s.closing = store.closing /\ s.eff = store.eff
      /\ HasTerminal(s, unshelved)
  BY AskedIs
<1> HIDE DEF s
<1> QED BY <1>1, <1>2, <1>3, <1>4, <1>5, UserRemoves

\* cancel_pending_close
LEMMA CancelStep == ASSUME StoreIInv, CancelPendingClose PROVE StoreIInv'
<1>1. /\ record' = record /\ shut' = shut /\ stream' = stream /\ link' = link /\ list' = list
      /\ answer' = answer /\ outdated' = outdated /\ watch' = watch /\ unshelved' = unshelved
  BY DEF CancelPendingClose, Clicked, engineVars, watch
<1>2. shelved' = shelved /\ fresh' = fresh /\ store' = [store EXCEPT !.asked = NoId]
  BY DEF CancelPendingClose
<1>3. shelved' \subseteq Ids /\ fresh' \subseteq Newcomers
  BY <1>2, TypesGive
<1>4. /\ store' \in Stores /\ store'.ses = store.ses /\ store'.closing = store.closing
      /\ store'.eff = store.eff /\ HasTerminal(store', unshelved)
  BY <1>2, AskedIs
<1>5. More(store.eff, store'.eff)
  BY <1>4, MoreItself, TypesGive
<1> QED BY <1>1, <1>3, <1>4, <1>5, UserSame

\* A request and nothing else: SpawnSession and ReopenLast.
LEMMA EmitStep ==
  ASSUME StoreIInv, NEW op, NEW id, Effect(op, id) \in Effs,
         record' = record, shut' = shut, stream' = stream, link' = link, list' = list, answer' = answer,
         outdated' = outdated, watch' = watch, unshelved' = unshelved, shelved' = shelved, fresh' \subseteq Newcomers,
         store' = Emit(store, op, id)
  PROVE  StoreIInv'
<1> DEFINE t == Emit(store, op, id)
<1>1. Keeps(store, t) /\ t.sel = store.sel /\ t.res = store.res
  BY TypesGive, EmitIs
<1>2. store' = t
  OBVIOUS
<1> HIDE DEF t
<1>3. t.ses = store.ses /\ t \in Stores
  BY <1>1 DEF Keeps
<1>4. Active(t, t.sel) <=> Active(store, store.sel)
  BY <1>1, <1>3, ActiveSame
<1>5. HasTerminal(t, unshelved)
  BY <1>1, <1>4, TypesGive, Zenon DEF HasTerminal
<1>6. shelved' \subseteq Ids
  BY TypesGive
<1> QED BY <1>1, <1>2, <1>3, <1>5, <1>6, UserKeeps

\* A session is asked for.
LEMMA SpawnSessionStep == ASSUME StoreIInv, NEW id \in Ids, SpawnSession(id) PROVE StoreIInv'
<1>1. /\ record' = record /\ shut' = shut /\ stream' = stream /\ link' = link /\ list' = list
      /\ answer' = answer /\ outdated' = outdated /\ watch' = watch /\ unshelved' = unshelved
  BY DEF SpawnSession, Clicked, engineVars, watch
<1>2. shelved' = shelved /\ fresh' = fresh \ {id} /\ store' = Emit(store, "spawn", id)
  BY DEF SpawnSession
<1>3. fresh' \subseteq Newcomers /\ Effect("spawn", id) \in Effs
  BY <1>2, TypesGive, EffKinds
<1> QED BY <1>1, <1>2, <1>3, EmitStep

\* The session closed last is asked for again.
LEMMA ReopenLastStep == ASSUME StoreIInv, ReopenLast PROVE StoreIInv'
<1>1. /\ record' = record /\ shut' = shut /\ stream' = stream /\ link' = link /\ list' = list
      /\ answer' = answer /\ outdated' = outdated /\ watch' = watch /\ unshelved' = unshelved
  BY DEF ReopenLast, Clicked, engineVars, watch
<1>2. shelved' = shelved /\ fresh' = fresh /\ store' = Emit(store, "reopen", NoId)
  BY DEF ReopenLast
<1>3. fresh' \subseteq Newcomers /\ Effect("reopen", NoId) \in Effs
  BY <1>2, TypesGive DEF Effs
<1> QED BY <1>1, <1>2, <1>3, EmitStep

\* A record is not the absence of one.
LEMMA RecordIs ==
  ASSUME NEW r \in Records
  PROVE  r # None /\ r \in Recs /\ \A b \in BOOLEAN : [r EXCEPT !.arch = b] \in Records
<1>1. r \in Recs /\ \A b \in BOOLEAN : [r EXCEPT !.arch = b] \in Records
  BY DEF Recs, Records
<1>2. r.st \in States /\ None.st = "none" /\ "none" \notin States
  BY DEF Records, None, States
<1> QED BY <1>1, <1>2

\* The archive stamp of a row is set.
LEMMA StampIs ==
  ASSUME NEW s \in Stores, NEW id \in Ids, Present(s, id), NEW b \in BOOLEAN
  PROVE  LET t == [s EXCEPT !.ses[id].arch = b]
         IN /\ t \in Stores /\ t.closing = s.closing /\ t.eff = s.eff /\ t.sel = s.sel /\ t.res = s.res
            /\ \A x \in Ids : x # id => t.ses[x] = s.ses[x]
            /\ t.ses[id] # None
<1> DEFINE r == [s.ses[id] EXCEPT !.arch = b]  f == [s.ses EXCEPT ![id] = r]  t == [s EXCEPT !.ses[id].arch = b]
<1>1. s.ses \in [Ids -> Recs] /\ s.ses[id] \in Records
  BY StoreFields DEF Present, Recs
<1>2. r \in Records
  BY <1>1, RecordIs
<1>3. t = [s EXCEPT !.ses = f]
  BY <1>1 DEF Stores
<1> HIDE DEF r, t
<1>4. r \in Recs /\ r # None
  BY <1>2, RecordIs
<1>5. f \in [Ids -> Recs] /\ f[id] = r /\ \A x \in Ids : x # id => f[x] = s.ses[x]
  BY <1>1, <1>4
<1> HIDE DEF f
<1>6. StoreIs(t, f, s.sel, s.res, s.closing, s.tried, s.asked, s.eff)
  BY <1>3, <1>5, StoreField
<1> QED BY <1>4, <1>5, <1>6 DEF StoreIs, t

\* archive_sessions
LEMMA ArchiveSessionStep == ASSUME StoreIInv, NEW id \in Ids, ArchiveSession(id) PROVE StoreIInv'
<1> DEFINE l == Left(store, id)  a == [l EXCEPT !.ses[id].arch = TRUE]  t == Emit(a, "archive", id)
<1>1. /\ record' = record /\ shut' = shut /\ stream' = stream /\ link' = link /\ list' = list
      /\ answer' = answer /\ outdated' = outdated /\ watch' = watch /\ unshelved' = unshelved
  BY DEF ArchiveSession, Clicked, engineVars, watch
<1>2. Active(store, id) /\ shelved' = shelved \cup {id} /\ fresh' = fresh
  BY DEF ArchiveSession
<1>3. store' = t
  BY DEF ArchiveSession, Left
<1>4. shelved' \subseteq Ids /\ fresh' \subseteq Newcomers /\ store.ses[id] # None
  BY <1>2, TypesGive DEF Active, Present
<1>5. Keeps(store, l) /\ l.sel # id
  BY TypesGive, LeftIs, Zenon
<1>6. l.sel \in Ids /\ Active(store, l.sel) /\ l.sel \notin unshelved => l.res = l.sel
  BY TypesGive, LeftTerminal, Zenon
<1> HIDE DEF l
<1>7. l \in Stores /\ l.ses = store.ses /\ l.closing = store.closing /\ Present(l, id) /\ More(store.eff, l.eff)
  BY <1>4, <1>5 DEF Keeps, Present
<1>8. /\ a \in Stores /\ a.closing = l.closing /\ a.eff = l.eff /\ a.sel = l.sel /\ a.res = l.res
      /\ \A x \in Ids : x # id => a.ses[x] = l.ses[x]
      /\ a.ses[id] # None
  BY <1>7, StampIs
<1> HIDE DEF a
<1>9. Keeps(a, t) /\ t.sel = a.sel /\ t.res = a.res /\ In(t.eff, "archive", id)
  BY <1>8, EmitIs, EffKinds
<1> HIDE DEF t
<1>10. store' \in Stores /\ store'.closing = store.closing /\ store'.ses = a.ses /\ More(store.eff, store'.eff)
  <2>1. t \in Stores /\ t.closing = store.closing /\ t.ses = a.ses
    BY <1>7, <1>8, <1>9 DEF Keeps
  <2>2. More(store.eff, l.eff) /\ More(l.eff, t.eff) /\ store.eff \in Seq(Effs)
    BY <1>7, <1>8, <1>9, TypesGive DEF Keeps
  <2>3. More(store.eff, t.eff)
    BY <2>2, MoreOn
  <2> QED BY <1>3, <2>1, <2>3
<1>11. Owed(store'.eff, id)
  BY <1>3, <1>9 DEF Owed, Answered
<1>12. \A x \in Ids : \/ store'.ses[x] = store.ses[x]
                      \/ store.ses[x] # None /\ store'.ses[x] # None /\ Owed(store'.eff, x)
  BY <1>4, <1>7, <1>8, <1>10, <1>11
<1>13. HasTerminal(store', unshelved)
  <2>1. SUFFICES ASSUME store'.sel \in Ids, Active(store', store'.sel), store'.sel \notin unshelved
                 PROVE  store'.res = store'.sel
    BY DEF HasTerminal
  <2>2. store'.sel = l.sel /\ store'.res = l.res
    BY <1>3, <1>8, <1>9
  <2>3. store'.ses[l.sel] = store.ses[l.sel]
    BY <1>5, <1>7, <1>8, <1>10, <2>1, <2>2
  <2>4. Active(store, l.sel)
    BY <2>1, <2>2, <2>3 DEF Active, Present
  <2> QED BY <1>6, <2>1, <2>2, <2>4
<1> QED BY <1>1, <1>4, <1>10, <1>12, <1>13, UserStep

\* revive_sessions: the request to focus is answered even if the resume fails.
LEMMA ReviveSessionStep == ASSUME StoreIInv, NEW id \in Ids, ReviveSession(id) PROVE StoreIInv'
<1> DEFINE op == IF id \notin Shells /\ store.ses[id].st # "live" THEN "resume" ELSE "unarchive"
           a == [store EXCEPT !.ses[id].arch = FALSE]  u == Emit(a, op, id)  t == Focus(u, id)
<1>1. /\ record' = record /\ shut' = shut /\ stream' = stream /\ link' = link /\ list' = list
      /\ answer' = answer /\ outdated' = outdated /\ watch' = watch /\ unshelved' = unshelved
  BY DEF ReviveSession, Clicked, engineVars, watch
<1>2. Present(store, id) /\ shelved' = shelved \ {id} /\ fresh' = fresh
  BY DEF ReviveSession
<1>3. store' = t
  BY DEF ReviveSession
<1>4. shelved' \subseteq Ids /\ fresh' \subseteq Newcomers /\ store.ses[id] # None
  BY <1>2, TypesGive DEF Present
<1>5. op \in {"resume", "unarchive"}
  OBVIOUS
<1> HIDE DEF op
<1>6. /\ a \in Stores /\ a.closing = store.closing /\ a.eff = store.eff
      /\ \A x \in Ids : x # id => a.ses[x] = store.ses[x]
      /\ a.ses[id] # None
  BY <1>2, TypesGive, StampIs
<1>7. a.ses[id].arch = FALSE
  <2>1. store \in Stores /\ store.ses[id] \in Records
    BY <1>4, TypesGive DEF Recs
  <2>2. a.ses[id] = [store.ses[id] EXCEPT !.arch = FALSE]
    BY <2>1 DEF Stores
  <2> QED BY <2>1, <2>2 DEF Records
<1> HIDE DEF a
<1>8. Keeps(a, u) /\ u \in Stores
  <2>1. Effect(op, id) \in Effs
    BY <1>5, EffKinds
  <2> QED BY <1>6, <2>1, EmitIs DEF Keeps
<1> HIDE DEF u
<1>9. Active(u, id)
  BY <1>6, <1>7, <1>8 DEF Keeps, Active, Present
<1>10. Keeps(u, t) /\ HasTerminal(t, unshelved) /\ In(t.eff, "seen", id)
  BY <1>8, <1>9, FocusIs, FocusTerminal
<1> HIDE DEF t
<1>11. Keeps(a, t)
  BY <1>6, <1>8, <1>10, KeepsOn
<1>12. store' \in Stores /\ store'.closing = store.closing /\ store'.ses = a.ses /\ More(store.eff, store'.eff)
  BY <1>3, <1>6, <1>11 DEF Keeps
<1>13. Owed(store'.eff, id)
  BY <1>3, <1>10 DEF Owed, Answered
<1>14. \A x \in Ids : \/ store'.ses[x] = store.ses[x]
                      \/ store.ses[x] # None /\ store'.ses[x] # None /\ Owed(store'.eff, x)
  BY <1>4, <1>6, <1>12, <1>13
<1>15. HasTerminal(store', unshelved)
  BY <1>3, <1>10
<1> QED BY <1>1, <1>4, <1>12, <1>14, <1>15, UserStep

-----------------------------------------------------------------------------
(* The Engine.                                                             *)

\* The records change where the Engine says so, and the change is an event.
LEMMA BecomeIs ==
  ASSUME StoreIInv, NEW id \in Ids, NEW r \in Recs, Become(id, r)
  PROVE  /\ record' = [record EXCEPT ![id] = r] /\ record' \in [Ids -> Recs] /\ record'[id] = r
         /\ \A x \in Ids : x # id => record'[x] = record[x]
         /\ stream' \in Seq(Told) /\ [id |-> id, rec |-> r] \in Told
         /\ stream' = IF link THEN Append(stream, [id |-> id, rec |-> r]) ELSE stream
<1>1. record' = [record EXCEPT ![id] = r] /\ record \in [Ids -> Recs] /\ stream \in Seq(Told)
  BY TypesGive DEF Become
<1>2. record' \in [Ids -> Recs] /\ record'[id] = r /\ \A x \in Ids : x # id => record'[x] = record[x]
  BY <1>1
<1>3. [id |-> id, rec |-> r] \in Told
  BY DEF Told
<1>4. stream' = IF link THEN Append(stream, [id |-> id, rec |-> r]) ELSE stream
  BY <1>2 DEF Become, Publish, Send, Event
<1> QED BY <1>1, <1>2, <1>3, <1>4

\* An event is sent.  It is true of its session, or that one is not sure; no other becomes so.  The store may
\* lose a request for this session, which the event answers, and none for another.
LEMMA SendStep ==
  ASSUME StoreIInv, NEW id \in Ids, NEW r \in Recs,
         stream' = IF link THEN Append(stream, [id |-> id, rec |-> r]) ELSE stream,
         record' \in [Ids -> Recs], \A x \in Ids : x # id => record'[x] = record[x],
         WatchTypes', \A x \in Sure' : x # id => x \in Sure, id \in Sure' => record'[id] = r, astray \subseteq astray',
         link' = link, list' = list, outdated' = outdated, unshelved' = unshelved,
         shelved' \subseteq Ids, fresh' = fresh, shut' \in Seq([id : Ids, rec : Records]), AnswerTypes',
         store' \in Stores, store'.ses = store.ses, store'.closing = store.closing,
         store'.sel = store.sel, store'.res = store.res,
         \A x \in Ids : x # id /\ Owed(store.eff, x) => Owed(store'.eff, x),
         \A x \in Ids : In(store.eff, "remove", x) => In(store'.eff, "remove", x) \/ (x = id /\ r = None)
  PROVE  StoreIInv'
<1> DEFINE e == [id |-> id, rec |-> r]
<1>1. /\ record' \in [Ids -> Recs] /\ (id \in Sure' => record'[id] = r)
      /\ \A x \in Ids : x # id => record'[x] = record[x]
      /\ stream' \in Seq(Told) /\ e \in Told /\ e.id = id
      /\ stream' = IF link THEN Append(stream, e) ELSE stream
  <2>1. stream \in Seq(Told) /\ e \in Told /\ e.id = id
    BY TypesGive DEF Told
  <2>2. stream' = IF link THEN Append(stream, e) ELSE stream
    OBVIOUS
  <2> HIDE DEF e
  <2> QED BY <2>1, <2>2
<1>0. \A x \in Sure' : x \in Ids /\ (x # id => x \in Sure)
  BY DEF Sure
<1>2. ASSUME NEW q \in Seq(Told), NEW x \in Sure', NEW c, NEW d,
             x # id => WayOf(q, x, record[x], c), x # id => (c => d)
      PROVE  WayOf(Append(q, e), x, record'[x], d)
  <2>1. CASE x = id
    <3>1. record'[x] = r
      BY <1>1, <2>1
    <3> QED BY <2>1, <3>1, WaySame
  <2>2. CASE x # id
    <3>1. e.id # x /\ record'[x] = record[x] /\ record'[x] \in Recs /\ x \in Ids
      BY <1>0, <1>1, <2>2
    <3> HIDE DEF e
    <3> QED BY <1>1, <1>2, <2>2, <3>1, WayOther
  <2> QED BY <2>1, <2>2
<1> HIDE DEF e
<1>3. ASSUME link PROVE stream' = Append(stream, e)
  BY <1>1, <1>3
<1>4. stream \in Seq(Told) /\ store \in Stores
  BY TypesGive
<1>5. RecordTypes'
  BY <1>1, Zenon DEF RecordTypes
<1>6. LinkTypes'
  BY StoreStays, Zenon
<1>7. ListTypes'
  <2>1. Len(stream) <= Len(stream')
    BY <1>1, <1>4
  <2>2. Len(stream) \in Nat /\ Len(stream') \in Nat
    BY <1>1, <1>4
  <2>3. ListIs(list, stream)
    BY Zenon DEF StoreIInv, ListTypes
  <2> QED BY <2>1, <2>2, <2>3 DEF ListTypes, ListIs
<1>8. StoreTypes'
  BY Zenon DEF StoreIInv, StoreTypes
<1>9. StreamTrue'
  <2> SUFFICES ASSUME link', NEW x \in Sure' PROVE WayOf(stream', x, record'[x], TRUE)
    BY DEF StreamTrue
  <2>1. link
    BY Zenon
  <2>2. x # id => WayOf(stream, x, record[x], TRUE)
    BY <1>0, <2>1, Zenon DEF StoreIInv, StreamTrue
  <2>3. WayOf(Append(stream, e), x, record'[x], TRUE)
    BY <1>2, <1>4, <2>2
  <2> QED BY <1>3, <2>1, <2>3
<1>10. ListTrue'
  <2> SUFFICES ASSUME link', ~outdated', list' \notin {NoList, Asked}, NEW x \in Sure'
               PROVE  WayOf(After(stream', list'.behind), x, record'[x], list'.rows[x] = record'[x])
    BY DEF ListTrue
  <2>1. link /\ ~outdated
    BY Zenon
  <2> DEFINE m == list.behind  q == After(stream, m)
  <2>2. x # id => WayOf(q, x, record[x], list.rows[x] = record[x])
    BY <1>0, <2>1 DEF StoreIInv, ListTrue
  <2>3. m \in Nat /\ m <= Len(stream)
    BY DEF StoreIInv, ListTypes, ListIs
  <2> HIDE DEF m
  <2>4. q \in Seq(Told) /\ After(Append(stream, e), m) = Append(q, e)
    BY <1>1, <1>4, <2>3, AfterIs, AfterAppend
  <2> HIDE DEF q
  <2>5. WayOf(Append(q, e), x, record'[x], list.rows[x] = record'[x])
    <3>1. x # id => record'[x] = record[x]
      BY <1>0, <1>1
    <3> QED BY <1>2, <2>2, <2>4, <3>1
  <2>6. stream' = Append(stream, e) /\ list' = list
    BY <1>3, <2>1
  <2> QED BY <2>4, <2>5, <2>6 DEF m
<1>11. StoreTrue'
  <2> SUFFICES ASSUME Listed', NEW x \in Sure'
               PROVE  WayOf(stream', x, record'[x], Right(store'.ses, store'.eff, x, record'[x]))
    BY DEF StoreTrue
  <2>1. Listed /\ link
    BY Zenon DEF Listed
  <2>2. x # id => WayOf(stream, x, record[x], Right(store.ses, store.eff, x, record[x]))
    BY <1>0, <2>1, Zenon DEF StoreIInv, StoreTrue
  <2>3. x # id => (Right(store.ses, store.eff, x, record[x]) => Right(store'.ses, store'.eff, x, record'[x]))
    BY <1>0, <1>1 DEF Right
  <2>4. WayOf(Append(stream, e), x, record'[x], Right(store'.ses, store'.eff, x, record'[x]))
    BY <1>2, <1>4, <2>2, <2>3
  <2> QED BY <1>3, <2>1, <2>4
<1>12. ClosingKnown'
  BY Zenon DEF StoreIInv, ClosingKnown
<1>13. ClosingEnds'
  <2> SUFFICES ASSUME Listed', NEW x \in store'.closing
               PROVE  x \in astray' \/ In(store'.eff, "remove", x) \/ Gone(stream', x)
    BY DEF ClosingEnds
  <2>1. Listed /\ link
    BY Zenon DEF Listed
  <2>2. x \in store.closing /\ x \in Ids
    BY <1>4, StoreFields
  <2>3. x \in astray \/ In(store.eff, "remove", x) \/ Gone(stream, x)
    BY <2>1, <2>2, Zenon DEF StoreIInv, ClosingEnds
  <2>4. stream' = Append(stream, e)
    BY <1>3, <2>1
  <2>5. /\ Gone(stream, x) => Gone(Append(stream, e), x)
        /\ x = id /\ r = None => Gone(Append(stream, e), x)
    BY <1>1, <1>4, GoneAppend DEF e
  <2> QED BY <2>2, <2>3, <2>4, <2>5
<1>14. Attached'
  <2>1. Active(store', store.sel) <=> Active(store, store.sel)
    BY ActiveSame
  <2>2. HasTerminal(store, unshelved)
    BY TypesGive
  <2> QED BY <2>1, <2>2, Zenon DEF Attached, HasTerminal
<1> QED BY <1>5, <1>6, <1>7, <1>8, <1>9, <1>10, <1>11, <1>12, <1>13, <1>14, Zenon DEF StoreIInv

\* What a request does to the watch: a session it leaves a process to may be watched.
Rewatched(id, r) ==
  /\ noted \ {id} \subseteq noted' /\ noted' \subseteq noted \cup {id} /\ (id \in noted' => r # None)
  /\ copies' = copies /\ astray' = astray

\* A request is served: the change and the event are one.
LEMMA BecomeStep ==
  ASSUME StoreIInv, NEW id \in Ids, NEW r \in Recs, Become(id, r), Rewatched(id, r),
         link' = link, list' = list, outdated' = outdated, unshelved' = unshelved,
         shelved' \subseteq Ids, fresh' = fresh, shut' \in Seq([id : Ids, rec : Records]), AnswerTypes',
         store' \in Stores, store'.ses = store.ses, store'.closing = store.closing,
         store'.sel = store.sel, store'.res = store.res,
         \A x \in Ids : x # id /\ Owed(store.eff, x) => Owed(store'.eff, x),
         \A x \in Ids : In(store.eff, "remove", x) => In(store'.eff, "remove", x) \/ (x = id /\ r = None)
  PROVE  StoreIInv'
<1>1. /\ record' \in [Ids -> Recs] /\ record'[id] = r
      /\ \A x \in Ids : x # id => record'[x] = record[x]
      /\ stream' = IF link THEN Append(stream, [id |-> id, rec |-> r]) ELSE stream
  BY BecomeIs
<1>2. WatchTypes'
  <2>1. noted' \subseteq Ids /\ astray' \subseteq Ids /\ copies' \subseteq [id : Ids, rec : Records]
    BY TypesGive DEF Rewatched
  <2>2. ASSUME NEW x \in noted' PROVE record'[x] # None
    <3>1. CASE x = id
      BY <1>1, <2>2, <3>1 DEF Rewatched
    <3>2. CASE x # id
      <4>1. x \in noted /\ x \in Ids
        BY <2>1, <2>2, <3>2 DEF Rewatched
      <4> QED BY <1>1, <3>2, <4>1 DEF StoreIInv, WatchTypes
    <3> QED BY <3>1, <3>2
  <2> QED BY <2>1, <2>2 DEF WatchTypes
<1>3. \A x \in Sure' : x # id => x \in Sure
  <2> SUFFICES ASSUME NEW x \in Sure', x # id PROVE x \in Sure
    OBVIOUS
  <2>1. x \in Ids /\ x \notin astray' /\ x \notin noted' /\ Event(x, record'[x]) \notin copies'
    BY DEF Sure, Awaited
  <2>2. record'[x] = record[x] /\ copies' = copies /\ astray' = astray /\ x \notin noted
    BY <1>1, <2>1 DEF Rewatched
  <2> QED BY <2>1, <2>2, Zenon DEF Sure, Awaited
<1>4. astray \subseteq astray'
  BY DEF Rewatched
<1> QED BY <1>1, <1>2, <1>3, <1>4, SendStep

\* How a session that ends stands.
LEMMA EndedIs ==
  ASSUME NEW id, record[id] \in Records
  PROVE  /\ \A st \in Ends(id) : [record[id] EXCEPT !.st = st] \in Records
         /\ [record[id] EXCEPT !.st = "live"] \in Records
         /\ [record[id] EXCEPT !.st = WrittenOff(id)] \in Records
         /\ \A r \in Terminated(id) : r \in Records
<1>1. Ends(id) \subseteq States /\ WrittenOff(id) \in States /\ "live" \in States
  BY DEF Ends, States, WrittenOff
<1>2. \A st \in States : [record[id] EXCEPT !.st = st] \in Records
  BY DEF Records
<1>3. \A r \in Terminated(id) : r = record[id] \/ \E st \in Ends(id) : r = [record[id] EXCEPT !.st = st]
  BY DEF Terminated
<1> QED BY <1>1, <1>2, <1>3

\* registry.archive, unarchive and remove, as a change of one record.
LEMMA EngineMoves ==
  ASSUME StoreIInv, NEW id \in Ids, record[id] # None
  PROVE  /\ record[id] \in Records
         /\ ArchiveAt(id) => noted' = noted \ {id} /\ \E r \in Recs : Become(id, r)
         /\ UnarchiveAt(id) => noted' = noted /\ \E r \in Records : Become(id, r)
         /\ RemoveAt(id) => noted' = noted \ {id} /\ Become(id, None) /\ shut' \in Seq([id : Ids, rec : Records])
         /\ \A st \in Ends(id) : [record[id] EXCEPT !.st = st] \in Recs
         /\ [record[id] EXCEPT !.st = "live"] \in Recs
<1>1. record[id] \in Records /\ shut \in Seq([id : Ids, rec : Records])
  BY TypesGive DEF Recs
<1>2. ASSUME ArchiveAt(id) PROVE noted' = noted \ {id} /\ \E r \in Recs : Become(id, r)
  <2>1. PICK r \in Terminated(id) : Become(id, [r EXCEPT !.arch = TRUE])
    BY <1>2 DEF ArchiveAt
  <2>2. r \in Records
    BY <1>1, EndedIs
  <2>3. [r EXCEPT !.arch = TRUE] \in Recs
    BY <2>2, RecordIs DEF Recs
  <2> QED BY <1>2, <2>1, <2>3 DEF ArchiveAt
<1>3. ASSUME UnarchiveAt(id) PROVE noted' = noted /\ \E r \in Records : Become(id, r)
  <2>1. [record[id] EXCEPT !.arch = FALSE] \in Records
    BY <1>1, RecordIs
  <2> QED BY <1>3, <2>1 DEF UnarchiveAt
<1>4. ASSUME RemoveAt(id)
      PROVE  noted' = noted \ {id} /\ Become(id, None) /\ shut' \in Seq([id : Ids, rec : Records])
  <2>1. PICK r \in Terminated(id) : shut' = Append(shut, [id |-> id, rec |-> r])
    BY <1>4 DEF RemoveAt, Event
  <2>2. [id |-> id, rec |-> r] \in [id : Ids, rec : Records]
    BY <1>1, EndedIs
  <2>3. noted' = noted \ {id} /\ Become(id, None)
    BY <1>4 DEF RemoveAt
  <2> QED BY <1>1, <2>1, <2>2, <2>3
<1>5. \A st \in Ends(id) : [record[id] EXCEPT !.st = st] \in Recs
  BY <1>1, EndedIs DEF Recs
<1>6. [record[id] EXCEPT !.st = "live"] \in Recs
  BY <1>1, EndedIs DEF Recs
<1> QED BY <1>1, <1>2, <1>3, <1>4, <1>5, <1>6

\* The absence of a record.
LEMMA NoneIs == None \in Recs
  BY DEF Recs

\* A session that is watched has no true event yet.
LEMMA AgentStep ==
  ASSUME StoreIInv, NEW id \in Ids, record[id] # None, AgentMoves(id),
         link' = link, list' = list, store' = store, answer' = answer, outdated' = outdated,
         unshelved' = unshelved, fresh' = fresh, copies' = copies, astray' = astray
  PROVE  StoreIInv'
<1>1. shut' = shut /\ stream' = stream /\ shelved' = shelved /\ noted' = noted \cup {id}
  BY DEF AgentMoves
<1>2. PICK st \in Ends(id) \cup {"live"} : record' = [record EXCEPT ![id].st = st]
  BY DEF AgentMoves
<1>3. record \in [Ids -> Recs] /\ record[id] \in Records /\ [record[id] EXCEPT !.st = st] \in Records
  <2>1. record \in [Ids -> Recs] /\ record[id] \in Records
    BY TypesGive DEF Recs
  <2> QED BY <2>1, EndedIs
<1>4. /\ record' \in [Ids -> Recs] /\ record'[id] \in Records
      /\ \A x \in Ids : x # id => record'[x] = record[x]
  <2>1. record' = [record EXCEPT ![id] = [record[id] EXCEPT !.st = st]]
    BY <1>2
  <2> QED BY <1>3, <2>1 DEF Recs
<1>5. RecordTypes'
  BY <1>1, <1>4, TypesGive DEF RecordTypes
<1>6. LinkTypes' /\ ListTypes' /\ StoreTypes' /\ AnswerTypes' /\ ClosingKnown' /\ Attached'
  BY <1>1, StoreStays, Zenon
<1>7. WatchTypes'
  <2>1. noted' \subseteq Ids /\ astray' \subseteq Ids /\ copies' \subseteq [id : Ids, rec : Records]
    BY <1>1, TypesGive
  <2>2. record'[id] # None
    BY <1>4, RecordIs
  <2>3. \A x \in noted : record[x] # None
    BY DEF StoreIInv, WatchTypes
  <2> QED BY <1>1, <1>4, <2>1, <2>2, <2>3 DEF WatchTypes
<1>8. \A x \in Sure' : x \in Sure /\ x \in Ids /\ record'[x] = record[x]
  <2> SUFFICES ASSUME NEW x \in Sure' PROVE x \in Sure /\ x \in Ids /\ record'[x] = record[x]
    OBVIOUS
  <2>1. x \in Ids /\ x \notin astray' /\ x \notin noted' /\ Event(x, record'[x]) \notin copies'
    BY DEF Sure, Awaited
  <2>2. x \notin astray /\ x \notin noted /\ x # id
    BY <1>1, <2>1
  <2>3. record'[x] = record[x]
    BY <1>4, <2>1, <2>2
  <2> QED BY <2>1, <2>2, <2>3, Zenon DEF Sure, Awaited
<1>9. StreamTrue'
  BY <1>1, <1>8 DEF StoreIInv, StreamTrue
<1>10. ListTrue'
  <2> SUFFICES ASSUME link', ~outdated', list' \notin {NoList, Asked}, NEW x \in Sure'
               PROVE  WayOf(After(stream', list'.behind), x, record'[x], list'.rows[x] = record'[x])
    BY DEF ListTrue
  <2>1. link /\ ~outdated
    BY Zenon
  <2>2. WayOf(After(stream, list.behind), x, record[x], list.rows[x] = record[x])
    BY <1>8, <2>1 DEF StoreIInv, ListTrue
  <2>3. record'[x] = record[x]
    BY <1>8
  <2> QED BY <1>1, <2>2, <2>3
<1>11. Listed' => Listed
  BY Zenon DEF Listed
<1>12. StoreTrue'
  <2> SUFFICES ASSUME Listed', NEW x \in Sure'
               PROVE  WayOf(stream', x, record'[x], Right(store'.ses, store'.eff, x, record'[x]))
    BY DEF StoreTrue
  <2>1. WayOf(stream, x, record[x], Right(store.ses, store.eff, x, record[x]))
    BY <1>8, <1>11, Zenon DEF StoreIInv, StoreTrue
  <2>2. record'[x] = record[x]
    BY <1>8
  <2> QED BY <1>1, <2>1, <2>2
<1>13. ClosingEnds'
  BY <1>1, <1>11 DEF StoreIInv, ClosingEnds
<1> QED BY <1>5, <1>6, <1>7, <1>9, <1>10, <1>12, <1>13, Zenon DEF StoreIInv

\* An agent moves, or another client acts.
LEMMA ChangeStep == ASSUME StoreIInv, Change PROVE StoreIInv'
<1>1. /\ link' = link /\ list' = list /\ store' = store /\ answer' = answer /\ outdated' = outdated
      /\ unshelved' = unshelved /\ fresh' = fresh /\ copies' = copies /\ astray' = astray
  BY DEF Change
<1>2. PICK id \in Ids :
       /\ record[id] # None
       /\ \/ AgentMoves(id)
          \/ /\ shelved' = shelved \ {id}
             /\ \/ ArchiveAt(id) /\ UNCHANGED shut
                \/ record[id].arch /\ UnarchiveAt(id) /\ UNCHANGED shut
                \/ RemoveAt(id)
  BY DEF Change
<1>3. CASE AgentMoves(id)
  BY <1>1, <1>2, <1>3, AgentStep
<1>4. CASE /\ shelved' = shelved \ {id}
           /\ \/ ArchiveAt(id) /\ UNCHANGED shut
              \/ record[id].arch /\ UnarchiveAt(id) /\ UNCHANGED shut
              \/ RemoveAt(id)
  <2>1. shelved' \subseteq Ids
    BY <1>4, TypesGive
  <2>2. shut' = shut => shut' \in Seq([id : Ids, rec : Records])
    BY TypesGive
  <2>3. \E r \in Recs : Become(id, r) /\ Rewatched(id, r) /\ shut' \in Seq([id : Ids, rec : Records])
    <3>1. CASE ArchiveAt(id) /\ shut' = shut
      BY <1>1, <1>2, <2>2, <3>1, EngineMoves DEF Rewatched
    <3>2. CASE UnarchiveAt(id) /\ shut' = shut
      <4>1. PICK r \in Records : noted' = noted /\ Become(id, r)
        BY <1>2, <3>2, EngineMoves
      <4>2. r \in Recs /\ r # None
        BY RecordIs DEF Recs
      <4>3. Rewatched(id, r)
        BY <1>1, <4>1, <4>2 DEF Rewatched
      <4> QED BY <2>2, <3>2, <4>1, <4>2, <4>3
    <3>3. CASE RemoveAt(id)
      <4>1. noted' = noted \ {id} /\ Become(id, None) /\ shut' \in Seq([id : Ids, rec : Records])
        BY <1>2, <3>3, EngineMoves
      <4>2. Rewatched(id, None)
        BY <1>1, <4>1 DEF Rewatched
      <4> QED BY <4>1, <4>2, NoneIs
    <3> QED BY <1>4, <3>1, <3>2, <3>3
  <2>4. PICK r \in Recs : Become(id, r) /\ Rewatched(id, r) /\ shut' \in Seq([id : Ids, rec : Records])
    BY <2>3
  <2>5. AnswerTypes'
    BY <1>1, StoreStays, Zenon
  <2>6. /\ store' \in Stores /\ store'.ses = store.ses /\ store'.closing = store.closing
        /\ store'.sel = store.sel /\ store'.res = store.res /\ store'.eff = store.eff
    BY <1>1, TypesGive
  <2> QED BY <1>1, <2>1, <2>4, <2>5, <2>6, BecomeStep
<1> QED BY <1>2, <1>3, <1>4

\* Without a connection nothing is promised.
LEMMA ApartStep ==
  ASSUME RecordTypes', LinkTypes', ListTypes', StoreTypes', AnswerTypes', WatchTypes', ClosingKnown', Attached', ~link'
  PROVE  StoreIInv'
<1>1. StreamTrue' /\ ListTrue'
  BY Zenon DEF StreamTrue, ListTrue
<1>2. StoreTrue' /\ ClosingEnds'
  BY Zenon DEF StoreTrue, ClosingEnds, Listed
<1> QED BY <1>1, <1>2, Zenon DEF StoreIInv

\* The watcher copies what has changed.
LEMMA CollectStep == ASSUME StoreIInv, Collect PROVE StoreIInv'
<1>1. /\ record' = record /\ shut' = shut /\ stream' = stream /\ link' = link /\ list' = list
      /\ store' = store /\ answer' = answer /\ outdated' = outdated /\ astray' = astray
      /\ unshelved' = unshelved /\ shelved' = shelved /\ fresh' = fresh
  BY DEF Collect, ghosts
<1>2. copies = {} /\ noted' = {} /\ copies' = {Event(x, record[x]) : x \in noted}
  BY DEF Collect
<1>3. RecordTypes' /\ LinkTypes' /\ ListTypes' /\ StoreTypes' /\ AnswerTypes' /\ ClosingKnown' /\ Attached'
  BY <1>1, StoreStays, Zenon
<1>4. WatchTypes'
  <2>1. ASSUME NEW x \in noted PROVE Event(x, record[x]) \in [id : Ids, rec : Records]
    <3>1. x \in Ids /\ record[x] \in Recs /\ record[x] # None
      BY TypesGive DEF StoreIInv, WatchTypes
    <3>2. record[x] \in Records
      BY <3>1 DEF Recs
    <3> QED BY <3>1, <3>2 DEF Event
  <2>2. copies' \subseteq [id : Ids, rec : Records]
    BY <1>2, <2>1
  <2>3. astray' \subseteq Ids
    BY <1>1, TypesGive
  <2> QED BY <1>2, <2>2, <2>3 DEF WatchTypes
<1>5. \A x \in Sure' : x \in Sure
  <2> SUFFICES ASSUME NEW x \in Sure' PROVE x \in Sure
    OBVIOUS
  <2>1. x \in Ids /\ x \notin astray' /\ Event(x, record'[x]) \notin copies'
    BY DEF Sure, Awaited
  <2>2. x \notin noted
    BY <1>1, <1>2, <2>1
  <2>3. Event(x, record[x]) \notin copies
    BY <1>2
  <2> QED BY <1>1, <2>1, <2>2, <2>3, Zenon DEF Sure, Awaited
<1>6. StreamTrue'
  BY <1>1, <1>5, Zenon DEF StoreIInv, StreamTrue
<1>7. ListTrue'
  <2> SUFFICES ASSUME link', ~outdated', list' \notin {NoList, Asked}, NEW x \in Sure'
               PROVE  WayOf(After(stream', list'.behind), x, record'[x], list'.rows[x] = record'[x])
    BY DEF ListTrue
  <2>1. link /\ ~outdated
    BY <1>1, Zenon
  <2>2. WayOf(After(stream, list.behind), x, record[x], list.rows[x] = record[x])
    BY <1>1, <1>5, <2>1 DEF StoreIInv, ListTrue
  <2> QED BY <1>1, <2>2
<1>8. Listed' => Listed
  BY <1>1, Zenon DEF Listed
<1>9. StoreTrue'
  BY <1>1, <1>5, <1>8, Zenon DEF StoreIInv, StoreTrue
<1>10. ClosingEnds'
  BY <1>1, <1>8, Zenon DEF StoreIInv, ClosingEnds
<1> QED BY <1>3, <1>4, <1>6, <1>7, <1>9, <1>10, Zenon DEF StoreIInv

\* The watcher publishes a copy.
LEMMA PublishCopyStep == ASSUME StoreIInv, NEW e \in copies, PublishCopy(e) PROVE StoreIInv'
<1>1. /\ record' = record /\ shut' = shut /\ noted' = noted /\ link' = link /\ list' = list
      /\ store' = store /\ answer' = answer /\ outdated' = outdated /\ copies' = copies \ {e}
      /\ unshelved' = unshelved /\ shelved' = shelved /\ fresh' = fresh
  BY DEF PublishCopy
<1>2. astray' = IF link /\ e.rec # record[e.id] /\ e.id \notin noted THEN astray \cup {e.id} ELSE astray
  BY DEF PublishCopy
<1>3. e \in [id : Ids, rec : Records]
  BY TypesGive
<1>4. e.id \in Ids /\ e.rec \in Recs /\ e = [id |-> e.id, rec |-> e.rec]
  BY <1>3 DEF Recs
<1>5. stream' = IF link THEN Append(stream, [id |-> e.id, rec |-> e.rec]) ELSE stream
  BY <1>4 DEF PublishCopy, Send
<1>6. AnswerTypes' /\ LinkTypes' /\ StoreTypes' /\ ClosingKnown' /\ Attached'
  BY <1>1, StoreStays, Zenon
<1>7. WatchTypes'
  <2>1. noted' \subseteq Ids /\ astray' \subseteq Ids /\ copies' \subseteq [id : Ids, rec : Records]
    BY <1>1, <1>2, <1>4, TypesGive
  <2>2. \A x \in noted' : record'[x] # None
    BY <1>1, Zenon DEF StoreIInv, WatchTypes
  <2> QED BY <2>1, <2>2 DEF WatchTypes
<1>8. CASE link
  <2>1. \A x \in Sure' : x # e.id => x \in Sure
    <3> SUFFICES ASSUME NEW x \in Sure', x # e.id PROVE x \in Sure
      OBVIOUS
    <3>1. x \in Ids /\ x \notin astray' /\ x \notin noted' /\ Event(x, record'[x]) \notin copies'
      BY DEF Sure, Awaited
    <3>2. x \notin astray /\ x \notin noted
      BY <1>1, <1>2, <3>1
    <3>3. Event(x, record[x]) # e
      BY DEF Event
    <3>4. Event(x, record[x]) \notin copies
      BY <1>1, <3>1, <3>3
    <3> QED BY <3>1, <3>2, <3>4, Zenon DEF Sure, Awaited
  <2>2. ASSUME e.id \in Sure' PROVE record'[e.id] = e.rec
    <3>1. e.id \notin astray' /\ e.id \notin noted'
      BY <2>2 DEF Sure, Awaited
    <3> QED BY <1>1, <1>2, <1>8, <3>1
  <2>3. astray \subseteq astray'
    BY <1>2
  <2>4. /\ store' \in Stores /\ store'.ses = store.ses /\ store'.closing = store.closing
        /\ store'.sel = store.sel /\ store'.res = store.res /\ store'.eff = store.eff
        /\ shelved' \subseteq Ids /\ shut' \in Seq([id : Ids, rec : Records]) /\ record' \in [Ids -> Recs]
        /\ \A x \in Ids : x # e.id => record'[x] = record[x]
    BY <1>1, TypesGive
  <2>5. /\ \A x \in Ids : x # e.id /\ Owed(store.eff, x) => Owed(store'.eff, x)
        /\ \A x \in Ids : In(store.eff, "remove", x) =>
                           In(store'.eff, "remove", x) \/ (x = e.id /\ e.rec = None)
    BY <2>4
  <2> QED BY <1>1, <1>4, <1>5, <1>6, <1>7, <2>1, <2>2, <2>3, <2>4, <2>5, SendStep
<1>9. CASE ~link
  <2>1. stream' = stream /\ ~link'
    BY <1>1, <1>5, <1>9, Zenon
  <2>2. RecordTypes' /\ ListTypes'
    BY <1>1, <2>1, StoreStays, Zenon
  <2> QED BY <1>6, <1>7, <2>1, <2>2, ApartStep
<1> QED BY <1>8, <1>9

-----------------------------------------------------------------------------
(* The tasks.                                                              *)

\* The first request is done with.
LEMMA PoppedIs ==
  ASSUME StoreIInv, store.eff # <<>>
  PROVE  /\ StoreIs(Popped, store.ses, store.sel, store.res, store.closing, store.tried, store.asked,
                    Tail(store.eff))
         /\ HasTerminal(Popped, unshelved)
<1> DEFINE q == Tail(store.eff)
<1>1. q \in Seq(Effs)
  BY TypesGive
<1>2. Popped = [store EXCEPT !.eff = q]
  BY DEF Popped
<1> HIDE DEF q
<1>3. StoreIs(Popped, store.ses, store.sel, store.res, store.closing, store.tried, store.asked, q)
  BY <1>1, <1>2, TypesGive, StoreField
<1>4. Popped.ses = store.ses /\ Popped.sel = store.sel /\ Popped.res = store.res
  BY <1>3 DEF StoreIs
<1>5. Active(Popped, store.sel) <=> Active(store, store.sel)
  BY <1>4, ActiveSame
<1>6. HasTerminal(Popped, unshelved)
  BY <1>4, <1>5, TypesGive, Zenon DEF HasTerminal
<1> QED BY <1>3, <1>6 DEF q

\* A request is dropped.
LEMMA DropIs ==
  ASSUME StoreIInv, store.eff # <<>>, store' = Popped, unshelved' = unshelved, shelved' = shelved,
         fresh' = fresh, answer' = NoAnswer
  PROVE  StoreTypes' /\ AnswerTypes' /\ ClosingKnown' /\ Attached'
<1>1. /\ store' \in Stores /\ store'.ses = store.ses /\ store'.closing = store.closing
      /\ HasTerminal(store', unshelved)
  BY PoppedIs DEF StoreIs
<1>2. StoreTypes'
  BY <1>1, Zenon DEF StoreIInv, StoreTypes
<1>3. AnswerTypes'
  BY Zenon DEF AnswerTypes, AnswerIs
<1>4. ClosingKnown'
  BY <1>1, Zenon DEF StoreIInv, ClosingKnown
<1>5. Attached'
  BY <1>1, Zenon DEF Attached
<1> QED BY <1>2, <1>3, <1>4, <1>5

\* The connection is lost.
LEMMA CutStep == ASSUME StoreIInv, Cut PROVE StoreIInv'
<1>1. /\ ~link' /\ list' = NoList /\ shut' = shut /\ outdated' = outdated /\ unshelved' = unshelved
      /\ astray' = astray
      /\ shelved' = shelved /\ fresh' = fresh /\ (stream' = <<>> \/ stream' = stream) /\ answer' = NoAnswer
  BY DEF Cut, ghosts
<1>2. store' = IF answer = NoAnswer THEN store ELSE Popped
  BY DEF Cut
<1>3. \/ record' = record /\ noted' = noted /\ copies' = copies
      \/ Restarted
  BY DEF Cut
<1>7. ASSUME Restarted PROVE record' \in [Ids -> Recs] /\ noted' = LiveIds(record') /\ copies' = {}
  <2>1. PICK gone \in SUBSET LiveIds(record) :
          record' = [id \in Ids |->
                       IF id \in gone THEN [record[id] EXCEPT !.st = WrittenOff(id)] ELSE record[id]]
    BY <1>7 DEF Restarted
  <2>2. ASSUME NEW id \in Ids
        PROVE  (IF id \in gone THEN [record[id] EXCEPT !.st = WrittenOff(id)] ELSE record[id]) \in Recs
    <3>1. record[id] \in Recs
      BY TypesGive
    <3>2. ASSUME id \in gone PROVE [record[id] EXCEPT !.st = WrittenOff(id)] \in Recs
      <4>1. record[id] \in Records
        BY <3>1, <3>2 DEF Recs, LiveIds
      <4> QED BY <4>1, EndedIs DEF Recs
    <3> QED BY <3>1, <3>2
  <2>3. record' \in [Ids -> Recs]
    BY <2>1, <2>2
  <2> QED BY <1>7, <2>3 DEF Restarted
<1>8. RecordTypes'
  <2>1. record' \in [Ids -> Recs]
    BY <1>3, <1>7, TypesGive
  <2>2. <<>> \in Seq(Told)
    OBVIOUS
  <2>3. stream' \in Seq(Told) /\ shut' \in Seq([id : Ids, rec : Records])
    BY <1>1, <2>2, TypesGive
  <2> QED BY <2>1, <2>3 DEF RecordTypes
<1>9. WatchTypes'
  <2>1. CASE record' = record /\ noted' = noted /\ copies' = copies
    BY <1>1, <2>1, Zenon DEF StoreIInv, WatchTypes
  <2>2. CASE Restarted
    <3>1. noted' = LiveIds(record') /\ copies' = {}
      BY <1>7, <2>2
    <3>2. noted' \subseteq Ids /\ \A x \in noted' : record'[x] # None
      BY <3>1 DEF LiveIds
    <3>3. astray' \subseteq Ids
      BY <1>1, TypesGive
    <3> QED BY <3>1, <3>2, <3>3 DEF WatchTypes
  <2> QED BY <1>3, <2>1, <2>2
<1>4. LinkTypes'
  <2>1. link' = FALSE
    BY DEF Cut
  <2> QED BY <1>1, <2>1, Zenon DEF StoreIInv, LinkTypes
<1>5. ListTypes'
  BY <1>1, Zenon DEF ListTypes, ListIs
<1>6. StoreTypes' /\ AnswerTypes' /\ ClosingKnown' /\ Attached'
  <2>1. CASE answer = NoAnswer
    <3>1. store' = store /\ answer' = answer
      BY <1>1, <1>2, <2>1
    <3> QED BY <1>1, <3>1, StoreStays, Zenon
  <2>2. CASE answer # NoAnswer
    <3>1. store' = Popped
      BY <1>2, <2>2
    <3>2. store.eff # <<>>
      BY <2>2 DEF StoreIInv, AnswerTypes, AnswerIs
    <3> QED BY <1>1, <3>1, <3>2, DropIs
  <2> QED BY <2>1, <2>2
<1> QED BY <1>1, <1>4, <1>5, <1>6, <1>8, <1>9, ApartStep

\* A request fails without a connection.
LEMMA UnservedStep == ASSUME StoreIInv, Unserved PROVE StoreIInv'
<1>1. /\ record' = record /\ shut' = shut /\ stream' = stream /\ link' = link /\ list' = list
      /\ outdated' = outdated /\ watch' = watch /\ unshelved' = unshelved /\ shelved' = shelved /\ fresh' = fresh
  BY DEF Unserved, engineVars, ghosts, watch
<1>2. ~link' /\ store.eff # <<>> /\ answer' = NoAnswer /\ store' = Popped
  <2>1. ~link /\ link' = link
    BY <1>1 DEF Unserved
  <2>2. ~link'
    BY <2>1, Zenon
  <2>3. store.eff # <<>> /\ answer' = NoAnswer /\ store' = Popped
    BY DEF Unserved, NoReply
  <2> QED BY <2>2, <2>3
<1>3. RecordTypes' /\ LinkTypes' /\ ListTypes' /\ WatchTypes'
  BY <1>1, StoreStays, Zenon
<1>4. StoreTypes' /\ AnswerTypes' /\ ClosingKnown' /\ Attached'
  BY <1>1, <1>2, DropIs
<1> QED BY <1>2, <1>3, <1>4, ApartStep

\* The connection is back, and the sessions are asked for.
LEMMA ReconnectStep == ASSUME StoreIInv, Reconnect PROVE StoreIInv'
<1>1. /\ stream = <<>> /\ link' = TRUE /\ list' = Asked /\ record' = record /\ shut' = shut /\ stream' = stream
      /\ store' = store /\ answer' = answer /\ outdated' = outdated /\ watch' = watch /\ unshelved' = unshelved
      /\ shelved' = shelved /\ fresh' = fresh
  BY DEF Reconnect, engineVars, ghosts, watch
<1>2. RecordTypes' /\ WatchTypes' /\ StoreTypes' /\ AnswerTypes' /\ ClosingKnown' /\ Attached'
  BY <1>1, StoreStays, Zenon
<1>3. LinkTypes'
  BY <1>1, Zenon DEF StoreIInv, LinkTypes
<1>4. ListTypes'
  BY <1>1, Zenon DEF ListTypes, ListIs
<1>5. StreamTrue'
  <2> SUFFICES ASSUME NEW x \in Sure' PROVE WayOf(stream', x, record'[x], TRUE)
    BY DEF StreamTrue
  <2>1. stream' = <<>>
    BY <1>1
  <2> QED BY <2>1, WayEmpty
<1>6. list' # NoList /\ list' \in {NoList, Asked}
  BY <1>1 DEF Asked, NoList
<1>7. ListTrue'
  BY <1>6, Zenon DEF ListTrue
<1>8. StoreTrue' /\ ClosingEnds'
  BY <1>6, Zenon DEF StoreTrue, ClosingEnds, Listed
<1> QED BY <1>2, <1>3, <1>4, <1>5, <1>7, <1>8, Zenon DEF StoreIInv

\* The Engine answers with its sessions.
LEMMA TakeListStep == ASSUME StoreIInv, TakeList PROVE StoreIInv'
<1> DEFINE n == Len(stream)
<1>1. /\ list' = [at |-> "taken", rows |-> record, behind |-> n] /\ outdated' = FALSE
      /\ record' = record /\ shut' = shut /\ stream' = stream /\ link' = link
      /\ store' = store /\ answer' = answer /\ unshelved' = unshelved
      /\ shelved' = shelved /\ fresh' = fresh /\ noted' = noted /\ copies' = copies
  BY DEF TakeList, engineVars
<1>0. astray' = {x \in astray : \E i \in 1..Len(stream) : stream[i].id = x}
  BY DEF TakeList
<1>2. RecordTypes' /\ StoreTypes' /\ AnswerTypes' /\ ClosingKnown' /\ Attached'
  BY <1>1, StoreStays, Zenon
<1>3. LinkTypes'
  BY <1>1, Zenon DEF StoreIInv, LinkTypes
<1>4. n \in Nat /\ record \in [Ids -> Recs] /\ stream \in Seq(Told)
  BY TypesGive
<1>5. list'.rows = record /\ list'.behind = n /\ list'.at = "taken"
  BY <1>1
<1>6. ListTypes'
  <2> HIDE DEF n
  <2>1. list' \in [at : {"taken"}, rows : [Ids -> Recs], behind : Nat]
    BY <1>1, <1>4
  <2>2. list'.behind <= Len(stream')
    BY <1>1, <1>4, <1>5 DEF n
  <2> QED BY <2>1, <2>2 DEF ListTypes, ListIs
<1>7. list' # NoList
  BY <1>5 DEF NoList
<1>8. ListTrue'
  <2> SUFFICES ASSUME NEW x \in Sure'
               PROVE  WayOf(After(stream', list'.behind), x, record'[x], list'.rows[x] = record'[x])
    BY DEF ListTrue
  <2>1. After(stream', list'.behind) = <<>>
    BY <1>1, <1>4, <1>5, AfterAll
  <2>2. list'.rows[x] = record'[x]
    BY <1>1, <1>5
  <2> QED BY <2>1, <2>2, WayEmpty
<1>9. StoreTrue' /\ ClosingEnds'
  BY <1>7, Zenon DEF StoreTrue, ClosingEnds, Listed
<1>10. WatchTypes'
  <2>1. noted' \subseteq Ids /\ astray' \subseteq Ids /\ copies' \subseteq [id : Ids, rec : Records]
    BY <1>0, <1>1, TypesGive
  <2>2. \A x \in noted' : record'[x] # None
    BY <1>1, Zenon DEF StoreIInv, WatchTypes
  <2> QED BY <2>1, <2>2 DEF WatchTypes
<1>11. StreamTrue'
  <2> SUFFICES ASSUME link', NEW x \in Sure' PROVE WayOf(stream', x, record'[x], TRUE)
    BY DEF StreamTrue
  <2>1. x \in Ids /\ x \notin astray' /\ ~Awaited(x)'
    BY DEF Sure
  <2>2. CASE x \in astray
    <3>1. \A i \in 1..Len(stream) : stream[i].id # x
      BY <1>0, <2>1, <2>2
    <3>2. \A e \in Told : e \in About(x) => e.id = x
      BY <2>1, TellsIs, NoneIs
    <3>3. \A i \in 1..Len(stream) : stream[i] \in Told
      BY <1>4
    <3>4. \A i \in 1..Len(stream) : stream[i] \notin About(x)
      BY <3>1, <3>2, <3>3
    <3> QED BY <1>1, <3>4 DEF WayOf, Follows, NoneIn
  <2>3. CASE x \notin astray
    <3>1. ~Awaited(x)
      BY <1>1, <2>1, Zenon DEF Awaited
    <3>2. x \in Sure
      BY <2>1, <2>3, <3>1 DEF Sure
    <3>3. link
      BY <1>1, Zenon
    <3>4. WayOf(stream, x, record[x], TRUE)
      BY <3>2, <3>3, Zenon DEF StoreIInv, StreamTrue
    <3> QED BY <1>1, <3>4
  <2> QED BY <2>2, <2>3
<1> QED BY <1>2, <1>3, <1>6, <1>8, <1>9, <1>10, <1>11, Zenon DEF StoreIInv

\* A list that was taken.
LEMMA TakenIs ==
  ASSUME StoreIInv, list \notin {NoList, Asked}
  PROVE  list \in [at : {"taken"}, rows : [Ids -> Recs], behind : Nat] /\ list.behind <= Len(stream)
         /\ list.rows \in [Ids -> Recs] /\ list.behind \in Nat
<1>1. list \in [at : {"taken"}, rows : [Ids -> Recs], behind : Nat] /\ list.behind <= Len(stream)
  BY Zenon DEF StoreIInv, ListTypes, ListIs
<1> QED BY <1>1

\* The store takes the list.
LEMMA ApplyListStep == ASSUME StoreIInv, ApplyList PROVE StoreIInv'
<1> DEFINE h == Hydrate(store, list.rows)
<1>1. /\ list \notin {NoList, Asked} /\ store' = h /\ list' = NoList
      /\ record' = record /\ shut' = shut /\ stream' = stream /\ link' = link /\ outdated' = outdated /\ watch' = watch
      /\ answer' = answer /\ unshelved' = unshelved /\ shelved' = shelved /\ fresh' = fresh
  BY DEF ApplyList, engineVars, ghosts, watch
<1>2. list.rows \in [Ids -> Recs] /\ list.behind \in Nat /\ list.behind <= Len(stream)
  BY <1>1, TakenIs
<1>3. h \in Stores /\ h.ses = list.rows /\ h.closing = {} /\ More(store.eff, h.eff) /\ HasTerminal(h, unshelved)
  BY <1>2, TypesGive, HydrateIs
<1> HIDE DEF h
<1>4. RecordTypes' /\ LinkTypes' /\ StreamTrue' /\ WatchTypes' /\ Sure' = Sure
  BY <1>1, StoreStays, Zenon
<1>5. ListTypes'
  BY <1>1, Zenon DEF ListTypes, ListIs
<1>6. StoreTypes'
  BY <1>1, <1>3, Zenon DEF StoreIInv, StoreTypes
<1>7. AnswerTypes'
  <2>1. store.eff # <<>> => h.eff # <<>> /\ Head(h.eff) = Head(store.eff)
    BY <1>3, TypesGive, HeadMore
  <2> QED BY <1>1, <2>1, Zenon DEF StoreIInv, AnswerTypes, AnswerIs
<1>8. ListTrue'
  <2>1. list' \in {NoList, Asked}
    BY <1>1
  <2> QED BY <2>1, Zenon DEF ListTrue
<1>9. ClosingKnown' /\ ClosingEnds'
  <2>1. store'.closing = {}
    BY <1>1, <1>3
  <2> QED BY <2>1 DEF ClosingKnown, ClosingEnds
<1>10. Attached'
  BY <1>1, <1>3, Zenon DEF Attached
<1>11. StoreTrue'
  <2> SUFFICES ASSUME Listed', NEW x \in Sure'
               PROVE  WayOf(stream', x, record'[x], Right(store'.ses, store'.eff, x, record'[x]))
    BY DEF StoreTrue
  <2>0. x \in Sure /\ x \in Ids
    BY <1>4 DEF Sure
  <2>1. link /\ ~outdated
    <3>1. link' /\ ~outdated' /\ link' = link /\ outdated' = outdated /\ watch' = watch
      BY <1>1 DEF Listed
    <3> QED BY <3>1, Zenon
  <2>2. WayOf(stream, x, record[x], TRUE)
    BY <2>0, <2>1, Zenon DEF StoreIInv, StreamTrue
  <2>3. WayOf(After(stream, list.behind), x, record[x], list.rows[x] = record[x])
    BY <1>1, <2>0, <2>1 DEF StoreIInv, ListTrue
  <2>4. WayOf(stream, x, record[x], list.rows[x] = record[x])
    BY <1>2, <2>2, <2>3, AfterWay, TypesGive
  <2>5. list.rows[x] = record[x] => Right(store'.ses, store'.eff, x, record[x])
    BY <1>1, <1>3 DEF Right
  <2>6. WayOf(stream, x, record[x], Right(store'.ses, store'.eff, x, record[x]))
    BY <2>4, <2>5, WayWeaker
  <2> QED BY <1>1, <2>6
<1> QED BY <1>4, <1>5, <1>6, <1>7, <1>8, <1>9, <1>10, <1>11, Zenon DEF StoreIInv

\* The store takes an event.
LEMMA ApplyEventStep == ASSUME StoreIInv, ApplyEvent PROVE StoreIInv'
<1> DEFINE e == Head(stream)  t == Apply(store, e)
           woken == store.sel = e.id /\ Present(store, e.id) /\ ~Active(store, e.id) /\ Active(t, e.id)
<1>1. /\ stream # <<>> /\ stream' = Tail(stream) /\ store' = t
      /\ record' = record /\ shut' = shut /\ link' = link
      /\ answer' = answer /\ shelved' = shelved /\ fresh' = fresh /\ watch' = watch
  BY DEF ApplyEvent, engineVars, watch
<1>0. WatchTypes' /\ Sure' = Sure /\ astray' = astray /\ \A x \in Sure : x \in Ids
  <2>1. WatchTypes' /\ Sure' = Sure
    BY <1>1, StoreStays, Zenon
  <2> QED BY <1>1, <2>1 DEF watch, Sure
<1>2. unshelved' = IF woken THEN unshelved \cup {e.id} ELSE unshelved
  BY DEF ApplyEvent
<1>3. \/ list \in {NoList, Asked} /\ list' = list /\ outdated' = outdated
      \/ /\ list \notin {NoList, Asked} /\ list.behind > 0 /\ list' = [list EXCEPT !.behind = @ - 1]
         /\ outdated' = outdated
      \/ list \notin {NoList, Asked} /\ ~(list.behind > 0) /\ list' = list /\ outdated' = TRUE
  BY DEF ApplyEvent
<1>4. stream \in Seq(Told) /\ Tail(stream) \in Seq(Told) /\ e \in Told
  BY <1>1, TypesGive, EndsTail
<1>5. e.id \in Ids /\ e.rec \in Recs
  BY <1>4 DEF Told
<1> HIDE DEF e
<1>6. /\ t \in Stores /\ t.ses = [store.ses EXCEPT ![e.id] = e.rec] /\ More(store.eff, t.eff)
      /\ \A x \in t.closing : x \in store.closing \/ (x = e.id /\ In(t.eff, "remove", x) /\ e.rec # None)
      /\ e.rec = None /\ Present(store, e.id) => e.id \notin t.closing
  BY <1>4, TypesGive, ApplyIs
<1>7. HasTerminal(t, unshelved')
  <2>1. unshelved \subseteq unshelved' /\ (woken => e.id \in unshelved')
    <3> HIDE DEF woken
    <3> QED BY <1>2
  <2> QED BY <1>4, <2>1, TypesGive, ApplyTerminal
<1>8. unshelved' \subseteq Ids
  <2>1. unshelved \subseteq Ids
    BY Zenon DEF StoreIInv, StoreTypes
  <2> HIDE DEF woken
  <2> QED BY <1>2, <1>5, <2>1
<1> HIDE DEF t
<1>9. RecordTypes'
  BY <1>1, <1>4, Zenon DEF StoreIInv, RecordTypes
<1>10. LinkTypes'
  <2>1. outdated' \in BOOLEAN
    <3>1. outdated' = outdated \/ outdated' = TRUE
      BY <1>3, Zenon
    <3> QED BY <3>1, Zenon DEF StoreIInv, LinkTypes
  <2> QED BY <1>1, <2>1, Zenon DEF StoreIInv, LinkTypes
<1>11. StoreTypes'
  BY <1>1, <1>6, <1>8, Zenon DEF StoreIInv, StoreTypes
<1>12. AnswerTypes'
  <2>1. store.eff # <<>> => t.eff # <<>> /\ Head(t.eff) = Head(store.eff)
    BY <1>6, TypesGive, HeadMore
  <2> QED BY <1>1, <2>1, Zenon DEF StoreIInv, AnswerTypes, AnswerIs
<1>13. Attached'
  BY <1>1, <1>7, Zenon DEF Attached
<1>14. StreamTrue'
  <2> SUFFICES ASSUME link', NEW x \in Sure PROVE WayOf(stream', x, record'[x], TRUE)
    BY <1>0 DEF StreamTrue
  <2>1. link
    BY <1>1, Zenon
  <2>2. WayOf(stream, x, record[x], TRUE) /\ record[x] \in Recs
    BY <1>0, <2>1, TypesGive DEF StoreIInv, StreamTrue
  <2>3. WayOf(Tail(stream), x, record[x], TRUE)
    BY <1>0, <1>1, <1>4, <2>2, WayTail
  <2> QED BY <1>1, <2>3
<1>15. ClosingKnown'
  <2> SUFFICES ASSUME NEW x \in t.closing PROVE t.ses[x] # None
    BY <1>1 DEF ClosingKnown
  <2>1. x \in store.closing \/ (x = e.id /\ e.rec # None)
    BY <1>6
  <2>2. x \in Ids
    BY <1>5, <2>1, TypesGive
  <2>3. CASE x = e.id
    <3>1. t.ses[x] = e.rec
      BY <1>6, <2>2, <2>3, TypesGive
    <3>2. x \in store.closing => Present(store, e.id)
      BY <2>3 DEF StoreIInv, ClosingKnown, Present
    <3> QED BY <1>6, <2>1, <2>3, <3>1, <3>2
  <2>4. CASE x # e.id
    <3>1. t.ses[x] = store.ses[x]
      BY <1>6, <2>2, <2>4, TypesGive
    <3> QED BY <2>1, <2>4, <3>1 DEF StoreIInv, ClosingKnown
  <2> QED BY <2>3, <2>4
<1>16. CASE list \in {NoList, Asked} /\ list' = list /\ outdated' = outdated
  <2>1. ListTypes'
    BY <1>16, Zenon DEF ListTypes, ListIs
  <2>2. ListTrue'
    <3>1. list' \in {NoList, Asked}
      BY <1>16
    <3> QED BY <3>1, Zenon DEF ListTrue
  <2>3. Listed' => Listed
    BY <1>1, <1>16, Zenon DEF Listed
  <2>4. StoreTrue'
    <3> SUFFICES ASSUME Listed', NEW x \in Sure
                 PROVE  WayOf(stream', x, record'[x], Right(store'.ses, store'.eff, x, record'[x]))
      BY <1>0 DEF StoreTrue
    <3>0. x \in Ids
      BY <1>0
    <3> DEFINE c == Right(store.ses, store.eff, x, record[x])  d == Right(t.ses, t.eff, x, record[x])
    <3>1. WayOf(stream, x, record[x], c) /\ record[x] \in Recs
      BY <2>3, <3>0, TypesGive DEF StoreIInv, StoreTrue
    <3>2. Head(stream).id = x /\ Head(stream).rec = record[x] => d
      BY <1>5, <1>6, <3>0, TypesGive DEF Right, e
    <3>3. ASSUME Head(stream).id # x, c PROVE d
      <4>1. t.ses[x] = store.ses[x]
        BY <1>6, <3>0, <3>3, TypesGive DEF e
      <4>2. Owed(store.eff, x) => Owed(t.eff, x)
        BY <1>6, TypesGive, OwedMore
      <4> QED BY <3>3, <4>1, <4>2, Zenon DEF Right
    <3> HIDE DEF c, d
    <3>4. WayOf(Tail(stream), x, record[x], d)
      BY <1>1, <1>4, <3>0, <3>1, <3>2, <3>3, WayTail
    <3> QED BY <1>1, <3>4 DEF d
  <2>5. ClosingEnds'
    <3> SUFFICES ASSUME Listed', NEW x \in t.closing
                 PROVE  x \in astray \/ In(t.eff, "remove", x) \/ Gone(stream', x)
      BY <1>0, <1>1 DEF ClosingEnds
    <3>1. CASE x \in store.closing
      <4>1. x \in astray \/ In(store.eff, "remove", x) \/ Gone(stream, x)
        BY <2>3, <3>1, Zenon DEF StoreIInv, ClosingEnds
      <4>2. In(store.eff, "remove", x) => In(t.eff, "remove", x)
        BY <1>6, TypesGive, InMore
      <4>3. ASSUME Gone(stream, x) PROVE Gone(Tail(stream), x)
        <5>1. Gone(Tail(stream), x) \/ e = [id |-> x, rec |-> None]
          BY <1>1, <1>4, <4>3, GoneTail DEF e
        <5>2. ASSUME e = [id |-> x, rec |-> None] PROVE FALSE
          <6>1. e.id = x /\ e.rec = None
            BY <5>2
          <6>2. Present(store, e.id)
            BY <3>1, <6>1 DEF StoreIInv, ClosingKnown, Present
          <6> QED BY <1>6, <6>1, <6>2
        <5> QED BY <5>1, <5>2
      <4> QED BY <1>1, <4>1, <4>2, <4>3
    <3>2. CASE x \notin store.closing
      BY <1>6, <3>2
    <3> QED BY <3>1, <3>2
  <2> QED BY <1>0, <1>9, <1>10, <1>11, <1>12, <1>13, <1>14, <1>15, <2>1, <2>2, <2>4, <2>5, Zenon DEF StoreIInv
<1>17. CASE /\ list \notin {NoList, Asked} /\ list.behind > 0 /\ list' = [list EXCEPT !.behind = @ - 1]
            /\ outdated' = outdated
  <2> DEFINE m == list.behind
  <2>1. list \in [at : {"taken"}, rows : [Ids -> Recs], behind : Nat] /\ m \in Nat /\ m <= Len(stream) /\ 0 < m
    BY <1>17, TakenIs
  <2>2. After(Tail(stream), m - 1) = After(stream, m) /\ m - 1 \in Nat /\ m - 1 <= Len(Tail(stream))
    <3> HIDE DEF m
    <3> QED BY <1>1, <1>4, <2>1, AfterTail
  <2>3. list' = [list EXCEPT !.behind = m - 1]
    BY <1>17
  <2>4. /\ list' \in [at : {"taken"}, rows : [Ids -> Recs], behind : Nat]
        /\ list'.rows = list.rows /\ list'.behind = m - 1 /\ list'.at = "taken"
    BY <2>1, <2>2, <2>3
  <2>5. ListTypes'
    BY <1>1, <2>2, <2>4 DEF ListTypes, ListIs
  <2>6. ListTrue'
    <3> SUFFICES ASSUME link', ~outdated', NEW x \in Sure
                 PROVE  WayOf(After(stream', list'.behind), x, record'[x], list'.rows[x] = record'[x])
      BY <1>0 DEF ListTrue
    <3>1. link /\ ~outdated
      BY <1>1, <1>17, Zenon
    <3>2. WayOf(After(stream, m), x, record[x], list.rows[x] = record[x])
      BY <1>17, <3>1 DEF StoreIInv, ListTrue
    <3>3. After(stream', list'.behind) = After(stream, m)
      BY <1>1, <2>2, <2>4
    <3> QED BY <1>1, <2>4, <3>2, <3>3
  <2>7. list' # NoList
    BY <2>4 DEF NoList
  <2>8. StoreTrue' /\ ClosingEnds'
    BY <2>7, Zenon DEF StoreTrue, ClosingEnds, Listed
  <2> QED BY <1>0, <1>9, <1>10, <1>11, <1>12, <1>13, <1>14, <1>15, <2>5, <2>6, <2>8, Zenon DEF StoreIInv
<1>18. CASE list \notin {NoList, Asked} /\ ~(list.behind > 0) /\ list' = list /\ outdated' = TRUE
  <2>1. ListTypes'
    <3>1. list \in [at : {"taken"}, rows : [Ids -> Recs], behind : Nat] /\ list.behind \in Nat
      BY <1>18, TakenIs
    <3>2. list.behind = 0 /\ Len(stream') \in Nat
      BY <1>1, <1>4, <1>18, <3>1
    <3>3. list.behind <= Len(stream')
      BY <3>2
    <3> QED BY <1>18, <3>1, <3>3, Zenon DEF ListTypes, ListIs
  <2>2. outdated'
    BY <1>18, Zenon
  <2>3. ListTrue' /\ StoreTrue' /\ ClosingEnds'
    BY <2>2, Zenon DEF ListTrue, StoreTrue, ClosingEnds, Listed
  <2> QED BY <1>0, <1>9, <1>10, <1>11, <1>12, <1>13, <1>14, <1>15, <2>1, <2>3, Zenon DEF StoreIInv
<1> QED BY <1>3, <1>16, <1>17, <1>18, Zenon

\* A queue without one of its events.
LEMMA WithoutIs ==
  ASSUME NEW q \in Seq(Told), NEW k \in 1..Len(q)
  PROVE  /\ Without(q, k) \in Seq(Told) /\ Len(Without(q, k)) = Len(q) - 1
         /\ \A i \in 1..(Len(q) - 1) : Without(q, k)[i] = IF i < k THEN q[i] ELSE q[i + 1]
<1> DEFINE n == Len(q) - 1
<1>1. Len(q) \in Nat /\ n \in Nat /\ k \in Nat
  OBVIOUS
<1>2. \A i \in 1..n : i \in 1..Len(q) /\ i + 1 \in 1..Len(q)
  BY <1>1
<1>3. Without(q, k) = [i \in 1..n |-> IF i < k THEN q[i] ELSE q[i + 1]]
  BY DEF Without
<1> HIDE DEF n
<1>4. Without(q, k) \in [1..n -> Told]
  BY <1>2, <1>3
<1>5. Without(q, k) \in Seq(Told) /\ Len(Without(q, k)) = n
  BY <1>1, <1>4, LenProperties, SeqDef
<1> QED BY <1>3, <1>5 DEF n

\* Where an event is, once another is lost.
LEMMA WithoutAt ==
  ASSUME NEW q \in Seq(Told), NEW k \in 1..Len(q), NEW i \in 1..Len(q), i # k
  PROVE  LET j == IF i < k THEN i ELSE i - 1
         IN j \in 1..Len(Without(q, k)) /\ Without(q, k)[j] = q[i]
<1> DEFINE p == Without(q, k)  n == Len(q)  j == IF i < k THEN i ELSE i - 1
<1>1. n \in Nat /\ Len(p) = n - 1 /\ \A l \in 1..(n - 1) : p[l] = IF l < k THEN q[l] ELSE q[l + 1]
  BY WithoutIs, Zenon, LenProperties
<1> HIDE DEF p
<1>2. j \in 1..(n - 1) /\ (i < k => j = i /\ j < k) /\ (~(i < k) => j + 1 = i /\ ~(j < k))
  BY <1>1
<1> HIDE DEF j
<1>3. p[j] = q[i]
  BY <1>1, <1>2
<1> QED BY <1>1, <1>2, <1>3 DEF p, j

\* An event about another session is lost.
LEMMA WayWithout ==
  ASSUME NEW q \in Seq(Told), NEW k \in 1..Len(q), NEW x \in Ids, NEW r \in Recs, NEW c,
         q[k].id # x, WayOf(q, x, r, c)
  PROVE  WayOf(Without(q, k), x, r, c)
<1> DEFINE p == Without(q, k)  n == Len(q)  T == About(x)  G == Tells(x, r)
<1>1. /\ p \in Seq(Told) /\ n \in Nat /\ Len(p) = n - 1
      /\ \A i \in 1..(n - 1) : p[i] = IF i < k THEN q[i] ELSE q[i + 1]
  BY WithoutIs
<1>2. \A i \in 1..n : i # k => LET j == IF i < k THEN i ELSE i - 1 IN j \in 1..Len(p) /\ p[j] = q[i]
  BY WithoutAt
<1>3. q[k] \in Told /\ q[k] \notin T /\ G \in SUBSET T
  <2>1. q[k] \in Told
    OBVIOUS
  <2>2. (q[k] \in About(x) => q[k].id = x) /\ G \in SUBSET T
    BY <2>1, TellsIs
  <2> QED BY <2>1, <2>2
<1>4. EndsIn(q, T, G) \/ (NoneIn(q, T) /\ c)
  BY DEF WayOf, Follows
<1> HIDE DEF p, T, G
<1>5. ASSUME EndsIn(q, T, G) PROVE EndsIn(p, T, G)
  <2>1. PICK i \in 1..n : q[i] \in G /\ \A l \in i + 1..n : q[l] \notin T
    BY <1>5 DEF EndsIn
  <2>2. i # k
    BY <1>3, <2>1
  <2> DEFINE j == IF i < k THEN i ELSE i - 1
  <2>3. j \in 1..Len(p) /\ p[j] = q[i]
    BY <1>2, <2>2
  <2>4. ASSUME NEW l \in j + 1..Len(p) PROVE p[l] \notin T
    <3>1. l \in 1..(n - 1) /\ (l < k => l \in i + 1..n) /\ (~(l < k) => l + 1 \in i + 1..n)
      BY <1>1, <2>1, <2>2, <2>4
    <3> QED BY <1>1, <2>1, <3>1
  <2> HIDE DEF j
  <2> QED BY <2>1, <2>3, <2>4 DEF EndsIn
<1>6. ASSUME NoneIn(q, T) PROVE NoneIn(p, T)
  <2> SUFFICES ASSUME NEW i \in 1..Len(p) PROVE p[i] \notin T
    BY DEF NoneIn
  <2>1. i \in 1..(n - 1) /\ i \in 1..n /\ i + 1 \in 1..n
    BY <1>1
  <2> QED BY <1>1, <1>6, <2>1 DEF NoneIn
<1>7. WayOf(p, x, r, c)
  BY <1>4, <1>5, <1>6 DEF WayOf, Follows, T, G
<1> QED BY <1>7 DEF p

\* The word that another session is gone is still there.
LEMMA GoneWithout ==
  ASSUME NEW q \in Seq(Told), NEW k \in 1..Len(q), NEW x, q[k].id # x, Gone(q, x)
  PROVE  Gone(Without(q, k), x)
<1>1. PICK i \in 1..Len(q) : q[i] = [id |-> x, rec |-> None]
  BY DEF Gone
<1>2. i # k
  BY <1>1
<1>3. PICK j \in 1..Len(Without(q, k)) : Without(q, k)[j] = q[i]
  BY <1>2, WithoutAt
<1> QED BY <1>1, <1>3 DEF Gone

\* An event older than the list is lost, ...
LEMMA AfterOlder ==
  ASSUME NEW q \in Seq(Told), NEW k \in 1..Len(q), NEW m \in Nat, m <= Len(q), k <= m
  PROVE  /\ After(Without(q, k), m - 1) = After(q, m)
         /\ m - 1 \in Nat /\ m - 1 <= Len(Without(q, k))
<1> DEFINE p == Without(q, k)  n == Len(q)  i == m - 1
<1>1. /\ p \in Seq(Told) /\ n \in Nat /\ Len(p) = n - 1
      /\ \A l \in 1..(n - 1) : p[l] = IF l < k THEN q[l] ELSE q[l + 1]
  BY WithoutIs, Zenon, LenProperties
<1> HIDE DEF p
<1>2. /\ i \in Nat /\ i <= Len(p) /\ Len(p) - i = n - m
      /\ \A l \in 1..(n - m) : l + i \in 1..(n - 1) /\ ~(l + i < k) /\ (l + i) + 1 = l + m
  BY <1>1
<1> HIDE DEF i
<1> DEFINE a == After(q, m)  b == After(p, i)
<1>3. a \in Seq(Told) /\ Len(a) = n - m /\ \A l \in 1..(n - m) : a[l] = q[l + m]
  BY AfterIs
<1>4. b \in Seq(Told) /\ Len(b) = n - m /\ \A l \in 1..(n - m) : b[l] = p[l + i]
  <2>1. b \in Seq(Told) /\ Len(b) = Len(p) - i /\ \A l \in 1..(Len(p) - i) : b[l] = p[l + i]
    BY <1>1, <1>2, AfterIs, Zenon
  <2> HIDE DEF b
  <2>2. Len(p) - i = n - m
    BY <1>2
  <2> QED BY <2>1, <2>2, Zenon
<1> HIDE DEF a, b
<1>5. \A l \in 1..(n - m) : b[l] = a[l]
  BY <1>1, <1>2, <1>3, <1>4
<1>6. b = a
  BY <1>3, <1>4, <1>5, SeqEqual
<1> QED BY <1>2, <1>6 DEF a, b, p, i

\* ... or one behind it.
LEMMA AfterNewer ==
  ASSUME NEW q \in Seq(Told), NEW k \in 1..Len(q), NEW m \in Nat, m <= Len(q), ~(k <= m)
  PROVE  /\ After(Without(q, k), m) = Without(After(q, m), k - m)
         /\ m <= Len(Without(q, k)) /\ k - m \in 1..Len(After(q, m)) /\ After(q, m)[k - m] = q[k]
<1> DEFINE p == Without(q, k)  n == Len(q)  h == k - m  a == After(q, m)  b == After(p, m)  d == Without(a, h)
<1>1. /\ p \in Seq(Told) /\ n \in Nat /\ Len(p) = n - 1
      /\ \A l \in 1..(n - 1) : p[l] = IF l < k THEN q[l] ELSE q[l + 1]
  BY WithoutIs, Zenon, LenProperties
<1>2. a \in Seq(Told) /\ Len(a) = n - m /\ \A l \in 1..(n - m) : a[l] = q[l + m]
  BY AfterIs
<1> HIDE DEF p, a
<1>3. m <= Len(p) /\ h \in 1..Len(a) /\ h + m = k /\ Len(p) - m = n - m - 1
  BY <1>1, <1>2
<1>4. b \in Seq(Told) /\ Len(b) = Len(p) - m /\ \A l \in 1..(Len(p) - m) : b[l] = p[l + m]
  BY <1>1, <1>3, AfterIs
<1> HIDE DEF h, b
<1>5. d \in Seq(Told) /\ Len(d) = Len(a) - 1 /\ \A l \in 1..(Len(a) - 1) : d[l] = IF l < h THEN a[l] ELSE a[l + 1]
  BY <1>2, <1>3, WithoutIs
<1> HIDE DEF d
<1>6. Len(b) = Len(d) /\ Len(b) = n - m - 1
  BY <1>1, <1>2, <1>3, <1>4, <1>5
<1>7. ASSUME NEW l \in 1..Len(b) PROVE b[l] = d[l]
  <2>1. /\ l \in 1..(Len(p) - m) /\ l \in 1..(Len(a) - 1) /\ l + m \in 1..(n - 1)
        /\ l \in 1..(n - m) /\ l + 1 \in 1..(n - m) /\ (l + 1) + m = (l + m) + 1
        /\ (l < h <=> l + m < k)
    BY <1>1, <1>2, <1>3, <1>6
  <2>2. b[l] = p[l + m] /\ p[l + m] = IF l + m < k THEN q[l + m] ELSE q[(l + m) + 1]
    BY <1>1, <1>4, <2>1
  <2>3. d[l] = (IF l < h THEN a[l] ELSE a[l + 1]) /\ a[l] = q[l + m] /\ a[l + 1] = q[(l + 1) + m]
    BY <1>2, <1>5, <2>1
  <2> QED BY <2>1, <2>2, <2>3
<1>8. b = d
  BY <1>4, <1>5, <1>6, <1>7, SeqEqual
<1>9. a[h] = q[k]
  <2>1. h \in 1..(n - m)
    BY <1>2, <1>3
  <2> QED BY <1>2, <1>3, <2>1
<1> QED BY <1>3, <1>8, <1>9 DEF b, d, p, a, h

\* An event is lost: its session is not sure any more.
LEMMA LoseEventStep == ASSUME StoreIInv, LoseEvent PROVE StoreIInv'
<1>1. /\ record' = record /\ shut' = shut /\ noted' = noted /\ copies' = copies /\ link' = link
      /\ store' = store /\ answer' = answer /\ outdated' = outdated
      /\ unshelved' = unshelved /\ shelved' = shelved /\ fresh' = fresh
  BY DEF LoseEvent, engineVars
<1>2. PICK k \in 1..Len(stream) :
       /\ stream' = Without(stream, k) /\ astray' = astray \cup {stream[k].id}
       /\ list' = IF list \notin {NoList, Asked} /\ k <= list.behind
                    THEN [list EXCEPT !.behind = @ - 1] ELSE list
  BY DEF LoseEvent
<1>3. stream \in Seq(Told) /\ stream' \in Seq(Told) /\ stream[k].id \in Ids
  <2>1. stream \in Seq(Told)
    BY TypesGive
  <2>2. stream' \in Seq(Told)
    BY <1>2, <2>1, WithoutIs
  <2>3. stream[k] \in Told
    BY <2>1
  <2> QED BY <2>1, <2>2, <2>3 DEF Told
<1>4. RecordTypes'
  BY <1>1, <1>3, TypesGive DEF RecordTypes
<1>5. LinkTypes' /\ StoreTypes' /\ AnswerTypes' /\ ClosingKnown' /\ Attached'
  BY <1>1, StoreStays, Zenon
<1>6. WatchTypes'
  <2>1. noted' \subseteq Ids /\ astray' \subseteq Ids /\ copies' \subseteq [id : Ids, rec : Records]
    BY <1>1, <1>2, <1>3, TypesGive
  <2>2. \A x \in noted' : record'[x] # None
    BY <1>1, Zenon DEF StoreIInv, WatchTypes
  <2> QED BY <2>1, <2>2 DEF WatchTypes
<1>7. \A x \in Sure' : x \in Sure /\ x \in Ids /\ record[x] \in Recs /\ stream[k].id # x
  <2> SUFFICES ASSUME NEW x \in Sure'
               PROVE  x \in Sure /\ x \in Ids /\ record[x] \in Recs /\ stream[k].id # x
    OBVIOUS
  <2>1. x \in Ids /\ x \notin astray' /\ x \notin noted' /\ Event(x, record'[x]) \notin copies'
    BY DEF Sure, Awaited
  <2>2. x \notin astray /\ stream[k].id # x
    BY <1>2, <2>1
  <2>3. record[x] \in Recs
    BY <2>1, TypesGive
  <2> QED BY <1>1, <2>1, <2>2, <2>3, Zenon DEF Sure, Awaited
<1>8. StreamTrue'
  <2> SUFFICES ASSUME link', NEW x \in Sure' PROVE WayOf(stream', x, record'[x], TRUE)
    BY DEF StreamTrue
  <2>1. link
    BY <1>1, Zenon
  <2>2. WayOf(stream, x, record[x], TRUE)
    BY <1>7, <2>1, Zenon DEF StoreIInv, StreamTrue
  <2>3. WayOf(Without(stream, k), x, record[x], TRUE)
    BY <1>3, <1>7, <2>2, WayWithout
  <2> QED BY <1>1, <1>2, <2>3
<1>9. list' = NoList <=> list = NoList
  <2>1. CASE list \notin {NoList, Asked}
    <3>1. list \in [at : {"taken"}, rows : [Ids -> Recs], behind : Nat]
      BY <2>1, TakenIs
    <3>2. list'.at = "taken" /\ list.at = "taken"
      BY <1>2, <3>1
    <3> QED BY <3>2 DEF NoList
  <2>2. CASE list \in {NoList, Asked}
    BY <1>2, <2>2
  <2> QED BY <2>1, <2>2
<1>10. Listed' => Listed
  BY <1>1, <1>9, Zenon DEF Listed
<1>11. StoreTrue'
  <2> SUFFICES ASSUME Listed', NEW x \in Sure'
               PROVE  WayOf(stream', x, record'[x], Right(store'.ses, store'.eff, x, record'[x]))
    BY DEF StoreTrue
  <2>1. WayOf(stream, x, record[x], Right(store.ses, store.eff, x, record[x]))
    BY <1>7, <1>10, Zenon DEF StoreIInv, StoreTrue
  <2>2. WayOf(Without(stream, k), x, record[x], Right(store.ses, store.eff, x, record[x]))
    BY <1>3, <1>7, <2>1, WayWithout
  <2> QED BY <1>1, <1>2, <2>2
<1>12. ClosingEnds'
  <2> SUFFICES ASSUME Listed', NEW x \in store'.closing
               PROVE  x \in astray' \/ In(store'.eff, "remove", x) \/ Gone(stream', x)
    BY DEF ClosingEnds
  <2>1. x \in astray \/ In(store.eff, "remove", x) \/ Gone(stream, x)
    BY <1>1, <1>10, Zenon DEF StoreIInv, ClosingEnds
  <2>2. stream[k].id # x /\ Gone(stream, x) => Gone(Without(stream, k), x)
    BY <1>3, GoneWithout
  <2> QED BY <1>1, <1>2, <2>1, <2>2
<1>13. CASE list \in {NoList, Asked}
  <2>1. list' \in {NoList, Asked}
    BY <1>2, <1>13
  <2>2. ListTypes' /\ ListTrue'
    BY <2>1, Zenon DEF ListTypes, ListIs, ListTrue
  <2> QED BY <1>4, <1>5, <1>6, <1>8, <1>11, <1>12, <2>2, Zenon DEF StoreIInv
<1>14. CASE list \notin {NoList, Asked}
  <2> DEFINE m == list.behind  i == list'.behind
  <2>1. list \in [at : {"taken"}, rows : [Ids -> Recs], behind : Nat] /\ m \in Nat /\ m <= Len(stream)
    BY <1>14, TakenIs
  <2>2. list' = IF k <= m THEN [list EXCEPT !.behind = m - 1] ELSE list
    BY <1>2, <1>14
  <2>3. ASSUME k <= m
        PROVE  /\ list' \in [at : {"taken"}, rows : [Ids -> Recs], behind : Nat] /\ i <= Len(stream')
               /\ list'.rows = list.rows /\ After(stream', i) = After(stream, m)
    <3>1. list' = [list EXCEPT !.behind = m - 1]
      BY <2>2, <2>3
    <3> HIDE DEF m
    <3>2. After(Without(stream, k), m - 1) = After(stream, m) /\ m - 1 \in Nat /\ m - 1 <= Len(Without(stream, k))
      BY <1>3, <2>1, <2>3, AfterOlder
    <3>3. list' \in [at : {"taken"}, rows : [Ids -> Recs], behind : Nat] /\ i = m - 1 /\ list'.rows = list.rows
      BY <2>1, <3>1, <3>2
    <3> QED BY <1>2, <3>2, <3>3
  <2>4. ASSUME ~(k <= m)
        PROVE  /\ list' = list /\ i <= Len(stream') /\ After(stream', i) = Without(After(stream, m), k - m)
               /\ k - m \in 1..Len(After(stream, m)) /\ After(stream, m)[k - m] = stream[k]
    <3>1. list' = list
      BY <2>2, <2>4
    <3>2. i = m
      BY <3>1
    <3> HIDE DEF m, i
    <3> QED BY <1>2, <1>3, <2>1, <2>4, <3>1, <3>2, AfterNewer
  <2> HIDE DEF m, i
  <2>5. ListTypes'
    BY <2>1, <2>3, <2>4 DEF ListTypes, ListIs, i
  <2>6. ListTrue'
    <3> SUFFICES ASSUME link', ~outdated', NEW x \in Sure'
                 PROVE  WayOf(After(stream', i), x, record'[x], list'.rows[x] = record'[x])
      BY DEF ListTrue, i
    <3>1. link /\ ~outdated
      BY <1>1, Zenon
    <3>2. WayOf(After(stream, m), x, record[x], list.rows[x] = record[x])
      BY <1>7, <1>14, <3>1 DEF StoreIInv, ListTrue, m
    <3>3. CASE k <= m
      BY <1>1, <2>3, <3>2, <3>3
    <3>4. CASE ~(k <= m)
      <4>1. After(stream, m) \in Seq(Told)
        BY <1>3, <2>1, AfterIs
      <4>2. WayOf(Without(After(stream, m), k - m), x, record[x], list.rows[x] = record[x])
        BY <1>7, <2>4, <3>2, <3>4, <4>1, WayWithout
      <4> QED BY <1>1, <2>4, <3>4, <4>2
    <3> QED BY <3>3, <3>4
  <2> QED BY <1>4, <1>5, <1>6, <1>8, <1>11, <1>12, <2>5, <2>6, Zenon DEF StoreIInv
<1> QED BY <1>13, <1>14

\* A request that needs no event, or that the Engine has nothing to say to.
LEMMA UnansweredStep ==
  ASSUME StoreIInv, link, store.eff # <<>>, answer' = NoAnswer, store' = Popped,
         record' = record, shut' = shut, stream' = stream, link' = link, list' = list, outdated' = outdated,
         watch' = watch,
         unshelved' = unshelved, shelved' = shelved, fresh' = fresh,
         First.op \in Answered => First.id \in Ids /\ record[First.id] = None
  PROVE  StoreIInv'
<1>1. RecordTypes' /\ LinkTypes' /\ ListTypes' /\ StreamTrue' /\ ListTrue' /\ WatchTypes' /\ Sure' = Sure
  BY StoreStays, Zenon
<1>2. StoreTypes' /\ AnswerTypes' /\ ClosingKnown' /\ Attached'
  BY DropIs
<1>3. store'.ses = store.ses /\ store'.closing = store.closing /\ store'.eff = Tail(store.eff)
  BY PoppedIs DEF StoreIs
<1>4. Listed' => Listed
  BY Zenon DEF Listed
<1>5. store.eff \in Seq(Effs) /\ store.closing \subseteq Ids
  BY TypesGive
<1>6. StoreTrue'
  <2> SUFFICES ASSUME Listed', NEW x \in Sure'
               PROVE  WayOf(stream', x, record'[x], Right(store'.ses, store'.eff, x, record'[x]))
    BY DEF StoreTrue
  <2>0. x \in Sure /\ x \in Ids
    BY <1>1 DEF Sure
  <2>1. WayOf(stream, x, record[x], Right(store.ses, store.eff, x, record[x]))
    BY <1>4, <2>0, Zenon DEF StoreIInv, StoreTrue
  <2>2. ASSUME record[x] # None, Owed(store.eff, x) PROVE Owed(Tail(store.eff), x)
    <3>1. Head(store.eff).op \notin Answered \/ Head(store.eff).id # x
      BY <2>2 DEF First
    <3> QED BY <1>5, <2>2, <3>1, OwedTail
  <2>3. Right(store.ses, store.eff, x, record[x]) => Right(store.ses, Tail(store.eff), x, record[x])
    BY <2>2, Zenon DEF Right
  <2>4. WayOf(stream, x, record[x], Right(store.ses, Tail(store.eff), x, record[x]))
    BY <2>1, <2>3, WayWeaker
  <2> QED BY <1>3, <2>4
<1>7. ClosingEnds'
  <2> SUFFICES ASSUME Listed', NEW x \in store'.closing, x \notin astray
               PROVE  In(store'.eff, "remove", x) \/ Gone(stream', x)
    BY DEF ClosingEnds, watch
  <2>1. x \in store.closing /\ x \in Ids
    BY <1>3, <1>5
  <2>2. In(store.eff, "remove", x) \/ Gone(stream, x)
    BY <1>4, <2>1, Zenon DEF StoreIInv, ClosingEnds
  <2>3. ASSUME In(store.eff, "remove", x), ~In(Tail(store.eff), "remove", x) PROVE Gone(stream, x)
    <3>1. Head(store.eff) = Effect("remove", x)
      BY <1>5, <2>3, InTail
    <3>2. First.op = "remove" /\ First.id = x
      BY <3>1 DEF First, Effect
    <3>3. record[x] = None
      BY <3>2 DEF Answered
    <3>4. store.ses[x] # None
      BY <2>1 DEF StoreIInv, ClosingKnown
    <3>8. x \in Sure
      <4>1. x \notin noted
        BY <3>3 DEF StoreIInv, WatchTypes
      <4>2. Event(x, record[x]) \notin copies
        <5>1. \A e \in copies : e.rec \in Records
          BY TypesGive
        <5>2. Event(x, record[x]).rec = None /\ None \notin Records
          BY <3>3, RecordIs DEF Event
        <5> QED BY <5>1, <5>2
      <4> QED BY <2>1, <4>1, <4>2 DEF Sure, Awaited
    <3>5. WayOf(stream, x, None, Right(store.ses, store.eff, x, None))
      BY <1>4, <3>3, <3>8 DEF StoreIInv, StoreTrue
    <3>6. ~Right(store.ses, store.eff, x, None)
      BY <3>4 DEF Right
    <3>7. EndsIn(stream, About(x), Tells(x, None))
      BY <3>5, <3>6 DEF WayOf, Follows
    <3> QED BY <3>7 DEF EndsIn, Gone, Tells
  <2> QED BY <1>3, <2>2, <2>3
<1> QED BY <1>1, <1>2, <1>6, <1>7, Zenon DEF StoreIInv

\* A request for a session the Engine knows: the event is the answer.
LEMMA AnsweredStep ==
  ASSUME StoreIInv, store.eff # <<>>, answer' = NoAnswer, store' = Popped,
         link' = link, list' = list, outdated' = outdated,
         unshelved' = unshelved, shelved' = shelved, fresh' = fresh, shut' \in Seq([id : Ids, rec : Records]),
         First.id \in Ids, NEW r \in Recs, Become(First.id, r), Rewatched(First.id, r),
         First.op = "remove" => r = None
  PROVE  StoreIInv'
<1> DEFINE id == First.id
<1>1. AnswerTypes' /\ shelved' \subseteq Ids
  BY DropIs, TypesGive
<1>2. /\ store' \in Stores /\ store'.ses = store.ses /\ store'.closing = store.closing
      /\ store'.sel = store.sel /\ store'.res = store.res /\ store'.eff = Tail(store.eff)
  BY PoppedIs DEF StoreIs
<1>3. store.eff \in Seq(Effs)
  BY TypesGive
<1>4. \A x \in Ids : x # id /\ Owed(store.eff, x) => Owed(store'.eff, x)
  BY <1>2, <1>3, OwedTail DEF First
<1>5. ASSUME NEW x \in Ids, In(store.eff, "remove", x), ~In(store'.eff, "remove", x) PROVE x = id /\ r = None
  <2>1. Head(store.eff) = Effect("remove", x)
    BY <1>2, <1>3, <1>5, InTail
  <2>2. First.op = "remove" /\ First.id = x
    BY <2>1 DEF First, Effect
  <2> QED BY <2>2
<1>6. \A x \in Ids : In(store.eff, "remove", x) => In(store'.eff, "remove", x) \/ (x = id /\ r = None)
  BY <1>5
<1> QED BY <1>1, <1>2, <1>4, <1>6, BecomeStep

\* A request whose answer is yet to be applied: the session it tells of is there.
LEMMA RepliedStep ==
  ASSUME StoreIInv, store.eff # <<>>, store' = store, NEW id \in Ids, NEW r \in Records, Become(id, r),
         Rewatched(id, r),
         answer' = [op |-> First.op, id |-> id, rec |-> record'[id]], First.op \in {"spawn", "reopen"},
         link' = link, list' = list, outdated' = outdated,
         unshelved' = unshelved, shelved' = shelved, fresh' = fresh, shut' \in Seq([id : Ids, rec : Records])
  PROVE  StoreIInv'
<1>1. r \in Recs
  BY DEF Recs
<1>2. record'[id] = r
  BY <1>1, BecomeIs
<1>3. answer' = [op |-> First.op, id |-> id, rec |-> r]
  BY <1>2
<1>4. answer' \in [op : {"spawn", "reopen"}, id : Ids, rec : Records] /\ answer'.op = First.op
  BY <1>3
<1>5. AnswerTypes'
  <2>1. store'.eff = store.eff
    OBVIOUS
  <2> QED BY <1>4, <2>1 DEF AnswerTypes, AnswerIs, First
<1>6. /\ store' \in Stores /\ store'.ses = store.ses /\ store'.closing = store.closing
      /\ store'.sel = store.sel /\ store'.res = store.res /\ store'.eff = store.eff /\ shelved' \subseteq Ids
  BY TypesGive
<1> QED BY <1>1, <1>5, <1>6, BecomeStep

\* The first request.
LEMMA FirstIs ==
  ASSUME StoreIInv, store.eff # <<>>
  PROVE  First.op \in Ops /\ (First.op # "reopen" => First.id \in Ids)
<1>1. First \in Effs
  BY TypesGive DEF First
<1> QED BY <1>1 DEF Effs, Effect, Ops

\* The Engine serves the first request.
LEMMA ServeStep == ASSUME StoreIInv, Serve PROVE StoreIInv'
<1> DEFINE id == First.id  held == id \in Ids /\ record[id] # None
<1>1. /\ link' = link /\ list' = list /\ outdated' = outdated /\ unshelved' = unshelved
      /\ shelved' = shelved /\ fresh' = fresh /\ link /\ store.eff # <<>> /\ answer = NoAnswer
      /\ copies' = copies /\ astray' = astray
  BY DEF Serve, ghosts
<1>0. ASSUME NEW x, NEW r, (noted' = noted \cup {x} /\ r # None) \/ noted' = noted \ {x} \/ (noted' = noted /\ r # None)
      PROVE  Rewatched(x, r)
  BY <1>0, <1>1 DEF Rewatched
<1>13. \A r \in Records : r # None /\ r \in Recs
  BY RecordIs DEF Recs
<1>2. First.op \in Ops /\ (First.op # "reopen" => First.id \in Ids)
  BY <1>1, FirstIs
<1>3. shut \in Seq([id : Ids, rec : Records])
  BY TypesGive
<1>4. NoReply => store' = Popped /\ answer' = NoAnswer
  BY <1>1 DEF NoReply
<1>5. CASE First.op = "seen" /\ held /\ Become(id, record[id]) /\ NoReply /\ UNCHANGED <<shut, noted>>
  <2>1. record[id] \in Recs /\ Rewatched(id, record[id])
    BY <1>0, <1>5, TypesGive
  <2> QED BY <1>1, <1>3, <1>4, <1>5, <2>1, AnsweredStep
<1>6. CASE First.op = "remove" /\ held /\ RemoveAt(id) /\ NoReply
  <2>1. noted' = noted \ {id} /\ Become(id, None) /\ shut' \in Seq([id : Ids, rec : Records])
    BY <1>6, EngineMoves
  <2>2. Rewatched(id, None)
    BY <1>0, <2>1
  <2> QED BY <1>1, <1>4, <1>6, <2>1, <2>2, NoneIs, AnsweredStep
<1>7. CASE First.op = "archive" /\ held /\ ArchiveAt(id) /\ NoReply /\ UNCHANGED shut
  <2>1. PICK r \in Recs : noted' = noted \ {id} /\ Become(id, r)
    BY <1>7, EngineMoves
  <2>2. Rewatched(id, r)
    BY <1>0, <2>1
  <2> QED BY <1>1, <1>3, <1>4, <1>7, <2>1, <2>2, AnsweredStep
<1>8. CASE First.op = "unarchive" /\ held /\ UnarchiveAt(id) /\ NoReply /\ UNCHANGED shut
  <2>1. PICK r \in Records : noted' = noted /\ Become(id, r)
    BY <1>8, EngineMoves
  <2>2. r \in Recs /\ Rewatched(id, r)
    BY <1>0, <1>13, <2>1
  <2> QED BY <1>1, <1>3, <1>4, <1>8, <2>1, <2>2, AnsweredStep
<1>9. CASE /\ First.op = "resume" /\ held /\ record[id].st # "live" /\ noted' = noted \cup {id}
           /\ Become(id, [record[id] EXCEPT !.st = "live"]) /\ NoReply /\ UNCHANGED shut
  <2> DEFINE r == [record[id] EXCEPT !.st = "live"]
  <2>1. record[id] \in Records
    BY <1>9, EngineMoves
  <2>2. r \in Records
    BY <2>1, EndedIs
  <2> HIDE DEF r
  <2>3. r \in Recs /\ Rewatched(id, r)
    BY <1>0, <1>9, <1>13, <2>2
  <2>4. Become(id, r)
    BY <1>9 DEF r
  <2> QED BY <1>1, <1>3, <1>4, <1>9, <2>3, <2>4, AnsweredStep
<1>10. CASE First.op = "spawn" /\ Become(id, Live) /\ noted' = noted \cup {id} /\ Reply(id) /\ UNCHANGED shut
  <2>1. Live \in Records /\ id \in Ids
    BY <1>2, <1>10 DEF Live, Records, States
  <2>2. answer' = [op |-> First.op, id |-> id, rec |-> record'[id]] /\ store' = store
    BY <1>10 DEF Reply
  <2>3. Rewatched(id, Live)
    BY <1>0, <1>10, <1>13, <2>1
  <2> QED BY <1>1, <1>3, <1>10, <2>1, <2>2, <2>3, RepliedStep
<1>11. CASE /\ First.op = "reopen" /\ shut # <<>>
            /\ LET last == shut[Len(shut)] IN Become(last.id, last.rec) /\ Reply(last.id)
            /\ shut' = SubSeq(shut, 1, Len(shut) - 1) /\ UNCHANGED noted
  <2> DEFINE last == shut[Len(shut)]
  <2>1. last \in [id : Ids, rec : Records]
    <3> DEFINE S == [id : Ids, rec : Records]
    <3>1. ASSUME NEW q \in Seq(S), q # <<>> PROVE q[Len(q)] \in S
      <4> HIDE DEF S
      <4> QED BY <3>1
    <3> QED BY <1>3, <1>11, <3>1
  <2>2. last.id \in Ids /\ last.rec \in Records
    BY <2>1
  <2>3. Become(last.id, last.rec)
    BY <1>11
  <2>4. answer' = [op |-> First.op, id |-> last.id, rec |-> record'[last.id]] /\ store' = store
    BY <1>11 DEF Reply
  <2>5. shut' \in Seq([id : Ids, rec : Records])
    <3> DEFINE S == [id : Ids, rec : Records]
    <3>1. ASSUME NEW q \in Seq(S), q # <<>> PROVE SubSeq(q, 1, Len(q) - 1) \in Seq(S)
      <4> HIDE DEF S
      <4> QED BY <3>1
    <3> QED BY <1>3, <1>11, <3>1
  <2> HIDE DEF last
  <2>6. Rewatched(last.id, last.rec)
    BY <1>0, <1>11, <1>13, <2>2
  <2> QED BY <1>1, <1>11, <2>2, <2>3, <2>4, <2>5, <2>6, RepliedStep
<1>12. CASE /\ CASE First.op = "reopen" -> shut = <<>>
                 [] First.op = "spawn"  -> FALSE
                 [] First.op = "resume" -> TRUE
                 [] OTHER -> ~held
            /\ NoReply /\ UNCHANGED <<record, shut, noted, stream>>
  <2>1. First.op \in Answered => First.id \in Ids /\ record[First.id] = None
    BY <1>2, <1>12 DEF Answered
  <2>2. record' = record /\ shut' = shut /\ stream' = stream /\ store' = Popped /\ answer' = NoAnswer
    BY <1>4, <1>12
  <2>3. watch' = watch
    BY <1>1, <1>12 DEF watch
  <2> QED BY <1>1, <2>1, <2>2, <2>3, UnansweredStep
<1> QED BY <1>5, <1>6, <1>7, <1>8, <1>9, <1>10, <1>11, <1>12 DEF Serve

\* A spawn's answer selects the session, a reopen's tells its record too.
LEMMA FinishIs ==
  ASSUME StoreIInv, Finish
  PROVE  /\ store' \in Stores /\ HasTerminal(store', unshelved) /\ More(Tail(store.eff), store'.eff)
         /\ \A x \in Ids : \/ store'.ses[x] = store.ses[x]
                           \/ answer.op = "reopen" /\ x = answer.id /\ store'.ses[x] = answer.rec
         /\ \A x \in store'.closing : \/ x \in store.closing
                                      \/ x \in Ids /\ In(store'.eff, "remove", x) /\ store'.ses[x] # None
         /\ store.eff # <<>> /\ Head(store.eff).op = answer.op /\ answer.op \in {"spawn", "reopen"}
         /\ answer.id \in Ids /\ answer.rec \in Records
<1> DEFINE id == answer.id  u == Upsert(Popped, id, answer.rec)
           b == IF answer.op = "spawn" THEN Popped ELSE u  f == Focus(b, id)
<1>1. /\ answer \in [op : {"spawn", "reopen"}, id : Ids, rec : Records] /\ store.eff # <<>>
      /\ Head(store.eff).op = answer.op
  BY DEF StoreIInv, AnswerTypes, AnswerIs, Finish
<1>2. answer.op \in {"spawn", "reopen"} /\ id \in Ids /\ answer.rec \in Records
  BY <1>1
<1>3. store' = f
  BY DEF Finish
<1>4. /\ Popped \in Stores /\ Popped.ses = store.ses /\ Popped.closing = store.closing
      /\ Popped.eff = Tail(store.eff)
  BY <1>1, PoppedIs DEF StoreIs
<1>5. /\ u \in Stores /\ u.ses = [Popped.ses EXCEPT ![id] = answer.rec] /\ More(Popped.eff, u.eff)
      /\ u.closing = Popped.closing \/ (u.closing = Popped.closing \cup {id} /\ In(u.eff, "remove", id))
  BY <1>2, <1>4, UpsertIs
<1> HIDE DEF id, u
<1>6. Tail(store.eff) \in Seq(Effs) /\ store.ses \in [Ids -> Recs] /\ store.closing \subseteq Ids
  BY <1>1, TypesGive
<1>7. b \in Stores /\ More(Tail(store.eff), b.eff)
  BY <1>2, <1>4, <1>5, <1>6, MoreItself
<1>8. \A x \in Ids : b.ses[x] = store.ses[x] \/ (answer.op = "reopen" /\ x = id /\ b.ses[x] = answer.rec)
  BY <1>2, <1>4, <1>5, <1>6
<1>9. ASSUME NEW x \in b.closing, x \notin store.closing
      PROVE  x \in Ids /\ In(b.eff, "remove", x) /\ b.ses[x] # None
  <2>1. b = u /\ x = id /\ In(u.eff, "remove", id)
    BY <1>4, <1>5, <1>9
  <2>2. u.ses[id] = answer.rec /\ answer.rec # None
    BY <1>2, <1>4, <1>5, <1>6, RecordIs
  <2> QED BY <1>2, <2>1, <2>2
<1> HIDE DEF b
<1>10. Keeps(b, f) /\ HasTerminal(f, unshelved)
  BY <1>2, <1>7, FocusIs, FocusTerminal
<1> HIDE DEF f
<1>11. f \in Stores /\ f.ses = b.ses /\ f.closing = b.closing /\ More(b.eff, f.eff)
  BY <1>10 DEF Keeps
<1>12. More(Tail(store.eff), f.eff)
  BY <1>6, <1>7, <1>11, MoreOn
<1>13. \A x : In(b.eff, "remove", x) => In(f.eff, "remove", x)
  BY <1>7, <1>11, InMore, StoreFields
<1>14. \A x \in f.closing : \/ x \in store.closing
                            \/ x \in Ids /\ In(f.eff, "remove", x) /\ f.ses[x] # None
  BY <1>9, <1>11, <1>13
<1>15. \A x \in Ids : \/ f.ses[x] = store.ses[x]
                      \/ answer.op = "reopen" /\ x = answer.id /\ f.ses[x] = answer.rec
  BY <1>8, <1>11 DEF id
<1>16. f \in Stores /\ HasTerminal(f, unshelved)
  BY <1>10, <1>11
<1> QED BY <1>1, <1>2, <1>3, <1>12, <1>14, <1>15, <1>16 DEF id

\* The answer to a spawn or a reopen is applied.
LEMMA FinishStep == ASSUME StoreIInv, Finish PROVE StoreIInv'
<1>1. /\ record' = record /\ shut' = shut /\ stream' = stream /\ link' = link /\ list' = list /\ watch' = watch
      /\ unshelved' = unshelved /\ shelved' = shelved /\ fresh' = fresh /\ answer' = NoAnswer
      /\ outdated' = (outdated \/ Overtaken)
  BY DEF Finish, engineVars, watch
<1>2. store' \in Stores /\ HasTerminal(store', unshelved) /\ More(Tail(store.eff), store'.eff)
  BY FinishIs
<1>3. \A x \in Ids : \/ store'.ses[x] = store.ses[x]
                     \/ answer.op = "reopen" /\ x = answer.id /\ store'.ses[x] = answer.rec
  BY FinishIs
<1>4. \A x \in store'.closing : \/ x \in store.closing
                                \/ x \in Ids /\ In(store'.eff, "remove", x) /\ store'.ses[x] # None
  BY FinishIs
<1>5. /\ store.eff # <<>> /\ Head(store.eff).op = answer.op /\ answer.op \in {"spawn", "reopen"}
      /\ answer.id \in Ids /\ answer.rec \in Records
  BY FinishIs
<1>6. store.eff \in Seq(Effs) /\ Tail(store.eff) \in Seq(Effs) /\ store.closing \subseteq Ids
  BY <1>5, TypesGive
<1>7. \A op \in Answered : \A x : In(store.eff, op, x) => In(store'.eff, op, x)
  <2> SUFFICES ASSUME NEW op \in Answered, NEW x, In(store.eff, op, x) PROVE In(store'.eff, op, x)
    OBVIOUS
  <2>1. Head(store.eff) # Effect(op, x)
    BY <1>5 DEF Answered, Effect
  <2>2. In(Tail(store.eff), op, x)
    BY <1>5, <1>6, <2>1, InTail
  <2> QED BY <1>2, <1>6, <2>2, InMore
<1>8. RecordTypes' /\ ListTypes' /\ StreamTrue' /\ WatchTypes' /\ Sure' = Sure
  BY <1>1, StoreStays, Zenon
<1>9. LinkTypes'
  <2>1. outdated' \in BOOLEAN
    BY <1>1, Zenon DEF StoreIInv, LinkTypes
  <2> QED BY <1>1, <2>1, Zenon DEF StoreIInv, LinkTypes
<1>10. StoreTypes'
  BY <1>1, <1>2, Zenon DEF StoreIInv, StoreTypes
<1>11. AnswerTypes'
  BY <1>1, Zenon DEF AnswerTypes, AnswerIs
<1>12. Attached'
  BY <1>1, <1>2, Zenon DEF Attached
<1>13. ClosingKnown'
  <2> SUFFICES ASSUME NEW x \in store'.closing PROVE store'.ses[x] # None
    BY DEF ClosingKnown
  <2>1. CASE x \in store.closing
    <3>1. store.ses[x] # None /\ x \in Ids
      BY <1>6, <2>1 DEF StoreIInv, ClosingKnown
    <3>2. answer.rec # None
      BY <1>5, RecordIs
    <3> QED BY <1>3, <3>1, <3>2
  <2> QED BY <1>4, <2>1
<1>14. ~outdated' => ~outdated /\ ~Overtaken
  BY <1>1, Zenon
<1>15. Listed' => Listed
  <2>1. SUFFICES ASSUME Listed' PROVE Listed
    OBVIOUS
  <2>2. link' /\ ~outdated' /\ list' = NoList
    BY <2>1 DEF Listed
  <2>3. link /\ ~outdated /\ list = NoList
    <3>1. link' = link /\ list' = list
      BY <1>1
    <3> QED BY <1>14, <2>2, <3>1, Zenon
  <2> QED BY <2>3 DEF Listed
<1>16. ListTrue'
  <2>1. SUFFICES ASSUME link', ~outdated', list' \notin {NoList, Asked}, NEW x \in Sure'
                 PROVE  WayOf(After(stream', list'.behind), x, record'[x], list'.rows[x] = record'[x])
    BY DEF ListTrue
  <2>2. stream' = stream /\ list' = list /\ record' = record /\ link' = link
    BY <1>1
  <2>3. link /\ ~outdated
    BY <1>14, <2>1, <2>2, Zenon
  <2> QED BY <1>8, <2>1, <2>2, <2>3 DEF StoreIInv, ListTrue
<1>17. ClosingEnds'
  <2> SUFFICES ASSUME Listed', NEW x \in store'.closing, x \notin astray
               PROVE  In(store'.eff, "remove", x) \/ Gone(stream', x)
    BY <1>1 DEF ClosingEnds, watch
  <2>1. CASE x \in store.closing
    <3>1. In(store.eff, "remove", x) \/ Gone(stream, x)
      BY <1>15, <2>1, Zenon DEF StoreIInv, ClosingEnds
    <3>2. "remove" \in Answered
      BY DEF Answered
    <3> QED BY <1>1, <1>7, <3>1, <3>2
  <2> QED BY <1>4, <2>1
<1>18. StoreTrue'
  <2> SUFFICES ASSUME Listed', NEW x \in Sure'
               PROVE  WayOf(stream', x, record'[x], Right(store'.ses, store'.eff, x, record'[x]))
    BY DEF StoreTrue
  <2>0. x \in Sure /\ x \in Ids /\ ~Awaited(x)
    BY <1>8 DEF Sure
  <2>1. Listed /\ link /\ ~Overtaken
    BY <1>14, <1>15 DEF Listed
  <2> DEFINE c == Right(store.ses, store.eff, x, record[x])  d == Right(store'.ses, store'.eff, x, record[x])
  <2>2. WayOf(stream, x, record[x], c) /\ WayOf(stream, x, record[x], TRUE)
    BY <2>0, <2>1 DEF StoreIInv, StoreTrue, StreamTrue
  <2>3. Owed(store.eff, x) => Owed(store'.eff, x)
    BY <1>7 DEF Owed
  <2>4. WayOf(stream, x, record[x], d)
    <3>1. CASE store'.ses[x] = store.ses[x]
      <4>1. c => d
        BY <2>3, <3>1, Zenon DEF Right
      <4> HIDE DEF c, d
      <4> QED BY <2>2, <4>1, WayWeaker
    <3>2. CASE answer.op = "reopen" /\ x = answer.id /\ store'.ses[x] = answer.rec
      <4>1. CASE answer.rec = record[x]
        <5>1. d
          BY <3>2, <4>1 DEF Right
        <5> HIDE DEF c, d
        <5> QED BY <2>2, <5>1, WayWeaker
      <4>2. CASE answer.rec # record[x]
        <5>1. PICK k \in 1..Len(stream) : stream[k].id = x
          BY <2>0, <2>1, <3>2, <4>2 DEF Overtaken
        <5>2. stream[k] \in Told /\ record[x] \in Recs
          BY <2>0, TypesGive
        <5>3. stream[k] \in About(x)
          BY <2>0, <5>1, <5>2, TellsIs
        <5>4. ~NoneIn(stream, About(x))
          BY <5>3 DEF NoneIn
        <5> HIDE DEF c, d
        <5> QED BY <2>2, <5>4 DEF WayOf, Follows
      <4> QED BY <4>1, <4>2
    <3> QED BY <1>3, <2>0, <3>1, <3>2, Zenon
  <2> QED BY <1>1, <2>4
<1> QED BY <1>8, <1>9, <1>10, <1>11, <1>12, <1>13, <1>16, <1>17, <1>18, Zenon DEF StoreIInv

-----------------------------------------------------------------------------
(* The theorem.                                                            *)

\* The app starts with an empty store, and connects.
LEMMA StoreStart == ASSUME Init PROVE StoreIInv
<1>1. /\ shut = <<>> /\ fresh = Newcomers /\ stream = <<>> /\ link = TRUE /\ list = Asked /\ answer = NoAnswer
      /\ outdated = FALSE /\ unshelved = {} /\ shelved = {} /\ noted = {} /\ copies = {} /\ astray = {}
  BY DEF Init
<1>2. PICK old \in [Ids \ Newcomers -> {Live, [st |-> "restart", arch |-> FALSE]}] :
        record = [id \in Ids |-> IF id \in Newcomers THEN None ELSE old[id]]
  BY DEF Init
<1>3. PICK sel \in Remembered :
        store = [ses |-> [id \in Ids |-> None], sel |-> sel, res |-> NoId, closing |-> {},
                 tried |-> {}, asked |-> NoId, eff |-> <<>>]
  BY DEF Init
<1>4. RecordTypes
  <2>1. Live \in Recs /\ [st |-> "restart", arch |-> FALSE] \in Recs /\ None \in Recs
    BY DEF Live, Recs, Records, States
  <2>2. \A id \in Ids : (IF id \in Newcomers THEN None ELSE old[id]) \in Recs
    BY <2>1
  <2>3. record \in [Ids -> Recs]
    BY <1>2, <2>2
  <2>4. <<>> \in Seq(Told) /\ <<>> \in Seq([id : Ids, rec : Records])
    OBVIOUS
  <2> QED BY <1>1, <2>3, <2>4 DEF RecordTypes
<1>5. LinkTypes
  BY <1>1, Zenon DEF LinkTypes
<1>6. ListTypes
  BY <1>1, Zenon DEF ListTypes, ListIs
<1>7. /\ store \in Stores /\ store.closing = {} /\ store.ses = [id \in Ids |-> None]
      /\ store.eff = <<>> /\ store.sel = sel
  <2>1. <<>> \in Seq(Effs)
    OBVIOUS
  <2>2. [id \in Ids |-> None] \in [Ids -> Recs]
    BY NoneIs
  <2>3. sel \in Ids \cup {NoId}
    BY AppAssumption
  <2> QED BY <1>3, <2>1, <2>2, <2>3 DEF Stores
<1>8. StoreTypes
  BY <1>1, <1>7 DEF StoreTypes
<1>9. AnswerTypes
  BY <1>1, Zenon DEF AnswerTypes, AnswerIs
<1>10. StreamTrue
  BY <1>1, WayEmpty DEF StreamTrue
<1>11. list \in {NoList, Asked} /\ list # NoList
  BY <1>1 DEF NoList, Asked
<1>12. ListTrue
  BY <1>11, Zenon DEF ListTrue
<1>13. StoreTrue /\ ClosingEnds
  BY <1>11, Zenon DEF StoreTrue, ClosingEnds, Listed
<1>14. ClosingKnown
  BY <1>7 DEF ClosingKnown
<1>15. Attached
  BY <1>7 DEF Attached, HasTerminal, Active, Present
<1>16. WatchTypes
  BY <1>1 DEF WatchTypes
<1> QED BY <1>4, <1>5, <1>6, <1>8, <1>9, <1>10, <1>12, <1>13, <1>14, <1>15, <1>16 DEF StoreIInv

\* Every step preserves the invariant.
LEMMA StoreNext == ASSUME ~LateConfirm, StoreIInv, [Next]_vars PROVE StoreIInv'
<1>1. CASE UNCHANGED vars
  <2>1. /\ record' = record /\ shut' = shut /\ stream' = stream /\ link' = link /\ list' = list
        /\ store' = store /\ answer' = answer /\ outdated' = outdated /\ unshelved' = unshelved /\ watch' = watch
        /\ shelved' = shelved /\ fresh' = fresh
    BY <1>1 DEF vars, appVars, engineVars, ghosts, watch
  <2>2. RecordTypes' /\ LinkTypes' /\ ListTypes' /\ StoreTypes' /\ AnswerTypes' /\ WatchTypes'
    BY <2>1, StoreStays, Zenon
  <2>3. StreamTrue' /\ ListTrue' /\ StoreTrue' /\ ClosingKnown' /\ ClosingEnds' /\ Attached'
    BY <2>1, StoreStays, Zenon
  <2> QED BY <2>2, <2>3, Zenon DEF StoreIInv
<1>2. CASE User
  <2>1. CASE ConfirmPendingClose \/ CancelPendingClose \/ ReopenLast
    BY <2>1, ConfirmStep, CancelStep, ReopenLastStep
  <2>2. ASSUME NEW id \in Ids,
               Select(id) \/ RequestClose(id) \/ ArchiveSession(id) \/ ReviveSession(id) \/ SpawnSession(id)
        PROVE  StoreIInv'
    BY <2>2, SelectSessionStep, RequestCloseStep, ArchiveSessionStep, ReviveSessionStep, SpawnSessionStep
  <2> QED BY <1>2, <2>1, <2>2 DEF User
<1>3. CASE Change \/ Collect \/ Cut \/ Reconnect \/ TakeList \/ ApplyList \/ ApplyEvent \/ LoseEvent
           \/ Serve \/ Unserved \/ Finish
  BY <1>3, ChangeStep, CollectStep, CutStep, ReconnectStep, TakeListStep, ApplyListStep, ApplyEventStep,
     LoseEventStep, ServeStep, UnservedStep, FinishStep
<1>4. ASSUME NEW e \in copies, PublishCopy(e) PROVE StoreIInv'
  BY <1>4, PublishCopyStep
<1> QED BY <1>1, <1>2, <1>3, <1>4 DEF Next

\* The invariant is enough.
LEMMA StoreImplies == ASSUME StoreIInv PROVE AppInv
<1>1. /\ record \in [Ids -> Recs] /\ store.ses \in [Ids -> Recs]
      /\ {store.sel, store.res, store.asked} \subseteq Ids \cup {NoId}
      /\ store.closing \subseteq Ids /\ store.tried \subseteq Ids /\ store \in Stores /\ store.eff \in Seq(Effs)
  BY TypesGive, StoreFields
<1>2. TypeOK
  <2>1. list \in {NoList, Asked} \/ list.rows \in [Ids -> Records \cup {None}]
    BY TakenIs DEF Recs
  <2>2. \A e \in Effs : e.op \in Ops
    BY DEF Effs, Effect, Ops
  <2>3. \A i \in 1..Len(store.eff) : store.eff[i].op \in Ops
    BY <1>1, <2>2
  <2>4. link \in BOOLEAN /\ outdated \in BOOLEAN
    BY Zenon DEF StoreIInv, LinkTypes
  <2>5. shelved \subseteq Ids /\ unshelved \subseteq Ids /\ fresh \subseteq Newcomers
    BY Zenon DEF StoreIInv, StoreTypes
  <2>6. record \in [Ids -> Records \cup {None}] /\ store.ses \in [Ids -> Records \cup {None}]
    BY <1>1 DEF Recs
  <2>7. noted \subseteq Ids /\ astray \subseteq Ids /\ copies \subseteq [id : Ids, rec : Records]
    BY TypesGive
  <2> QED BY <1>1, <2>1, <2>3, <2>4, <2>5, <2>6, <2>7, Zenon DEF TypeOK
<1>3. SUFFICES ASSUME Settled, ~outdated PROVE StoreAgrees /\ NoneHidden /\ SelectedHasTerminal
  BY <1>2 DEF AppInv, SettlesRight
<1>4. Listed /\ stream = <<>> /\ store.eff = <<>>
  BY <1>3 DEF Settled, Listed
<1>5. (\A op, x : ~In(store.eff, op, x)) /\ \A x : ~Gone(stream, x)
  BY <1>4 DEF In, Gone
<1>6. StoreAgrees
  <2>1. ASSUME NEW x \in Ids \ astray PROVE store.ses[x] = record[x]
    <3>0. x \in Sure
      BY <1>3 DEF Settled, Sure, Awaited
    <3>1. WayOf(<<>>, x, record[x], Right(store.ses, store.eff, x, record[x]))
      BY <1>4, <3>0 DEF StoreIInv, StoreTrue
    <3>2. Right(store.ses, store.eff, x, record[x])
      BY <3>1, WayEmpty
    <3> QED BY <1>5, <3>2 DEF Right, Owed
  <2> QED BY <2>1 DEF StoreAgrees
<1>7. NoneHidden
  <2>1. ASSUME NEW x \in store.closing \ astray PROVE FALSE
    BY <1>4, <1>5 DEF StoreIInv, ClosingEnds
  <2> QED BY <2>1 DEF NoneHidden
<1>8. SelectedHasTerminal
  <2>1. store.sel # NoId => store.sel \in Ids
    BY <1>1
  <2> QED BY <2>1, TypesGive, Zenon DEF HasTerminal, SelectedHasTerminal
<1> QED BY <1>6, <1>7, <1>8

\* However events, listings, answers and clicks are interleaved, however late the watcher's copies are
\* published and whatever is lost, a store that has nothing under way shows the Engine's sessions, hides
\* none of them, and has the terminal where the selection is; except, until the next listing, sessions an
\* event of which was lost or an old copy was the last word on (astray), and a store that has put a list or
\* a reopened record in the place of what a newer event had told it (outdated).
THEOREM AppSafe == ASSUME ~LateConfirm PROVE Spec => []AppInv
<1>1. Init => StoreIInv
  BY StoreStart
<1>2. StoreIInv /\ [Next]_vars => StoreIInv'
  BY StoreNext
<1>3. StoreIInv => AppInv
  BY StoreImplies
<1> QED BY <1>1, <1>2, <1>3, PTL DEF Spec

=============================================================================
