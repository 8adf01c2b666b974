------------------------------ MODULE ScrollView ------------------------------
(***************************************************************************)
(* Reading back in a terminal: the viewport over the Engine's history      *)
(* (homie-term/scrollback.rs), the find bar that moves it (find.rs), the   *)
(* pane that fetches what they miss (terminal_pane/scroll.rs, find.rs,     *)
(* events.rs) and the emulator that answers (homie-terminal-state).        *)
(*                                                                         *)
(* Lines are numbered as they are written.  Row r of the Engine's history  *)
(* is line first + r + 1: rows are counted from the oldest line that is    *)
(* retained, and slide when one is dropped.  The client learns of rows     *)
(* only from replies; the live grid comes on the attach stream, apart.     *)
(*                                                                         *)
(* Columns, cells and the trackpad's fractions are left out.  The window   *)
(* has one height.  One fetch at a time is under way, and searches overtake*)
(* each other, as each is a task of its own.                               *)
(***************************************************************************)
EXTENDS Integers, FiniteSets, FiniteSetsExt

CONSTANTS
  Height,         \* rows of the window and of the screen
  HistoryCap,     \* history_line_limit
  CacheCap,       \* MAX_SCROLLBACK_CACHE_ROWS
  Start,          \* lines written before the pane opens
  Steps,          \* lines of a wheel event
  Queries,        \* a query matches the lines whose number is as odd as it is
  Repeats,        \* whether a line may leave the screen as it looked
  MaxLines, MaxMoves, MaxQueries,
  MaxTrouble      \* bounds; of failures, switches of the screen and restarts together

ScrollConstants ==
  /\ {Height, HistoryCap, CacheCap} \subseteq Nat \ {0} /\ 3 * Height <= CacheCap
  /\ MaxLines \in Nat /\ Start \in Height..MaxLines /\ Steps \subseteq Nat \ {0} /\ Repeats \in BOOLEAN
  /\ Queries \subseteq {0, 1} /\ {MaxMoves, MaxQueries, MaxTrouble} \subseteq Nat

None == -99           \* no sequence, no query, no row
NoAnchor == MaxLines  \* a row that is never at the top: there are fewer
NoRange == [lo |-> 0, hi |-> 0]
NoFetch == [st |-> "none"]
NoRows == [r \in {} |-> 0]

VARIABLES
  written, first, seq, altScreen,   \* the emulator: lines, lines before row 0, content_seq
  shown, alt,                       \* the client's live grid and modes, from the attach stream
  offset, anchor, live, known,      \* view_offset, anchor, live_start_row, geometry_known
  cacheSeq, cache,                  \* cache_seq, and the line at each cached row
  inFlight, queued,                 \* ranges [lo, hi)
  fetch,                            \* the request or reply on its way
  query, gen, due, timers,          \* TerminalFindModel, and the pane's timers for it
  searches,                         \* search requests and replies on their way
  matches, visStart,                \* rows that match, and cached_visible_start_row
  found,                            \* history: the query of the matches
  stranded,                         \* history: a move since the last fetch was not pumped
  chain,                            \* history: fetches that followed one another since a move
  moves, queries, fails, alts, restarts

Trouble == fails + alts + restarts < MaxTrouble

engineVars == <<written, first, seq, altScreen>>
viewVars == <<offset, anchor, live, known, cacheSeq, cache, inFlight, queued>>
findVars == <<query, gen, due, timers, searches, matches, visStart, found>>
ghostVars == <<stranded, chain>>
boundVars == <<moves, queries, fails, alts, restarts>>
streamVars == <<shown, alt>>
scrollVars == <<engineVars, streamVars, viewVars, fetch, findVars, ghostVars, boundVars>>

-----------------------------------------------------------------------------
(* The emulator.  The alternate screen has no history.                     *)

HistorySize == IF altScreen THEN 0 ELSE written - Height - first
LineAt(r) == (IF altScreen THEN written - Height ELSE first) + r + 1

\* scrollback_cells: a window of rows, clamped to what exists.
Reply(lo, hi) ==
  LET total == HistorySize + Height
      start == Min({Max({lo, 0}), total})
      end == Min({start + (hi - lo), total})
  IN [cells |-> [r \in start..(end - 1) |-> LineAt(r)], live |-> HistorySize, seq |-> seq]

-----------------------------------------------------------------------------
(* The viewport, as a record v: each operation is a function of it.        *)

View == [offset |-> offset, anchor |-> anchor, live |-> live, known |-> known, cacheSeq |-> cacheSeq,
         cache |-> cache, inFlight |-> inFlight, queued |-> queued]
Becomes(v) ==
  /\ offset' = v.offset /\ anchor' = v.anchor /\ live' = v.live /\ known' = v.known
  /\ cacheSeq' = v.cacheSeq /\ cache' = v.cache /\ inFlight' = v.inFlight /\ queued' = v.queued

MaxOffset(v) == IF v.known THEN Max({v.live, 0}) ELSE v.offset + Height
Clamp(v, n) == Max({0, Min({n, MaxOffset(v)})})
SyncAnchor(v) == [v EXCEPT !.anchor = IF v.offset > 0 THEN v.live - v.offset ELSE NoAnchor]

Merge(r, s) == IF r = NoRange THEN s ELSE [lo |-> Min({r.lo, s.lo}), hi |-> Max({r.hi, s.hi})]

\* The rows of the window that are history, and those of them not cached.
Top(v) == v.live - v.offset
Needed(v) == Top(v)..(Min({v.live, Top(v) + Height}) - 1)
Missing(v) == IF v.offset <= 0 THEN {} ELSE Needed(v) \ DOMAIN v.cache

QueueMissing(v) ==
  LET request == [lo |-> Max({Top(v) - Height, 0}), hi |-> Min({v.live, Top(v) + Height}) + Height]
  IN IF Missing(v) = {} \/ request \in {v.inFlight, v.queued} THEN v
     ELSE [v EXCEPT !.queued = IF request.lo < request.hi THEN Merge(@, request) ELSE @]

SetViewOffset(v, n) ==
  IF Clamp(v, n) = v.offset THEN v ELSE QueueMissing(SyncAnchor([v EXCEPT !.offset = Clamp(v, n)]))

\* begin_fetch
Fetches(v) == QueueMissing(v).queued # NoRange /\ v.inFlight = NoRange
BeginFetch(v) ==
  IF Fetches(v) THEN [QueueMissing(v) EXCEPT !.inFlight = QueueMissing(v).queued, !.queued = NoRange]
  ELSE QueueMissing(v)

\* cap_cache_near_viewport: the rows nearest to the window's top are kept.
CapCache(v) ==
  LET far(r) == Max({r - Top(v), Top(v) - r})
      before(r) == {s \in DOMAIN v.cache : far(s) < far(r) \/ (far(s) = far(r) /\ s > r)}
      kept == {r \in DOMAIN v.cache : Cardinality(before(r)) < CacheCap}
  IN [v EXCEPT !.cache = [r \in kept |-> v.cache[r]]]

\* Mutant: a reply of a newer screen leaves the older rows in the cache.
KeepsCacheAlways(v, reply) == TRUE

\* A reply of another content sequence invalidates the cache.
KeepsCache(v, reply) == v.cacheSeq = reply.seq

ApplyRows(v, reply) ==
  LET old == IF KeepsCache(v, reply) THEN v.cache ELSE NoRows
      rows == [r \in DOMAIN old \cup DOMAIN reply.cells |->
                 IF r \in DOMAIN reply.cells THEN reply.cells[r] ELSE old[r]]
      v1 == [v EXCEPT !.cache = rows, !.cacheSeq = reply.seq, !.live = reply.live, !.known = TRUE]
      n == IF v.anchor = NoAnchor THEN v.offset ELSE reply.live - v.anchor
      v2 == SyncAnchor([v1 EXCEPT !.offset = Clamp(v1, n)])
  IN QueueMissing([CapCache(v2) EXCEPT !.queued = NoRange])

-----------------------------------------------------------------------------
Kinds == {"search", "rescan"}
Ranges == [lo : 0..MaxLines, hi : 0..(2 * MaxLines)]

TypeOK ==
  /\ written \in Height..(MaxLines + MaxTrouble * Height) /\ first \in 0..written /\ seq \in Nat
  /\ shown \in 0..written /\ altScreen \in BOOLEAN /\ alt \in BOOLEAN
  /\ offset \in Nat /\ anchor \in Int /\ live \in Nat /\ known \in BOOLEAN
  /\ cacheSeq \in Nat \cup {None} /\ DOMAIN cache \subseteq Nat /\ Cardinality(DOMAIN cache) <= CacheCap
  /\ inFlight \in Ranges /\ queued \in Ranges /\ fetch.st \in {"none", "asked", "answered", "failed"}
  /\ query \in Queries \cup {None} /\ found \in Queries \cup {None}
  /\ due \subseteq Kinds /\ timers \in [Kinds -> Nat]
  /\ stranded \in BOOLEAN /\ chain \in Nat

Init ==
  /\ written = Start /\ first = Max({0, written - Height - HistoryCap}) /\ seq = 1
  /\ altScreen = FALSE /\ shown = written /\ alt = FALSE
  /\ offset = 0 /\ anchor = NoAnchor /\ live = 0 /\ known = FALSE /\ cacheSeq = None /\ cache = NoRows
  /\ inFlight = NoRange /\ queued = NoRange /\ fetch = NoFetch
  /\ query = None /\ gen = 0 /\ due = {} /\ timers = [k \in Kinds |-> 0]
  /\ searches = {} /\ matches = {} /\ visStart = None /\ found = None
  /\ stranded = FALSE /\ chain = 0
  /\ moves = 0 /\ queries = 0 /\ fails = 0 /\ alts = 0 /\ restarts = 0

-----------------------------------------------------------------------------
(* The session and the attach stream.                                      *)

\* feed: a line scrolls in, the oldest may be dropped; content_seq moves if the
\* screen looks different.
Output ==
  /\ written < MaxLines /\ ~altScreen /\ written' = written + 1
  /\ first' = Max({first, written' - Height - HistoryCap})
  /\ seq' \in {seq + 1} \cup (IF Repeats THEN {seq} ELSE {})
  /\ UNCHANGED <<altScreen, streamVars, viewVars, fetch, findVars, ghostVars, boundVars>>

SwitchScreen ==
  /\ Trouble /\ alts' = alts + 1 /\ altScreen' = ~altScreen /\ seq' = seq + 1
  /\ UNCHANGED <<written, first, streamVars, viewVars, fetch, findVars, ghostVars, moves, queries, fails, restarts>>

\* The session is resumed: a new emulator, whose content_seq starts again.
Restart ==
  /\ Trouble /\ restarts' = restarts + 1
  /\ first' = written /\ written' = written + Height /\ seq' = 0 /\ altScreen' = FALSE
  /\ UNCHANGED <<streamVars, viewVars, fetch, findVars, ghostVars, moves, queries, fails, alts>>

\* Grid damage asks for one rescan per burst: on_output.
Rescans == query # None /\ "rescan" \notin due
GridFrame ==
  /\ shown # written /\ shown' = written
  /\ due' = IF query # None THEN due \cup {"rescan"} ELSE due
  /\ timers' = IF Rescans THEN [timers EXCEPT !["rescan"] = @ + 1] ELSE timers
  /\ UNCHANGED <<engineVars, alt, viewVars, fetch, query, gen, searches, matches, visStart, found,
                 ghostVars, boundVars>>

\* enter_alt_screen returns to live.
ModesFrame ==
  /\ alt # altScreen /\ alt' = altScreen
  /\ IF altScreen /\ offset # 0
     THEN Becomes([View EXCEPT !.offset = 0, !.anchor = NoAnchor, !.queued = NoRange]) /\ chain' = 0
     ELSE UNCHANGED <<viewVars, chain>>
  /\ UNCHANGED <<engineVars, shown, fetch, findVars, stranded, boundVars>>

-----------------------------------------------------------------------------
(* Scrolling and fetching.                                                 *)

\* pump_scrollback_fetch, after the viewport became v.
Pump(v) ==
  /\ Becomes(BeginFetch(v))
  /\ fetch' = IF Fetches(v) THEN [st |-> "asked", range |-> BeginFetch(v).inFlight]
              ELSE IF v.inFlight = NoRange THEN NoFetch ELSE fetch
  /\ stranded' = FALSE

Wheel(n) ==
  /\ moves < MaxMoves /\ moves' = moves + 1 /\ ~alt
  /\ Pump(SetViewOffset(View, offset + n)) /\ chain' = 0
  /\ UNCHANGED <<engineVars, streamVars, findVars, queries, fails, alts, restarts>>

\* The pill that returns to live.
ReturnToLive ==
  /\ offset > 0 /\ Becomes(SetViewOffset(View, 0)) /\ chain' = 0
  /\ UNCHANGED <<engineVars, streamVars, fetch, findVars, stranded, boundVars>>

Answer ==
  /\ fetch.st = "asked"
  /\ \/ fetch' = [st |-> "answered", reply |-> Reply(fetch.range.lo, fetch.range.hi)] /\ UNCHANGED fails
     \/ Trouble /\ fails' = fails + 1 /\ fetch' = [st |-> "failed"]
  /\ UNCHANGED <<engineVars, streamVars, viewVars, findVars, ghostVars, moves, queries, alts, restarts>>

\* A completed fetch starts the next one, if the window moved meanwhile.
CompleteAndPump(v) == Pump(v)

CompleteFetch ==
  /\ fetch.st = "answered"
  /\ CompleteAndPump(ApplyRows([View EXCEPT !.inFlight = NoRange], fetch.reply))
  /\ chain' = IF fetch'.st = "asked" THEN chain + 1 ELSE 0
  /\ UNCHANGED <<engineVars, streamVars, findVars, boundVars>>

\* A failed one is queued again, and waits for the next wheel.
FailFetch ==
  /\ fetch.st = "failed" /\ fetch' = NoFetch
  /\ Becomes([View EXCEPT !.inFlight = NoRange, !.queued = Merge(queued, inFlight)])
  /\ stranded' = TRUE
  /\ UNCHANGED <<engineVars, streamVars, findVars, chain, boundVars>>

-----------------------------------------------------------------------------
(* Find.                                                                   *)

\* set_query, and the pane's timer for it.
SetQuery(q) ==
  /\ queries < MaxQueries /\ queries' = queries + 1 /\ q # query
  /\ query' = q /\ gen' = gen + 1
  /\ due' = IF q = None THEN {} ELSE {"search"}
  /\ timers' = [timers EXCEPT !["search"] = @ + 1]
  /\ matches' = IF q = None THEN {} ELSE matches
  /\ found' = IF q = None THEN None ELSE found
  /\ UNCHANGED <<engineVars, streamVars, viewVars, fetch, searches, visStart, ghostVars,
                 moves, fails, alts, restarts>>

\* close_find: the model goes, with its generation, and a new one starts afresh.
CloseFind ==
  /\ query # None /\ query' = None /\ gen' = 0 /\ due' = {}
  /\ matches' = {} /\ visStart' = None /\ found' = None
  /\ UNCHANGED <<engineVars, streamVars, viewVars, fetch, timers, searches, ghostVars, boundVars>>

\* start_due_find: the last timer of a kind comes when its search is due, an
\* older one at any time, and takes one that is due, a search before a rescan.
Take(ripe) == IF "search" \in ripe THEN {"search"} ELSE ripe
Timer(k) ==
  /\ timers[k] > 0 /\ timers' = [timers EXCEPT ![k] = @ - 1]
  /\ \E ripe \in SUBSET due :
       /\ {j \in due : timers'[j] = 0} \subseteq ripe
       /\ due' = due \ Take(ripe)
       /\ searches' = searches \cup
            {[st |-> "asked", query |-> query, gen |-> gen] : j \in Take(ripe)}
  /\ UNCHANGED <<engineVars, streamVars, viewVars, fetch, query, gen, matches, visStart, found,
                 ghostVars, boundVars>>

\* A search that fails leaves no trace.
AnswerSearch(s) ==
  /\ s.st = "asked"
  /\ \/ searches' = (searches \ {s}) \cup
            {[st |-> "answered", query |-> s.query, gen |-> s.gen,
              reply |-> Reply(0, HistorySize), alt |-> altScreen]}
        /\ UNCHANGED fails
     \/ Trouble /\ fails' = fails + 1 /\ searches' = searches \ {s}
  /\ UNCHANGED <<engineVars, streamVars, viewVars, fetch, query, gen, due, timers, matches, visStart,
                 found, ghostVars, moves, queries, alts, restarts>>

\* build_matches: history from the snapshot, the live rows from the grid.
Matching(q, line) == line % 2 = q
BuildMatches(s) ==
  {r \in DOMAIN s.reply.cells : ~s.alt /\ Matching(s.query, s.reply.cells[r])} \cup
  {s.reply.live + i : i \in {j \in 0..(Height - 1) : Matching(s.query, shown - Height + j + 1)}}

\* Replies of an older query are dropped.
Accepts(s) == s.gen = gen /\ s.query = query

\* apply_find_snapshot: the viewport takes its geometry, and nobody pumps.
ApplySearch(s) ==
  /\ s.st = "answered" /\ searches' = searches \ {s}
  /\ IF Accepts(s)
     THEN LET v == ApplyRows(View, [s.reply EXCEPT !.cells = NoRows])
          IN /\ Becomes(v) /\ matches' = BuildMatches(s) /\ visStart' = s.reply.live
             /\ found' = s.query /\ stranded' = TRUE /\ chain' = 0
     ELSE UNCHANGED <<viewVars, matches, visStart, found, stranded, chain>>
  /\ UNCHANGED <<engineVars, streamVars, fetch, query, gen, due, timers, boundVars>>

\* advance: the viewport goes to a match; again nobody pumps.
HistoryAnchor == (Height + 1) \div 3
Navigate(m) ==
  /\ moves < MaxMoves /\ moves' = moves + 1 /\ query # None
  /\ Becomes(SetViewOffset(View, IF m >= visStart THEN 0 ELSE live + HistoryAnchor - m))
  /\ stranded' = TRUE /\ chain' = 0
  /\ UNCHANGED <<engineVars, streamVars, fetch, query, gen, due, timers, searches, matches, visStart, found,
                 queries, fails, alts, restarts>>

-----------------------------------------------------------------------------
Fetching == Answer \/ CompleteFetch \/ FailFetch
Searching == (\E k \in Kinds : Timer(k)) \/ (\E s \in searches : AnswerSearch(s) \/ ApplySearch(s))

Next ==
  \/ Output \/ SwitchScreen \/ Restart \/ GridFrame \/ ModesFrame
  \/ (\E n \in Steps : Wheel(n) \/ Wheel(0 - n)) \/ ReturnToLive
  \/ (\E q \in Queries \cup {None} : SetQuery(q)) \/ CloseFind
  \/ (\E m \in matches : Navigate(m))
  \/ Fetching \/ Searching

Spec == Init /\ [][Next]_scrollVars

-----------------------------------------------------------------------------
\* scrollback.rs: a cached row is the Engine's row, as long as the Engine's
\* content is the cache's, until a restart counts the content from zero again.
CacheIsTrue == cacheSeq = seq /\ restarts = 0 => \A r \in DOMAIN cache : cache[r] = LineAt(r)

\* The row at the top is pinned while, and only while, the reader is scrolled back.
AnchorPins ==
  /\ offset > 0 <=> anchor # NoAnchor
  /\ anchor # NoAnchor => anchor = live - offset /\ offset <= MaxOffset(View)

\* scroll.rs: what the window lacks is being fetched, after a wheel and after a
\* fetch; only find and a failed fetch leave it waiting for the wheel.
WindowServed ==
  /\ inFlight # NoRange <=> fetch # NoFetch
  /\ Missing(View) # {} => inFlight # NoRange \/ stranded

\* find.rs: a due search has a timer that will take it, although timers take
\* each other's searches and queries replace each other.
DueIsTaken ==
  Cardinality(due) <= timers["search"] + timers["rescan"]

\* Once all is answered the matches are the query's.
FindSettles ==
  query # None /\ searches = {} /\ timers = [k \in Kinds |-> 0] => found = query \/ fails > 0

\* "heavy output does not chain fetches under a still finger": a wheel costs two
\* fetches at most, however much is written meanwhile.
FingerSettles == chain <= 1

ScrollInv ==
  /\ TypeOK /\ CacheIsTrue /\ AnchorPins /\ WindowServed /\ DueIsTaken /\ FindSettles /\ FingerSettles

\* What does not hold.  A reader is no further back than the wheel took them,
\* and output pushed them.
NoJump == queries = 0 => offset <= moves * Max(Steps) + (written - Start)
\* What the window lacks comes without another wheel.
WindowFills == Missing(View) # {} => inFlight # NoRange
\* Where there is history the wheel reaches it.
CanScroll ==
  known /\ fetch = NoFetch /\ searches = {} /\ ~alt /\ ~altScreen /\ shown = written /\ HistorySize > 0 =>
    MaxOffset(View) > 0
\* A cached row is the Engine's across restarts too.
CacheIsTrueAlways == cacheSeq = seq => \A r \in DOMAIN cache : cache[r] = LineAt(r)

=============================================================================
