------------------------------- MODULE MCPane -------------------------------
(***************************************************************************)
(* The app's terminal, for TLC: the pane and its attachment (TerminalPane) *)
(* and reading back and finding in it (ScrollView).  The two share no      *)
(* state, and a behaviour plays one while the other rests.                 *)
(***************************************************************************)
EXTENDS Naturals

CONSTANTS
  Sizes, Overlaps, MaxSelects, MaxTrouble, MaxEvents,
  Height, HistoryCap, CacheCap, Start, Steps, Queries, Repeats, MaxLines, MaxMoves, MaxQueries

VARIABLES
  selected, told, cur, count, att, inbox, grid, state, hold, area, lastSize, pend, armed, sent, active,
  notified, painted, budget, paced, sched, stale, screen, size, version, missed, selects, trouble, events,
  written, first, seq, altScreen, shown, alt, offset, anchor, live, known, cacheSeq, cache, inFlight, queued,
  fetch, query, gen, due, timers, searches, matches, visStart, found, stranded, chain, moves, queries,
  fails, alts, restarts,
  scene         \* which of the two is played

termVars == <<selected, told, cur, count, att, inbox, grid, state, hold, area, lastSize, pend, armed, sent,
              active, notified, painted, budget, paced, sched, stale, screen, size, version, missed, selects,
              trouble, events>>
scrollVars == <<written, first, seq, altScreen, shown, alt, offset, anchor, live, known, cacheSeq, cache,
                inFlight, queued, fetch, query, gen, due, timers, searches, matches, visStart, found,
                stranded, chain, moves, queries, fails, alts, restarts>>

P == INSTANCE TerminalPane
V == INSTANCE ScrollView

ASSUME PaneAssumption == P!PaneConstants /\ V!ScrollConstants

MCInit == scene \in {"pane", "view"} /\ P!Init /\ V!Init

MCNext ==
  /\ UNCHANGED scene
  /\ \/ scene = "pane" /\ P!Next /\ UNCHANGED scrollVars
     \/ scene = "view" /\ V!Next /\ UNCHANGED termVars

MCSpec == MCInit /\ [][MCNext]_<<termVars, scrollVars, scene>>

-----------------------------------------------------------------------------
\* terminal_pane/: the size a drag ends on reaches the Engine, the pane has the
\* Engine's screen and paints it, over lost connections and changes of selection.
PaneInv == P!PaneInv

\* scrollback.rs and find.rs: cached rows are the Engine's, what the window lacks
\* is fetched, a search is taken, and matches are the query's.
ScrollInv == V!ScrollInv

=============================================================================
