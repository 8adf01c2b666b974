------------------------------ MODULE AttachHub ------------------------------
(***************************************************************************)
(* homie-engine/src/attach.rs: clients attached to one session's screen,   *)
(* and the pump thread that broadcasts its changes; GridWake and the seed  *)
(* of a sink (session/screen.rs); the diff baseline of the emulator        *)
(* (homie-terminal-state/src/screen.rs).                                   *)
(*                                                                         *)
(* A client is seeded with a snapshot and registered as a sink in two      *)
(* separate steps.  The emulator keeps one baseline for all sinks: a diff  *)
(* holds the rows that differ from the last diff.  The screen is a         *)
(* function from rows to contents; modes, cursor and geometry travel the   *)
(* same way as rows.  The 16 ms pacing only delays a broadcast: Coalesce.  *)
(***************************************************************************)
EXTENDS Integers

CONSTANTS
  Rows, Contents,
  Blank,             \* what a fresh screen shows
  Clients,
  MaxWrites,         \* bound: changes of the screen
  MaxAttaches,       \* bound: attaches of each client
  MaxReplacements    \* bound: restarts that replace the session under its sinks

ASSUME HubAssumption ==
  /\ Blank \in Contents /\ "no_base" \notin Contents
  /\ Rows # {} /\ "free" \notin Clients
  /\ MaxWrites \in Nat /\ MaxAttaches \in Nat /\ MaxReplacements \in Nat

VARIABLES
  screen, seq,       \* the emulator: contents and content_seq
  base,              \* its diff baseline (last_cells), or NoBase
  gen, source,       \* GridWake: generation, and which wake it is
  unnotified,        \* the writer has fed the screen and not notified yet
  lock,              \* the registry lock: a seeding client, or Free
  cpc, view,         \* each client: where it is, and what it shows
  seed,              \* ... the sample it was seeded from: gen, seq, source
  attaches,          \* ... and how often it has attached
  sinks,             \* registered sinks
  ppc,               \* the pump thread, "none" when there is none
  psig, pgen, psource, \* its signature, generation and wake
  frame              \* the rows it has taken and not yet broadcast

screenVars == <<screen, seq, gen, source, unnotified>>
clientVars == <<cpc, seed, attaches>>
pumpVars   == <<ppc, psig, pgen, psource, frame>>
vars == <<screenVars, base, lock, clientVars, view, sinks, pumpVars>>

NoBase == [r \in Rows |-> "no_base"]
Free   == "free"
NoSig  == -1
Frame  == UNION {[changed -> Contents] : changed \in SUBSET Rows}
NoFrame == [r \in {} |-> Blank]
Sample == [gen : 0..MaxWrites, seq : 0..MaxWrites, source : 0..MaxReplacements]

TypeOK ==
  /\ screen \in [Rows -> Contents] /\ seq \in 0..MaxWrites /\ gen \in 0..MaxWrites
  /\ base \in [Rows -> Contents] \cup {NoBase}
  /\ source \in 0..MaxReplacements /\ unnotified \in BOOLEAN
  /\ lock \in Clients \cup {Free}
  /\ cpc \in [Clients -> {"away", "sample", "recheck", "seeded", "started", "joined"}]
  /\ view \in [Clients -> [Rows -> Contents]]
  /\ seed \in [Clients -> Sample]
  /\ attaches \in [Clients -> 0..MaxAttaches]
  /\ sinks \subseteq Clients
  /\ ppc \in {"none", "wait", "observe", "broadcast", "check"}
  /\ psig \in 0..MaxWrites \cup {NoSig} /\ pgen \in 0..MaxWrites
  /\ psource \in 0..MaxReplacements
  /\ frame \in Frame

Init ==
  /\ screen = [r \in Rows |-> Blank] /\ seq = 0 /\ base = NoBase
  /\ gen = 0 /\ source = 0 /\ unnotified = FALSE
  /\ lock = Free
  /\ cpc = [c \in Clients |-> "away"]
  /\ view = [c \in Clients |-> [r \in Rows |-> Blank]]
  /\ seed = [c \in Clients |-> [gen |-> 0, seq |-> 0, source |-> 0]]
  /\ attaches = [c \in Clients |-> 0]
  /\ sinks = {}
  /\ ppc = "none" /\ psig = NoSig /\ pgen = 0 /\ psource = 0
  /\ frame = NoFrame

-----------------------------------------------------------------------------
(* The session's output thread: feed the screen, then notify.              *)

Feed(r, v) ==
  /\ ~unnotified /\ seq < MaxWrites
  /\ screen[r] # v
  /\ screen' = [screen EXCEPT ![r] = v]
  /\ seq' = seq + 1
  /\ unnotified' = TRUE
  /\ UNCHANGED <<base, gen, source, lock, clientVars, view, sinks, pumpVars>>

Notify ==
  /\ unnotified
  /\ unnotified' = FALSE
  /\ gen' = gen + 1
  /\ UNCHANGED <<screen, seq, base, source, lock, clientVars, view, sinks, pumpVars>>

\* The session is restarted under its sinks: a new emulator, a new wake.
Replace ==
  /\ lock = Free /\ source < MaxReplacements
  /\ source' = source + 1
  /\ screen' = [r \in Rows |-> Blank] /\ seq' = 0 /\ base' = NoBase
  /\ gen' = 0 /\ unnotified' = FALSE
  /\ UNCHANGED <<lock, clientVars, view, sinks, pumpVars>>

-----------------------------------------------------------------------------
(* serve: seed under the registry lock, then register under the hub's.     *)

\* attachment_seed reads the generation, ...
SeedBegin(c) ==
  /\ cpc[c] = "away" /\ lock = Free
  /\ attaches[c] < MaxAttaches
  /\ lock' = c
  /\ attaches' = [attaches EXCEPT ![c] = @ + 1]
  /\ seed' = [seed EXCEPT ![c].gen = gen]
  /\ cpc' = [cpc EXCEPT ![c] = "sample"]
  /\ UNCHANGED <<screenVars, base, view, sinks, pumpVars>>

\* ... samples the screen, ...
SeedSample(c) ==
  /\ cpc[c] = "sample"
  /\ view' = [view EXCEPT ![c] = screen]
  /\ seed' = [seed EXCEPT ![c].seq = seq, ![c].source = source]
  /\ cpc' = [cpc EXCEPT ![c] = "recheck"]
  /\ UNCHANGED <<screenVars, base, lock, attaches, sinks, pumpVars>>

\* Mutant: the generation that counts is the one after the sample.
SeedRecheckTakesNewest(c) ==
  /\ cpc[c] = "recheck"
  /\ cpc' = [cpc EXCEPT ![c] = "seeded"] /\ lock' = Free
  /\ seed' = [seed EXCEPT ![c].gen = gen]
  /\ UNCHANGED <<screenVars, base, attaches, view, sinks, pumpVars>>

\* ... and samples again if the generation moved meanwhile.
SeedRecheck(c) ==
  /\ cpc[c] = "recheck"
  /\ IF gen = seed[c].gen
       THEN cpc' = [cpc EXCEPT ![c] = "seeded"] /\ lock' = Free /\ UNCHANGED seed
       ELSE /\ cpc' = [cpc EXCEPT ![c] = "sample"]
            /\ seed' = [seed EXCEPT ![c].gen = gen]
            /\ UNCHANGED lock
  /\ UNCHANGED <<screenVars, base, attaches, view, sinks, pumpVars>>

\* The first sink starts the pump from its own seed; ...
RegisterFirst(c) ==
  /\ cpc[c] = "seeded" /\ ppc = "none"
  /\ sinks' = sinks \cup {c}
  /\ cpc' = [cpc EXCEPT ![c] = "started"]
  /\ ppc' = "wait" /\ frame' = NoFrame
  /\ psig' = seed[c].seq /\ pgen' = seed[c].gen /\ psource' = seed[c].source
  /\ UNCHANGED <<screenVars, base, lock, seed, attaches, view>>

\* ... a later one joins it, whatever its own seed was.
RegisterNext(c) ==
  /\ cpc[c] = "seeded" /\ ppc # "none"
  /\ sinks' = sinks \cup {c}
  /\ cpc' = [cpc EXCEPT ![c] = "joined"]
  /\ UNCHANGED <<screenVars, base, lock, seed, attaches, view, pumpVars>>

\* The peer leaves: the read loop ends, or a write to it fails.
Deregister(c) ==
  /\ c \in sinks
  /\ sinks' = sinks \ {c}
  /\ cpc' = [cpc EXCEPT ![c] = "away"]
  /\ UNCHANGED <<screenVars, base, lock, seed, attaches, view, pumpVars>>

-----------------------------------------------------------------------------
(* The pump.                                                               *)

\* Mutant: the wake of the session it was started for is good for ever.
PumpWaitOnFirstWake ==
  /\ ppc = "wait"
  /\ IF psource = source /\ gen # pgen
       THEN ppc' = "observe" /\ pgen' = gen
       ELSE ppc' = "check" /\ UNCHANGED pgen
  /\ UNCHANGED <<screenVars, base, lock, clientVars, view, sinks, psource, psig, frame>>

\* wait_for_change, and whether the wake is still the session's.
PumpWait ==
  /\ ppc = "wait"
  /\ IF psource # source
       THEN ppc' = "observe" /\ psource' = source /\ pgen' = gen /\ psig' = NoSig
       ELSE /\ ppc' = IF gen # pgen THEN "observe" ELSE "check"
            /\ pgen' = gen
            /\ UNCHANGED <<psource, psig>>
  /\ UNCHANGED <<screenVars, base, lock, clientVars, view, sinks, frame>>

\* Background output is held back, and the newer generation noted.
Coalesce ==
  /\ ppc = "observe" /\ psource = source
  /\ pgen' = gen
  /\ UNCHANGED <<screenVars, base, lock, clientVars, view, sinks, ppc, psig, psource, frame>>

\* grid_update: the rows that changed since the last update, or all of them.
Changed == IF base = NoBase THEN Rows ELSE {r \in Rows : base[r] # screen[r]}
GridUpdate == [r \in Changed |-> screen[r]]

\* grid_update_if_changed, under the registry lock.
PumpObserve ==
  /\ ppc = "observe" /\ lock = Free
  /\ psig' = seq
  /\ IF psig = seq THEN ppc' = "check" /\ UNCHANGED <<base, frame>>
     ELSE ppc' = "broadcast" /\ base' = screen /\ frame' = GridUpdate
  /\ UNCHANGED <<screenVars, lock, clientVars, view, sinks, pgen, psource>>

\* The frame goes to whoever is registered by now.
PumpBroadcast ==
  /\ ppc = "broadcast"
  /\ ppc' = "check" /\ frame' = NoFrame
  /\ view' = [c \in Clients |-> [r \in Rows |->
       IF c \in sinks /\ r \in DOMAIN frame THEN frame[r] ELSE view[c][r]]]
  /\ UNCHANGED <<screenVars, base, lock, clientVars, sinks, psig, pgen, psource>>

\* The last sink is gone: the entry goes, and the thread ends.
PumpCheck ==
  /\ ppc = "check"
  /\ ppc' = IF sinks = {} THEN "none" ELSE "wait"
  /\ UNCHANGED <<screenVars, base, lock, clientVars, view, sinks, psig, pgen, psource, frame>>

-----------------------------------------------------------------------------
Seeding(c) == SeedSample(c) \/ SeedRecheck(c) \/ RegisterFirst(c) \/ RegisterNext(c)

Next ==
  \/ \E r \in Rows, v \in Contents : Feed(r, v)
  \/ Notify
  \/ Replace
  \/ \E c \in Clients : SeedBegin(c) \/ Seeding(c) \/ Deregister(c)
  \/ PumpWait \/ Coalesce \/ PumpObserve \/ PumpBroadcast \/ PumpCheck

\* Threads that are running go on; whether output, clients and restarts come
\* is up to them.  PumpObserve waits for the registry lock, which clients may
\* take again and again: SF, since a mutex is handed over in the end.
Fairness ==
  /\ WF_vars(Notify)
  /\ \A c \in Clients : WF_vars(Seeding(c))
  /\ WF_vars(PumpWait) /\ SF_vars(PumpObserve)
  /\ WF_vars(PumpBroadcast) /\ WF_vars(PumpCheck)

Spec == Init /\ [][Next]_vars /\ Fairness

-----------------------------------------------------------------------------
\* Sinks are never left without a pump, however attaching, leaving and the
\* end of the pump interleave.
PumpServesSinks == sinks # {} => ppc # "none"

\* The pump waits for a new generation and all notified changes are behind it.
PumpIdle == ppc = "wait" /\ psource = source /\ pgen = gen /\ ~unnotified

\* No lost wakeup: when the pump goes to sleep with nothing announced, it has
\* broadcast, or was seeded with, everything the screen shows.
NoLostWake == PumpIdle => psig = seq

\* c is the only client that ever attached, and has attached once.
Alone(c) == attaches[c] = 1 /\ \A d \in Clients \ {c} : attaches[d] = 0

\* "Sampling the generation on both sides closes the race where output lands
\* between the seed and pump registration": a client that is alone shows the
\* screen whenever there is nothing left to broadcast.
LoneSinkCaughtUp == PumpIdle => \A c \in sinks : Alone(c) => view[c] = screen

\* What it shows does not stay behind the screen, even when the session is
\* replaced under it.
LoneSinkCatchesUp == <>[](\A c \in sinks : Alone(c) => view[c] = screen)

\* A sink is seeded with a full snapshot, "then streams paced grid diffs":
\* snapshot and diffs together are the screen, for every sink.
SinksCaughtUp == PumpIdle => \A c \in sinks : view[c] = screen

\* However attaching, leaving, output and the end of the pump interleave, sinks
\* are served, no wakeup is lost and a client that is alone is up to date.
HubInv == TypeOK /\ PumpServesSinks /\ NoLostWake /\ LoneSinkCaughtUp

=============================================================================
