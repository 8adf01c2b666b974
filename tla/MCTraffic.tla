------------------------------ MODULE MCTraffic ------------------------------
(***************************************************************************)
(* What serves many clients at once, for TLC: the event bus and its        *)
(* subscriber, the requests that pass the LLM gateway (Gateway), and two   *)
(* handoffs between the same execution nodes (NodeHandoff).  They share no *)
(* state, and a behaviour plays one while the others rest.                 *)
(***************************************************************************)
EXTENDS EventBus, TLC

CONSTANTS
  Keys, Reqs, RateLimit, DailyLimit, MaxTokens, MinutesPerDay, MaxClock, MaxRestart,
  Handoffs, Work, States, Chunks, MayChange, MaxTrouble

VARIABLES
  keys, clock, windows, usage, req, let_in, turned, restarts,
  at, todo, off, current, fd, state, source, move, partial, blob, made, restored, imported,
  resumed, late, gaveUp, overrun, torn, trouble,
  scene         \* which part is played

gatewayVars == <<keys, clock, windows, usage, req, let_in, turned, restarts>>
handoffVars == <<at, todo, off, current, fd, state, source, move, partial, blob, made, restored,
                 imported, resumed, late, gaveUp, overrun, torn, trouble>>
G == INSTANCE Gateway
H == INSTANCE NodeHandoff

ASSUME TrafficAssumption == G!GatewayConstants /\ H!HandoffConstants

MCInit == scene \in {"bus", "gateway", "handoff"} /\ Init /\ G!Init /\ H!Init

MCNext ==
  /\ UNCHANGED scene
  /\ \/ scene = "bus" /\ Next /\ UNCHANGED <<gatewayVars, handoffVars>>
     \/ scene = "gateway" /\ G!Next /\ UNCHANGED <<vars, handoffVars>>
     \/ scene = "handoff" /\ H!Next /\ UNCHANGED <<vars, gatewayVars>>

MCSpec == MCInit /\ [][MCNext]_<<vars, gatewayVars, handoffVars, scene>>

\* Requests, handoffs and transcripts differ in their names alone.
Symmetry == Permutations(Reqs) \cup Permutations(Handoffs) \cup Permutations(States)

-----------------------------------------------------------------------------
\* policy.rs and routes.rs: no key gets more requests in than its rate, nor more
\* tokens than its quota and what was under way when the quota was reached.
GatewayInv == G!GatewayInv

\* checkpoint.rs and node_client.rs: a blob is what its digest says, a session is
\* given away only to a node that has all of it, and a failure aborts both sides.
HandoffInv == H!HandoffInv

=============================================================================
