------------------------------ MODULE MCClient ------------------------------
(***************************************************************************)
(* The two connections of a client, for TLC: the screens it is attached to *)
(* (AttachHub) and its control connection (DaemonClient).  They share no   *)
(* state, so their product says nothing the parts do not: a behaviour      *)
(* plays one of them, and the other rests where it starts.                 *)
(***************************************************************************)
EXTENDS AttachHub

CONSTANTS Callers, MaxTrouble, SlowRuntime, EventsAnytime

VARIABLES
  lc, conn, link, io, writer, published, wantEvents, flag, stop, rpc, via, pending,
  wire, subs, trouble,
  scene         \* which of the two is played

controlVars == <<lc, conn, link, io, writer, published, wantEvents, flag, stop, rpc, via,
                 pending, wire, subs, trouble>>
Control == INSTANCE DaemonClient

ASSUME ControlAssumption ==
  /\ MaxTrouble \in Nat /\ Callers \cap Control!Own = {}
  /\ SlowRuntime \in BOOLEAN /\ EventsAnytime \in BOOLEAN

MCInit ==
  /\ scene \in {"attach", "control"}
  /\ Init /\ Control!Init
  /\ scene # "control" => ~wantEvents   \* one way to rest

MCNext ==
  /\ UNCHANGED scene
  /\ \/ scene = "attach" /\ Next /\ UNCHANGED controlVars
     \/ scene = "control" /\ Control!Next /\ UNCHANGED vars

\* The fairness of each part, while it is the one that is played.
MCFairness ==
  /\ WF_vars(scene = "attach" /\ Notify)
  /\ \A c \in Clients : WF_vars(scene = "attach" /\ Seeding(c))
  /\ WF_vars(scene = "attach" /\ PumpWait) /\ SF_vars(scene = "attach" /\ PumpObserve)
  /\ WF_vars(scene = "attach" /\ PumpBroadcast) /\ WF_vars(scene = "attach" /\ PumpCheck)
  /\ \A r \in Control!Reqs : WF_controlVars(scene = "control" /\ Control!Request(r))
  /\ WF_controlVars(scene = "control" /\ Control!Lifecycle)
  /\ WF_controlVars(scene = "control" /\ Control!Task)
  /\ \A c \in Control!Conns : WF_controlVars(scene = "control" /\ Control!AbortLands(c))

MCSpec == MCInit /\ [][MCNext]_<<vars, controlVars, scene>> /\ MCFairness

-----------------------------------------------------------------------------
\* client.rs: a connection that is up carries the events its user asked for,
\* and no request waits on one that has been cleaned up.
EventsFlow == Control!TypeOK /\ Control!EventsFlow /\ Control!WaitsOnLiveConnection

\* Every request returns, whatever happens to the connection it was sent on.
RequestsReturn == Control!RequestsReturn

=============================================================================
