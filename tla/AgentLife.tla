------------------------------ MODULE AgentLife ------------------------------
(***************************************************************************)
(* What the registry promises about agents: a conversation has one agent   *)
(* at a time, wherever it runs.  An agent starts only when no other of the *)
(* session is running, unless the session has been written off: an agent   *)
(* of it was left behind on a machine that could not be reached.           *)
(***************************************************************************)
CONSTANTS Ids, Hosts

VARIABLES running, writtenOff

vars == <<running, writtenOff>>

Init == running = [id \in Ids |-> {}] /\ writtenOff = {}

Start(id, h) ==
  /\ running[id] = {} \/ id \in writtenOff
  /\ running' = [running EXCEPT ![id] = @ \cup {h}]
  /\ UNCHANGED writtenOff

\* Agents end, by themselves or stopped, and may be given up meanwhile.
End ==
  /\ \A id \in Ids : running'[id] \subseteq running[id]
  /\ writtenOff \subseteq writtenOff' /\ writtenOff' \subseteq Ids

Next == End \/ \E id \in Ids, h \in Hosts : Start(id, h)

Spec == Init /\ [][Next]_vars

=============================================================================
