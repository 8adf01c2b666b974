------------------------------ MODULE StatusSpec ------------------------------
(***************************************************************************)
(* The abstract specification of a session's canonical status: it starts   *)
(* as Starting and only ever makes one of the moves of After.  Module      *)
(* StatusReducer is shown to implement it.                                 *)
(***************************************************************************)
EXTENDS SessionStatus

VARIABLE status

Init == status = Starting

Next == \E s \in After(status) : status' = s

Spec == Init /\ [][Next]_status

===============================================================================
