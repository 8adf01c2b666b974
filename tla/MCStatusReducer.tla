--------------------------- MODULE MCStatusReducer ---------------------------
(* The reducer on a small instance: every authority mode, one subagent, and *)
(* thresholds small enough to be crossed and distinct enough to matter.     *)
EXTENDS StatusReducer

AllAuthorities == {HooksPrimary, ScreenPrimary, ProcessOnly}
=============================================================================
