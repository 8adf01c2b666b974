---------------------------- MODULE SessionStatus ----------------------------
(***************************************************************************)
(* What a session promises about its status: the vocabulary of             *)
(* homie_proto::SessionStatus and the moves the canonical status may make. *)
(* Module StatusSpec turns it into the abstract specification.             *)
(* Exit codes and the text of a needs-input detail are abstracted away:    *)
(* nothing that decides a status reads them.                               *)
(***************************************************************************)

Starting   == "starting"
Working    == "working"
Idle       == "idle"
Permission == "needs_permission"     \* NeedsInput(Permission)
Question   == "needs_question"       \* NeedsInput(Question)
Unknown    == "unknown"
Exited     == "exited"

NeedsInput == {Permission, Question}
Status     == {Starting, Working, Idle, Unknown, Exited} \cup NeedsInput

(***************************************************************************)
(* The moves.  Nothing returns to Starting, nothing leaves Exited, only a  *)
(* Working session goes stale, and a stale one settles only through        *)
(* positive evidence (work, a prompt, or the end of the process).          *)
(***************************************************************************)
After(s) ==
  CASE s = Starting     -> Status \ {Starting, Unknown}
    [] s = Working      -> Status \ {Starting, Working}
    [] s = Idle         -> {Working, Exited} \cup NeedsInput
    [] s \in NeedsInput -> Status \ {Starting, Unknown, s}
    [] s = Unknown      -> {Working, Exited} \cup NeedsInput
    [] s = Exited       -> {}

=============================================================================
