---------------------------- MODULE PromptInjection ----------------------------
(***************************************************************************)
(* The first prompt of a new agent (homie-engine/src/control/inject.rs): a *)
(* thread accepts Claude's trust picker, waits for a composer, types the   *)
(* prompt, and judges by the screen alone if it has landed.  It cannot see *)
(* what the agent does with its input: the agent discards what it is given *)
(* while it starts, a dialog swallows text and takes an Enter as its       *)
(* answer, a composer shows what it holds, a line reader shows nothing     *)
(* before the newline.                                                     *)
(*                                                                         *)
(* The agent, its terminal and the user are external.  A screen is what    *)
(* matters of it: the picker, and a word of the prompt.                    *)
(***************************************************************************)
EXTENDS Naturals, Sequences

CONSTANTS
  MaxAttempts,   \* bound: PROMPT_INJECTION_WINDOW / PROMPT_RETRY_DELAY
  Slow,          \* may the agent leave its input unread for a whole window?
  HasProbe,      \* has the prompt a word that is not on the screen before?
  MayAnswer,     \* may the user answer the dialog?
  ReadsWorking   \* does the agent's status read Working whatever it does?

VARIABLES
  kind, mode,    \* "tui" or "line"; "boot", "dialog", "input"
  tty,           \* input written and not read
  held, sent,    \* what the input line holds; what was submitted, in order
  screen,        \* what is painted
  moved,         \* painted anything since the prompt was typed
  swallowed,     \* an Enter was swallowed
  exited,
  thread         \* the injecting thread

promptVars == <<kind, mode, tty, held, sent, screen, moved, swallowed, exited, thread>>
agentVars == <<kind, mode, held, sent, screen, swallowed, exited>>

TypeOK ==
  /\ kind \in {"tui", "line"} /\ mode \in {"boot", "dialog", "input"}
  /\ \A i \in 1..Len(tty) : tty[i] \in {"one", "prompt", "enter", "kill"}
  /\ screen \in [picker : BOOLEAN, word : BOOLEAN]
  /\ thread.at \in {"trust", "trusted", "ready", "type", "echo", "submit", "confirm", "blind",
                    "landed", "clear", "done", "gaveup"}
  /\ thread.tries \in 0..MaxAttempts

Init ==
  /\ kind \in {"tui", "line"} /\ mode = "boot" /\ tty = <<>> /\ held = <<>> /\ sent = <<>>
  /\ screen = [picker |-> FALSE, word |-> FALSE] /\ moved = FALSE /\ swallowed = FALSE
  /\ exited = FALSE
  \* Claude has its trust picker accepted first, the others have not.
  /\ \E at \in {"trust", "ready"} : thread = [at |-> at, tries |-> 0, enters |-> 0, probe |-> TRUE]

-----------------------------------------------------------------------------
(* The agent.                                                              *)

Put(x) == IF x = "kill" THEN <<>> ELSE Append(held, x)

\* A composer may swallow one Enter in the middle of a repaint.
Read ==
  /\ ~exited /\ tty # <<>> /\ tty' = Tail(tty)
  /\ LET x == Head(tty) IN
       \/ mode = "boot" /\ UNCHANGED <<mode, held, sent, swallowed>>
       \/ /\ mode = "dialog" /\ mode' = IF x = "enter" THEN "input" ELSE mode
          /\ UNCHANGED <<held, sent, swallowed>>
       \/ mode = "input" /\ x # "enter" /\ held' = Put(x) /\ UNCHANGED <<mode, sent, swallowed>>
       \/ /\ mode = "input" /\ x = "enter" /\ held' = <<>>
          /\ sent' = IF held = <<>> THEN sent ELSE Append(sent, held)
          /\ UNCHANGED <<mode, swallowed>>
       \/ /\ mode = "input" /\ x = "enter" /\ kind = "tui" /\ ~swallowed /\ swallowed' = TRUE
          /\ UNCHANGED <<mode, held, sent>>
  /\ UNCHANGED <<kind, screen, moved, exited, thread>>

InView(x) ==
  \/ kind = "tui" /\ \E i \in 1..Len(held) : held[i] = x
  \/ \E j \in 1..Len(sent) : \E i \in 1..Len(sent[j]) : sent[j][i] = x

Painted == [picker |-> mode = "dialog", word |-> InView("prompt")]

\* While it starts it paints its banner and tips as well.
Paint ==
  /\ ~exited /\ screen' = Painted /\ (mode = "boot" \/ screen' # screen) /\ moved' = TRUE
  /\ UNCHANGED <<kind, mode, tty, held, sent, swallowed, exited, thread>>

\* It comes up, with or without a dialog; a dialog is answered by the user.
ComesUp ==
  /\ ~exited
  /\ \/ mode = "boot" /\ mode' \in {"dialog", "input"}
     \/ MayAnswer /\ mode = "dialog" /\ mode' = "input"
  /\ UNCHANGED <<kind, tty, held, sent, screen, moved, swallowed, exited, thread>>

Exit ==
  /\ ~exited /\ exited' = TRUE
  /\ UNCHANGED <<kind, mode, tty, held, sent, screen, moved, swallowed, thread>>

-----------------------------------------------------------------------------
(* The thread.  It leaves at its next look at a session that has exited.   *)

Look == ~exited /\ UNCHANGED <<agentVars, moved>>
To(from, to) == thread.at = from /\ thread' = [thread EXCEPT !.at = to]
Writes(x) == tty' = tty \o x

\* A window ends: by then the agent has read, and painted, what it was sent.
WindowEnds == Slow \/ (tty = <<>> /\ screen = Painted)

Echoed == IF thread.probe THEN screen.word ELSE moved

Leave ==
  /\ exited /\ thread.at \notin {"done", "gaveup"} /\ thread' = [thread EXCEPT !.at = "done"]
  /\ UNCHANGED <<agentVars, tty, moved>>

\* accept_claude_workspace_trust: twenty seconds for the picker to show, ...
AcceptTrust ==
  /\ Look
  /\ \/ To("trust", "trusted") /\ screen.picker /\ Writes(<<"one", "enter">>)
     \/ To("trust", "ready") /\ ~screen.picker /\ WindowEnds /\ UNCHANGED tty

\* ... two for it to go.
TrustSettles ==
  /\ Look /\ To("trusted", "ready") /\ (~screen.picker \/ WindowEnds) /\ UNCHANGED tty

\* wait_until_ready: paste mode and a screen that holds still, or a hard cap.
Ready == Look /\ To("ready", "type") /\ UNCHANGED tty

\* verification_probe, paste_text: a word on the screen already proves nothing.
Type ==
  /\ ~exited /\ thread.at = "type" /\ thread.tries < MaxAttempts
  /\ thread' = [at |-> "echo", tries |-> thread.tries + 1, enters |-> 0,
                probe |-> HasProbe /\ ~screen.word]
  /\ moved' = FALSE /\ Writes(<<"prompt">>) /\ UNCHANGED agentVars

\* wait_for_echo, ECHO_WINDOW
Echo ==
  /\ Look /\ UNCHANGED tty
  /\ \/ Echoed /\ To("echo", "submit")
     \/ ~Echoed /\ WindowEnds /\ To("echo", "blind")

\* submit_typed_prompt: Enter, ...
Submit ==
  /\ Look /\ thread.at = "submit" /\ Writes(<<"enter">>)
  /\ thread' = [thread EXCEPT !.at = IF thread.probe THEN "confirm" ELSE "done", !.enters = @ + 1]

\* agent_started_working, by the session's status
Works == ReadsWorking \/ sent # <<>>

\* ... and exactly one more if the prompt still stands there and nobody works.
Confirm ==
  /\ Look /\ UNCHANGED tty
  /\ \/ (~screen.word \/ Works) /\ To("confirm", "done")
     \/ screen.word /\ WindowEnds /\ To("confirm", IF thread.enters < 2 THEN "submit" ELSE "done")

BlindEnter == Look /\ To("blind", "landed") /\ Writes(<<"enter">>)

\* Mutant: what cannot be seen has not landed.
LandedNever == Look /\ WindowEnds /\ To("landed", "clear") /\ UNCHANGED tty

\* wait_for_echo, LANDED_WINDOW
Landed ==
  /\ Look /\ UNCHANGED tty
  /\ \/ Echoed /\ To("landed", "done")
     \/ ~Echoed /\ WindowEnds /\ To("landed", "clear")

\* clear_input_line, and another attempt while there is time.
Clear ==
  /\ Look /\ Writes(<<"kill">>)
  /\ To("clear", IF thread.tries < MaxAttempts THEN "type" ELSE "gaveup")

Thread ==
  \/ Leave \/ AcceptTrust \/ TrustSettles \/ Ready \/ Type \/ Echo \/ Submit \/ Confirm
  \/ BlindEnter \/ Landed \/ Clear

Agent == Read \/ Paint \/ ComesUp
Next == Thread \/ Agent \/ Exit

Fairness == WF_promptVars(Thread) /\ WF_promptVars(Read) /\ WF_promptVars(Paint)
Spec == Init /\ [][Next]_promptVars /\ Fairness

-----------------------------------------------------------------------------
\* "never a retype, which is what would double-send", "so a late echo cannot
\* concatenate with the retry": whatever the agent showed and swallowed on the
\* way, the prompt is submitted at most once, and alone.
PromptOnce == sent \in {<<>>, << <<"prompt">> >>}

\* A thread that gives up leaves the prompt untyped.
GivesUpUntyped == thread.at = "gaveup" => sent = <<>>

\* The prompt is submitted at most once, and never by a thread that gives up.
PromptInv == TypeOK /\ PromptOnce /\ GivesUpUntyped

\* "The user typed a prompt, got a bare agent, and the prompt was gone": a thread
\* that is content has delivered it, and an attempt that meets an input line does.
PromptDelivered ==
  thread.at = "done" \/ (thread.at = "type" /\ mode = "input") ~> exited \/ sent # <<>>

=============================================================================
