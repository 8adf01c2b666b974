---------------------------- MODULE RemoteSession ----------------------------
(***************************************************************************)
(* One remote Agent, its Holder on the far side (homie-remote/holder.rs)   *)
(* and its controller in the Engine: the pump of session/remote.rs and the *)
(* writer of remote/client.rs.  Between them short-lived SSH Bridges; one  *)
(* that breaks loses any suffix of what was under way in either direction. *)
(*                                                                         *)
(* Output is a count of chunks; chunk n is the one written at offset n, a  *)
(* screen is the number of chunks it shows, or Garbled.  Input is numbered *)
(* key presses.  Handshake checks of token, build and capabilities are     *)
(* passed: there is one Engine and its binding is right.                   *)
(***************************************************************************)
EXTENDS Integers, Sequences, SequencesExt

CONSTANTS
  MaxBridge,     \* bound: Bridges
  MaxOut,        \* bound: output chunks
  MaxAsks,       \* bound: key presses and resizes
  MaxEvents,     \* bound: all of these, failures, restarts and one refusal of input together
  MaxLoss,       \* bound: network failures
  MaxRestart,    \* bound: Engine restarts
  Outbound,      \* MAX_OUTBOUND_BYTES, in messages
  ReplayBudget,  \* REPLAY_BUDGET_BYTES, in chunks
  PersistEvery,  \* OFFSET_PERSIST_INTERVAL, in chunks
  Early,         \* may the user type or resize between HelloAck and ControlGranted?
  Floods         \* may a backlog that is given up hold the handshake or the exit?

\* Bounds and limits are counts.
ASSUME RemoteAssumption ==
  {MaxBridge, MaxOut, MaxAsks, Outbound, ReplayBudget, PersistEvery} \subseteq Nat

VARIABLES
  \* the Holder
  agent,         \* "running", "exited", or "gone" with its Holder
  tail,          \* output chunks so far
  epoch, seq,    \* controller_epoch, snapshot_sequence
  base, dirty,   \* what the last grid_update has covered; dirty_since
  typed, size,   \* input the Agent was given; the terminal's size
  ctl,           \* connection: the Bridge of the controller
  ep,            \* the epoch of each Bridge's connection
  \* the Bridges
  open, up, down,
  \* the Engine
  gen,           \* the writer's generation: the newest Bridge
  input, wep,    \* is there a channel to write to; controller_epoch
  queued, queuedSize,
  pump, hello,   \* where the pump is; hello_accepted
  granted,       \* has this Bridge's ControlGranted been handled?
  retries,       \* reconnects, modulo 3
  offset, saved, \* remote_output_offset; the binding's last_output_offset
  log, first,    \* chunks this Engine logged, and the offset it began at
  display, mirror,
  ending,        \* what the Engine holds the Agent's end to be
  \* the user and the faults
  keys, sizes, losses, restarts, skipped,
  refused        \* has the Holder ever refused input?

agentVars  == <<agent, tail, typed, size>>
gridVars   == <<epoch, seq, base, dirty>>
connVars   == <<ctl, ep>>
wireVars   == <<open, up, down>>
writerVars == <<input, wep, queued, queuedSize>>
pumpVars   == <<pump, hello, granted, retries>>
viewVars   == <<offset, saved, log, first, display, mirror>>
userVars   == <<keys, sizes>>
faultVars  == <<losses, restarts, skipped, refused>>
vars == <<agentVars, gridVars, connVars, wireVars, gen, writerVars, pumpVars,
          viewVars, ending, userVars, faultVars>>

Bridges == 1..MaxBridge
None == 0
Garbled == -1
Blank == [seq |-> 0, at |-> Garbled]

Hello(off)  == [t |-> "hello", off |-> off]
Keys(ks)    == [t |-> "keys", ks |-> ks]
Size(v)     == [t |-> "size", v |-> v]
Ack(e)      == [t |-> "ack", e |-> e, exited |-> agent # "running"]
Output(n)   == [t |-> "out", at |-> n]
Snap(s, n)  == [t |-> "snap", seq |-> s, at |-> n]
Delta(s)    == [t |-> "delta", seq |-> s, base |-> base, at |-> tail]
Granted(e)  == [t |-> "granted", e |-> e]
Exit        == [t |-> "exit"]
Error(f)    == [t |-> "error", fatal |-> f]

TypeOK ==
  /\ agent \in {"running", "exited", "gone"} /\ tail \in 0..MaxOut
  /\ epoch \in 0..MaxBridge /\ seq \in Nat /\ base \in 0..tail /\ dirty \in BOOLEAN
  /\ typed \in Seq(1..MaxAsks) /\ size \in 0..MaxAsks
  /\ {ctl, gen} \subseteq Bridges \cup {None}
  /\ ep \in [Bridges -> 0..MaxBridge] /\ open \in [Bridges -> BOOLEAN]
  /\ wep \in 0..MaxBridge /\ input \in BOOLEAN /\ queued \in Seq(1..MaxAsks)
  /\ queuedSize \in 0..MaxAsks
  /\ pump \in {"connect", "read", "ended"} /\ retries \in 0..2
  /\ offset \in 0..tail /\ saved \in 0..offset
  /\ display \in 0..tail \cup {Garbled} /\ mirror.at \in 0..tail \cup {Garbled}
  /\ ending \in {"none", "exited", "failed"}

Init ==
  /\ agent = "running" /\ tail = 0 /\ epoch = 0 /\ seq = 0 /\ base = 0 /\ dirty = FALSE
  /\ typed = <<>> /\ size = 0 /\ ctl = None
  /\ ep = [b \in Bridges |-> 0] /\ open = [b \in Bridges |-> FALSE]
  /\ up = [b \in Bridges |-> <<>>] /\ down = [b \in Bridges |-> <<>>]
  /\ gen = None /\ input = FALSE /\ wep = 0 /\ queued = <<>> /\ queuedSize = 0
  /\ pump = "connect" /\ hello = FALSE /\ granted = FALSE /\ retries = 0
  /\ offset = 0 /\ saved = 0 /\ log = <<>> /\ first = 0 /\ display = Garbled /\ mirror = Blank
  /\ ending = "none"
  /\ keys = 0 /\ sizes = 0 /\ losses = 0 /\ restarts = 0
  /\ skipped = FALSE /\ refused = FALSE

-----------------------------------------------------------------------------
(* The Bridges.                                                            *)

\* Nothing more is of interest once the Engine holds the Agent for ended.
Watched == pump # "ended"
Events == tail + keys + sizes + losses + restarts + (IF refused THEN 1 ELSE 0)
Max2(a, b) == IF a > b THEN a ELSE b
Numbers(a, b) == [i \in 1..(b - a) |-> a + i - 1]

\* The SSH connection of b is gone, with it part of what was under way.
Cut(b) ==
  \E u \in Prefixes(up[b]), d \in Prefixes(down[b]) :
    /\ open' = [open EXCEPT ![b] = FALSE]
    /\ up' = [up EXCEPT ![b] = u] /\ down' = [down EXCEPT ![b] = d]

NetworkFails ==
  /\ losses < MaxLoss /\ Events < MaxEvents /\ losses' = losses + 1
  /\ Watched /\ gen \in 1..MaxBridge - 1 /\ open[gen] /\ Cut(gen)
  /\ UNCHANGED <<agentVars, gridVars, connVars, gen, writerVars, pumpVars, viewVars, ending,
                 userVars, restarts, skipped, refused>>

-----------------------------------------------------------------------------
(* The Holder.                                                             *)

Essential(q) == \E i \in 1..Len(q) : q[i].t \in {"ack", "granted", "exit"}

\* What is written to a Bridge that is gone arrives nowhere.
Sent(b, q) == IF open[b] THEN [down EXCEPT ![b] = q] ELSE down
Numbered(m) == IF m.t = "delta" THEN seq + 1 ELSE seq

\* Holder::queue on Bridge b, with `shown` chunks on the screen: over the limit
\* the client is reseeded when no frame is half sent, else the Bridge dropped.
\* What the socket has already taken stays.
Queue(b, m, shown) ==
  IF ~open[b] \/ Len(down[b]) < Outbound
  THEN /\ down' = Sent(b, down[b] \o <<m>>)
       /\ seq' = Numbered(m)
       /\ UNCHANGED <<open, ctl, skipped>>
  ELSE /\ skipped' = TRUE
       /\ \E sent \in Prefixes(down[b]) :
            /\ Floods \/ ~Essential(SubSeq(down[b], Len(sent) + 1, Len(down[b])))
            /\ \/ /\ gen < MaxBridge
                  /\ down' = [down EXCEPT ![b] = sent] /\ seq' = Numbered(m)
                  /\ open' = [open EXCEPT ![b] = FALSE] /\ ctl' = None
               \/ /\ seq' = Numbered(m) + 1
                  /\ down' = [down EXCEPT ![b] =
                       sent \o <<Error(FALSE), Snap(Numbered(m) + 1, shown)>>]
                  /\ UNCHANGED <<open, ctl>>

\* drain_pty: log, feed the screen, pass on to the controller.
DrainPty ==
  /\ Watched /\ agent = "running" /\ tail < MaxOut /\ Events < MaxEvents
  /\ tail' = tail + 1 /\ dirty' = TRUE
  /\ IF ctl # None THEN Queue(ctl, Output(tail), tail + 1)
                   ELSE UNCHANGED <<down, seq, open, ctl, skipped>>
  /\ UNCHANGED <<agent, typed, size, epoch, base, ep, up, gen, writerVars, pumpVars,
                 viewVars, ending, userVars, losses, restarts, refused>>

\* emit_grid_delta: without a controller only the mark is taken back.
EmitGridDelta ==
  /\ Watched /\ agent # "gone" /\ dirty /\ dirty' = FALSE
  /\ IF ctl # None
     THEN Queue(ctl, Delta(seq + 1), tail) /\ base' = tail
     ELSE UNCHANGED <<down, seq, open, ctl, skipped, base>>
  /\ UNCHANGED <<agentVars, epoch, ep, up, gen, writerVars, pumpVars, viewVars, ending,
                 userVars, losses, restarts, refused>>

\* record_exit: the guard has killed what was left; the Holder stays.
RecordExit ==
  /\ Watched /\ agent = "running" /\ agent' = "exited"
  /\ IF ctl # None
     THEN Queue(ctl, Exit, tail) /\ (Floods \/ ~open[ctl] \/ Len(down[ctl]) < Outbound)
     ELSE UNCHANGED <<down, seq, open, ctl, skipped>>
  /\ UNCHANGED <<tail, typed, size, epoch, base, dirty, ep, up, gen, writerVars,
                 pumpVars, viewVars, ending, userVars, losses, restarts, refused>>

\* The Holder dies, or is killed; the process guard ends the Agent.
HolderDies ==
  /\ Watched /\ agent # "gone" /\ agent' = "gone"
  /\ ctl' = None
  /\ open' = [b \in Bridges |-> FALSE]
  /\ \E d \in IF gen = None THEN {<<>>} ELSE Prefixes(down[gen]) :
       down' = [b \in Bridges |-> IF b = gen THEN d ELSE <<>>]
  /\ up' = [b \in Bridges |-> <<>>] /\ dirty' = FALSE
  /\ UNCHANGED <<tail, typed, size, epoch, seq, base, ep, gen, writerVars, pumpVars, viewVars, ending,
                 userVars, faultVars>>

\* Mutant: one chunk too few is replayed.
ReplaySkipsOne(off) ==
  LET chunks == Numbers(Max2(off + 1, tail - ReplayBudget), tail) IN
  [i \in 1..Len(chunks) |-> Output(chunks[i])]

\* queue_replay: nothing when the client has it all; else at most the budget.
Replay(off) ==
  LET chunks == Numbers(Max2(off, tail - ReplayBudget), tail) IN
  [i \in 1..Len(chunks) |-> Output(chunks[i])]

HandshakeMessages(off) ==
  <<Ack(epoch + 1)>> \o Replay(off) \o <<Snap(seq + 1, tail), Granted(epoch + 1)>>

\* A new connection is accepted, replacing an older one that still waits; its
\* Hello is read; the controller is replaced.  One that is gone by then takes
\* the epoch with it and leaves the old connection without.
Handshake(b) ==
  /\ Watched /\ agent # "gone" /\ ep[b] = 0 /\ \A c \in Bridges : c > b => ep[c] = 0
  /\ up[b] # <<>>
  /\ LET off == Head(up[b]).off IN
       /\ epoch' = epoch + 1 /\ seq' = seq + 1
       /\ ep' = [ep EXCEPT ![b] = epoch + 1]
       /\ up' = [up EXCEPT ![b] = Tail(@)]
       /\ down' = Sent(b, HandshakeMessages(off))
       /\ skipped' = (skipped \/ tail - ReplayBudget > off)
  /\ IF open[b] \/ Len(up[b]) > 1
     THEN ctl' = b /\ open' = IF ctl # None THEN [open EXCEPT ![ctl] = FALSE] ELSE open
     ELSE UNCHANGED <<ctl, open>>
  /\ UNCHANGED <<agentVars, base, dirty, gen, writerVars, pumpVars, viewVars, ending, userVars,
                 losses, restarts, refused>>

\* write_input on a full queue, or a terminal that takes no input any more: the
\* error is fatal.  What the socket has not taken is given up for the notice, which
\* arrives only within its 100 ms, and the connection is closed.
RefuseInput(b) ==
  /\ gen < MaxBridge /\ Events < MaxEvents /\ ~refused /\ refused' = TRUE
  /\ \E sent \in Prefixes(down[b]), notice \in {<<>>, <<Error(TRUE)>>} :
       down' = Sent(b, sent \o notice)
  /\ open' = [open EXCEPT ![b] = FALSE] /\ ctl' = None
  /\ UNCHANGED <<typed, size, seq>>

\* handle_message: a connection whose epoch is not the newest is refused.
\* A signal only ends the Agent, which may end at any time; the Engine sends no
\* Ping, Scroll, AcquireControl or ReleaseControl, and a scrollback answer changes
\* nothing here.
HandleMessage(b) ==
  LET m == Head(up[b]) IN
  /\ Watched /\ ctl = b /\ up[b] # <<>>
  /\ up' = [up EXCEPT ![b] = Tail(@)]
  /\ IF ep[b] # epoch
     THEN /\ down' = Sent(b, <<Error(TRUE)>>)
          /\ open' = [open EXCEPT ![b] = FALSE] /\ ctl' = None
          /\ UNCHANGED <<typed, size, seq, refused>>
     ELSE \/ /\ typed' = IF m.t = "keys" /\ agent = "running" THEN typed \o m.ks ELSE typed
             /\ size' = IF m.t = "size" THEN m.v ELSE size
             /\ seq' = IF m.t = "size" THEN seq + 1 ELSE seq
             /\ down' = IF m.t = "size" THEN Sent(b, down[b] \o <<Snap(seq + 1, tail)>>) ELSE down
             /\ UNCHANGED <<open, ctl, refused>>
          \/ m.t = "keys" /\ RefuseInput(b)
  /\ UNCHANGED <<agent, tail, epoch, base, dirty, ep, gen, writerVars, pumpVars,
                 viewVars, ending, userVars, losses, restarts, skipped>>

\* The end of a connection's stream.
HolderEof(b) ==
  /\ Watched /\ ctl = b /\ ~open[b] /\ up[b] = <<>>
  /\ ctl' = None
  /\ UNCHANGED <<agentVars, gridVars, ep, wireVars, gen, writerVars, pumpVars, viewVars, ending,
                 userVars, faultVars>>

Holder ==
  \/ EmitGridDelta
  \/ \E b \in Bridges : Handshake(b) \/ HandleMessage(b) \/ HolderEof(b)

-----------------------------------------------------------------------------
(* The Engine: writer and pump.                                            *)

Closed == /\ input' = FALSE /\ wep' = 0

\* connect: a new Bridge with a Hello on its way.
Connect ==
  /\ pump = "connect" /\ agent # "gone" /\ gen < MaxBridge
  /\ gen' = gen + 1
  /\ open' = [open EXCEPT ![gen + 1] = TRUE]
  /\ up' = [up EXCEPT ![gen + 1] = <<Hello(offset)>>]
  /\ input' = TRUE /\ wep' = 0
  /\ pump' = "read" /\ hello' = FALSE /\ granted' = FALSE
  /\ UNCHANGED <<agentVars, gridVars, connVars, down, queued, queuedSize, retries, viewVars,
                 ending, userVars, faultVars>>

\* Mutant: nobody inspects.
RetryForever(answer) ==
  /\ retries' = (retries + 1) % 3
  /\ hello' = FALSE /\ granted' = FALSE
  /\ ending' = ending /\ pump' = "connect"

\* Every third reconnect inspects the session, if the host answers.
Retry(answer) ==
  /\ retries' = (retries + 1) % 3
  /\ hello' = FALSE /\ granted' = FALSE
  /\ IF retries' = 0 /\ answer /\ agent # "running"
     THEN ending' = "exited" /\ pump' = "ended"
     ELSE ending' = ending /\ pump' = "connect"

\* No channel, or one that leads to no Holder.
ConnectFails ==
  /\ pump = "connect"
  /\ \/ losses < MaxLoss /\ Events < MaxEvents /\ losses' = losses + 1 /\ Retry(FALSE)
     \/ agent = "gone" /\ losses' = losses /\ Retry(TRUE)
  /\ UNCHANGED <<agentVars, gridVars, connVars, wireVars, gen, writerVars, viewVars, userVars,
                 restarts, skipped, refused>>

\* disconnect: the Bridge's process group is ended.
Disconnect ==
  /\ Closed
  /\ \E u \in Prefixes(up[gen]) : up' = [up EXCEPT ![gen] = u]
  /\ open' = [open EXCEPT ![gen] = FALSE] /\ down' = [down EXCEPT ![gen] = <<>>]

Reconnect == Disconnect /\ Retry(TRUE)
End(how)  == Disconnect /\ ending' = how /\ pump' = "ended" /\ UNCHANGED <<hello, granted, retries>>
Continue  == down' = [down EXCEPT ![gen] = Tail(@)] /\ UNCHANGED <<open, pump, retries, ending>>

\* apply_remote_output: what was seen is skipped, the rest logged and shown.
\* observe_output_offset saves the offset now and then.
ApplyOutput(n) ==
  /\ IF n < offset THEN UNCHANGED <<offset, log, display>>
     ELSE /\ offset' = n + 1 /\ log' = Append(log, n)
          /\ display' = IF n = display THEN n + 1 ELSE Garbled
  /\ saved' = IF Max2(offset, n + 1) - saved >= PersistEvery THEN Max2(offset, n + 1) ELSE saved

\* GridMirror::apply_delta on a grid of which rows are only changed.
Apply(delta) ==
  [seq |-> delta.seq, at |-> IF mirror.at >= delta.base THEN delta.at ELSE Garbled]

\* A delta is taken only right after the one before it.
InSequence(delta) == mirror.seq # 0 /\ delta.seq = mirror.seq + 1

\* What waits for control, the size first.
Waiting ==
  (IF queuedSize # 0 THEN <<Size(queuedSize)>> ELSE <<>>)
  \o (IF queued # <<>> THEN <<Keys(queued)>> ELSE <<>>)

\* grant_control: what waited is written.  A write to a dead channel fails, or
\* vanishes in it; what was taken to be written is gone.
GrantControl ==
  \/ /\ up' = IF open[gen] THEN [up EXCEPT ![gen] = @ \o Waiting] ELSE up
     /\ queued' = <<>> /\ queuedSize' = 0
     /\ granted' = TRUE /\ Continue /\ UNCHANGED <<input, wep, hello>>
  \/ /\ ~open[gen] /\ Waiting # <<>>
     /\ queuedSize' = 0 /\ queued' = IF queuedSize # 0 THEN queued ELSE <<>>
     /\ Reconnect

\* handle_remote_message.
HandleRemoteMessage ==
  /\ pump = "read" /\ down[gen] # <<>>
  /\ LET m == Head(down[gen]) IN
       \/ /\ IF m.t = "ack" THEN hello ELSE ~hello
          /\ End("failed") /\ UNCHANGED <<queued, queuedSize, viewVars>>
       \/ /\ m.t = "ack" /\ ~hello
          /\ IF m.exited THEN End("exited")
             ELSE /\ wep' = m.e /\ hello' = TRUE /\ Continue /\ UNCHANGED <<input, up, granted>>
          /\ UNCHANGED <<queued, queuedSize, viewVars>>
       \/ /\ m.t = "out" /\ hello /\ ApplyOutput(m.at)
          /\ Continue /\ UNCHANGED <<up, writerVars, hello, granted, first, mirror>>
       \/ /\ m.t = "snap" /\ hello
          /\ display' = m.at /\ mirror' = [seq |-> m.seq, at |-> m.at]
          /\ Continue /\ UNCHANGED <<up, writerVars, hello, granted, offset, saved, log, first>>
       \/ /\ m.t = "delta" /\ hello
          /\ IF InSequence(m)
             THEN /\ mirror' = Apply(m) /\ Continue
                  /\ UNCHANGED <<up, writerVars, hello, granted>>
             ELSE Reconnect /\ UNCHANGED <<queued, queuedSize, mirror>>
          /\ UNCHANGED <<offset, saved, log, first, display>>
       \/ /\ m.t = "granted" /\ hello
          /\ IF input /\ wep = m.e THEN GrantControl
             ELSE Reconnect /\ UNCHANGED <<queued, queuedSize>>
          /\ UNCHANGED viewVars
       \/ /\ m.t = "exit" /\ hello
          /\ End("exited") /\ UNCHANGED <<queued, queuedSize, viewVars>>
       \/ /\ m.t = "error" /\ hello
          /\ IF m.fatal THEN End("failed") /\ UNCHANGED <<queued, queuedSize>>
             ELSE Continue /\ UNCHANGED <<up, writerVars, hello, granted>>
          /\ UNCHANGED viewVars
  /\ UNCHANGED <<agentVars, gridVars, connVars, gen, userVars, faultVars>>

\* The end of the Bridge's stream.
PumpEof ==
  /\ pump = "read" /\ down[gen] = <<>> /\ ~open[gen]
  /\ Reconnect
  /\ UNCHANGED <<agentVars, gridVars, connVars, gen, queued, queuedSize, viewVars, userVars,
                 faultVars>>

\* A write: queued while there is no controller; on an error queued again and
\* the channel closed.  What a full queue refuses the user is told of, and is not
\* taken for typed here.
Send(m, waiting) ==
  IF wep = 0 \/ ~input
  THEN waiting /\ UNCHANGED <<wireVars, input, wep>>
  ELSE \/ /\ up' = IF open[gen] THEN [up EXCEPT ![gen] = Append(@, m)] ELSE up
          /\ UNCHANGED <<open, down, writerVars>>
       \/ /\ ~open[gen] /\ Closed /\ waiting /\ UNCHANGED wireVars

\* Input to an Agent that has ended goes nowhere and is left out.
MaySend == Watched /\ agent = "running" /\ (Early \/ wep = 0 \/ granted)

Write ==
  /\ MaySend /\ keys + sizes < MaxAsks /\ Events < MaxEvents /\ keys' = keys + 1
  /\ Send(Keys(<<keys + 1>>), queued' = Append(queued, keys + 1) /\ UNCHANGED queuedSize)
  /\ UNCHANGED <<agentVars, gridVars, connVars, gen, pumpVars, viewVars, ending, sizes, faultVars>>

Resize ==
  /\ MaySend /\ keys + sizes < MaxAsks /\ Events < MaxEvents /\ sizes' = sizes + 1
  /\ Send(Size(sizes + 1), queuedSize' = sizes + 1 /\ UNCHANGED queued)
  /\ UNCHANGED <<agentVars, gridVars, connVars, gen, pumpVars, viewVars, ending, keys, faultVars>>

\* The Engine is replaced and adopts the Holder from its binding.
EngineRestart ==
  /\ restarts < MaxRestart /\ Events < MaxEvents /\ restarts' = restarts + 1
  /\ Watched /\ agent = "running" /\ gen \in 1..MaxBridge - 1
  /\ Disconnect /\ queued' = <<>> /\ queuedSize' = 0
  /\ pump' = "connect" /\ hello' = FALSE /\ granted' = FALSE /\ retries' = 0
  /\ offset' = saved /\ saved' = saved /\ log' = <<>> /\ first' = saved
  /\ display' = Garbled /\ mirror' = Blank /\ skipped' = FALSE
  /\ UNCHANGED <<agentVars, gridVars, connVars, gen, ending, userVars, losses, refused>>

Pump == Connect \/ ConnectFails \/ HandleRemoteMessage \/ PumpEof

Next ==
  \/ Holder \/ DrainPty \/ RecordExit \/ HolderDies
  \/ Pump \/ Write \/ Resize
  \/ NetworkFails \/ EngineRestart

Spec == Init /\ [][Next]_vars /\ WF_vars(Holder) /\ WF_vars(Pump)

-----------------------------------------------------------------------------
\* "Offsets and grid sequences make every retry idempotent": what an Engine
\* logs is the Holder's output, each chunk once and none left out, unless the
\* Holder itself gave chunks up (a reseed, or a replay over its budget).
LogComplete == ~skipped => log = Numbers(first, offset)

Settled == pump = "read" /\ granted /\ ctl = gen /\ open[gen] /\ down[gen] = <<>>

\* "instead of silently displaying a plausible but incorrect screen": from the
\* grant of control on both views are the Holder's at some moment, ...
ScreenTrue == pump = "read" /\ granted => display # Garbled /\ mirror.at # Garbled

\* ... and its present one when nothing is under way, whatever was lost,
\* reseeded or replayed before.
ScreenCurrent ==
  Settled => display = tail /\ (dirty \/ mirror = [seq |-> seq, at |-> tail])

\* Keys reach the Agent once and in the order they were typed, however many
\* Bridges carried them.
InputInOrder == \A i, j \in 1..Len(typed) : i < j => typed[i] < typed[j]

\* A user who asked for a size last gets that size.
SizeIsLast ==
  Settled /\ losses = 0 /\ restarts = 0 /\ ~skipped /\ ~refused
    /\ up[gen] = <<>> /\ queuedSize = 0 => size = sizes

\* Without a broken Bridge, and as long as the Holder has room for it, every key
\* is with the Agent, under way or waiting.
KeysKept ==
  losses = 0 /\ restarts = 0 /\ ~skipped /\ ~refused /\ agent = "running" =>
    1..keys \subseteq ToSet(typed) \cup ToSet(queued)
      \cup UNION {ToSet(m.ks) : m \in {x \in UNION {ToSet(up[b]) : b \in Bridges} : x.t = "keys"}}

\* "The Holder remains the PTY owner; a broken Bridge only advances this
\* reconnect loop": a session is held for exited only when its Agent has, and for
\* failed only after the Holder refused input, for want of room or of an Agent.
EndIsReal == (ending = "exited" => agent # "running") /\ (ending = "failed" => refused)

\* An Agent that ended is known to have ended, however often the network
\* failed before.
EndLearned == agent # "running" ~> ending # "none"

\* All the Agent wrote is in the log when the session has ended.
TailLogged == ending = "exited" /\ ~skipped /\ agent = "exited" => offset = tail

\* Nothing is logged again by the next Engine.
LoggedOnce == [][restarts' # restarts => saved = offset]_vars

\* Through losses, replays and reseeds the log, both views and the end are the
\* Holder's, and what the user typed and the size asked for come through.
RemoteInv ==
  /\ TypeOK /\ LogComplete /\ ScreenTrue /\ ScreenCurrent /\ EndIsReal
  /\ InputInOrder /\ KeysKept /\ SizeIsLast

=============================================================================
