# Verification of homie

homie runs coding agents (Claude Code, Codex, ...) in terminals that survive
the application that shows them. This directory holds TLA+ specifications of the
engine behind it, of the app's side of its protocols and of the services around
them, the TLC configurations that check them, and TLAPS proofs of the results
that hold for every value of the constants. Paths below are relative to
`src/homie/crates/`; `engine/` stands for `homie-engine/src/`, `app/` for
`homie-app/src/`.

* [The system](#the-system) and its [inventory](#inventory)
* [Plan](#plan)
* [Modules and the code](#modules-and-the-code)
* [Runs](#runs), [fairness](#fairness) and [bounds](#bounds-and-deadlock)
* [Proofs](#proofs)
* [Where code and comments disagree](#where-code-and-comments-disagree)
* [Not modelled](#not-modelled)

## The system

```
 app, CLI ──control socket──▶ daemon (homied-rs) ──sockets──▶ holder manager
   ▲  ▲                        │ registry of sessions            │ one holder
   │  └── attach socket ◀──────┤ per session: reducer, screen,   │ thread and PTY
   │      (grid, input)        │   log reader, pump thread       │ per session
   └───── events ◀─────────────┤ event bus and watcher           ▼
                               │ governor, flusher           output log ──▶ pump
                               │ PR monitor, prompt injection
                               └──ssh──▶ homie-remote (holder on another host)
 agents ──http──▶ LLM gateway        client ──▶ execution nodes (handoff)
```

A *session* is one agent in one terminal. Its processes belong to a *holder*
in a separate manager process, which appends everything the terminal prints to
an *output log*. The daemon (called Engine where the code does) follows the log
with a *pump* thread that feeds an emulator (the screen) and a *status reducer*;
because the log and the holder outlive it, the daemon can be restarted and
*adopt* what still runs. The exit of a child travels in the same log as an
in-band marker. Clients are told of changes by an event bus with sequence
numbers, and see the screen through attach connections that get a full grid and
then diffs. A *governor* freezes idle process trees (SIGSTOP) and wakes them on
input. The app keeps a copy of the sessions and one terminal attached.

Almost everything is shared between threads under small locks that are released
between the steps of one operation, so most of what could be wrong is an
interleaving, an order of arrival, or a restart between two steps.

## Inventory

`PROJECT.json` lists every component with its files and, under `hazards`, the
lines where something hard to test can go wrong.

| Component | State | Operations | Talks to | Hard part | Correct when |
|---|---|---|---|---|---|
| status reducer `engine/status/mod.rs` | status, authority, idle candidacy, visible blocker, startup grace, staleness | hooks, screen frames, output, keystrokes, tick, exit | fed by pump and control connections | contradictory weak evidence in any order, four clocks | status never flickers, a turn completes once and only after its end, it always settles |
| shared session state, events watcher `engine/session/status.rs`, `engine/events.rs` | status, detail, version; the watcher's seen versions | apply an outcome, seed from the record, rename, poll and publish | reducer → shared → bus | fields stored one at a time, outcome applied after the lock | the last thing clients hear is what is so |
| event bus `engine/events.rs`, `homie-client/src/client.rs` | next seq, ring, queues, client's last seq | publish, subscribe since, receive, overflow, reconnect | watcher and handlers → clients | stamping and enqueuing are two steps; queue full; restart | no silent gap, no duplicate, bounded |
| attach hub `engine/attach.rs`, `engine/session/screen.rs` | sinks, pump flag, wake generation, diff baseline | seed, register, wait, diff, broadcast, deregister | screen → clients | lost wakeups, last sink leaves as another comes, session replaced | a client ends up showing the screen |
| deferred launch `engine/session/lifecycle.rs`, `pty.rs` | DeferredState, queued input, sizes, exit | launch, hand over, write, resize, hibernate, terminate, drop | daemon → manager → holder | terminate races launch; input and sizes race the handover | no orphan, nothing lost, terminate returns |
| output log `engine/log.rs`, `engine/session/pump.rs` | file and its base offset, reader's handle, ring | append, half truncation, refresh, read, reopen | holder → file → pump | rename under an open reader | every byte once, in order |
| held session `engine/holder/*`, `pump.rs`, `checkpoint.rs` | log, holder phase, epoch, marker buffer, checkpoint, record | reap, drain, mark, probe, checkpoint, adopt, resume | manager, holder, log, pump, registry | crashes of either side between any two steps | screen = log, the exit is this child's, a death is noticed |
| governor `engine/governor.rs` | record's hibernation, flag, idle dates, dirty state file | sweep (three policies), freeze, wake, save | registry, sessions, attach | decides on a snapshot, acts later | what is watched is not silently stopped, what is idle is reclaimed, what is frozen is saved although a write may fail |
| registry `engine/registry.rs`, `registry/*`, `engine/control/handlers/*` | records, live sessions, recently closed, state file | spawn, kill, remove, reopen, archive, resume, migrate, load, save | all of the daemon | failure half way, lock released between the steps of a request | no live child out of reach, one agent per session, file = registry |
| holder manager `engine/holder/manager.rs`, `launcher.rs` | launch lock, active set, idle deadline, control files | launch, idle exit, shutdown | daemons → manager → holders | idle exit against a late launch, two launchers | one holder per id, what was acknowledged is hosted |
| control channel, daemon lifetime `engine/control/runtime.rs`, `app/daemon_launch.rs` | daemon.lock, socket file, connection count | bind, accept, shutdown when idle, start, upgrade, quit | app, CLI ⇄ daemon | the look and the exit are not one step; two Engines | one Engine serves, of the app's own build, and the app is served |
| daemon client `homie-client/src/client.rs` | pending requests, writer, state, want_events | request, reconnect, subscribe | app → daemon | every await is an interleaving | every request returns, a connected client gets its events |
| prompt injection `engine/control/inject.rs` | attempt, echo seen | type, wait for echo, submit, clear, retry | session | late echo | the prompt arrives once |
| remote session `engine/remote/client.rs`, `session/remote.rs`; `homie-remote` | controller epoch, queues, offsets, snapshot | connect, hello, grant, write, resume, exit | daemon ⇄ ssh ⇄ holder | lost bridges, replays, bounded queues | in order, at most once, no hole, the end is learned |
| PR monitor `engine/pr_monitor` | pending wake, batches, order, backoff | wake, sweep, fetch, record | gh | a wake while it sweeps | a wake is not lost, records catch up |
| app session store `app/store/*` | the copy, selection, rows being closed, residency, queue of requests | hydrate, apply an event, close, archive, revive, select | control client | listing, late or lost events and optimistic changes in any order | the copy is the Engine's, nothing is hidden for ever |
| terminal pane `app/terminal_pane/*`, `homie-client/src/attachment.rs` | attachment, sizes on their way, held frames, repaint budget | attach, reconnect, resize, hold, flush, paint | attach hub | a size or a frame is kept for later and the session is switched | the last size arrives, the grid is the screen and is painted |
| scrollback and find `homie-term/src/scrollback.rs`, `find.rs` | anchor, cache, fetch under way, query, matches | wheel, fetch, apply, evict, find | attach hub | the length of the history is known only from replies | cached rows are the Engine's, the window fills, a reader stays where they are |
| gateway `homie-gateway` | keys, rate window, usage | authorise, forward, record | agents → providers | check and record are two steps | rate and quota respected |
| execution node and handoff `homie-node`, `homie-client/src/node_client.rs` | checkpoints, blobs, partial files, lease | prepare, transfer, stage, activate, commit, abort | client → two nodes | calls that are given up and served later | a blob is its digest, a session is given away only whole |
| updater `homie-updater`, `app/updates.rs` | service state, bundle, backup, staged | check, stage, quit, swap, reopen | file system, shell | killed between two commands | never swapped under a running app, never without a copy |
| detection, hooks, manifests, git facts, history, MCP, ACP, views, wire types | none or presentation | parsing, formatting, I/O | | | |

## Plan

Order: first the path from a signal to the user (reducer, shared state, event
bus), then the path of bytes (log, held session, attach), then the life of a
session (launch, hibernation, registry), then the pieces around them, then the
app's own state machines.

| Step | Modules | Composes | State |
|---|---|---|---|
| 1 | `SessionStatus`, `StatusSpec` (abstract), `StatusReducer` | `StatusReducer` implements `StatusSpec` | done, proved |
| 2 | `SharedStatus` | reduces a signal to any status of `SessionStatus!After`, as `StatusReducer` does | done, core proved |
| 3 | `EventBus` | publishes what `SharedStatus` decides to | done |
| 4 | `OutputLog`, `HeldSession` | `HeldSession` uses the log as the sequence `OutputLog` delivers; together in `MCHeld` | done |
| 5 | `AttachHub`, `DeferredLaunch`, `Governor` | | done |
| 6 | `AgentLife` (abstract), `Registry` | `Registry` implements `AgentLife` | done |
| 7 | `HolderManager` | one holder per id, which `HeldSession` assumes | done |
| 8 | `DaemonClient`, `DaemonLifetime` | the reconnects `EventBus` takes as input | done |
| 9 | `RemoteSession` | Engine and holder over bridges that break | done |
| 10 | `PromptInjection`, `Gateway`, `UpdateInstall`, `PrMonitor` | in `MCServices`, `MCTraffic` | done |
| 11 | `AppStore`, `TerminalPane`, `ScrollView` | over the promises of `EventBus`, `Registry` and `AttachHub` | done |
| 12 | `NodeHandoff` | in `MCTraffic` | done |
| 13 | `RegistryProofs`, `HeldProofs`, `ClientProofs`, `TrafficProofs`, `ServicesProofs`, `AppProofs` | each extends the module of a run and proves its invariants | done |
| 14 | `RemoteSafe`, in `ServicesProofs` | extends `RemoteSession` too and proves `RemoteInv` | done |
| 15 | process tree under forks, ACP host, MCP routing, legacy retirement | | later, see [Not modelled](#not-modelled) |

No module a proof module reaches declares a RECURSIVE operator. What is proved and what
is left is in [Proofs](#proofs).

The definitions of the modules stand for about a tenth of the lines of the
repository's implementation: nearly all of the code in which threads, processes
or messages meet. Most of the rest is user interface, wire types, parsing,
formatting and command construction.

## Modules and the code

`PROJECT.json` maps each definition to its lines.

**SessionStatus, StatusSpec.** The seven statuses and `After(s)`, the abstract
machine the clients rely on: nothing returns to Starting, nothing leaves Exited,
and Unknown is left only for a status that positive evidence gives.

**StatusReducer** (`engine/status/mod.rs`). One action per signal, as `reduce`
dispatches them, each with its candidacy and blocker bookkeeping: `ProcessExit`,
`PtyOutputActivity`, `UserKeystroke`, the hooks, the screen frames in the two
authority modes that read them, and `Tick`. The code has no clock of its own and compares `now` with
three stored instants; the model keeps their ages, saturated at the threshold
they are compared with, and lets time pass with `Elapse`. Three history variables
(`ended`, `idleFrames`, `missRun`) record what happened, independently of the
reducer's own counters, so that the properties do not repeat its code.

**SharedStatus** (`engine/session/status.rs`, `engine/events.rs`,
`engine/session/lifecycle.rs`). The pump and the control connections reduce under
the reducer lock and apply afterwards, one field at a time (`ApplyStatus`,
`ApplyDetail`, ...: status, detail, version bump), also an outcome that changes the
detail alone; `Adopt` seeds a restored status; the watcher reads
version, status and detail in that order under the registry lock and publishes
after releasing it; `Rename` stands for the record edits that publish directly.

**EventBus** (`engine/events.rs`, `homie-client/src/client.rs`). `Stamp` (under
the bus lock: seq, ring, subscribers) and `Enqueue` (after it) are the two halves
of `publish`, by two publishers; the queue evicts its oldest entry and puts a
marker; the client keeps the largest seq and resumes from it; `Restart` starts
the numbering over. Three history flags say that a publisher was overtaken, that
the notice of a hole was itself lost, or that what the client had not seen left the
ring while it was away: the only excuses for a silent gap.

**AttachHub** (`engine/attach.rs`, `engine/session/screen.rs`,
`homie-terminal-state/src/screen.rs`). A client samples the generation, takes the
snapshot and registers in separate steps; the pump waits, coalesces, looks for a
replaced session, takes a diff against the emulator's one baseline, broadcasts,
and checks whether it still has sinks. `Replace` restarts the session under them.

**DeferredLaunch** (`engine/session/lifecycle.rs`, `engine/session/pty.rs`). The
launcher's steps from the settled size to the handover, with the client
operations falling between them: input is queued, queued for a sleeping tree, or
written; sizes are pending or applied; `Terminate` and `DropSession` cancel or kill.

**OutputLog** (`engine/log.rs`, `engine/session/pump.rs`). Offsets only: the file
at the path, a retired one, the reader's handle and ring start, the watcher's
file. `Rotate` is the half truncation, `Read` one refresh and read of a chunk, `Wait`
what the watcher's rename event does.

**HeldSession** (`engine/holder/server.rs`, `manager.rs`, `protocol.rs`,
`engine/session/pump.rs`, `engine/checkpoint.rs`, `engine/registry.rs`). The holder reaps,
drains, writes the marker and leaves; the pump replays from a checkpoint or a budget,
honours markers from its floor on, probes, checkpoints; the daemon goes down,
adopts what answers and reaps what does not; a record may be resumed under its
old id.

**Governor** (`engine/governor.rs`, `engine/registry.rs`,
`engine/registry/flusher.rs`, `engine/attach.rs`). The sweep with its snapshot,
the hard limit, the idle policy and the budget policy as separate critical
sections; attach, keystrokes, requests and the debounced save around them; `Crash`
forgets what was not saved. A write may fail: the flusher comes back as long as the registry is
dirty; a save that was not deferred leaves it clean, its error is ignored, and
nothing is written before the next change of any record (`forgone`).

**AgentLife, Registry** (`engine/registry.rs`, `registry/flusher.rs`,
`engine/control/handlers/*`, `engine/control/runtime.rs`). `AgentLife` is what a user relies
on: a conversation has one agent at a time. `Registry` implements it. A handler
holds the registry lock from its first change to its last and is one action,
except resume and migrate, whose sections are steps of a thread (`LookAt`,
`Respawn`; `StopSource`, `RewriteRecord`, `ResumeMoved`) with the failures between
them. `PersistNow`, `Persist` and `FlushDirty` write the file at once, after the debounce
or not at all; `Restart` loads it, adopts the holders that answer and writes off the
rest, `RestartDamaged` finds nothing, `RestoreRemote` reattaches. `stray` names the sessions
with an agent left on a machine that could not be reached, by a crash, a damaged file
or a kill that failed.

**HolderManager** (`engine/holder/launcher.rs`, `manager.rs`). The file lock, the
ping, the spawned manager and the retry on one side; accept loop, active set, idle
watchdog, and the removal of the control files on the other. A daemon that crashes
frees the lock.

**DaemonLifetime** (`app/daemon_launch.rs`, `engine/bin/homied-rs.rs`,
`engine/control/runtime.rs`). The app probes, replaces an Engine of another build, or starts
one; the Engine takes `daemon.lock`, removes the socket file it finds and binds; the
exit thread of a shutdown when idle looks, unlinks and dies in separate steps. An Engine
whose first probe fails is asked again, and if it answers then it is left alone without a
comparison of builds (`spared`); one that dies between the two probes
is not replaced, as the start returns.

**DaemonClient** (`homie-client/src/client.rs`, `connection.rs`). The lifecycle task, the callers
and the task of `events()`; every await is a point where the others may run. A
request is known by its caller and its connection, for its unique id.

**RemoteSession** (`homie-remote/src/holder.rs`, `engine/session/remote.rs`,
`engine/remote/client.rs`, `homie-terminal-state/src/mirror.rs`). Holder, bridges and Engine: hello
and replay within the budget, grants of control, the bounded outbound queue that is
reseeded or dropped, output by offset, snapshots and deltas by sequence, queued input and
size, the exit. A bridge that breaks loses any suffix of what is under way. The Holder
refuses input when more than 1 MiB of it would wait, or the terminal takes none (`refused`), and
closes the connection: the notice, if it gets through within its 100 ms, is fatal to the
session at the Engine, and otherwise the Engine connects again. A write that the Engine's own queue has no room for changes nothing and the caller
is told. Accepting a
connection and its Hello are one step; there is one Engine, so nobody is sent
ControlRevoked.

**PromptInjection** (`engine/control/inject.rs`). The injecting thread against an agent, its
terminal and a user that are external: it starts, discards, shows a dialog, swallows an
Enter, echoes late.

**PrMonitor** (`engine/pr_monitor`). The monitor's thread with the snapshot it takes, the batch,
the fetches and the records; three kinds of threads change something first and wake it
afterwards. The sinks are read with the snapshot, and how long an interval is stays open.

**Gateway** (`homie-gateway`). Requests read the clock, pass the limiter, look at the quota, go
upstream and record, each of these a step, across minutes, days and a restart. `usage` keeps for each day the
tokens recorded from it on, which is what the query of the quota check sums.

**UpdateInstall** (`app/updates.rs`, `homie-updater`). The service's commands, and the helper
script command by command; a helper may be killed between two of them.

**NodeHandoff** (`homie-client/src/node_client.rs`, `homie-node/src/checkpoint.rs`, `service.rs`).
The coordinator's calls, in order, with their error paths; what is not answered in time is
given up and may be served later (`Late`). No lock joins the steps of `put_blob` and of
`stage`, so each is one of the model: whether the blob is there, the length of
the partial file, its opening, the write, the digest, the rename; in `stage` each blob's check
and its copy. An open file is written to wherever its
name has gone meanwhile. `overrun` names the blobs that another upload wrote to, or put another file in
the place of, after their digest was taken, `torn` the handoffs that copied one that was no longer its
digest. A checkpoint without a provider's session id (`PrepareRefused`) ends the handoff at once,
and nobody aborts it.

**AppStore** (`app/store/*`, with the Engine's side from `engine/registry.rs`). The store as one
record; the task that applies events, the one that lists after a connect, and the one that
carries requests, none ordered against the others; the user and other clients. The Engine's
handlers publish as they change a record; its watcher copies the record under the lock (`noted`,
`copies`) and publishes after it, perhaps behind a newer event, as the governor and the
PR monitor do. An event may be lost on the way (`LoseEvent`): a queue overflows, or the
app's task lags, and neither makes it list again. `astray`, `outdated` and `unshelved`
are the three excuses of its property, explained below: the first names the sessions the last word
about which was an old copy or was lost, until the store hears of them again.

**TerminalPane** (`app/terminal_pane/*`, `homie-client/src/attachment.rs`,
`homie-term/src/repaint.rs`). Selection, residency, attachments that connect, lose the
connection and retry, sizes folded into ticks, frames held while a column change makes its
round trip, repaint pacing. What an attachment has written before it closes is still read by
the Engine (`Parting`), and a size that cannot be set is not tried again (`missed`). With
`Overlaps` off a session is selected only after the Engine has seen the
last attachment close. The Engine's side is what `AttachHub` promises a sink.

**ScrollView** (`homie-term/src/scrollback.rs`, `find.rs`, `app/terminal_pane/scroll.rs`,
`find.rs`, `homie-terminal-state/src/screen.rs`). Lines are numbered; the Engine's rows slide
when the oldest is dropped; the viewport, its cache and one fetch under way on the client's
side, with searches that overtake each other.

**MCHeld, MCClient, MCServices, MCTraffic, MCPane.** Modules that share no state are
checked in one run as *scenes*: Init chooses which one is played and the others rest.
Their product would say nothing more. The modules that do compose do so through what one
assumes and the other shows: `HeldSession` assumes a log as a sequence (`OutputLog`) and
one holder per id (`HolderManager`), `TerminalPane` a sink that gets a snapshot and every change (`AttachHub`). `AppStore` takes for granted only that
events arrive in the order in which they were published: that they may be published out of the order of the changes
(`SharedStaleEvent` below) or get lost (`EventBus`) is part of it.

## Runs

Every property has a mutant of the code in `PROJECT.json` that breaks it under the
same configuration.

| Run | Bounds | Shows |
|---|---|---|
| `reducer` | all three authorities, one subagent; 3 idle frames, cap, grace and timeout of 2 ticks, 2 misses | `CompletionFollowsEnd`: turn_completed only on Working → Idle after an announced end. `NoIdleFlicker`: a working session reads idle only after an end, enough idle frames or the cap. `PromptSurvivesStrayFrames`: the screen takes a prompt down only after enough frames without it. `Inv`: candidacy and blocker agree with the status. `ImplementsStatusSpec`: refinement. `TicksSettle`: ticks alone carry it out of Starting, an announced end and a silence. |
| `shared_status` | pump, one connection, adoption; 2 signals, 2 details, 1 rename; fresh or restored session | `PublishedIsCurrent`: when every thread is done and the watcher knows the newest version, the clients have the current status and detail, although these are read and written one at a time. `ClientsCatchUp`: they end up with it. |
| `client` | attach: two clients, one attach each, one row of two contents, 2 writes, 1 replacement; control: one caller, 2 troubles | `HubInv`: an idle pump has nothing left to send, sinks have a pump, a client that is alone shows the screen, also after the session was replaced; `LoneSinkCatchesUp`: it gets there. `EventsFlow`: a connection that is up carries the events asked for, and no request waits on one that was cleaned up. `RequestsReturn`. |
| `held` | launch: 2 sizes, 3 inputs, 2 resizes, one terminate or drop; held: 2 incarnations, 2 outputs, daemon down twice, 1 holder crash, replay budget 4; log: capacity 4, chunks and appends of 2, stream of 14 (five rotations); governor: one session, thresholds 1 and 0, footprints below, at and above the limits, 1 request, 1 crash, 1 failing write | `LaunchInv`: no orphan, everything typed reaches a running child. `TerminateReturns`. `HeldInv`: the emulator shows each logged output once and no marker whatever checkpoint it was restored from, and an exit belongs to the incarnation that was asked for. `ExitNoticed`. `NothingLost`, `ReaderCatchesUp`: for a reader with a watcher that is never half a capacity behind. `GovernorInv`: a viewed session whose tree is stopped is known to be, so that the next keystroke wakes it; the excess never underflows. `GovernorSettles`: what stays idle is hibernated, and a lasting freeze reaches the state file, also after a write that failed, unless that was one nobody repeats. |
| `registry` | 2 sessions, one of which may move to another host, 2 requests that resume or migrate, 1 closed session kept, kills may fail | `RegistryInv`: no record claims a live agent that is not there, a session runs where its record says, closed and open are apart, and what is not marked dirty is on disk. `AgentInReach`: every running agent can be found again, or is one of those a crash, a damaged file or an unreachable host took away. `OneAgent`: refinement of `AgentLife`. |
| `traffic` | bus: 2 publishers, 4 events, ring 2, queue 2, 2 reconnects, 1 restart; gateway: 1 key, 2 requests, rate 1, quota 2, days of 2 minutes, 1 restart; handoff: 2 handoffs, 2 transcripts, 2 chunks, 1 call given up | `NoSilentGap`: within one daemon's life a client that resumed has every event up to the last it saw, or a marker for it, unless a publisher was overtaken, a marker lost, or the ring outrun. `BusInv`: capacity plus the one marker, the newest event still gets through, nothing twice, in order. `GatewayInv`: the rate holds unless a request came with an older minute; the quota is overrun by at most what was under way. `HandoffInv`: a blob with its name is its digest unless another upload wrote to it after the digest was taken (`overrun`, `torn`), a committed target has all of the session, the source gives nothing away the target did not take, a failure after the checkpoint was accepted aborts both sides. |
| `services` | 2 launchers, 2 sessions, 2 managers, 3 launches; 4 Engines, 3 app starts, 2 idle looks, 1 crash; 3 releases, 2 helpers that may be killed; 2 sessions on screen that share a pull request, batches of 1, 2 moves, 1 piece of news; 3 prompt attempts | `HostedOnce`: one holder per session, what was acknowledged stays hosted, nobody removes a successor's socket. `OneEngine`: one Engine has lock and socket, and the app talks to one of its own build or to one it could not compare or stop. `AppServed`. `UpdateInv`: a whole bundle in place or beside it at every command, never swapped under the app, never older. `MonitorInv`: no wake is lost. `PromptInv`: submitted at most once. `HelpersFinish`: launches return, the replaced app is opened again, records catch up with GitHub, the prompt is delivered. |
| `remote` | 2 bridges, 2 outputs, 2 keys or sizes, 1 loss, 1 Engine restart, 4 events in all; queue of 3, replay of 1, offset saved every 2 | `RemoteInv`: the log has no gap or repetition, both views are the Holder's, keys arrive once and in order, the last size wins, a session is held for exited only when its agent did and for failed only when the Holder refused input. `EndLearned`. |
| `app` | one agent, selected when the app starts, one shell that may be started; 2 clicks, 1 change elsewhere, 1 lost connection, 1 lost event, 3 of these in all | `AppInv`: once all is delivered the store shows the Engine's sessions and hides none, but for those the last word about which was lost or old, and what is selected has the terminal. |
| `pane` | 2 sizes, 2 selections, 1 trouble, 3 events (4 pass alone); window 2, history 2, cache 6, 5 lines, 2 moves, 1 query | `PaneInv`: the size a drag ends on arrives, the grid is the Engine's screen once nothing is under way or held, it gets painted, and the pane does not claim to reconnect when it is live. `ScrollInv`: cached rows are the Engine's, the pinned row is the top, what the window lacks is fetched, a wheel costs two fetches at most, due searches are taken and matches are the query's. |
| `app_revive`, `scroll_jump` | as `app`, `pane` | expected violations, see [below](#where-code-and-comments-disagree) |

### Fairness

Fairness is assumed only of threads that the code keeps running, never of clients,
children or failures.

* `StatusReducer`: the pump ticks the reducer on every turn of its loop, at least
  every 150 ms, and time passes (`WF(Tick)`, `WF(Elapse)`). No signal is fair.
* `SharedStatus`: a thread that has begun to apply an outcome finishes; the
  watcher polls for ever. The start of a poll competes for the registry lock with
  connections that may hold it again and again, so it gets strong fairness: std's
  mutex does not starve a waiter for ever in practice, and weak fairness would be
  satisfied by a watcher that never gets in.
* `AttachHub`: the writer notifies after it has fed the screen, a client that began
  to attach goes on, the pump runs (its wait is bounded by a second), with strong
  fairness for the step that takes the registry lock. Clients need not leave.
* `DaemonClient`: the lifecycle task, a request that has begun, the subscribing task
  and the abort of a task that was dropped: the runtime polls what is ready. The
  daemon need not answer.
* `DeferredLaunch`: the launcher, a resize and a terminate that have begun go on;
  both waits of terminate have deadlines. The child need not exit.
* `OutputLog`: the pump runs; an owner over capacity rotates within the same append.
* `HeldSession`: the holder's threads and the pump run. Neither the child's exit nor
  a restart of the daemon is fair; `ExitNoticed` speaks only of a daemon that stays up.
* `Governor`: sweeps, the flusher and time go on.
* `HolderManager`: launchers go on and managers serve. The client's calls of a manager
  have no deadline of their own: a launcher goes on because a manager that accepted it answers or dies. `DaemonLifetime`: the app's start, which has deadlines, and each Engine's threads.
* `RemoteSession`: the Holder's loop and the Engine's pump run; the network need not work,
  but fails finitely often.
* `UpdateInstall`: a helper that is not killed runs on. `PrMonitor`: the monitor, a thread
  that is about to wake it, and the clock. `PromptInjection`: the thread, and an agent that
  reads its terminal and paints in the end.
* `NodeHandoff`: the coordinator, since each of its calls has a deadline; `HandoffEnds` is
  checked from the module itself, outside the runs.
* `EventBus`, `Gateway`, `Registry`, `AppStore`, `TerminalPane` and `ScrollView` are checked
  for safety only: what has to come about there is said of the states in which nothing
  is under way any more.

### Bounds and deadlock

The counters named `Max...` bound what the environment does, not what the code
does: signals, edits, events, reconnects, writes, attaches, inputs, sizes, crashes,
clicks. They appear in guards only. Each is large enough for the shape of failure it is
about: two outcomes are needed to apply them in the wrong order, two incarnations to
confuse their exits, three inputs for one to be queued, one handed over and one
written through, more than two rotations for a reader that reopens twice, two bridges for
one to resume what the other lost, two handoffs to meet in one file, two helpers to meet in
one bundle. One query, two lines of output and a cache of six rows are few for `pane`:
replaced queries, fetches that follow each other through heavy output and the cut of the
cache are left to the theorem `ScrollSafe`. Limits of the code (ring, queue, history, cache, budgets) are scaled down so
that they are reached. The reducer's model has no such bound, as its ages saturate, and the
registry's needs none, as its records return to where they were; deadlock is checked in
both. The other modules end when their bounds are used up or the session has ended, hence
`CHECK_DEADLOCK FALSE`; where something must not get stuck, a property says so.

One session, one row and one agent are enough where the code treats them alike
and shares nothing between them; the governor shares the memory budget between
sessions, and its order among several candidates is not checked. Symmetry is used in
`traffic`, which has no liveness, over requests, handoffs and transcripts, whose names
nothing compares.

## Proofs

Eight modules hold 30 theorems that TLAPS checks, for all values of the constants that
the assumptions admit. With them every safety property of the passing runs is proved; liveness is
*only model-checked*.

The assumptions on constants are named and stand in the modules that declare them or
in the MC modules that instantiate these: bounds and limits are natural numbers, a count that
is waited for is positive, names of threads, clients or sessions are told from the mark for nobody and sizes from
the marks for none and close, a restored status is not Exited (only records of live holders are adopted). TLC
evaluates them in every run. Some theorems have a hypothesis beside that, `~Overlaps` or
`~SlowHolder`: a constant that switches on a case in which the code does not have the
property, see [below](#where-code-and-comments-disagree). The runs set it the same way, so
theorem and run speak of the same behaviours; without the hypothesis the theorem is false,
and the second table there says what TLC shows instead.

| Module | Theorem | States | Hypotheses |
|---|---|---|---|
| StatusReducerProofs | `Bookkeeping`, `CompletionCorrect`, `FlickerCorrect`, `PromptCorrect`, `Refinement` | `Inv`, the three action properties, the refinement of `StatusSpec` | |
| SharedStatusProofs | `NoLostUpdate` | `PublishedIsCurrent` | |
| RegistryProofs | `RegistrySafe`, `AgentsReached`, `OneAgentAtATime` | `RegistryInv`, `AgentInReach`, the refinement of `AgentLife` | `~MigrateBeside` |
| HeldProofs | `HeldSafe` | `HeldInv` | `~TornWrites`, `~ResumeAtOnce` |
| | `LogSafe` | `NothingLost` | `~MayOutrun` |
| | `LaunchSafe` | `LaunchInv` | `~SlowHolder` |
| | `GovernorSafe` | `GovernorInv` | |
| ClientProofs | `HubSafe` | `HubInv` | |
| | `EventsSafe` | `EventsFlow` | `~SlowRuntime`, `~EventsAnytime` |
| TrafficProofs | `HandoffSafe`, `GatewaySafe` | `HandoffInv`, `GatewayInv` | |
| | `GapSafe` | `NoSilentGap` | |
| | `BusSafe` | `BusInv` | `FewPublishers`: 2 x publishers <= Capacity + 2 |
| ServicesProofs | `ManagerSafe` | `HostedOnce` | `~LateWatchdog` |
| | `EngineAlone` | `OneEngine` | |
| | `UpdateSafe` | `UpdateInv` | `~MayReopen`, `~MayRepeat` |
| | `MonitorSafe` | `MonitorInv` | |
| | `PromptSafe` | `PromptInv` | `~Slow`, `~MayAnswer` |
| | `RemoteSafe` | `RemoteInv` | `~Early`, `~Floods` |
| AppProofs | `ScrollSafe` | `ScrollInv` | `~Repeats` |
| | `PaneSafe` | `PaneInv` | `~Overlaps` |
| | `AppSafe` | `AppInv` | `~LateConfirm` |

Each proof is an induction: an invariant `...IInv` that implies the property, holds initially
and is preserved by every step, with a lemma or a case per action. TLC checked each of them on
an instance before it was proved. Where an MC module plays several modules as scenes, a
theorem speaks of the specification of one of them, which is the stronger statement: a
behaviour of the scene is one of that specification.

**The reducer.** The invariant `Inv` is `TypeOK /\ BookkeepingInv`. Neither
conjunct is inductive alone: the counters stay below their thresholds only because
the bookkeeping says that a counter at its threshold has been reset. The bookkeeping
relates the idle candidacy, the blocker and the owed completion to the
status and to the histories. One lemma per action
(`ProcessExitInv`, ..., `ElapseInv`), joined in `NextInv`. From it follow
`TypeCorrect` and `Bookkeeping`, and the action properties:

* `CompletionCorrect`, `FlickerCorrect`: `OnlyCommits` shows that all but three signals
  (an end of turn, a plain frame, a tick that confirms) neither complete a turn nor turn
  Working into Idle; for these three the guards of the commit, through the invariant,
  imply what the histories must say.
* `PromptCorrect`: a frame takes a prompt down only in `BlockerReleased`, whose counter
  is, by the invariant, at most the length of the run of frames without a prompt.
* `Refinement`: `StepRefines` maps every step to a step of `StatusSpec` or a stutter.

**The shared state.** `PublishedIsCurrent` is not inductive: it says nothing while a
thread is between two stores. The strengthening `IInv` adds that whoever looks at the session
for the clients holds the registry lock (`LockInv`), that the watcher's and the clients' versions
are not ahead (`VersionInv`), and for each copy the central fact (`WatcherFresh`,
`ClientFresh`): *a value read under the newest version is current, or some thread still
owes a bump of the version*. That a bump comes after both stores, and that the watcher
reads the version before the values, is exactly what preserves it; a watcher that
takes the version again after the values is the mutant that breaks it. `StepIInv` has one lemma per action;
`NoLostUpdate` follows for any number of connections, signals and edits.

**The registry** (`RegistryIInv`). The properties say what is true between handlers; a
resume or a migration has let go of the lock in the middle. The strengthening says of every session how
its record, handle, binding and agents go together (`Coherent`), also while the daemon is
down, when the file has to name the host of every agent; that a closed session is on the stack once and
has no record (`ClosedInv`); and what a thread without the lock still knows (`JobsInv`): a
migration has its session to itself until it resumes, and all resumes of one session
remember the host of its record, also of a record that was closed meanwhile and may be
reopened. That last conjunct is what makes a second respawn moot rather than a second agent.
`StepDone` and the `Calm` lemmas reduce a handler to the session it touches. The refinement
maps `agent` and `stray` to the variables of `AgentLife`; its one hard step is `Respawn`, where the
invariant shows that no agent of the session is left.

**The held session** (`HeldIInv`). The screen is compared with the log through
`Shows(s, lo, hi)`: the tokens shown are, in order, those of the log between two offsets that
are not part of a marker. It is stated by counting, not by recursion, so that one more token is one more
step (`ShowsNext`). The strengthening says that markers are whole (`MarkersWhole`), that no floor
or checkpoint falls into one (`FloorsBetween`), that the tokens after the epoch are the
incarnation's own (`OwnTokens`), and that pump *and* checkpoint follow the log
(`ReadersFollow`), which is what an adoption starts from. Hence an exit behind the floor
is the one that was asked for. **The log** needs that neither the file at the path nor the one
the reader has open starts behind the reader. **The launch** (`LaunchIInv`) says in which of queue, handover and
terminal an input is at each step of the launcher, and who owns the child. **The governor**
(`GovernorIInv`) has the freeze known from the moment a client begins to attach, not only
once it views the session: that is when the sweep's next look spares it.

**The attach hub** (`HubIInv`). content_seq and the generation differ by the one change that is not
announced yet (`Announced`), and a pump has seen no more of the wake than there is
(`PumpSeen`); from these follows that a pump that sleeps has sent everything. For a client
that is alone the view, overlaid with the frame on its way, is the baseline (`Lone`).
**The control connection** (`ControlIInv`): the sender and the tasks belong to
the connection that is held and are gone before the next (`Life`), whoever waits is in the
table for that connection (`Waiting`), and `events_subscribed` says that this connection has
been asked for events, or that the task which asks is still there (`Asked`).

**The handoff** (`HandoffIInv`). A call that was given up may be served after its coordinator
has gone on to abort. `Course` is what is known from where the coordinator is, `Given` what a
commit stands for whoever waited for it, and `Straggler` what is known from a request that is
late: it is what remains of the first call that was given up. So a late commit finds a target that
has all of the session, and nothing served late takes anything back (`Harmless`). A digest
that was taken vouches for the file until another upload writes to it (`Vouched`), and a copy of a
handoff's is wrong only where a blob was written to after that (`Intact`).
**The gateway** (`GatewayIInv`). The quota's excess is bounded by counting: what is used today,
plus the most that the requests past the check may still use, stays below the
ceiling (`Headroom`); usage is kept as sums from a day on, which is what the code's query
computes, so that no sum over a set is needed. The rate is that of a window that only moves
on (`Counts`).

**The event bus** (`BusIInv`, `BusNewest`). What is on its way is numbered without a gap in the ring and
belongs to this daemon (`BusRow`), no event is in two places (`BusOnce`), and unless a publisher was
overtaken what was delivered comes before the queue and the queue before what waits (`BusInOrder`).
From these, `BusKept`: everything asked for is delivered, told of, queued, about to be enqueued,
inside a marker of the queue or inside the hole, which is older than the queue. The hard step is
the reconnect. What the replay hands over is a recursive function of the ring; `InductionOver` proves
facts about it by induction, from the theorem that the numbers are well founded, with a set
in the place of the predicate. `Caught` says what the queue has after each entry, and the ring, which has no gap,
reaches back to the last seq seen unless it was outrun. `BusNewest` counts: an event in the queue is
so far from its front that what the others may still push, an event and a marker each, does
not push it out. `FewPublishers` is that bound for an empty queue, and necessary: see below.

**The services.** `UpdateIInv`: where the bundles are at each command of the script, and that
one helper works at a time. `DaemonIInv`: who got past the lock file holds it, connections
are only with an Engine that is bound, an old one is still to be replaced while it serves, or it
was spared. `ManagerIInv`: a manager on its way out hosts nothing; as long as nobody started
a manager without the launch lock (`alone`), one that starts is the only one that stays, and the files
show it. `MonitorIInv`: what is owed is in view, and in the forced set, the wake that was taken or the
pending one. `PromptIInv`: the prompt is in one place, the terminal, the input line or
sent, and what may be unread at each step of the thread is one of eight short sequences.

**The remote session** (`RemoteIInv`). One Bridge lives at a time, the Holder knows none that the Engine
does not, and epochs grow with the Bridges (`Lines`, `Epochs`, `Greeted`, `Pumped`, `Agreed`). `Stream`
says what is under way to the Engine on its newest Bridge, whatever of it was lost: answer to the Hello,
snapshot and grant in this order; chunks that rise from the offset, without a gap unless the
Holder gave some up; and the screens and grids the Engine has on the way are each the Holder's at the output they
are labelled with, a delta right behind the update it builds on. A Bridge that breaks leaves a prefix, and a
prefix of such a stream is one (`PartPrefix`). `Tip` adds, while the Bridge is whole, that the stream
ends at the Holder's present; only with it is the next chunk or delta a continuation (`PushOut`,
`PushDelta`). Each part has a lemma for one message more, for the head taken and for the end lost. In the other direction
`Typing` orders the keys: what the Agent has, what is under way, what waits. `Kept` says, while nothing was
lost or refused so far, that each key is in one of the three and the size asked for last is the Holder's, queued, or under way. Before
the grant nobody writes to the Holder (`Quiet`), and a fatal notice is under way only after a refusal (`Warned`). `Real`
and `LogComplete` follow from these at each step. `~Early` is used where input is queued or written through,
`~Floods` where a backlog is given up.

**Reading back** (`ScrollIInv`). Each operation of the viewport has a lemma of its own: what it
keeps (`ViewOK`), what it asks for (`Request`) and what a reply leaves missing. Two facts
carry it. Before the first reply a window further back than its own
height is never asked for, as the range comes out empty; it is fetched nevertheless
because whoever scrolls there passes a window that is asked for, and its fetch is still under way or
queued (`BlindServed`). And a fetch that followed another asked for the whole window, whose
top the reply cannot move (`ChainOK`), so that no third one follows; cutting the cache leaves the
window in it because fewer than two windows of rows are nearer to the top, and a cache holds three.
That the cut leaves no more rows than allowed is a counting argument: no two rows have the same
number of rows before them.

**The pane** (`PaneIInv`). The only attachment that has not closed, or of which anything is still on its
way to the Engine, is the resident's (`Alone`), so what is in the inbox is its own, and so is the
next size that the Engine takes. Everything else is a way with stations: *the last word on it in a
queue is right, or the queue says nothing of it and what lies behind is right* (`Follows`). The size
measured last is pending with a timer, in the task's commands, the task's, on its way up,
the Engine's, or could not be set (`SizeToTask`, `SizeToEngine`). Each row of the screen is in the connection, the inbox,
the frames held back, or the grid (`RowsCome`); a frame that is not full says one row and leaves the others
to what is behind it. The state shown is the last in the inbox, or the task's own (`StateComes`). What
a batch of frames makes of the grid is a recursive function; `ApplyAllRow` says, row by row, what comes
out of it, by induction (`InductionOver`).

**The store of sessions** (`StoreIInv`). It speaks of the sessions that are not astray and of which no copy
is awaited (`Sure`): the last event on its way about one of these is what the Engine
holds (`StreamTrue`), and so is what a list that was taken says, with the events behind it
(`ListTrue`), and the store, with the stream (`StoreTrue`). The store may run ahead of the Engine, when it
archives or revives a row, only while a request is queued that the Engine answers with an event:
revive asks for a resume, which may fail, but also focuses the row, and *that* is answered. A row hides while its
close is queued, or the word that it is gone is on its way (`ClosingEnds`); a close of a session that is gone
already leaves no row hidden, because the row is there (`ClosingKnown`) and so the event that
takes it away is still to come. A copy or a change that the watcher has noted (`WatchTypes`) makes its session
unsure until it is sent, and sending it (`SendStep`) either says what the record is or leaves the session
astray. That what is selected has the terminal holds at all times
(`Attached`), with one lemma per operation of the store.

**Only model-checked.** All liveness: the prover has no ENABLED.

## Where code and comments disagree

Most properties hold. Where the code does something other than its own comments say,
or than a reader would expect, a configuration exhibits the behaviour. Two are runs of
`PROJECT.json` with an expected violation; the other configurations of the first table are
kept beside them and can be run with `tlc -config X.cfg M`. The second table varies a
configuration by a constant or by the property; its counterexamples are as short.

| Configuration | Module | Property | What happens |
|---|---|---|---|
| `AppRevive` (run) | AppStore | `ArchivedIsEnded` | Reviving a resumable agent sends Resume and never Unarchive (`app/store/sessions.rs:117`): the agent runs while its record is archived, and the next event puts the row back on the shelf. registry.rs:674: "Ends the session but keeps its record on the shelf". |
| `ScrollJump` (run) | ScrollView | `NoJump` | Before the first reply `live_start_row` is 0, so the first wheel pins row -1 and the reply takes the reader to the oldest line (`homie-term/src/scrollback.rs:374`); "hold the anchored row in place and let the distance to live grow instead". |
| `EngineIdleExit` | DaemonLifetime | `IdleExitHarmless` | The exit thread looks, unlinks the socket and dies; a client that connects or starts an agent after the look is cut off (`engine/control/runtime.rs:262`), against "only when doing so cannot strand a live Agent or interrupt another client". |
| `SharedExitRace` | MCSharedStatus | `ExitedIsAbsorbing` | An outcome reduced before the exit is applied after it (`engine/session/status.rs:160`): the session reads Working for ever. status/mod.rs:223: "Exited is absorbing". |
| `SharedStaleEvent` | MCSharedStatus | `LastEventIsCurrent` | The watcher publishes a record it collected before a rename after the rename's own event (`engine/events.rs:399`); nothing repeats the newer one. |
| `BusLostOnResume` | EventBus | `NoSilentGapAtAll` | With two publishers the larger seq can be enqueued first; a reconnect between the two skips the smaller (`engine/events.rs:251`). events.rs:1: "gapless reconnect". |
| `AttachLateJoin` | AttachHub | `SinksCaughtUp` | A client seeded before, and registered after, a diff that went to others never gets it (`engine/attach.rs:178`). |
| `GovernorIdleStretch` | Governor | `OnlySustainedIdle` | `idle_since` (`engine/governor.rs:261`) reads dates no turn touches, so a session that has just finished a long unattended turn is frozen at once; governor.rs:9: "a sustained-idle freeze". |
| `HeldProbeRace` | HeldSession | `UnknownOnlyAfterCrash` | A probe between reaping and the marker finds no new bytes and records an unknown exit (`engine/session/pump.rs:319`), although it takes "one last look for a marker that raced the probe". |

| Variation | Property | What happens |
|---|---|---|
| `SharedExitRace.cfg`, Seeds <- SeededOnly, MaxSignals = 1 | `ExitedIsAbsorbing` | The restored status of adoption overwrites an exit the pump has recorded (`engine/session/lifecycle.rs:579`). |
| `SharedStatus.cfg` | `DetailIsCleared` | A session that exits while it waits for an answer keeps the detail (status.rs:73). |
| `BusLostOnResume.cfg`, one publisher, Capacity = 2, MaxSeq = 8, MaxReconnects = 0 | `NoSilentGapAtAll` | Overflow may evict the marker of an earlier hole, which is then never announced (events.rs:137). |
| `BusLostOnResume.cfg`, one publisher, RingCapacity = 1 | `NoSilentGapAtAll` | A client that was away until the ring no longer held what it missed is not told of it (events.rs:287). |
| EventBus, 3 publishers, Capacity = 3, MaxSeq = 6 | `BusInv` | Two publishers overtaken by the newest event push it out of a full queue, a marker and an event each (events.rs:136): the queue needs room for twice the other publishers. "the newest state still gets through". |
| `BusLostOnResume.cfg` with a restart | `NoGapAcrossRestarts` | The client resumes at a new daemon with the old daemon's number (events.rs:203). |
| `AttachLateJoin.cfg`, one client, MaxWrites = 3, MaxAttaches = 2 | `SinksCaughtUp` | A client whose rows return to a baseline that an earlier pump left does not get them (`homie-terminal-state/src/screen.rs:246`). |
| `Client.cfg`, EventsAnytime | `EventsFlow` | events() between the look at want_events and Connected, or as a connection goes, leaves a client connected and deaf (`homie-client/src/client.rs:880`). |
| `Client.cfg`, SlowRuntime | `EventsFlow` | A subscribing task held up past a cleanup and the backoff clears the flag of the next connection. |
| DeferredLaunch, constants of `Held.cfg` | `InputInOrder`, `LastSizeWins` | Between the handover and the launcher's flush newer input and sizes go first (`engine/session/lifecycle.rs:519`, `524`). |
| the same | `StoppedTreeNotWritten` | The flush does not ask whether the tree was hibernated meanwhile. pty.rs:156: "Never write into a stopped tree's PTY". |
| the same | `LaunchFailureKept` | Terminating a session whose launch failed replaces exit 127 by SIGKILL (`lifecycle.rs:631`). |
| `Held.cfg`, SlowHolder | `LaunchInv` | A holder slower than 5 s is given up and not killed (`lifecycle.rs:505`). |
| OutputLog, constants of `Held.cfg`, MayOutrun | `ReadsAreClamped` | A reader more than a chunk behind the new base computes a range that ends before it starts and panics with the log mutex held (`engine/log.rs:405`); "clamped to what remains available" (log.rs:166). |
| `Held.cfg`, HasWatcher = FALSE | `ReaderCatchesUp` | Without kqueue nothing makes the reader reopen after a rotation (`engine/session/pump.rs:630`). |
| `Held.cfg`, EarlyRotation | `ReaderCatchesUp` | A rotation between opening the reader and arming the watcher leaves them on different files (pump.rs:203). |
| HeldSession, constants of `Held.cfg` | `ExitWhileDownObserved` | A marker written while no daemon ran is not read; the record says daemon restart (`engine/registry.rs:190`). holder/protocol.rs:258: "still observed later". |
| `Held.cfg`, ResumeAtOnce | `HeldInv` | A launch while the finished holder is still active is acknowledged and starts nothing; the old exit is reported again (`engine/holder/manager.rs:150`). |
| `Held.cfg`, TornWrites | `HeldInv` | A marker torn by a dying holder, restored from a checkpoint at the floor, swallows the next child's output up to a terminator (pump.rs:342). |
| Governor, constants of `GovernorIdleStretch.cfg` | `NeverFrozenInUse` | A client that attaches after the snapshot can still have its session frozen under it (`engine/governor.rs:104`); the next keystroke wakes it, as `GovernorInv` shows. |
| `Held.cfg`, `FreezeIsSaved` without `~forgone` | `GovernorSettles` | The save of a freeze fails when none was deferred, and the error is ignored (`engine/governor.rs:243`, `engine/registry/flusher.rs:107-139`): the registry is not dirty, so nobody writes it again. |
| `Registry.cfg`, MigrateBeside | `SessionWhereRecordSays` | A resume between the sections of a migration starts the stopped source again; the record then names the other host (`engine/control/handlers/migrate.rs:102`). |
| `Registry.cfg` | `ShutdownSaves` | The process exits without running destructors, so what is only marked dirty is not written (`engine/control/runtime.rs:294`); registry/flusher.rs:18: "A deferred persist must not die with the process". |
| `Services.cfg`, Overlap | `AppServed` | An app that starts while the Engine of the last one is on its way out takes it for a running one; when that is gone its client reconnects for ever and starts none (`engine/control/runtime.rs:206`). |
| `Services.cfg`, LateWatchdog | `HostedOnce` | A request served between the watchdog's look and its stop is acknowledged by a manager that leaves (`engine/holder/manager.rs:231`). |
| `Services.cfg`, MayReopen, or MayRepeat without MayKill | `UpdateInv` | An app that is opened while the helper works, or a second helper, meets the swap half way. install.rs:312: "a still-running homie must never have its bundle swapped". |
| UpdateInstall, constants of `Services.cfg` | `InterruptedIsWhole` | A helper killed after moving the bundle aside leaves no app in place, only the backup. install.rs:6: "an interrupted install leaves a working app rather than a hole". |
| `Services.cfg`, Slow | `PromptInv` | An agent that reads its input after a whole window gets the prompt twice (`engine/control/inject.rs:158`). |
| `Services.cfg`, MayAnswer | `PromptInv` | A user who answers the trust picker at the same time as the thread gets the thread's "1" typed into the composer (inject.rs:56). |
| `Services.cfg`, ReadsWorking, or HasProbe = FALSE | `HelpersFinish` | An agent that always reads Working, or a prompt without a word to look for, may never have it confirmed and delivered. |
| Gateway, constants of `Traffic.cfg` | `RateAlwaysKept`, `QuotaExact` | A request that read the clock in an older minute resets the window (`homie-gateway/src/policy.rs:30`); concurrent requests all see the sum before any of them is recorded (routes.rs:55). |
| NodeHandoff, constants of `Traffic.cfg` | `LeaseOnBoth` | A commit at the source that is not answered leaves the lease at the target only (`homie-client/src/node_client.rs:268`). |
| the same | `StateSurvives`, `ResumedIsCurrent` | The transcript is imported by name: an abort takes away one that an earlier handoff imported, and a provider may resume another handoff's. |
| the same | `PartialsHaveOwner` | A `.partial` left by a transfer that was cut off refuses every later transfer of that blob (`homie-node/src/checkpoint.rs:165`). |
| the same | `BlobsStayWhole` | Another upload of the same blob appends between the digest and the rename, or writes through a file it had opened before (`homie-node/src/checkpoint.rs:183-190`): a blob that has its name is longer than its digest says. |
| the same | `RefusalAborts` | A checkpoint without a provider's session id is refused by a return before the part that aborts (`homie-client/src/node_client.rs:221-225`), and the source stays Prepared. NODE.md:101: "A failure before commit aborts both sides". |
| `Remote.cfg`, Early | `InputInOrder` | After HelloAck input is written through while older input waits for ControlGranted (`engine/remote/client.rs:171`). |
| `Remote.cfg` | `TailLogged` | A HelloAck that says the agent has exited ends the pump at once, with the replay behind it unread (`engine/session/remote.rs:175`): the last output is not in the log. |
| RemoteSession, constants of `Remote.cfg` | `LoggedOnce` | The offset is saved every megabyte, so the next Engine logs again what came since (`engine/remote/client.rs:314`). |
| `Remote.cfg`, Early | `RemoteInv` | A size asked for between HelloAck and the grant is refused by the Holder and not sent again. |
| `Remote.cfg`, Floods | `RemoteInv` | A flood of output discards the hello answer or the exit notice with the backlog (`homie-remote/src/holder.rs:1042`), and the session is taken for failed. |
| `Remote.cfg`, `EndIsReal` without `refused` | `RemoteInv` | More than 1 MiB of input waits for an agent that does not read, which ends the session at the Engine while its agent runs (`homie-remote/src/holder.rs:954`, `engine/session/remote.rs:51`). "The Holder remains the PTY owner; a broken Bridge only advances this reconnect loop". |
| `App.cfg`, MaxLost = 0, `StoreAgrees` or `NoneHidden` without `astray` | `AppInv` | The watcher's copy of a record is published behind the event of a newer change or of its removal (`engine/events.rs:393-405`): the app shows the old state, or a row of a session that is gone, until the next event or connect. |
| the same, MaxLost = 1 | `AppInv` | An event the queue dropped, or that the app's task skipped (`app/store/runtime.rs:113`), is not made up for: `events.dropped` is ignored (`app/store/events.rs:121`). |
| AppStore, constants of `App.cfg` | `ArchivedIsKept` | An archived shell that ended by itself is closed as a clean exit (`app/store/events.rs:140`): "it may only happen where nothing is lost". |
| the same | `SelectedIsRow` | The selection may stay on a session that is gone. |
| `App.cfg`, LateConfirm, MaxClicks = 3, MaxCuts = 0 | `AppInv` | A close confirmed after the session was removed and reopened hides it for ever. |
| ScrollView, constants of `ScrollJump.cfg` | `WindowFills` | After a failed fetch, and when find moves the viewport, nobody fetches what the window lacks until the next wheel. |
| the same, Start = Height | `CanScroll` | A wheel before there is any history leaves the wheel dead until find or a new residency. |
| the same | `CacheIsTrueAlways` | The content sequence starts over with the Engine, so rows cached before a restart can pass for its own. |
| the same, Repeats | `CacheIsTrue` | The content sequence counts changes of the grid; a line that leaves a screen which then looks as before moves the rows without it. |
| `Pane.cfg`, Overlaps, MaxEvents = 4 | `PaneInv` | Events carry the session's id only: those of an attachment that is still closing are taken for the new one's (`app/terminal_pane/events.rs:4`), and a size it wrote may be set after the new one's. |

The passing runs exclude exactly these cases, by the constants named above, by
`EventsAnytime`, `Overlap` and `MigrateBeside`, by a client that is alone in `HubInv`, or by
an excuse that the property itself names and a history variable records: `forgone`, `spared`,
`overrun`, `torn`, `refused`, `astray`, `outdated`, `unshelved`, `missed`, and those of the bus and the gateway.

Smaller observations. `homie-gateway/src/policy.rs:3` speaks of a sliding window; the code counts
calendar minutes, and so does `GatewayInv`. A list or a reopened record applied after a newer event shows the
older state until the next connect (`outdated` in `AppStore`); a session an event takes out of
the archive while it is selected gets no terminal (`unshelved`); a shell that exited cleanly
and is reopened is closed again by itself. The highlights of find are not renewed on a wheel
or when the query is emptied, and the comment in `app/terminal_pane/find.rs:48` ("⌘F then ⏎
repeats the old one") is not what the code does. Keys and wheel events that come while a pane
reconnects are dropped by `wait_for_retry` (`app/terminal_pane/attachment.rs:151`).

## Not modelled

* The user interface: views, menus, switcher, settings, notifications, rendering, fonts and
  selection. It is the largest part of the code and keeps state of its own that no other
  thread changes.
* Text: detection rules, hook payloads, titles, prompts, redaction, wire types and codecs,
  agent manifests, command lines and terminal parsing are pure functions whose results
  are inputs here.
* The operating system: PTYs, signals, kqueue, files, sockets and SSH are taken to do what
  the code expects of them; of disk errors only a failing write of the state file, a
  failing copy of a bundle and a size that cannot be set are modelled. A process tree is stopped, continued or killed as one.
* The direct transport of a session: the models follow the held and the remote transport,
  the ones the daemon uses.
* Repaint frames of an attach connection, `events.wait`, the capture of prompts for titles,
  and in the app preferences, ordering and more than one resident terminal.
* The execution node's accounts, logins and provider processes, and the gateway's routing:
  calls of external services, one after the other.
* The ACP host (no session uses it), the MCP server (its tool calls are the registry's
  operations), the split store and legacy remote retirement (one-time migrations).
* Components with status `not_modelled` in `PROJECT.json`, for the reasons given there.
