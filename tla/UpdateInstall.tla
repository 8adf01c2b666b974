----------------------------- MODULE UpdateInstall -----------------------------
(***************************************************************************)
(* The self-update of the app: the service that checks, downloads and      *)
(* stages a release (homie-app/src/updates.rs, homie-updater), and the     *)
(* detached shell helper that waits for the app to exit, moves its bundle  *)
(* aside, copies the staged one in its place and opens it (install.rs).    *)
(* A helper may be killed between any two of its commands.                 *)
(*                                                                         *)
(* A bundle is its version, 0 if there is none.  Signatures, checksums and *)
(* the progress of a download are left out: they decide if it fails.       *)
(***************************************************************************)
EXTENDS Naturals

CONSTANTS
  Latest,        \* bound: releases are 1..Latest
  MaxHelpers,    \* bound: installs started
  MayKill,       \* may a helper be killed?
  MayReopen,     \* may the user open the app while a helper works?
  MayRepeat      \* may a check or a click on Install get in before the app quits?

VARIABLES
  feed,          \* the newest release published
  running, pid,  \* the version of the running app (0: none), and its process
  service,       \* Service
  target, backup,\* the app's bundle, and the one moved aside
  cache,         \* the staged bundle
  helper         \* the helpers, in the order they were started

updateVars == <<feed, running, pid, service, target, backup, cache, helper>>

Whole == 1..Latest
Torn  == Latest + 1        \* a bundle that is partly copied
Helpers == 1..MaxHelpers
Fresh(skipped) == [phase |-> "idle", pending |-> 0, staged |-> 0, skipped |-> skipped]
Working(h) == helper[h].pc \notin {"unborn", "done", "killed"}

TypeOK ==
  /\ feed \in Whole /\ running \in 0..Latest /\ pid \in Nat
  /\ {target, backup, cache} \subseteq 0..Torn
  /\ service.phase \in {"idle", "uptodate", "available", "ready", "installing", "failed"}
  /\ {service.pending, service.staged, service.skipped} \subseteq 0..Latest

Init ==
  /\ feed = 1 /\ running = 1 /\ pid = 1 /\ service = Fresh(0)
  /\ target = 1 /\ backup = 0 /\ cache = 0
  /\ helper = [h \in Helpers |-> [pc |-> "unborn", pid |-> 0, app |-> 0]]

-----------------------------------------------------------------------------
(* The service takes one command at a time.                                *)

Serve == running # 0 /\ UNCHANGED <<feed, running, pid, target, backup>>
Phase(p) == [service EXCEPT !.phase = p]

\* newest_eligible: newer than the running app, and not the skipped one.
Eligible == {v \in 1..feed : v > running /\ v # service.skipped}

Check ==
  /\ Serve /\ UNCHANGED <<cache, helper>> /\ (service.phase # "installing" \/ MayRepeat)
  /\ IF service.staged # 0 THEN service' = Phase("ready")
     ELSE \/ service' = Phase("failed")
          \/ /\ Eligible = {} /\ service' = [Phase("uptodate") EXCEPT !.pending = 0]
          \/ \E v \in Eligible :
               /\ \A w \in Eligible : w <= v
               /\ service' = [Phase("available") EXCEPT !.pending = v]

\* download and stage: unpack empties the staging directory first.
Download ==
  /\ Serve /\ UNCHANGED helper
  /\ service.phase = "available" /\ service.pending # 0
  /\ \/ cache' = service.pending /\ service' = [Phase("ready") EXCEPT !.staged = service.pending]
     \/ cache' \in {cache, 0, Torn} /\ service' = Phase("failed")

Skip ==
  /\ Serve /\ UNCHANGED <<cache, helper>> /\ service.phase \in {"available", "ready"}
  /\ service' = Fresh(IF service.pending # 0 THEN service.pending ELSE service.skipped)

Dismiss ==
  /\ Serve /\ UNCHANGED <<cache, helper>> /\ service.phase \in {"uptodate", "failed"}
  /\ service' = Phase("idle")

\* install: the button shows while the update is ready.
Install ==
  /\ Serve /\ UNCHANGED cache
  /\ service.staged # 0
  /\ service.phase = "ready" \/ (MayRepeat /\ service.phase = "installing")
  /\ \/ service' = Phase("failed") /\ UNCHANGED helper
     \/ \E h \in Helpers :
          /\ helper[h].pc = "unborn" /\ \A g \in 1..(h - 1) : helper[g].pc # "unborn"
          /\ helper' = [helper EXCEPT ![h] = [pc |-> "wait", pid |-> pid, app |-> service.staged]]
          /\ service' = Phase("installing")

-----------------------------------------------------------------------------
(* The app.                                                                *)

\* RootView quits when it sees Installing; the user may quit at any time.
Quit ==
  /\ running # 0 /\ running' = 0
  /\ UNCHANGED <<feed, pid, service, target, backup, cache, helper>>

\* A bundle starts only if it is whole; clean_cache drops what is not newer.
Start ==
  /\ running' = target /\ pid' = pid + 1 /\ service' = Fresh(service.skipped)
  /\ cache' = IF cache \in Whole /\ cache <= target THEN 0 ELSE cache

Reopen ==
  /\ running = 0 /\ target \in Whole /\ Start
  /\ pid <= MaxHelpers
  /\ MayReopen \/ \A h \in Helpers : ~Working(h)
  /\ UNCHANGED <<feed, target, backup, helper>>

Release ==
  /\ feed < Latest /\ feed' = feed + 1
  /\ UNCHANGED <<running, pid, service, target, backup, cache, helper>>

-----------------------------------------------------------------------------
(* The script, a command at a time.                                        *)

At(h, from, to) == helper[h].pc = from /\ helper' = [helper EXCEPT ![h].pc = to]
Apart == UNCHANGED <<feed, running, pid, service, cache>>
Exited(h) == running = 0 \/ pid # helper[h].pid

\* Mutant: the helper goes ahead when it has waited long enough.
WaitNoLonger(h) == At(h, "wait", "clear") /\ Apart /\ UNCHANGED <<target, backup>>

\* After EXIT_GRACE_SECONDS it gives up, and leaves the app alone.
Wait(h) ==
  /\ \/ Exited(h) /\ At(h, "wait", "clear")
     \/ ~Exited(h) /\ At(h, "wait", "done")
  /\ Apart /\ UNCHANGED <<target, backup>>

ClearBackup(h) == At(h, "clear", "aside") /\ backup' = 0 /\ Apart /\ UNCHANGED target

MoveAside(h) ==
  /\ \/ /\ At(h, "aside", "copy") /\ target' = 0
        /\ backup' = IF target # 0 /\ backup = 0 THEN target ELSE backup
     \/ At(h, "aside", "done") /\ target # 0 /\ UNCHANGED <<target, backup>>
  /\ Apart

\* ditto, which may fail from the start or on its way.
Copy(h) ==
  /\ \/ At(h, "copy", "copying") /\ target' = Torn
     \/ At(h, "copying", "discard") /\ target = Torn /\ cache = helper[h].app /\ target' = cache
     \/ At(h, "copying", "undo") /\ UNCHANGED target
  /\ Apart /\ UNCHANGED backup

Discard(h) == At(h, "discard", "open") /\ backup' = 0 /\ Apart /\ UNCHANGED target

Undo(h) == At(h, "undo", "restore") /\ target' = 0 /\ Apart /\ UNCHANGED backup

Restore(h) ==
  /\ At(h, "restore", "open") /\ Apart
  /\ IF backup # 0 THEN target' = backup /\ backup' = 0 ELSE UNCHANGED <<target, backup>>

Open(h) ==
  /\ At(h, "open", "done") /\ UNCHANGED <<feed, target, backup>>
  /\ IF running = 0 /\ target \in Whole THEN Start ELSE UNCHANGED <<running, pid, service, cache>>

Kill(h) ==
  /\ MayKill /\ Working(h) /\ helper' = [helper EXCEPT ![h].pc = "killed"]
  /\ Apart /\ UNCHANGED <<target, backup>>

Script(h) ==
  \/ Wait(h) \/ ClearBackup(h) \/ MoveAside(h) \/ Copy(h) \/ Discard(h)
  \/ Undo(h) \/ Restore(h) \/ Open(h)

Next ==
  \/ Check \/ Download \/ Skip \/ Dismiss \/ Install \/ Quit \/ Reopen \/ Release
  \/ \E h \in Helpers : Script(h) \/ Kill(h)

Fairness == \A h \in Helpers : WF_updateVars(Script(h))
Spec == Init /\ [][Next]_updateVars /\ Fairness

-----------------------------------------------------------------------------
\* install.rs, "renames the old bundle aside before unpacking the new one":
\* at every moment, even if the helper is killed there and then, a whole
\* bundle is in place or beside its place.
Recoverable == target \in Whole \/ backup \in Whole

\* "puts it back if anything fails": a helper that ends leaves a whole bundle.
NoHole == (\A h \in Helpers : helper[h].pc \in {"unborn", "done"}) => target \in Whole

\* "an interrupted install leaves a working app rather than a hole where one
\* used to be": the helper that was killed included.
InterruptedIsWhole == (\A h \in Helpers : ~Working(h)) => target \in Whole

\* "a still-running homie must never have its bundle swapped".
NotUnderTheApp ==
  \A h \in Helpers : helper[h].pc \in {"aside", "copy", "copying", "undo", "restore"} => running = 0

\* What replaces a bundle is newer than it.
NoDowngrade ==
  \A h \in Helpers : helper[h].pc \in {"copy", "copying"} => helper[h].app > backup

\* The script opens the app on both of its paths.
AppComesBack ==
  \A h \in Helpers : helper[h].pc = "copy" ~> running # 0 \/ helper[h].pc = "killed"

\* The swap is safe at each of its commands: all of the above.
UpdateInv == TypeOK /\ Recoverable /\ NoHole /\ NotUnderTheApp /\ NoDowngrade

=============================================================================
