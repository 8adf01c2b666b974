------------------------------ MODULE OutputLog ------------------------------
(***************************************************************************)
(* homie-engine/src/log.rs and the log watcher of session/pump.rs: the     *)
(* output log a holder appends to and rotates, and the reader in the       *)
(* daemon that follows it by absolute offset.                              *)
(*                                                                         *)
(* Bytes are their offsets.  Rotation replaces the file: a reader that has *)
(* it open keeps reading the retired file until the watcher's rename event *)
(* makes it reopen the path.                                               *)
(***************************************************************************)
EXTENDS Integers

CONSTANTS
  Capacity,        \* disk capacity; a larger file is cut to half of it
  MaxChunk,        \* bytes per read
  MaxAppend,       \* bound: bytes per append
  MaxTail,         \* bound: length of the stream
  MayOutrun,       \* may a rotation drop bytes the pump has not read?
  HasWatcher,      \* macOS; elsewhere the watcher is a stub
  EarlyRotation    \* may the log rotate before the watcher is armed?

VARIABLES
  base, tail,      \* the file at the path: file_base_offset and its end
  handle,          \* the reader's open file: "path", "retired" or "none"
  retired,         \* base and tail of the retired file
  ringStart,       \* ring_start_offset of the reader, set when it was created
  armed, note,     \* the watcher: the file it watches, and a rename event
  rpc, offset,     \* the pump, and how far it has read
  lost             \* bytes it was never handed

file    == <<base, tail>>
reader  == <<handle, retired>>
watcher == <<armed, note>>
vars == <<file, reader, ringStart, watcher, rpc, offset, lost>>

Offset == 0..MaxTail
Span   == [base : Offset, tail : Offset]

TypeOK ==
  /\ base \in Offset /\ tail \in Offset
  /\ handle \in {"path", "retired", "none"} /\ retired \in Span
  /\ ringStart \in Offset
  /\ armed \in {"path", "retired", "no"} /\ note \in BOOLEAN
  /\ rpc \in {"arm", "read", "quiet", "panic"}
  /\ offset \in Offset /\ lost \in Offset

\* A reader opened on a log with some history, about to replay part of it.
Init ==
  /\ base = 0 /\ tail \in 0..Capacity
  /\ handle = "path" /\ retired = [base |-> 0, tail |-> 0]
  /\ ringStart = tail
  /\ armed = "no" /\ note = FALSE
  /\ rpc = "arm" /\ offset \in 0..tail
  /\ lost = 0

-----------------------------------------------------------------------------
(* The holder.                                                             *)

Full == tail - base > Capacity

Append(n) ==
  /\ ~Full /\ tail + n <= MaxTail
  /\ tail' = tail + n
  /\ UNCHANGED <<base, reader, ringStart, watcher, rpc, offset, lost>>

\* truncate_to_half: the newest half goes to a new file, renamed over the old.
NewBase == base + ((tail - base) - Capacity \div 2)

Rotate ==
  /\ Full
  /\ (rpc = "arm" => EarlyRotation) /\ (offset < NewBase => MayOutrun)
  /\ base' = NewBase
  /\ IF handle = "path"
       THEN handle' = "retired" /\ retired' = [base |-> base, tail |-> tail]
       ELSE UNCHANGED reader
  /\ IF armed = "path" THEN armed' = "retired" /\ note' = TRUE ELSE UNCHANGED watcher
  /\ UNCHANGED <<tail, ringStart, rpc, offset, lost>>

-----------------------------------------------------------------------------
(* The pump.                                                               *)

\* LogWatcher::new, some time after the reader was opened.
Arm ==
  /\ rpc = "arm"
  /\ rpc' = "read"
  /\ armed' = IF HasWatcher THEN "path" ELSE "no"
  /\ UNCHANGED <<file, reader, ringStart, note, offset, lost>>

\* refresh_from_disk: the reader's view of the file it has open.
View == IF handle = "retired" THEN retired ELSE [base |-> base, tail |-> tail]

MinOf(a, b) == IF a < b THEN a ELSE b
MaxOf(a, b) == IF a > b THEN a ELSE b

\* Mutant: the reader's ring is taken for all there is.
ReadStartAtRing == MaxOf(offset, ringStart)

\* read: where it starts and ends; read_from_disk moves the start once more.
ReadStart == MaxOf(offset, MinOf(ringStart, View.base))

ReadEnd   == MinOf(View.tail, ReadStart + MaxChunk)
DiskStart == MaxOf(ReadStart, View.base)

\* A chunk is read, or there is none.  The subtraction in read_from_disk is of
\* unsigned numbers: it panics when the end lies before the start.
Read ==
  /\ rpc = "read"
  /\ handle' = IF handle = "none" THEN "path" ELSE handle
  /\ IF ReadStart >= View.tail THEN rpc' = "quiet" /\ UNCHANGED <<offset, lost>>
     ELSE IF ReadEnd < DiskStart THEN rpc' = "panic" /\ UNCHANGED <<offset, lost>>
     ELSE IF ReadEnd = DiskStart THEN rpc' = "quiet" /\ UNCHANGED <<offset, lost>>
     ELSE rpc' = "read" /\ offset' = ReadEnd /\ lost' = lost + MaxOf(DiskStart, offset) - offset
  /\ UNCHANGED <<file, retired, ringStart, watcher>>

\* Mutant: the watcher is armed again but the reader keeps its file.
WaitKeepsFile ==
  /\ rpc = "quiet"
  /\ rpc' = "read"
  /\ note' = FALSE
  /\ armed' = IF note THEN "path" ELSE armed
  /\ UNCHANGED <<file, reader, ringStart, offset, lost>>

\* Quiet: wait for the watcher; after a rename it is armed again and the
\* reader's file closed.
Wait ==
  /\ rpc = "quiet"
  /\ rpc' = "read"
  /\ note' = FALSE
  /\ IF note THEN armed' = "path" /\ handle' = "none" ELSE UNCHANGED <<armed, handle>>
  /\ UNCHANGED <<file, retired, ringStart, offset, lost>>

-----------------------------------------------------------------------------
Next ==
  \/ \E n \in 1..MaxAppend : Append(n)
  \/ Rotate
  \/ Arm \/ Read \/ Wait

\* The pump thread runs, and a holder that has appended too much rotates.
Fairness == WF_vars(Rotate) /\ WF_vars(Arm \/ Read \/ Wait)

Spec == Init /\ [][Next]_vars /\ Fairness

-----------------------------------------------------------------------------
\* A reader less than half a capacity behind misses nothing, whatever file it
\* has open while the log rotates under it.
NothingLost == lost = 0

\* "Refreshes a read-only view after the owner appended or rotated the file":
\* whatever is appended reaches the reader in the end.
ReaderCatchesUp == <>[](offset = tail)

\* "Reads up to `max_bytes` from `from_offset`, clamped to what remains
\* available": a reader that was overtaken resynchronizes.
ReadsAreClamped == rpc # "panic"

=============================================================================
