------------------------------ MODULE EventLog ------------------------------
(***************************************************************************)
(* The file of src/infrastructure/events/event-store.ts: one JSON line per *)
(* event, appended synchronously, trimmed to its newest lines when it has  *)
(* grown too large, and read back from its end.  An append the disk cuts   *)
(* short leaves an unterminated line, which the next append continues.     *)
(***************************************************************************)
EXTENDS Sequences, SequencesExt, Integers, FiniteSets

CONSTANTS
  Events,       \* the events that are appended
  Unreadable,   \* a line that does not parse
  Kept,         \* lines a rotation keeps
  Oversize,     \* lines beyond which a rotation may happen
  Capacity,     \* bound on the file's lines
  DiskMayFail,  \* whether an append may fail and leave nothing
  DiskMayTear   \* whether an append may fail and leave half a line

ASSUME EventLogAssumption ==
  /\ Unreadable \notin Events
  /\ Kept \in Nat /\ Oversize \in Nat /\ Capacity \in Nat
  /\ 0 < Kept /\ Kept <= Oversize /\ Oversize < Capacity
  /\ DiskMayFail \in BOOLEAN /\ DiskMayTear \in BOOLEAN

Line == Events \union {Unreadable}

\* open: the last line is not terminated.
LogFile == [lines: UNION {[1 .. n -> Line] : n \in 0 .. Capacity}, open: BOOLEAN]
EmptyLog == [lines |-> <<>>, open |-> FALSE]

Newest(s, n) == SubSeq(s, 1 + (IF Len(s) > n THEN Len(s) - n ELSE 0), Len(s))

\* The lines of s that parse, in their order: the i-th has i of them up to it.
Readable(s) ==
  LET parsed == {k \in DOMAIN s : s[k] # Unreadable} IN
  [i \in 1 .. Cardinality(parsed) |->
     s[CHOOSE k \in parsed : Cardinality({j \in parsed : j <= k}) = i]]

\* readAll: unreadable lines use up the limit and are left out.
ReadAll(log, limit) == Readable(Newest(log.lines, limit))

\* A continued line is as unreadable as the half it continues.
Continued(log, l) == IF log.open THEN log.lines ELSE Append(log.lines, l)

\* A variant that rotates nothing away.
RotatedNone(lines) == lines

\* rotateIfNeeded: the newest readable lines, if there are any.
Rotated(lines) ==
  LET tail == ReadAll([lines |-> lines, open |-> FALSE], Kept) IN
  IF tail = <<>> THEN lines ELSE tail

\* write: what an append of e may leave, and whether it reported success.  The
\* size is looked at once in a thousand writes, so a rotation is a possibility.
Appends(log, e) ==
  LET lines == Continued(log, e) IN
    {[log |-> [lines |-> f, open |-> FALSE], ok |-> TRUE] :
        f \in (IF Len(lines) < Capacity THEN {lines} ELSE {})
                \union (IF Len(lines) > Oversize THEN {Rotated(lines)} ELSE {})}
    \union (IF DiskMayFail THEN {[log |-> log, ok |-> FALSE]} ELSE {})
    \union (IF DiskMayTear /\ Len(lines) < Capacity
            THEN {[log |-> [lines |-> Continued(log, Unreadable), open |-> TRUE], ok |-> FALSE]}
            ELSE {})

=============================================================================
