---------------------------- MODULE ReceiptLedger ---------------------------
(***************************************************************************)
(* The receipt ledger of prediction_persistence.py, line by line.  Each    *)
(* call reads the whole file and replays its events; unlike the packet     *)
(* sealer, reading REPAIRS the file: a torn last line gets a recovery      *)
(* marker, a last event that only lost its newline gets the newline.  The  *)
(* repair is an append too, and can be interrupted like any other.         *)
(***************************************************************************)
EXTENDS Naturals, Sequences

CONSTANTS
    Receipts,       \* source packet hashes
    Rows,           \* D1 prediction ids
    AppendTears,    \* how an interrupted event append may end on disk
    MarkTears,      \* how an interrupted marker append may end on disk
    MaxEvents,      \* bound: physical lines of the file
    MaxCrashes      \* bound: interruptions explored

ASSUME LedgerAssumption ==
    /\ 0 \notin Receipts /\ Rows \subseteq Nat \ {0}
    /\ AppendTears \subseteq {"lost", "torn", "unterminated"}
    /\ MarkTears \subseteq {"lost", "newline", "torn", "unterminated"}
    /\ MaxEvents \in Nat /\ MaxCrashes \in Nat

VARIABLES
    lines,      \* prediction_persistence_receipts.jsonl
    ended,      \* TRUE iff the last line ends with a newline
    pc,         \* idle, repair (inside _read), append (inside _append)
    cur,        \* the event a call wants to append, or Reading
    crashes

vars == <<lines, ended, pc, cur, crashes>>

-----------------------------------------------------------------------------
\* Seeded fault: identity and row swapped.
EventSwapped(r, what, row) == [kind |-> what, id |-> row, n |-> r]

Event(r, what, row) == [kind |-> what, id |-> r, n |-> row]
Marker(i) == [kind |-> "MARKER", id |-> 0, n |-> i]
Junk      == [kind |-> "JUNK", id |-> 0, n |-> 0]
Reading   == [kind |-> "READ", id |-> 0, n |-> 0]    \* states, summary, pending
EventKinds == {"ENQUEUED", "FAILED", "PERSISTED"}

Glue(log, term, line) ==
    IF term THEN Append(log, line) ELSE [log EXCEPT ![Len(log)] = Junk]

\* _read: junk is either the unterminated last line or excused by the marker
\* after it; a marker anywhere else is an orphan.
Recovered(i) == i < Len(lines) /\ lines[i + 1] = Marker(i)
Replayable ==
    \A i \in 1..Len(lines) :
        /\ lines[i] = Junk => Recovered(i) \/ (i = Len(lines) /\ ~ended)
        /\ lines[i].kind = "MARKER" => i > 1 /\ lines[i - 1] = Junk /\ Recovered(i - 1)

\* Seeded fault: a line that only lost its newline is left alone.
NeedsRepairTorn == Len(lines) > 0 /\ ~ended /\ lines[Len(lines)] = Junk

\* The last line needs the reader's repair: it is torn, or complete but for
\* its newline.  A recovery marker is skipped with the line it excuses, so
\* one that lost its newline is not repaired.
NeedsRepair == Len(lines) > 0 /\ ~ended /\ lines[Len(lines)].kind # "MARKER"

\* _states: the latest event of a receipt, and the row of its last event that
\* names one.
EventsOf(r) == {i \in 1..Len(lines) : lines[i].kind \in EventKinds /\ lines[i].id = r}
LastOf(S) == CHOOSE i \in S : \A j \in S : j <= i
Status(r) == IF EventsOf(r) = {} THEN "NONE" ELSE lines[LastOf(EventsOf(r))].kind
RowOf(r) ==
    LET named == {i \in EventsOf(r) : lines[i].n # 0} IN
    IF named = {} THEN 0 ELSE lines[LastOf(named)].n

-----------------------------------------------------------------------------
Init ==
    /\ lines = <<>> /\ ended = TRUE
    /\ pc = "idle" /\ cur = Reading /\ crashes = 0

\* A call takes the lock and reads; an inconsistent file raises and nothing
\* happens.
Begin(e) ==
    /\ pc = "idle" /\ Replayable /\ Len(lines) + 2 <= MaxEvents
    /\ cur' = e /\ pc' = "repair"
    /\ UNCHANGED <<lines, ended, crashes>>

CallEnqueue(r)          == Begin(Event(r, "ENQUEUED", 0))
CallMarkFailed(r)       == Begin(Event(r, "FAILED", 0))
CallMarkPersisted(r, n) == Begin(Event(r, "PERSISTED", n))
CallRead                == Begin(Reading)

\* What the call does with the replayed states: append its event, or return
\* (already enqueued, already persisted), or raise (unknown receipt, other row).
Wanted ==
    \/ cur.kind = "ENQUEUED" /\ Status(cur.id) = "NONE"
    \/ cur.kind \in {"FAILED", "PERSISTED"} /\ Status(cur.id) \in {"ENQUEUED", "FAILED"}

Finish == pc' = "idle" /\ cur' = Reading

\* Seeded fault: a torn line gets a newline and no marker.
ReadNewlineOnly ==
    /\ pc = "repair"
    /\ ended' = (ended \/ NeedsRepair) /\ UNCHANGED lines
    /\ IF Wanted THEN pc' = "append" /\ UNCHANGED cur ELSE Finish
    /\ UNCHANGED crashes

\* _read's repair, when one is needed, then the call's decision.
Read ==
    /\ pc = "repair"
    /\ lines' = IF NeedsRepair /\ lines[Len(lines)] = Junk
                THEN Append(lines, Marker(Len(lines))) ELSE lines
    /\ ended' = (ended \/ NeedsRepair)
    /\ IF Wanted THEN pc' = "append" /\ UNCHANGED cur ELSE Finish
    /\ UNCHANGED crashes

AppendEvent ==
    /\ pc = "append"
    /\ lines' = Glue(lines, ended, cur) /\ ended' = TRUE
    /\ Finish /\ UNCHANGED crashes

Interrupted == crashes < MaxCrashes /\ crashes' = crashes + 1 /\ Finish

InterruptRepair ==
    /\ pc = "repair" /\ NeedsRepair /\ lines[Len(lines)] = Junk /\ Interrupted
    /\ \E tear \in MarkTears :
        /\ lines' = CASE tear \in {"lost", "newline"} -> lines
                      [] tear = "torn" -> Append(lines, Junk)
                      [] tear = "unterminated" -> Append(lines, Marker(Len(lines)))
        /\ ended' = (tear = "newline")

InterruptAppend ==
    /\ pc = "append" /\ Interrupted
    /\ \E tear \in AppendTears :
        /\ lines' = CASE tear = "lost" -> lines
                      [] tear = "torn" -> Glue(lines, ended, Junk)
                      [] tear = "unterminated" -> Glue(lines, ended, cur)
        /\ ended' = (tear = "lost" /\ ended)

Next ==
    \/ \E r \in Receipts :
        \/ CallEnqueue(r) \/ CallMarkFailed(r)
        \/ \E n \in Rows : CallMarkPersisted(r, n)
    \/ CallRead \/ Read \/ AppendEvent \/ InterruptRepair \/ InterruptAppend

Spec == Init /\ [][Next]_vars

-----------------------------------------------------------------------------
Line == [kind : EventKinds \cup {"MARKER", "JUNK", "READ"}, id : Receipts \cup {0}, n : Nat]

\* Types of the file and of the call in progress.
TypeOK ==
    /\ lines \in Seq(Line) /\ ended \in BOOLEAN
    /\ pc \in {"idle", "repair", "append"} /\ cur \in Line
    /\ crashes \in 0..MaxCrashes

\* A restart always finds a ledger it can replay.
AlwaysReplayable == Replayable

\* What the ledger says of a receipt never goes back: an event that a replay
\* has once seen is not lost to a later tear, and a persisted receipt keeps
\* its row whatever is called afterwards.
Rank == [NONE |-> 0, ENQUEUED |-> 1, FAILED |-> 1, PERSISTED |-> 2]
NeverForgets ==
    [][\A r \in Receipts :
        /\ Rank[Status(r)] <= Rank[Status(r)']
        /\ RowOf(r) # 0 => RowOf(r)' = RowOf(r)]_vars

=============================================================================
