---------------------------- MODULE PacketSealer ----------------------------
(***************************************************************************)
(* The T0 packet store of t0_audit/sealer.py: an append-only JSONL log of  *)
(* sealed decision packets beside an atomically replaced sequence          *)
(* checkpoint.  The log is modelled line by line because its hazards are   *)
(* line hazards: an interrupted append leaves a partial last line, the     *)
(* next append continues on that same line, and the recovery marker that   *)
(* excuses a torn line is itself an append that can be interrupted.        *)
(*                                                                         *)
(* The store is driven by one process holding PacketSealer._lock, so a     *)
(* seal is a sequence of uninterleaved steps that an interruption (process *)
(* crash, ENOSPC, failed fsync) may cut at any point.  Nothing survives in *)
(* memory between two seals: every seal rescans the file.                  *)
(***************************************************************************)
EXTENDS Naturals, Sequences, FiniteSets

CONSTANTS
    Packets,        \* packet ids (the hash of a T0 payload)
    AppendTears,    \* how an interrupted packet append may end on disk
    MarkTears,      \* how an interrupted marker append may end on disk
    MaxCrashes,     \* bound: interruptions explored
    NoPacket        \* stands for "no packet id" in marker and junk lines

\* An interrupted append leaves nothing, an unparsable prefix, or (the last
\* byte lost) the whole record without its newline.  A marker append starts
\* with the newline that ends the torn line, so it can also stop after that.
ASSUME TearsAssumption ==
    /\ AppendTears \subseteq {"lost", "torn", "unterminated"}
    /\ MarkTears \subseteq {"lost", "newline", "torn", "unterminated"}
ASSUME BoundAssumption == MaxCrashes \in Nat
ASSUME NoPacketAssumption == NoPacket \notin Packets

VARIABLES
    lines,      \* sealed_packets.jsonl, one record per physical line
    ended,      \* TRUE iff the last line ends with a newline
    ckpt,       \* the packet_seq checkpoint file (0 when absent)
    pc,         \* where the seal holding the lock is: idle, mark, append, checkpoint
    cur,        \* the packet line being sealed
    acked,      \* history: the sequence number seal() returned for a packet, or 0
    crashes     \* interruptions so far

vars == <<lines, ended, ckpt, pc, cur, acked, crashes>>

-----------------------------------------------------------------------------
\* Lines: a sealed packet, a recovery marker naming the line it excuses, or
\* bytes that do not parse.
PacketLine(p, s) == [kind |-> "packet", id |-> p, n |-> s]
Marker(i)        == [kind |-> "marker", id |-> NoPacket, n |-> i]
Junk             == [kind |-> "junk", id |-> NoPacket, n |-> 0]
NoLine           == Junk

Line == [kind : {"packet", "marker", "junk"}, id : Packets \cup {NoPacket}, n : Nat]

\* An "ab" append of one record: it opens a line of its own only when the
\* last line is terminated; otherwise both run together and neither parses.
Glue(log, term, line) ==
    IF term THEN Append(log, line) ELSE [log EXCEPT ![Len(log)] = Junk]

-----------------------------------------------------------------------------
\* _scan(): what one pass over the file accepts.
IsPacket(i) == lines[i].kind = "packet"
IsJunk(i)   == lines[i].kind = "junk"

\* _marker_matches: the next line is the marker written for this torn line.
Recovered(i) == i < Len(lines) /\ lines[i + 1] = Marker(i)

\* pending_torn: an unparsable last line without a newline.
TornTail == Len(lines) > 0 /\ ~ended /\ IsJunk(Len(lines))

\* max_seq after k lines: it grows by one with every packet accepted.
PacketsIn(k) == Cardinality({i \in 1..k : IsPacket(i)})
LogSeq == PacketsIn(Len(lines))

\* No PacketSequenceError: junk is the pending tail or recovered, every
\* marker follows the line it recovers, sequence numbers have no gap and
\* packet ids do not repeat.
Readable ==
    \A i \in 1..Len(lines) :
        /\ IsJunk(i) => Recovered(i) \/ (i = Len(lines) /\ ~ended)
        /\ lines[i].kind = "marker" => i > 1 /\ IsJunk(i - 1) /\ Recovered(i - 1)
        /\ IsPacket(i) =>
              /\ lines[i].n = PacketsIn(i)
              /\ \A j \in 1..(i - 1) : IsPacket(j) => lines[j].id # lines[i].id

InLog(p, s) == \E i \in 1..Len(lines) : lines[i] = PacketLine(p, s)

-----------------------------------------------------------------------------
Init ==
    /\ lines = <<>> /\ ended = TRUE
    /\ ckpt = 0
    /\ pc = "idle" /\ cur = NoLine
    /\ acked = [p \in Packets |-> 0]
    /\ crashes = 0

\* seal() up to its first write: scan, refuse a checkpoint ahead of the log.
CanSeal == pc = "idle" /\ Readable /\ ckpt <= LogSeq

\* by_id.get(packet_id) is not None: the stored packet is returned as it is.
SealExisting(p) ==
    /\ CanSeal
    /\ \E s \in 1..LogSeq : InLog(p, s) /\ acked' = [acked EXCEPT ![p] = s]
    /\ UNCHANGED <<lines, ended, ckpt, pc, cur, crashes>>

\* Seeded fault: a torn tail is not marked before the append.
SealUnmarked(p) ==
    /\ CanSeal
    /\ \A s \in 1..LogSeq : ~InLog(p, s)
    /\ cur' = PacketLine(p, LogSeq + 1) /\ pc' = "append"
    /\ UNCHANGED <<lines, ended, ckpt, acked, crashes>>

SealNew(p) ==
    /\ CanSeal
    /\ \A s \in 1..LogSeq : ~InLog(p, s)
    /\ cur' = PacketLine(p, LogSeq + 1)
    /\ pc' = IF TornTail THEN "mark" ELSE "append"
    /\ UNCHANGED <<lines, ended, ckpt, acked, crashes>>

\* _append_torn_tail_marker: newline, marker, newline, fsync.
WriteMarker ==
    /\ pc = "mark"
    /\ lines' = Append(lines, Marker(Len(lines)))
    /\ ended' = TRUE
    /\ pc' = "append"
    /\ UNCHANGED <<ckpt, cur, acked, crashes>>

\* Seeded fault: the log is opened "wb" instead of "ab".
AppendTruncating ==
    /\ pc = "append"
    /\ lines' = <<cur>> /\ ended' = TRUE
    /\ pc' = "checkpoint"
    /\ UNCHANGED <<ckpt, cur, acked, crashes>>

AppendPacket ==
    /\ pc = "append"
    /\ lines' = Glue(lines, ended, cur)
    /\ ended' = TRUE
    /\ pc' = "checkpoint"
    /\ UNCHANGED <<ckpt, cur, acked, crashes>>

\* _atomic_write_text(packet_seq), then seal() returns the packet.
WriteCheckpoint ==
    /\ pc = "checkpoint"
    /\ ckpt' = cur.n
    /\ acked' = [acked EXCEPT ![cur.id] = cur.n]
    /\ pc' = "idle" /\ cur' = NoLine
    /\ UNCHANGED <<lines, ended, crashes>>

\* An interruption abandons the seal: its exception or the restart leaves
\* only what reached the file.
Interrupted ==
    /\ crashes < MaxCrashes /\ crashes' = crashes + 1
    /\ pc' = "idle" /\ cur' = NoLine
    /\ UNCHANGED acked

InterruptMarker ==
    /\ pc = "mark" /\ Interrupted /\ UNCHANGED ckpt
    /\ \E tear \in MarkTears :
        /\ lines' = CASE tear \in {"lost", "newline"} -> lines
                      [] tear = "torn" -> Append(lines, Junk)
                      [] tear = "unterminated" -> Append(lines, Marker(Len(lines)))
        /\ ended' = (tear = "newline")

InterruptAppend ==
    /\ pc = "append" /\ Interrupted /\ UNCHANGED ckpt
    /\ \E tear \in AppendTears :
        /\ lines' = CASE tear = "lost" -> lines
                      [] tear = "torn" -> Glue(lines, ended, Junk)
                      [] tear = "unterminated" -> Glue(lines, ended, cur)
        /\ ended' = (tear = "lost" /\ ended)

\* The temporary file is renamed or it is not; either way nobody is told.
InterruptCheckpoint ==
    /\ pc = "checkpoint" /\ Interrupted
    /\ ckpt' \in {ckpt, cur.n}
    /\ UNCHANGED <<lines, ended>>

Next ==
    \/ \E p \in Packets : SealExisting(p) \/ SealNew(p)
    \/ WriteMarker \/ AppendPacket \/ WriteCheckpoint
    \/ InterruptMarker \/ InterruptAppend \/ InterruptCheckpoint

Spec == Init /\ [][Next]_vars

-----------------------------------------------------------------------------
(***************************************************************************)
(* Properties                                                              *)
(***************************************************************************)
\* Types of the log, the checkpoint, the lock holder's locals and the history.
TypeOK ==
    /\ lines \in Seq(Line) /\ ended \in BOOLEAN
    /\ ckpt \in Nat /\ crashes \in 0..MaxCrashes
    /\ pc \in {"idle", "mark", "append", "checkpoint"}
    /\ cur \in Line
    /\ acked \in [Packets -> Nat]

\* The checkpoint always names a packet of the log.  Were it ahead, every
\* later seal would raise "checkpoint is ahead of durable log".
CheckpointNamesPacket == ckpt = 0 \/ \E p \in Packets : InLog(p, ckpt)

\* A packet seal() returned stays in the log under the number it was
\* returned with, whatever is torn afterwards.
AckedDurable == \A p \in Packets : acked[p] # 0 => InLog(p, acked[p])

\* Between two seals the store is usable: the log parses and the checkpoint
\* is not ahead, so a restart never finds a store that refuses to seal.
AlwaysRecoverable == pc = "idle" => Readable /\ ckpt <= LogSeq

\* A packet any scan has returned is never dropped or renumbered by a later
\* append, recovery or interruption (read_after hands such packets to the
\* replicator before seal() has returned).
AppendOnly ==
    [][\A p \in Packets : \A s \in 1..Cardinality(Packets) : InLog(p, s) => InLog(p, s)']_vars

=============================================================================
