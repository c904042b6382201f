------------------------- MODULE PacketSealerProofs -------------------------
(***************************************************************************)
(* The packet store and its replication.                                   *)
(*                                                                         *)
(* For every set of packets and any number of interruptions: as long as no *)
(* interrupted append loses exactly its final newline, a packet seal() has *)
(* returned stays in the log and the checkpoint names a packet of the log. *)
(* The recovery markers may be torn in any other way: the store then stops *)
(* sealing, but loses nothing.  With markers that are written whole or not *)
(* at all it does not even stop: every restart can read the log and seal.  *)
(*                                                                         *)
(* The last section proves T0Replication, which carries these packets to   *)
(* the audit consumer's copy of the same log.                              *)
(***************************************************************************)
EXTENDS PacketSealer, T0Replication, FiniteSetTheorems, SequenceTheorems, TLAPS

\* An interrupted write never leaves the whole record without its newline.
NewlineKept == "unterminated" \notin AppendTears \cup MarkTears

\* What an append relies on: a last line that does not end is junk, and the
\* packet is only appended to a file that ends.
TailInv ==
    /\ ~ended => Len(lines) > 0 /\ lines[Len(lines)] = Junk
    /\ pc = "mark" => ~ended
    /\ pc = "append" => ended

CurInv ==
    /\ pc # "idle" => \E p \in Packets : \E s \in Nat : cur = PacketLine(p, s)
    /\ pc = "checkpoint" => \E i \in 1..Len(lines) : lines[i] = cur

IInv == TypeOK /\ TailInv /\ CurInv /\ CheckpointNamesPacket /\ AckedDurable

\* The number of packets accepted by a scan is a natural number.
LEMMA LogSeqType == TypeOK => LogSeq \in Nat
<1> SUFFICES ASSUME TypeOK PROVE LogSeq \in Nat
  OBVIOUS
<1>1. Len(lines) \in Nat
  BY DEF TypeOK
<1>2. IsFiniteSet(1..Len(lines))
  BY <1>1, FS_Interval
<1>3. IsFiniteSet({i \in 1..Len(lines) : IsPacket(i)})
  BY <1>2, FS_Subset
<1> QED
  BY <1>3, FS_CardinalityType DEF LogSeq, PacketsIn

\* Appending a line of its own, or turning a junk last line into other junk,
\* keeps every packet line where it is.
LEMMA AppendKeepsPackets ==
    ASSUME TypeOK, NEW line \in Line, lines' = Append(lines, line)
    PROVE  /\ lines' \in Seq(Line) /\ Len(lines') = Len(lines) + 1
           /\ lines'[Len(lines')] = line
           /\ \A p, s : InLog(p, s) => InLog(p, s)'
<1>1. lines \in Seq(Line)
  BY DEF TypeOK
<1>2. /\ lines' \in Seq(Line) /\ Len(lines') = Len(lines) + 1
      /\ lines'[Len(lines')] = line
      /\ \A i \in 1..Len(lines) : lines'[i] = lines[i]
  BY <1>1
<1>3. ASSUME NEW p, NEW s, InLog(p, s) PROVE InLog(p, s)'
  BY <1>1, <1>2, <1>3 DEF InLog
<1> QED
  BY <1>2, <1>3

LEMMA InitIInv == Init => IInv
  BY BoundAssumption, NoPacketAssumption DEF Init, IInv, TypeOK, TailInv, CurInv,
     CheckpointNamesPacket, AckedDurable, NoLine, Junk, Line, InLog

\* An interrupted append of a line that is not a packet, or of a packet that
\* loses more than its newline, leaves at most junk behind.
LEMMA JunkKeepsPackets ==
    ASSUME TypeOK, TailInv, lines' = Glue(lines, ended, Junk)
    PROVE  /\ lines' \in Seq(Line) /\ Len(lines') > 0 /\ lines'[Len(lines')] = Junk
           /\ \A p, s : InLog(p, s) => InLog(p, s)'
<1>1. Junk \in Line
  BY DEF Junk, Line
<1>2. CASE ended
  <2>1. lines' = Append(lines, Junk)
    BY <1>2 DEF Glue
  <2> QED
    BY <1>1, <2>1, AppendKeepsPackets DEF TypeOK
<1>3. CASE ~ended
  <2>1. /\ lines \in Seq(Line) /\ Len(lines) \in Nat /\ Len(lines) > 0
        /\ lines[Len(lines)] = Junk
    BY <1>3 DEF TypeOK, TailInv
  <2>2. /\ lines' \in Seq(Line) /\ Len(lines') = Len(lines)
        /\ \A i \in 1..Len(lines) : lines'[i] = lines[i]
    BY <1>1, <1>3, <2>1 DEF Glue
  <2>3. \A p, s : PacketLine(p, s) # Junk
    BY DEF PacketLine, Junk
  <2> QED
    BY <2>1, <2>2, <2>3 DEF InLog
<1> QED
  BY <1>2, <1>3 DEF TypeOK

\* The history and the checkpoint only speak of packets of the log, so they
\* stay true in every step that keeps the log's packets.
LEMMA KeptPacketsSuffice ==
    ASSUME IInv, UNCHANGED <<acked, ckpt>>,
           \A p, s : InLog(p, s) => InLog(p, s)'
    PROVE  CheckpointNamesPacket' /\ AckedDurable'
<1>1. acked \in [Packets -> Nat] /\ ckpt \in Nat
  BY DEF IInv, TypeOK
<1>2. \A p, s : InLog(p, s) => InLog(p, s)'
  OBVIOUS
<1>3. CheckpointNamesPacket'
  BY <1>1, <1>2 DEF IInv, CheckpointNamesPacket
<1>4. ASSUME NEW p \in Packets, acked[p] # 0 PROVE InLog(p, acked[p])'
  <2>1. InLog(p, acked[p])
    BY <1>4 DEF IInv, AckedDurable
  <2>2. acked[p] \in Nat /\ acked' = acked
    BY <1>1
  <2> QED
    BY <1>2, <2>1, <2>2
<1> QED
  BY <1>3, <1>4 DEF AckedDurable

LEMMA NextIInv == NewlineKept /\ IInv /\ [Next]_vars => IInv'
<1> SUFFICES ASSUME NewlineKept, IInv, [Next]_vars PROVE IInv'
  OBVIOUS
<1>t. TypeOK /\ TailInv /\ CurInv
  BY DEF IInv
<1>l. LogSeq \in Nat
  BY <1>t, LogSeqType
\* What every interruption establishes.
<1>i. ASSUME Interrupted, lines' \in Seq(Line), ended' \in BOOLEAN,
             ~ended' => Len(lines') > 0 /\ lines'[Len(lines')] = Junk
      PROVE  /\ TailInv' /\ CurInv'
             /\ ckpt' \in Nat => TypeOK'
  <2>1. pc' = "idle" /\ cur' = Junk /\ acked' = acked /\ crashes' \in 0..MaxCrashes
    BY <1>i, <1>t, BoundAssumption DEF Interrupted, NoLine, TypeOK
  <2>2. Junk \in Line
    BY DEF Junk, Line
  <2> QED
    BY <1>i, <1>t, <2>1, <2>2 DEF TailInv, CurInv, TypeOK
<1>1. CASE \E p \in Packets : SealExisting(p)
  <2>1. PICK p \in Packets, s \in 1..LogSeq :
           InLog(p, s) /\ acked' = [acked EXCEPT ![p] = s]
           /\ UNCHANGED <<lines, ended, ckpt, pc, cur, crashes>>
    BY <1>1 DEF SealExisting
  <2>2. s \in Nat
    BY <1>l
  <2>3. TypeOK' /\ TailInv' /\ CurInv' /\ CheckpointNamesPacket'
    BY <1>t, <2>1, <2>2 DEF IInv, TypeOK, TailInv, CurInv, CheckpointNamesPacket, InLog
  <2>4. AckedDurable'
    BY <1>t, <2>1 DEF IInv, TypeOK, AckedDurable, InLog
  <2> QED
    BY <2>3, <2>4 DEF IInv
<1>2. CASE \E p \in Packets : SealNew(p)
  <2>1. PICK p \in Packets : SealNew(p)
    BY <1>2
  <2>2. PacketLine(p, LogSeq + 1) \in Line
    BY <1>l DEF PacketLine, Line
  <2>3. TypeOK'
    BY <1>t, <2>1, <2>2 DEF SealNew, TypeOK
  <2>4. TailInv'
    BY <1>t, <2>1 DEF SealNew, CanSeal, TailInv, TypeOK, TornTail, IsJunk, Junk
  <2>5. CurInv'
    <3>1. LogSeq + 1 \in Nat /\ cur' = PacketLine(p, LogSeq + 1) /\ pc' # "checkpoint"
      BY <1>l, <2>1 DEF SealNew
    <3> QED
      BY <3>1 DEF CurInv
  <2>6. CheckpointNamesPacket' /\ AckedDurable'
    BY <2>1, KeptPacketsSuffice DEF SealNew, InLog
  <2> QED
    BY <2>3, <2>4, <2>5, <2>6 DEF IInv
<1>3. CASE WriteMarker
  <2>1. Len(lines) \in Nat /\ Marker(Len(lines)) \in Line
    BY <1>t DEF TypeOK, Marker, Line
  <2>2. /\ lines' \in Seq(Line)
        /\ \A p, s : InLog(p, s) => InLog(p, s)'
    BY <1>3, <1>t, <2>1, AppendKeepsPackets DEF WriteMarker
  <2>3. TypeOK' /\ TailInv' /\ CurInv'
    BY <1>3, <1>t, <2>2 DEF WriteMarker, TypeOK, TailInv, CurInv
  <2>4. CheckpointNamesPacket' /\ AckedDurable'
    BY <1>3, <2>2, KeptPacketsSuffice DEF WriteMarker
  <2> QED
    BY <2>3, <2>4 DEF IInv
<1>4. CASE AppendPacket
  <2>1. lines' = Append(lines, cur) /\ cur \in Line
    BY <1>4, <1>t DEF AppendPacket, TailInv, TypeOK, Glue
  <2>2. /\ lines' \in Seq(Line) /\ Len(lines') = Len(lines) + 1
        /\ lines'[Len(lines')] = cur
        /\ \A p, s : InLog(p, s) => InLog(p, s)'
    BY <1>t, <2>1, AppendKeepsPackets
  <2>3. TypeOK' /\ TailInv'
    BY <1>4, <1>t, <2>2 DEF AppendPacket, TypeOK, TailInv
  <2>4. CurInv'
    <3>1. Len(lines') \in 1..Len(lines') /\ cur' = cur
      BY <1>4, <1>t, <2>2 DEF AppendPacket, TypeOK
    <3> QED
      BY <1>4, <1>t, <2>2, <3>1 DEF AppendPacket, CurInv
  <2>5. CheckpointNamesPacket' /\ AckedDurable'
    BY <1>4, <2>2, KeptPacketsSuffice DEF AppendPacket
  <2> QED
    BY <2>3, <2>4, <2>5 DEF IInv
<1>5. CASE WriteCheckpoint
  <2>1. PICK p \in Packets, s \in Nat : cur = PacketLine(p, s)
    BY <1>5, <1>t DEF WriteCheckpoint, CurInv
  <2>2. InLog(p, s) /\ cur.id = p /\ cur.n = s
    BY <1>5, <1>t, <2>1 DEF WriteCheckpoint, CurInv, InLog, PacketLine
  <2>3. TypeOK' /\ TailInv' /\ CurInv'
    BY <1>5, <1>t, <2>2 DEF WriteCheckpoint, TypeOK, TailInv, CurInv, NoLine, Junk, Line
  <2>4. CheckpointNamesPacket' /\ AckedDurable'
    BY <1>5, <1>t, <2>2
       DEF IInv, WriteCheckpoint, TypeOK, CheckpointNamesPacket, AckedDurable, InLog
  <2> QED
    BY <2>3, <2>4 DEF IInv
<1>6. CASE InterruptMarker
  <2>1. PICK tear \in MarkTears :
          /\ lines' = CASE tear \in {"lost", "newline"} -> lines
                        [] tear = "torn" -> Append(lines, Junk)
                        [] tear = "unterminated" -> Append(lines, Marker(Len(lines)))
          /\ ended' = (tear = "newline")
    BY <1>6 DEF InterruptMarker
  <2>2. tear \in {"lost", "newline", "torn"} /\ ~ended /\ ckpt' = ckpt /\ Interrupted
    BY <1>6, <1>t, <2>1, TearsAssumption DEF InterruptMarker, NewlineKept, TailInv
  <2>3. CASE tear \in {"lost", "newline"}
    <3>1. lines' = lines
      BY <2>1, <2>3
    <3> QED
      BY <1>i, <1>t, <2>1, <2>2, <3>1, KeptPacketsSuffice
         DEF IInv, TypeOK, TailInv, InLog, Interrupted
  <2>4. CASE tear = "torn"
    <3>1. lines' = Append(lines, Junk) /\ Junk \in Line
      BY <2>1, <2>4 DEF Junk, Line
    <3>2. /\ lines' \in Seq(Line) /\ Len(lines') > 0 /\ lines'[Len(lines')] = Junk
          /\ \A p, s : InLog(p, s) => InLog(p, s)'
      BY <1>t, <3>1, AppendKeepsPackets DEF TypeOK
    <3> QED
      BY <1>i, <1>t, <2>1, <2>2, <2>4, <3>2, KeptPacketsSuffice DEF IInv, TypeOK, Interrupted
  <2> QED
    BY <2>2, <2>3, <2>4
<1>7. CASE InterruptAppend
  <2>1. PICK tear \in AppendTears :
          /\ lines' = CASE tear = "lost" -> lines
                        [] tear = "torn" -> Glue(lines, ended, Junk)
                        [] tear = "unterminated" -> Glue(lines, ended, cur)
          /\ ended' = (tear = "lost" /\ ended)
    BY <1>7 DEF InterruptAppend
  <2>2. tear \in {"lost", "torn"} /\ ended /\ ckpt' = ckpt /\ Interrupted
    BY <1>7, <1>t, <2>1, TearsAssumption DEF InterruptAppend, NewlineKept, TailInv
  <2>3. CASE tear = "lost"
    BY <1>i, <1>t, <2>1, <2>2, <2>3, KeptPacketsSuffice DEF IInv, TypeOK, InLog, Interrupted
  <2>4. CASE tear = "torn"
    <3>1. lines' = Glue(lines, ended, Junk) /\ ended' = FALSE
      BY <2>1, <2>4
    <3>2. /\ lines' \in Seq(Line) /\ Len(lines') > 0 /\ lines'[Len(lines')] = Junk
          /\ \A p, s : InLog(p, s) => InLog(p, s)'
      BY <1>t, <3>1, JunkKeepsPackets
    <3> QED
      BY <1>i, <1>t, <2>2, <3>1, <3>2, KeptPacketsSuffice DEF IInv, TypeOK, Interrupted
  <2> QED
    BY <2>2, <2>3, <2>4
<1>8. CASE InterruptCheckpoint
  <2>1. PICK p \in Packets, s \in Nat : cur = PacketLine(p, s)
    BY <1>8, <1>t DEF InterruptCheckpoint, CurInv
  <2>2. InLog(p, s) /\ cur.n = s
    BY <1>8, <1>t, <2>1 DEF InterruptCheckpoint, CurInv, InLog, PacketLine
  <2>3. /\ ckpt' \in {ckpt, s} /\ Interrupted /\ UNCHANGED <<lines, ended>>
    BY <1>8, <2>2 DEF InterruptCheckpoint
  <2>4. TypeOK' /\ TailInv' /\ CurInv'
    BY <1>i, <1>t, <2>3 DEF TypeOK, TailInv
  <2>5. CheckpointNamesPacket' /\ AckedDurable'
    BY <2>2, <2>3 DEF IInv, CheckpointNamesPacket, AckedDurable, InLog, Interrupted
  <2> QED
    BY <2>4, <2>5 DEF IInv
<1>9. CASE UNCHANGED vars
  BY <1>9 DEF vars, IInv, TypeOK, TailInv, CurInv, CheckpointNamesPacket, AckedDurable, InLog
<1> QED
  BY <1>1, <1>2, <1>3, <1>4, <1>5, <1>6, <1>7, <1>8, <1>9 DEF Next

\* Type correctness of the packet store (the log, its checkpoint and the seal
\* in progress), tears of the log included.
THEOREM SealerTypeCorrect == ASSUME NewlineKept PROVE Spec => []TypeOK
<1>1. IInv /\ [Next]_vars => IInv'
  BY NextIInv
<1>2. IInv => TypeOK
  BY DEF IInv
<1> QED
  BY <1>1, <1>2, InitIInv, PTL DEF Spec

\* A packet seal() returned is in the log for good, under its number, whatever
\* later appends and recoveries are interrupted.
THEOREM SealedIsDurable == ASSUME NewlineKept PROVE Spec => []AckedDurable
<1>1. IInv /\ [Next]_vars => IInv'
  BY NextIInv
<1>2. IInv => AckedDurable
  BY DEF IInv
<1> QED
  BY <1>1, <1>2, InitIInv, PTL DEF Spec

\* The checkpoint is never ahead of the log, so its guard in seal() never
\* locks the store.
THEOREM CheckpointIsBacked == ASSUME NewlineKept PROVE Spec => []CheckpointNamesPacket
<1>1. IInv /\ [Next]_vars => IInv'
  BY NextIInv
<1>2. IInv => CheckpointNamesPacket
  BY DEF IInv
<1> QED
  BY <1>1, <1>2, InitIInv, PTL DEF Spec

\* The log is append-only for its readers: no step, interrupted or not, drops
\* or renumbers a packet.
THEOREM SealerAppendOnly == ASSUME NewlineKept PROVE Spec => AppendOnly
<1>1. ASSUME IInv, [Next]_vars PROVE \A p, s : InLog(p, s) => InLog(p, s)'
  <2>t. TypeOK /\ TailInv /\ lines \in Seq(Line) /\ cur \in Line
    BY <1>1 DEF IInv, TypeOK
  <2>j. Junk \in Line /\ Marker(Len(lines)) \in Line
    BY <2>t DEF Junk, Marker, Line
  <2>1. CASE lines' = lines
    BY <2>1 DEF InLog
  <2>2. CASE WriteMarker \/ AppendPacket
    BY <2>2, <2>t, <2>j, AppendKeepsPackets DEF WriteMarker, AppendPacket, TailInv, Glue
  <2>3. CASE InterruptMarker
    <3>1. lines' = lines \/ lines' = Append(lines, Junk) \/ lines' = Append(lines, Marker(Len(lines)))
      BY <2>3, TearsAssumption DEF InterruptMarker
    <3> QED
      BY <2>1, <2>t, <2>j, <3>1, AppendKeepsPackets
  <2>4. CASE InterruptAppend
    <3>1. lines' = lines \/ lines' = Glue(lines, ended, Junk)
      BY <2>4, TearsAssumption DEF InterruptAppend, NewlineKept
    <3> QED
      BY <2>1, <2>t, <3>1, JunkKeepsPackets
  <2> QED
    BY <1>1, <2>1, <2>2, <2>3, <2>4
       DEF Next, vars, SealExisting, SealNew, WriteCheckpoint, InterruptCheckpoint
<1>2. IInv /\ [Next]_vars =>
        [\A p \in Packets : \A s \in 1..Cardinality(Packets) : InLog(p, s) => InLog(p, s)']_vars
  BY <1>1
<1>3. IInv /\ [Next]_vars => IInv'
  BY NextIInv
<1> QED
  BY <1>2, <1>3, InitIInv, PTL DEF Spec, AppendOnly

-----------------------------------------------------------------------------
\* A recovery marker reaches the file as a whole or not at all.
MarkersWhole == MarkTears \subseteq {"lost"}

\* A scan accepts the file at every step, and the packet about to be appended
\* has the next number and an id the file does not hold.
ReadInv ==
    /\ Readable
    /\ pc \in {"mark", "append"} =>
        /\ cur.kind = "packet" /\ cur.n = LogSeq + 1
        /\ \A i \in 1..Len(lines) : IsPacket(i) => lines[i].id # cur.id

\* Counting packets: a prefix never counts more than the whole file, and one
\* that ends with a packet counts it.
LEMMA PacketsInBounds ==
    ASSUME TypeOK, NEW k \in 1..Len(lines)
    PROVE  /\ PacketsIn(k) \in Nat /\ PacketsIn(k) <= LogSeq
           /\ IsPacket(k) => PacketsIn(k) >= 1
<1>1. Len(lines) \in Nat /\ k \in Nat /\ 1..k \subseteq 1..Len(lines)
  BY DEF TypeOK
<1>2. IsFiniteSet(1..k) /\ IsFiniteSet(1..Len(lines))
  BY <1>1, FS_Interval
<1> DEFINE A == {i \in 1..k : IsPacket(i)}
           B == {i \in 1..Len(lines) : IsPacket(i)}
<1>3. IsFiniteSet(A) /\ IsFiniteSet(B) /\ A \subseteq B
  BY <1>1, <1>2, FS_Subset
<1>4. Cardinality(A) \in Nat /\ Cardinality(A) <= Cardinality(B)
  BY <1>3, FS_CardinalityType, FS_Subset
<1>5. ASSUME IsPacket(k) PROVE Cardinality(A) >= 1
  <2>1. k \in A
    BY <1>1, <1>5
  <2>2. Cardinality(A) # 0
    BY <1>3, <2>1, FS_EmptySet
  <2> QED
    BY <1>4, <2>2
<1> QED
  BY <1>4, <1>5 DEF PacketsIn, LogSeq

\* One appended line: earlier prefixes count as before, the new one counts the
\* line if it is a packet.
LEMMA AppendCounts ==
    ASSUME TypeOK, NEW line \in Line, lines' = Append(lines, line)
    PROVE  /\ Len(lines') = Len(lines) + 1 /\ lines'[Len(lines) + 1] = line
           /\ \A i \in 1..Len(lines) : lines'[i] = lines[i] /\ PacketsIn(i)' = PacketsIn(i)
           /\ LogSeq' = IF line.kind = "packet" THEN LogSeq + 1 ELSE LogSeq
           /\ \A k : k = Len(lines) + 1 => PacketsIn(k)' = LogSeq'
<1>1. /\ lines \in Seq(Line) /\ Len(lines) \in Nat /\ Len(lines') = Len(lines) + 1
      /\ lines'[Len(lines) + 1] = line /\ \A i \in 1..Len(lines) : lines'[i] = lines[i]
  BY DEF TypeOK
<1>2. ASSUME NEW i \in 1..Len(lines) PROVE PacketsIn(i)' = PacketsIn(i)
  <2>1. \A j \in 1..i : lines'[j] = lines[j]
    BY <1>1
  <2>2. {j \in 1..i : lines'[j].kind = "packet"} = {j \in 1..i : lines[j].kind = "packet"}
    BY <2>1
  <2> QED
    BY <2>2 DEF PacketsIn, IsPacket
<1> DEFINE n == Len(lines)
           A == {i \in 1..n : lines[i].kind = "packet"}
           B == {i \in 1..(n + 1) : lines'[i].kind = "packet"}
<1>3. IsFiniteSet(A) /\ n + 1 \notin A
  <2>1. IsFiniteSet(1..n)
    BY <1>1, FS_Interval
  <2> QED
    BY <1>1, <2>1, FS_Subset
<1>4. LogSeq = Cardinality(A) /\ LogSeq' = Cardinality(B)
  BY <1>1 DEF LogSeq, PacketsIn, IsPacket
<1>5. B = IF line.kind = "packet" THEN A \cup {n + 1} ELSE A
  BY <1>1
<1>6. LogSeq' = IF line.kind = "packet" THEN LogSeq + 1 ELSE LogSeq
  <2> HIDE DEF A, B
  <2> QED
    BY <1>3, <1>4, <1>5, FS_AddElement
<1>7. \A k : k = Len(lines) + 1 => PacketsIn(k)' = LogSeq'
  BY <1>1 DEF LogSeq
<1> QED
  BY <1>1, <1>2, <1>6, <1>7

\* A packet with the next number and a new id, on a line of its own.
LEMMA PacketKeepsReadable ==
    ASSUME TypeOK, Readable, ended, NEW line \in Line, lines' = Append(lines, line),
           line.kind = "packet", line.n = LogSeq + 1,
           \A i \in 1..Len(lines) : IsPacket(i) => lines[i].id # line.id
    PROVE  Readable'
<1>1. /\ Len(lines) \in Nat /\ Len(lines') = Len(lines) + 1 /\ lines'[Len(lines) + 1] = line
      /\ \A i \in 1..Len(lines) : lines'[i] = lines[i] /\ PacketsIn(i)' = PacketsIn(i)
      /\ \A k : k = Len(lines) + 1 => PacketsIn(k)' = LogSeq + 1
  BY AppendCounts DEF TypeOK
<1>2. ASSUME NEW i \in 1..Len(lines)
      PROVE  /\ IsJunk(i)' => Recovered(i)'
             /\ (lines[i].kind = "marker")' => i > 1 /\ IsJunk(i - 1)' /\ Recovered(i - 1)'
             /\ IsPacket(i)' => /\ (lines[i].n = PacketsIn(i))'
                                /\ \A j \in 1..(i - 1) : IsPacket(j)' => (lines[j].id # lines[i].id)'
  BY <1>1 DEF Readable, IsJunk, IsPacket, Recovered
<1>3. \A j \in 1..Len(lines) : IsPacket(j)' => lines'[j].id # line.id
  BY <1>1 DEF IsPacket
<1>4. ASSUME NEW i \in 1..Len(lines')
      PROVE  /\ IsJunk(i)' => Recovered(i)'
             /\ (lines[i].kind = "marker")' => i > 1 /\ IsJunk(i - 1)' /\ Recovered(i - 1)'
             /\ IsPacket(i)' => /\ (lines[i].n = PacketsIn(i))'
                                /\ \A j \in 1..(i - 1) : IsPacket(j)' => (lines[j].id # lines[i].id)'
  <2>1. CASE i \in 1..Len(lines)
    BY <1>2, <2>1
  <2>2. CASE i = Len(lines) + 1
    BY <1>1, <1>3, <2>2 DEF IsJunk, IsPacket
  <2> QED
    BY <1>1, <2>1, <2>2
<1> QED
  BY <1>4 DEF Readable

\* What a torn packet leaves behind: junk the next seal will mark.
LEMMA JunkKeepsReadable ==
    ASSUME TypeOK, Readable, ended, lines' = Append(lines, Junk), ~ended'
    PROVE  Readable'
<1>0. Junk \in Line /\ Junk.kind = "junk"
  BY DEF Junk, Line
<1>1. /\ Len(lines) \in Nat /\ Len(lines') = Len(lines) + 1 /\ lines'[Len(lines) + 1] = Junk
      /\ \A i \in 1..Len(lines) : lines'[i] = lines[i] /\ PacketsIn(i)' = PacketsIn(i)
  BY <1>0, AppendCounts DEF TypeOK
<1>2. ASSUME NEW i \in 1..Len(lines)
      PROVE  /\ IsJunk(i)' => Recovered(i)'
             /\ (lines[i].kind = "marker")' => i > 1 /\ IsJunk(i - 1)' /\ Recovered(i - 1)'
             /\ IsPacket(i)' => /\ (lines[i].n = PacketsIn(i))'
                                /\ \A j \in 1..(i - 1) : IsPacket(j)' => (lines[j].id # lines[i].id)'
  BY <1>1 DEF Readable, IsJunk, IsPacket, Recovered
<1>3. ASSUME NEW i, i = Len(lines) + 1
      PROVE  /\ (lines[i].kind # "marker")' /\ ~IsPacket(i)' /\ i = Len(lines')
  BY <1>0, <1>1, <1>3 DEF IsPacket
<1> QED
  BY <1>1, <1>2, <1>3 DEF Readable

\* The marker written for a torn last line excuses it.
LEMMA MarkerKeepsReadable ==
    ASSUME TypeOK, TailInv, Readable, ~ended, lines' = Append(lines, Marker(Len(lines)))
    PROVE  Readable' /\ LogSeq' = LogSeq
<1>0. /\ Len(lines) \in Nat /\ Len(lines) > 0 /\ lines[Len(lines)] = Junk
      /\ Marker(Len(lines)) \in Line /\ Marker(Len(lines)).kind = "marker" /\ Junk.kind = "junk"
  BY DEF TypeOK, TailInv, Marker, Line, Junk
<1>1. /\ Len(lines') = Len(lines) + 1 /\ lines'[Len(lines) + 1] = Marker(Len(lines))
      /\ \A i \in 1..Len(lines) : lines'[i] = lines[i] /\ PacketsIn(i)' = PacketsIn(i)
      /\ LogSeq' = LogSeq
  BY <1>0, AppendCounts
<1>2. \A n : n = Len(lines) => Recovered(n)' /\ IsJunk(n)'
  BY <1>0, <1>1 DEF Recovered, IsJunk
<1>3. ASSUME NEW i \in 1..Len(lines)
      PROVE  /\ IsJunk(i)' => Recovered(i)'
             /\ (lines[i].kind = "marker")' => i > 1 /\ IsJunk(i - 1)' /\ Recovered(i - 1)'
             /\ IsPacket(i)' => /\ (lines[i].n = PacketsIn(i))'
                                /\ \A j \in 1..(i - 1) : IsPacket(j)' => (lines[j].id # lines[i].id)'
  BY <1>0, <1>1, <1>2 DEF Readable, IsJunk, IsPacket, Recovered
<1>4. ASSUME NEW i, i = Len(lines) + 1
      PROVE  /\ ~IsJunk(i)' /\ ~IsPacket(i)' /\ i > 1 /\ IsJunk(i - 1)' /\ Recovered(i - 1)'
  BY <1>0, <1>1, <1>2, <1>4 DEF IsPacket, IsJunk
<1>5. Readable'
  BY <1>0, <1>1, <1>3, <1>4 DEF Readable
<1> QED
  BY <1>1, <1>5

LEMMA NextReadInv == NewlineKept /\ MarkersWhole /\ IInv /\ ReadInv /\ [Next]_vars => ReadInv'
<1> SUFFICES ASSUME NewlineKept, MarkersWhole, IInv, ReadInv, [Next]_vars PROVE ReadInv'
  OBVIOUS
<1>t. TypeOK /\ TailInv /\ CurInv /\ Readable
  BY DEF IInv, ReadInv
\* Steps that leave the file alone and have nothing to append next.
<1>q. ASSUME UNCHANGED <<lines, ended>>, pc' \notin {"mark", "append"} PROVE ReadInv'
  BY <1>t, <1>q DEF ReadInv, Readable, IsJunk, IsPacket, Recovered, PacketsIn
<1>1. CASE \E p \in Packets : SealExisting(p)
  <2>1. UNCHANGED <<lines, ended, pc, cur>>
    BY <1>1 DEF SealExisting
  <2> QED
    BY <2>1 DEF ReadInv, Readable, IsJunk, IsPacket, Recovered, PacketsIn, LogSeq
<1>2. CASE \E p \in Packets : SealNew(p)
  <2>1. PICK p \in Packets : SealNew(p)
    BY <1>2
  <2>2. ASSUME NEW i \in 1..Len(lines), IsPacket(i) PROVE lines[i].id # p
    <3>1. lines[i].n \in 1..LogSeq
      <4>1. lines[i].n = PacketsIn(i)
        BY <1>t, <2>2 DEF Readable
      <4>2. PacketsIn(i) \in Nat /\ PacketsIn(i) <= LogSeq /\ PacketsIn(i) >= 1 /\ LogSeq \in Nat
        BY <1>t, <2>2, LogSeqType, PacketsInBounds
      <4> QED
        BY <4>1, <4>2
    <3>2. lines[i] = PacketLine(lines[i].id, lines[i].n)
      <4>1. lines[i] \in Line /\ lines[i].kind = "packet"
        BY <1>t, <2>2 DEF TypeOK, IsPacket
      <4> QED
        BY <4>1 DEF Line, PacketLine
    <3>3. ~InLog(p, lines[i].n)
      BY <2>1, <3>1 DEF SealNew
    <3> QED
      BY <3>2, <3>3 DEF InLog
  <2>3. UNCHANGED <<lines, ended>> /\ cur' = PacketLine(p, LogSeq + 1)
    BY <2>1 DEF SealNew
  <2>4. cur'.kind = "packet" /\ cur'.n = LogSeq + 1 /\ cur'.id = p
    BY <2>3 DEF PacketLine
  <2>5. Readable' /\ LogSeq' = LogSeq
    BY <1>t, <2>3 DEF Readable, IsJunk, IsPacket, Recovered, PacketsIn, LogSeq
  <2> QED
    BY <2>2, <2>3, <2>4, <2>5 DEF ReadInv, IsPacket
<1>3. CASE WriteMarker
  <2>1. /\ pc = "mark" /\ ~ended /\ UNCHANGED cur /\ lines' = Append(lines, Marker(Len(lines)))
    BY <1>3, <1>t DEF WriteMarker, TailInv
  <2>2. Readable' /\ LogSeq' = LogSeq
    BY <1>t, <2>1, MarkerKeepsReadable
  <2>3. Len(lines) \in Nat /\ Marker(Len(lines)) \in Line /\ Marker(Len(lines)).kind # "packet"
    BY <1>t DEF TypeOK, Marker, Line
  <2>4. /\ Len(lines') = Len(lines) + 1 /\ lines'[Len(lines) + 1] = Marker(Len(lines))
        /\ \A i \in 1..Len(lines) : lines'[i] = lines[i]
    BY <1>t, <2>1, <2>3, AppendCounts
  <2>5. \A i \in 1..Len(lines') : lines'[i].kind = "packet" => lines'[i].id # cur.id
    BY <2>1, <2>3, <2>4 DEF ReadInv, IsPacket
  <2> QED
    BY <2>1, <2>2, <2>5 DEF ReadInv, IsPacket
<1>4. CASE AppendPacket
  <2>1. pc = "append" /\ ended /\ lines' = Append(lines, cur) /\ cur \in Line /\ pc' = "checkpoint"
    BY <1>4, <1>t DEF AppendPacket, TailInv, TypeOK, Glue
  <2>2. Readable'
    BY <1>t, <2>1, PacketKeepsReadable DEF ReadInv
  <2> QED
    BY <2>1, <2>2 DEF ReadInv
<1>5. CASE WriteCheckpoint
  BY <1>5, <1>q DEF WriteCheckpoint
<1>6. CASE InterruptMarker
  <2>1. lines' = lines /\ ~ended /\ ~ended' /\ pc' = "idle"
    BY <1>6, <1>t DEF InterruptMarker, Interrupted, MarkersWhole, TailInv
  <2>2. ended' = ended
    BY <1>6, <1>t, <2>1 DEF InterruptMarker, TypeOK
  <2> QED
    BY <1>q, <2>1, <2>2
<1>7. CASE InterruptAppend
  <2>1. PICK tear \in AppendTears :
          /\ lines' = CASE tear = "lost" -> lines
                        [] tear = "torn" -> Glue(lines, ended, Junk)
                        [] tear = "unterminated" -> Glue(lines, ended, cur)
          /\ ended' = (tear = "lost" /\ ended)
    BY <1>7 DEF InterruptAppend
  <2>2. tear \in {"lost", "torn"} /\ ended /\ pc' = "idle"
    BY <1>7, <1>t, <2>1, TearsAssumption DEF InterruptAppend, Interrupted, NewlineKept, TailInv
  <2>3. CASE tear = "lost"
    <3>1. lines' = lines /\ ended' = ended
      BY <1>t, <2>1, <2>2, <2>3 DEF TypeOK
    <3> QED
      BY <1>q, <2>2, <3>1
  <2>4. CASE tear = "torn"
    <3>1. lines' = Append(lines, Junk) /\ ~ended'
      BY <2>1, <2>2, <2>4 DEF Glue
    <3>2. Readable'
      BY <1>t, <2>2, <3>1, JunkKeepsReadable
    <3> QED
      BY <2>2, <3>2 DEF ReadInv
  <2> QED
    BY <2>2, <2>3, <2>4
<1>8. CASE InterruptCheckpoint
  BY <1>8, <1>q DEF InterruptCheckpoint, Interrupted
<1>9. CASE UNCHANGED vars
  BY <1>9 DEF vars, ReadInv, Readable, IsJunk, IsPacket, Recovered, PacketsIn, LogSeq
<1> QED
  BY <1>1, <1>2, <1>3, <1>4, <1>5, <1>6, <1>7, <1>8, <1>9 DEF Next

\* The checkpoint is the number of a packet, and a packet's number counts the
\* packets up to it.
LEMMA ReadableRecovers == IInv /\ ReadInv => AlwaysRecoverable
<1> SUFFICES ASSUME IInv, ReadInv PROVE Readable /\ ckpt <= LogSeq
  BY DEF AlwaysRecoverable
<1>t. TypeOK /\ Readable /\ CheckpointNamesPacket /\ LogSeq \in Nat
  BY LogSeqType DEF IInv, ReadInv
<1>1. CASE ckpt = 0
  BY <1>t, <1>1
<1>2. CASE ckpt # 0
  <2>1. PICK p \in Packets, i \in 1..Len(lines) : lines[i] = PacketLine(p, ckpt)
    BY <1>t, <1>2 DEF CheckpointNamesPacket, InLog
  <2>2. IsPacket(i) /\ lines[i].n = ckpt
    BY <2>1 DEF IsPacket, PacketLine
  <2>3. ckpt = PacketsIn(i)
    BY <1>t, <2>2 DEF Readable
  <2> QED
    BY <1>t, <2>3, PacketsInBounds
<1> QED
  BY <1>1, <1>2

\* Between two seals the packet store is usable: however many appends were cut
\* short, the file parses and the checkpoint is not ahead of it, so a restart
\* never finds a store that refuses to seal. A marker torn in half would end
\* this, so markers are assumed to be lost whole.
THEOREM SealerRecovers == ASSUME NewlineKept, MarkersWhole PROVE Spec => []AlwaysRecoverable
<1>1. IInv /\ [Next]_vars => IInv'
  BY NextIInv
<1>2. IInv /\ ReadInv /\ [Next]_vars => ReadInv'
  BY NextReadInv
<1>3. Init => ReadInv
  BY DEF Init, ReadInv, Readable
<1> QED
  BY <1>1, <1>2, <1>3, InitIInv, ReadableRecovers, PTL DEF Spec

-----------------------------------------------------------------------------
(* Replication never corrupts the audit log, for any number of packets,     *)
(* batch size and faults.  The sealed packets are what T0Replication sends, *)
(* one log to the other; the invariant says what the producer knows of the  *)
(* consumer: every packet of the batch follows the cursor, and the one      *)
(* request whose answer counts is for the packet right after it.            *)

\* The batch continues the cursor and stays within the sealed packets.
BatchFollowsCursor ==
    /\ exchange = "idle" <=> batch = <<>>
    /\ \A i \in 1..Len(batch) : batch[i] = cursor + i
    /\ cursor + Len(batch) <= sealed

\* The packet being served is the newest of the log.
ServingNewest == serving # Nobody => serving.n = Len(clog)

\* A request, however old: of a sealed packet that leaves no gap, and, if its
\* answer is awaited, of the packet the cursor is waiting for.
Proper(r) ==
    /\ r.n <= Len(clog) + 1 /\ r.n <= sealed /\ r.k <= sent
    /\ exchange = "await" /\ r.k = sent => r.n = cursor + 1
Requested == \A r \in wire : Proper(r)
Served == Proper(serving) /\ (exchange = "await" => sent > 0)

\* The cursor is saved for a packet the consumer has.
SaveBacked == exchange = "save" => cursor + 1 <= Len(clog)

ReplicaInv ==
    /\ ReplicationTypeOK /\ ConsumerPrefix /\ CursorBacked
    /\ BatchFollowsCursor /\ ServingNewest /\ Requested /\ Served /\ SaveBacked

LEMMA InitReplicaInv == ReplicationInit => ReplicaInv
BY ReplicationAssumption
   DEF ReplicationInit, ReplicaInv, ReplicationTypeOK, ConsumerPrefix, CursorBacked,
       BatchFollowsCursor, ServingNewest,
       Requested, Served, SaveBacked, Proper, Nobody, Request

\* Whatever ends a call on the producer's side leaves nothing to save.
LEMMA CallEnds ==
    ASSUME ReplicaInv, exchange' = "idle", batch' = <<>>, cursor' \in 0..cursor,
           UNCHANGED <<sealed, sent, clog, cckpt>>,
           wire' \subseteq wire, serving' \in {serving, Nobody}, faults' \in 0..MaxFaults
    PROVE  ReplicaInv'
<1>1. ReplicationTypeOK' /\ ConsumerPrefix' /\ CursorBacked'
  BY ReplicationAssumption DEF ReplicaInv, ReplicationTypeOK, ConsumerPrefix, CursorBacked, Nobody, Request
<1>2. BatchFollowsCursor'
  <2>1. cursor' \in Nat /\ cursor' <= sealed' /\ Len(batch') = 0
    BY DEF ReplicaInv, ReplicationTypeOK, ConsumerPrefix, CursorBacked
  <2> QED
    BY <2>1 DEF BatchFollowsCursor
<1>3. ServingNewest' /\ SaveBacked'
  BY DEF ReplicaInv, ServingNewest, SaveBacked
<1>4. Requested'
  BY DEF ReplicaInv, Requested, Proper
<1>5. Served'
  BY DEF ReplicaInv, ReplicationTypeOK, Served, Proper, Nobody, Request
<1> QED
  BY <1>1, <1>2, <1>3, <1>4, <1>5 DEF ReplicaInv

\* An answer to a request the consumer has served.
LEMMA Acknowledged ==
    ASSUME ReplicaInv, NEW r \in Request, Proper(r), r.n <= Len(clog), Acknowledge(r),
           UNCHANGED <<sealed, clog>>, wire' \subseteq wire, serving' \in {serving, Nobody},
           cckpt' \in 0..Len(clog)
    PROVE  ReplicaInv'
<1>0. faults' \in 0..MaxFaults
  BY ReplicationAssumption DEF ReplicaInv, ReplicationTypeOK, Acknowledge, Fault
<1>1. CASE Awaited(r) /\ exchange' = "save" /\ UNCHANGED <<cursor, batch, sent, faults>>
  <2>1. ReplicationTypeOK' /\ ConsumerPrefix' /\ CursorBacked'
    BY <1>1 DEF ReplicaInv, ReplicationTypeOK, ConsumerPrefix, CursorBacked, Nobody, Request
  <2>2. BatchFollowsCursor' /\ ServingNewest'
    BY <1>1 DEF ReplicaInv, BatchFollowsCursor, ServingNewest, Awaited
  <2>3. Requested' /\ Served'
    BY <1>1 DEF ReplicaInv, ReplicationTypeOK, Requested, Served, Proper, Nobody, Request
  <2>4. SaveBacked'
    BY <1>1 DEF SaveBacked, Proper, Awaited
  <2> QED
    BY <2>1, <2>2, <2>3, <2>4 DEF ReplicaInv
<1>2. CASE GiveUp
  <2>1. exchange' = "idle" /\ batch' = <<>> /\ cursor' = cursor /\ cursor \in 0..cursor
    BY <1>2 DEF GiveUp, ReplicaInv, ReplicationTypeOK
  <2>2. ReplicationTypeOK' /\ ConsumerPrefix' /\ CursorBacked'
    BY <1>0, <1>2 DEF GiveUp, ReplicaInv, ReplicationTypeOK, ConsumerPrefix, CursorBacked, Nobody, Request
  <2>3. BatchFollowsCursor' /\ ServingNewest' /\ SaveBacked'
    BY <1>2, <2>1 DEF GiveUp, ReplicaInv, ReplicationTypeOK, ConsumerPrefix, CursorBacked, BatchFollowsCursor,
                      ServingNewest, SaveBacked
  <2>4. Requested' /\ Served'
    BY <1>2, <2>1 DEF GiveUp, ReplicaInv, ReplicationTypeOK, Requested, Served, Proper, Nobody, Request
  <2> QED
    BY <2>2, <2>3, <2>4 DEF ReplicaInv
<1>3. CASE UNCHANGED <<producer, faults>>
  <2>1. ReplicationTypeOK' /\ ConsumerPrefix' /\ CursorBacked'
    BY <1>3 DEF producer, ReplicaInv, ReplicationTypeOK, ConsumerPrefix, CursorBacked, Nobody, Request
  <2>2. BatchFollowsCursor' /\ ServingNewest' /\ SaveBacked'
    BY <1>3 DEF producer, ReplicaInv, BatchFollowsCursor, ServingNewest, SaveBacked
  <2>3. Requested' /\ Served'
    BY <1>3 DEF producer, ReplicaInv, ReplicationTypeOK, Requested, Served, Proper, Nobody, Request
  <2> QED
    BY <2>1, <2>2, <2>3 DEF ReplicaInv
<1> QED
  BY <1>1, <1>2, <1>3 DEF Acknowledge

LEMMA StartCallKeeps == ReplicaInv /\ StartCall => ReplicaInv'
<1> SUFFICES ASSUME ReplicaInv, StartCall PROVE ReplicaInv'
  OBVIOUS
<1> DEFINE size == IF sealed - cursor < BatchLimit THEN sealed - cursor ELSE BatchLimit
<1>1. /\ size \in Nat \ {0} /\ cursor + size <= sealed
      /\ batch' = [i \in 1..size |-> cursor + i] /\ exchange' = "send"
      /\ UNCHANGED <<sealed, cursor, sent, wire, consumer, faults>>
  BY ReplicationAssumption DEF StartCall, ReplicaInv, ReplicationTypeOK
<1> HIDE DEF size
<1>2. batch' \in Seq(Nat) /\ Len(batch') = size /\ batch' # <<>>
  <2>1. \A i \in 1..size : cursor + i \in Nat
    BY <1>1 DEF ReplicaInv, ReplicationTypeOK
  <2>2. batch' \in Seq(Nat) /\ Len(batch') = size
    BY <1>1, <2>1
  <2> QED
    BY <1>1, <2>2
<1>3. ReplicationTypeOK' /\ ConsumerPrefix' /\ CursorBacked'
  BY <1>1, <1>2 DEF ReplicaInv, ReplicationTypeOK, ConsumerPrefix, CursorBacked, consumer
<1>4. BatchFollowsCursor'
  BY <1>1, <1>2 DEF BatchFollowsCursor
<1>5. ServingNewest' /\ Requested' /\ Served' /\ SaveBacked'
  BY <1>1 DEF ReplicaInv, ServingNewest, Requested, Served, SaveBacked, Proper, consumer
<1> QED
  BY <1>3, <1>4, <1>5 DEF ReplicaInv

LEMMA SendPacketKeeps == ReplicaInv /\ SendPacket => ReplicaInv'
<1> SUFFICES ASSUME ReplicaInv, SendPacket PROVE ReplicaInv'
  OBVIOUS
<1>1. /\ batch # <<>> /\ Head(batch) = cursor + 1 /\ cursor + 1 <= sealed
      /\ cursor + 1 <= Len(clog) + 1
  BY DEF SendPacket, ReplicaInv, ReplicationTypeOK, BatchFollowsCursor, CursorBacked
<1> DEFINE q == [n |-> cursor + 1, k |-> sent + 1]
<1>2. /\ exchange' = "await" /\ sent' = sent + 1 /\ wire' = wire \cup {q}
      /\ UNCHANGED <<sealed, cursor, batch, consumer, faults>>
  BY <1>1 DEF SendPacket
<1>3. ReplicationTypeOK'
  BY <1>2 DEF ReplicaInv, ReplicationTypeOK, Request, consumer
<1>4. ConsumerPrefix' /\ CursorBacked' /\ ServingNewest' /\ SaveBacked' /\ BatchFollowsCursor'
  BY <1>1, <1>2 DEF ReplicaInv, ConsumerPrefix, CursorBacked, ServingNewest, SaveBacked,
                    BatchFollowsCursor, SendPacket, consumer
<1>5. Requested'
  <2> SUFFICES ASSUME NEW r \in wire' PROVE Proper(r)'
    BY DEF Requested
  <2>1. CASE r = q
    BY <1>1, <1>2, <2>1 DEF ReplicaInv, ReplicationTypeOK, Proper, consumer
  <2>2. CASE r \in wire
    BY <1>2, <2>2 DEF ReplicaInv, ReplicationTypeOK, Requested, Proper, Request, consumer
  <2> QED
    BY <1>2, <2>1, <2>2
<1>6. Served'
  BY <1>2 DEF ReplicaInv, ReplicationTypeOK, Served, Proper, Request, consumer
<1> QED
  BY <1>3, <1>4, <1>5, <1>6 DEF ReplicaInv

LEMMA SaveCursorKeeps == ReplicaInv /\ SaveCursor => ReplicaInv'
<1> SUFFICES ASSUME ReplicaInv, SaveCursor PROVE ReplicaInv'
  OBVIOUS
<1>1. /\ batch # <<>> /\ Head(batch) = cursor + 1 /\ cursor + 1 <= Len(clog)
      /\ batch \in Seq(Nat) /\ cursor \in Nat /\ sealed \in Nat
  BY DEF SaveCursor, ReplicaInv, ReplicationTypeOK, BatchFollowsCursor, SaveBacked
<1>2. /\ cursor' = cursor + 1 /\ batch' = Tail(batch)
      /\ exchange' = IF Len(batch) = 1 THEN "idle" ELSE "send"
      /\ UNCHANGED <<sealed, sent, wire, consumer, faults>>
  BY <1>1 DEF SaveCursor
<1>3. ReplicationTypeOK' /\ ConsumerPrefix' /\ CursorBacked'
  BY <1>1, <1>2 DEF ReplicaInv, ReplicationTypeOK, ConsumerPrefix, CursorBacked, consumer
<1>4. BatchFollowsCursor'
  <2>1. /\ Len(batch') = Len(batch) - 1 /\ Len(batch) \in Nat
        /\ \A i \in 1..Len(batch') : batch'[i] = batch[i + 1]
    BY <1>1, <1>2
  <2>4. batch' = <<>> <=> Len(batch) = 1
    <3>1. batch' \in Seq(Nat)
      BY <1>1, <1>2
    <3>2. batch' = <<>> <=> Len(batch') = 0
      BY <3>1, EmptySeq
    <3> QED
      BY <2>1, <3>2
  <2>2. \A i \in 1..Len(batch') : batch'[i] = cursor' + i
    BY <1>1, <1>2, <2>1 DEF ReplicaInv, BatchFollowsCursor
  <2>3. cursor' + Len(batch') <= sealed'
    BY <1>1, <1>2, <2>1 DEF ReplicaInv, BatchFollowsCursor
  <2> QED
    BY <1>2, <2>2, <2>3, <2>4 DEF BatchFollowsCursor
<1>5. ServingNewest' /\ Requested' /\ Served' /\ SaveBacked'
  BY <1>2 DEF ReplicaInv, ServingNewest, Requested, Served, SaveBacked, Proper, consumer
<1> QED
  BY <1>3, <1>4, <1>5 DEF ReplicaInv

LEMMA IngestNextKeeps == ASSUME NEW r \in wire PROVE ReplicaInv /\ IngestNext(r) => ReplicaInv'
<1> SUFFICES ASSUME ReplicaInv, IngestNext(r) PROVE ReplicaInv'
  OBVIOUS
<1>1. /\ r \in Request /\ r.n = Len(clog) + 1 /\ clog' = Append(clog, r.n) /\ serving' = r
      /\ wire' = wire \ {r} /\ UNCHANGED <<sealed, producer, cckpt, faults>>
      /\ clog \in Seq(Nat) /\ r.n <= sealed
  BY DEF IngestNext, ReplicaInv, ReplicationTypeOK, Requested, Proper
<1>2. /\ clog' \in Seq(Nat) /\ Len(clog') = Len(clog) + 1
      /\ \A i \in 1..Len(clog) : clog'[i] = clog[i]
      /\ clog'[Len(clog) + 1] = Len(clog) + 1
  BY <1>1 DEF Request
<1>3. ReplicationTypeOK'
  BY <1>1, <1>2 DEF ReplicaInv, ReplicationTypeOK, producer
<1>4. ConsumerPrefix' /\ CursorBacked' /\ SaveBacked'
  BY <1>1, <1>2 DEF ReplicaInv, ReplicationTypeOK, ConsumerPrefix, CursorBacked, SaveBacked, producer, Request
<1>5. BatchFollowsCursor' /\ ServingNewest'
  BY <1>1, <1>2 DEF ReplicaInv, BatchFollowsCursor, ServingNewest, producer
<1>6. Requested' /\ Served'
  BY <1>1, <1>2 DEF ReplicaInv, ReplicationTypeOK, Requested, Served, Proper, producer, Request
<1> QED
  BY <1>3, <1>4, <1>5, <1>6 DEF ReplicaInv

LEMMA NextReplicaInv == ReplicaInv /\ [ReplicationNext]_replicationVars => ReplicaInv'
<1> SUFFICES ASSUME ReplicaInv, [ReplicationNext]_replicationVars PROVE ReplicaInv'
  OBVIOUS
<1>0. /\ cursor \in Nat /\ cursor \in 0..cursor /\ Len(clog) \in Nat
      /\ Fault => faults' \in 0..MaxFaults
  BY ReplicationAssumption DEF ReplicaInv, ReplicationTypeOK, Fault
<1>1. CASE SealPacket
  <2>1. /\ sealed' = sealed + 1 /\ sealed' \in 0..MaxPackets /\ sealed \in Nat
        /\ UNCHANGED <<producer, wire, consumer, faults>>
    BY <1>1, ReplicationAssumption DEF SealPacket, ReplicaInv, ReplicationTypeOK
  <2>2. ReplicationTypeOK'
    BY <2>1 DEF ReplicaInv, ReplicationTypeOK, producer, consumer
  <2>3. ConsumerPrefix' /\ CursorBacked' /\ ServingNewest' /\ SaveBacked'
    BY <1>0, <2>1 DEF ReplicaInv, ConsumerPrefix, CursorBacked, ServingNewest, SaveBacked,
                      producer, consumer
  <2>4. BatchFollowsCursor'
    <3>1. Len(batch) \in Nat /\ cursor + Len(batch) <= sealed
      BY DEF ReplicaInv, ReplicationTypeOK, BatchFollowsCursor
    <3>2. cursor + Len(batch) <= sealed + 1
      BY <1>0, <2>1, <3>1
    <3> QED
      BY <2>1, <3>2 DEF ReplicaInv, BatchFollowsCursor, producer
  <2>5. Requested' /\ Served'
    BY <2>1 DEF ReplicaInv, ReplicationTypeOK, Requested, Served, Proper, Request, producer, consumer
  <2> QED
    BY <2>2, <2>3, <2>4, <2>5 DEF ReplicaInv
<1>2. CASE StartCall
  BY <1>2, StartCallKeeps
<1>3. CASE SendPacket
  BY <1>3, SendPacketKeeps
<1>4. CASE SaveCursor
  BY <1>4, SaveCursorKeeps
<1>5. CASE AwaitTimesOut \/ CallFails
  <2>1. GiveUp /\ UNCHANGED <<sealed, wire, consumer>> /\ faults' \in 0..MaxFaults
    BY <1>0, <1>5 DEF AwaitTimesOut, CallFails, ReplicaInv, ReplicationTypeOK
  <2> QED
    BY <1>0, <2>1, CallEnds DEF GiveUp, consumer
<1>6. CASE ProducerCrash
  BY <1>0, <1>6, CallEnds DEF ProducerCrash, consumer
<1>7. CASE ConsumerCrash
  BY <1>0, <1>7 DEF ConsumerCrash, producer, ReplicaInv, ReplicationTypeOK, ConsumerPrefix, CursorBacked,
              BatchFollowsCursor, ServingNewest, Requested, Served, SaveBacked, Proper,
              Nobody, Request
<1>8. ASSUME NEW r \in wire, RequestLost(r) PROVE ReplicaInv'
  BY <1>0, <1>8 DEF RequestLost, producer, consumer, ReplicaInv, ReplicationTypeOK, ConsumerPrefix, CursorBacked,
              BatchFollowsCursor, ServingNewest, Requested, Served, SaveBacked, Proper
<1>9. ASSUME NEW r \in wire, IngestExisting(r) PROVE ReplicaInv'
  <2>1. r \in Request /\ Proper(r) /\ r.n <= Len(clog)
    BY <1>9 DEF IngestExisting, Holds, ReplicaInv, ReplicationTypeOK, Requested, ConsumerPrefix
  <2>2. /\ Acknowledge(r) /\ UNCHANGED <<sealed, clog>> /\ wire' \subseteq wire
        /\ serving' = serving /\ cckpt' \in 0..Len(clog)
    BY <1>0, <1>9 DEF IngestExisting, ReplicaInv, ReplicationTypeOK, ConsumerPrefix
  <2> QED
    BY <2>1, <2>2, Acknowledged
<1>10. ASSUME NEW r \in wire, IngestNext(r) PROVE ReplicaInv'
  BY <1>10, IngestNextKeeps
<1>11. CASE IngestCheckpoint
  <2>1. serving \in Request /\ Proper(serving) /\ serving.n = Len(clog)
    BY <1>11 DEF IngestCheckpoint, ReplicaInv, ReplicationTypeOK, Served, ServingNewest
  <2>2. /\ Acknowledge(serving) /\ UNCHANGED <<sealed, clog>> /\ wire' \subseteq wire
        /\ serving' = Nobody /\ cckpt' \in 0..Len(clog)
    BY <1>0, <1>11, <2>1 DEF IngestCheckpoint
  <2> QED
    BY <1>0, <2>1, <2>2, Acknowledged
<1>12. CASE UNCHANGED replicationVars
  BY <1>12 DEF replicationVars, producer, consumer, ReplicaInv, ReplicationTypeOK, ConsumerPrefix, CursorBacked,
               BatchFollowsCursor, ServingNewest, Requested, Served, SaveBacked, Proper
<1> QED
  BY <1>1, <1>2, <1>3, <1>4, <1>5, <1>6, <1>7, <1>8, <1>9, <1>10, <1>11, <1>12
     DEF ReplicationNext, Producer, Consumer

LEMMA ReplicationInvariant == ReplicationSpec => []ReplicaInv
BY InitReplicaInv, NextReplicaInv, PTL DEF ReplicationSpec

\* Both sides of replicate_pending_t0 and the network keep their types.
THEOREM ReplicationTypeCorrect == ReplicationSpec => []ReplicationTypeOK
<1>1. ReplicaInv => ReplicationTypeOK
  BY DEF ReplicaInv
<1> QED
  BY <1>1, ReplicationInvariant, PTL

\* ingest() only ever extends a gap-free prefix of the producer's log, and the
\* consumer's checkpoint never claims more than the log holds.
THEOREM ReplicationKeepsPrefix == ReplicationSpec => []ConsumerPrefix
<1>1. ReplicaInv => ConsumerPrefix
  BY DEF ReplicaInv
<1> QED
  BY <1>1, ReplicationInvariant, PTL

\* replication_cursor.json never passes a packet the consumer has not stored.
THEOREM ReplicationCursorBacked == ReplicationSpec => []CursorBacked
<1>1. ReplicaInv => CursorBacked
  BY DEF ReplicaInv
<1> QED
  BY <1>1, ReplicationInvariant, PTL

\* No request, lost, late or repeated, makes ingest() refuse a sequence gap.
THEOREM ReplicationNoGap == ReplicationSpec => []NoGapRequested
<1>1. ReplicaInv => NoGapRequested
  BY DEF ReplicaInv, Requested, Proper, NoGapRequested
<1> QED
  BY <1>1, ReplicationInvariant, PTL

=============================================================================
