---------------------------- MODULE T0Replication ---------------------------
(***************************************************************************)
(* Replication of sealed packets to the audit consumer: transport.py's     *)
(* replicate_pending_t0 on the producer, PacketSealer.ingest on the        *)
(* consumer, an unreliable HTTP exchange between them.  A request the      *)
(* producer gave up on may still be served later, while the producer has   *)
(* restarted and resends; the consumer may stop between appending a packet *)
(* and writing its checkpoint.  Both logs are what PacketSealer shows them *)
(* to be: sequences of whole packets.  Packet n is the producer's n-th.    *)
(* No name is PacketSealer's, so that one module may extend both.          *)
(***************************************************************************)
EXTENDS Naturals, Sequences

CONSTANTS
    MaxPackets,     \* bound: packets sealed
    BatchLimit,     \* MAX_REPLICATION_BATCH (16 in the code)
    MaxFaults       \* bound: crashes, timeouts, lost requests and answers

ASSUME ReplicationAssumption ==
    MaxPackets \in Nat /\ BatchLimit \in Nat \ {0} /\ MaxFaults \in Nat

VARIABLES
    sealed,     \* length of the producer's packet log
    cursor,     \* replication_cursor.json
    exchange,   \* producer: idle, send, await, save
    batch,      \* packets of this call not yet acknowledged
    sent,       \* number of the last request
    wire,       \* requests not yet served
    clog,       \* consumer's packet log
    cckpt,      \* consumer's checkpoint
    serving,    \* request whose packet is appended but not checkpointed, or Nobody
    faults

producer == <<cursor, exchange, batch, sent>>
consumer == <<clog, cckpt, serving>>
replicationVars == <<sealed, producer, wire, consumer, faults>>

Nobody == [n |-> 0, k |-> 0]
Fault == faults < MaxFaults /\ faults' = faults + 1

ReplicationInit ==
    /\ sealed = 0 /\ cursor = 0 /\ exchange = "idle" /\ batch = <<>> /\ sent = 0
    /\ wire = {} /\ clog = <<>> /\ cckpt = 0 /\ serving = Nobody /\ faults = 0

-----------------------------------------------------------------------------
\* A new T0 is sealed and, after that, one replication call is made.
SealPacket ==
    /\ exchange = "idle" /\ sealed < MaxPackets /\ sealed' = sealed + 1
    /\ UNCHANGED <<producer, wire, consumer, faults>>

\* read_after(cursor, limit): the packets past the cursor, oldest first.
StartCall ==
    /\ exchange = "idle" /\ cursor < sealed
    /\ LET size == IF sealed - cursor < BatchLimit THEN sealed - cursor ELSE BatchLimit IN
       batch' = [i \in 1..size |-> cursor + i]
    /\ exchange' = "send"
    /\ UNCHANGED <<sealed, cursor, sent, wire, consumer, faults>>

SendPacket ==
    /\ exchange = "send" /\ sent' = sent + 1
    /\ wire' = wire \cup {[n |-> Head(batch), k |-> sent + 1]}
    /\ exchange' = "await"
    /\ UNCHANGED <<sealed, cursor, batch, consumer, faults>>

\* _write_cursor, once the acknowledgement matched the packet.
SaveCursor ==
    /\ exchange = "save" /\ cursor' = Head(batch) /\ batch' = Tail(batch)
    /\ exchange' = IF Len(batch) = 1 THEN "idle" ELSE "send"
    /\ UNCHANGED <<sealed, sent, wire, consumer, faults>>

\* Seeded fault: the failing packet is skipped and the batch goes on.
SkipPacket ==
    /\ exchange' = IF Len(batch) <= 1 THEN "idle" ELSE "send"
    /\ batch' = IF batch = <<>> THEN batch ELSE Tail(batch)
    /\ UNCHANGED <<cursor, sent>>

\* PacketReplicationError: the rest of the batch waits for the next call.
GiveUp == exchange' = "idle" /\ batch' = <<>> /\ UNCHANGED <<cursor, sent>>
CallFails ==
    /\ exchange \in {"send", "await", "save"} /\ Fault /\ GiveUp
    /\ UNCHANGED <<sealed, wire, consumer>>

\* The cursor is renamed into place without syncing the directory, so a
\* power loss may also bring an older cursor back.
ProducerCrash ==
    /\ Fault /\ exchange' = "idle" /\ batch' = <<>> /\ cursor' \in 0..cursor
    /\ UNCHANGED <<sealed, sent, wire, consumer>>

-----------------------------------------------------------------------------
\* The answer to request r, a fault when it does not arrive in time or at all;
\* nobody waits for the answer to an abandoned request.
Awaited(r) == exchange = "await" /\ r.k = sent
Acknowledge(r) ==
    IF Awaited(r)
    THEN \/ exchange' = "save" /\ UNCHANGED <<cursor, batch, sent, faults>>
         \/ Fault /\ GiveUp
    ELSE UNCHANGED <<producer, faults>>

Holds(n) == \E i \in 1..Len(clog) : clog[i] = n

\* ingest() of a packet the log has: the checkpoint is brought up to date.
IngestExisting(r) ==
    /\ serving = Nobody /\ Holds(r.n)
    /\ cckpt' = IF cckpt < Len(clog) THEN Len(clog) ELSE cckpt
    /\ wire' = wire \ {r} /\ Acknowledge(r)
    /\ UNCHANGED <<sealed, clog, serving>>

\* Seeded fault: neither the id nor the sequence number is checked.
IngestUnchecked(r) ==
    /\ serving = Nobody /\ cckpt <= Len(clog)
    /\ clog' = Append(clog, r.n) /\ serving' = r /\ wire' = wire \ {r}
    /\ UNCHANGED <<sealed, producer, cckpt, faults>>

\* The next packet in order.  Any other number is refused with "replicated
\* packet sequence gap", which NoGapRequested shows never to happen.
IngestNext(r) ==
    /\ serving = Nobody /\ ~Holds(r.n) /\ cckpt <= Len(clog) /\ r.n = Len(clog) + 1
    /\ clog' = Append(clog, r.n) /\ serving' = r /\ wire' = wire \ {r}
    /\ UNCHANGED <<sealed, producer, cckpt, faults>>

IngestCheckpoint ==
    /\ serving # Nobody /\ cckpt' = serving.n /\ serving' = Nobody
    /\ Acknowledge(serving)
    /\ UNCHANGED <<sealed, wire, clog>>

ConsumerCrash ==
    /\ Fault /\ serving' = Nobody
    /\ UNCHANGED <<sealed, producer, wire, clog, cckpt>>

RequestLost(r) ==
    /\ Fault /\ wire' = wire \ {r} /\ UNCHANGED <<sealed, producer, consumer>>

\* Seeded fault: the request is sent without a timeout.
AwaitForever == exchange = "await" /\ FALSE /\ UNCHANGED replicationVars

\* A wait whose request will never be answered ends in the 10 s timeout.
AwaitTimesOut ==
    /\ exchange = "await" /\ serving.k # sent /\ \A r \in wire : r.k # sent
    /\ GiveUp /\ UNCHANGED <<sealed, wire, consumer, faults>>

Producer == StartCall \/ SendPacket \/ SaveCursor \/ AwaitTimesOut
Consumer ==
    IngestCheckpoint \/ \E r \in wire : IngestExisting(r) \/ IngestNext(r)

ReplicationNext ==
    \/ SealPacket \/ Producer \/ Consumer
    \/ CallFails \/ ProducerCrash \/ ConsumerCrash \/ \E r \in wire : RequestLost(r)

ReplicationSpec == ReplicationInit /\ [][ReplicationNext]_replicationVars

\* A call is made after every new T0, and new candles keep bringing T0s; the
\* consumer serves what it receives.
FairReplicationSpec ==
    ReplicationSpec /\ WF_replicationVars(Producer) /\ WF_replicationVars(Consumer)

-----------------------------------------------------------------------------
Request == [n : Nat, k : Nat]

\* Types of the two sides and the network.
ReplicationTypeOK ==
    /\ sealed \in 0..MaxPackets /\ cursor \in Nat /\ sent \in Nat
    /\ exchange \in {"idle", "send", "await", "save"} /\ batch \in Seq(Nat)
    /\ wire \subseteq Request /\ serving \in Request
    /\ clog \in Seq(Nat) /\ cckpt \in Nat /\ faults \in 0..MaxFaults

\* The consumer's log is a gap-free prefix of the producer's, and its
\* checkpoint never claims a packet it does not have (it would refuse every
\* later packet).
ConsumerPrefix ==
    /\ Len(clog) <= sealed /\ \A i \in 1..Len(clog) : clog[i] = i
    /\ cckpt <= Len(clog)

\* What the cursor skips is already in the consumer's log: a packet is never
\* left behind by an acknowledgement that was not durable.
CursorBacked == cursor <= Len(clog)

\* No request, however late it is served, asks the consumer to skip a packet:
\* ingest() never has to refuse one for a sequence gap.
NoGapRequested == \A r \in wire : r.n <= Len(clog) + 1

\* Once faults stop, every sealed packet reaches the consumer, although a
\* call sends one batch and stops at the first error.
EventuallyReplicated ==
    \A n \in 1..MaxPackets : sealed >= n ~> Len(clog) >= n

=============================================================================
