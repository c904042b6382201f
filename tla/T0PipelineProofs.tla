-------------------------- MODULE T0PipelineProofs --------------------------
(***************************************************************************)
(* For every number of T0s, symbols, candles, crashes and errors, with     *)
(* POSTs overlapping and the journal torn in any way: a lane is only ever  *)
(* given a T0 that is sealed and has a persisted receipt, never one of an  *)
(* earlier cycle, and no row, dedupe marker or POST exists without its     *)
(* sealed packet.                                                          *)
(*                                                                         *)
(* The second half proves what needs POSTs that never overlap: a receipt   *)
(* is bound to the row of its own T0 and no T0 has two rows.  With dedupe  *)
(* markers that are written whole and a window that reaches back over a    *)
(* candle (WindowCovers), no candle is treated twice, and the pipeline     *)
(* implements T0Lineage.                                                   *)
(***************************************************************************)
EXTENDS T0Pipeline, FiniteSetTheorems, TLAPS

\* Where the task works on T0 cur.
Busy == {"enqueue", "seal", "log", "lookup", "insert", "await", "relookup", "mark", "fail",
         "route", "sim"}

\* The T0 in progress: which receipt it has, that it is sealed where it must
\* be, and that a fresh one is the newest and no older than the cycle.
TaskInv ==
    /\ pc \in Busy => cur \in 1..generated
    /\ pc \in Busy /\ mode = "fresh" => cur = generated /\ generated \notin stale
    /\ pc \in {"symbol", "enqueue", "log", "route", "sim"} => mode = "fresh"
    /\ pc = "enqueue" => receipt[cur] = "NONE"
    /\ pc \in Busy \ {"enqueue", "route", "sim"} => receipt[cur] \in {"ENQUEUED", "FAILED"}
    /\ pc \in {"route", "sim"} => receipt[cur] = "PERSISTED"
    /\ pc \in Busy \ {"enqueue", "seal", "fail"} => cur \in sealed
    /\ batch \subseteq Unresolved
    /\ pc \in Busy => cur \notin batch
    /\ mode = "fresh" => batch = {}

\* The stores among themselves.
StoreInv ==
    /\ \A t \in T0 : receipt[t] = "PERSISTED" => t \in sealed
    /\ \A t \in sealed : receipt[t] # "NONE"
    /\ \A t \in T0 : t > generated => receipt[t] = "NONE"
    /\ stale \subseteq 1..generated
    /\ torn => journal # <<>>

IInv == TypeOK /\ TaskInv /\ StoreInv /\ RouteOnlyDurable /\ SealedFirst

LEMMA InitIInv == Init => IInv
<1> SUFFICES ASSUME Init PROVE IInv
  OBVIOUS
<1>1. TypeOK
  <2>1. NoObs \in [sym : 0..NSymbols, candle : 0..MaxCandle]
    BY BoundsAssumption DEF NoObs, NoCandle
  <2>2. journal \in Seq(0..MaxT0) /\ d1 \in Seq(T0) /\ wire \subseteq Post
    BY DEF Init
  <2>3. TaskType
    BY BoundsAssumption DEF Init, TaskType
  <2>4. LedgerType
    BY DEF Init, LedgerType
  <2>5. LocalType /\ RemoteType
    BY <2>2 DEF Init, LocalType, RemoteType
  <2>6. WorldType
    BY <2>1, BoundsAssumption DEF Init, WorldType
  <2> QED
    BY <2>3, <2>4, <2>5, <2>6 DEF TypeOK
<1>2. TaskInv /\ StoreInv
  BY DEF Init, TaskInv, StoreInv, Busy
<1>3. RouteOnlyDurable /\ SealedFirst
  BY DEF Init, RouteOnlyDurable, SealedFirst
<1> QED
  BY <1>1, <1>2, <1>3 DEF IInv

\* One more ledger event keeps the ranks natural numbers.
LEMMA TouchType == ASSUME TypeOK, NEW t \in T0 PROVE Touch(t) \in [T0 -> Nat]
<1>1. IsFiniteSet(T0)
  BY BoundsAssumption, FS_Interval DEF T0
<1>2. IsFiniteSet({u \in T0 : age[u] # 0} \cup {t})
  BY <1>1, FS_Subset
<1>3. Cardinality({u \in T0 : age[u] # 0} \cup {t}) \in Nat
  BY <1>2, FS_CardinalityType
<1>4. age \in [T0 -> Nat]
  BY DEF TypeOK, LedgerType
<1>5. \A u \in T0 : age[t] # 0 /\ age[u] > age[t] => age[u] - 1 \in Nat
  BY <1>4
<1> QED
  BY <1>3, <1>4, <1>5 DEF Touch

\* The journal only ever gains the appended line or an unparsable one.
LEMMA JournalWithIs ==
    ASSUME TypeOK, StoreInv, NEW line \in 0..MaxT0, NEW j, j = JournalWith(line)
    PROVE  /\ j \in Seq(0..MaxT0) /\ j # <<>>
           /\ \A i \in 1..Len(j) : \/ j[i] \in {Unparsable, line}
                                   \/ \E k \in 1..Len(journal) : journal[k] = j[i]
<1>1. journal \in Seq(0..MaxT0) /\ Len(journal) \in Nat /\ torn \in BOOLEAN /\ Unparsable \in 0..MaxT0
  BY BoundsAssumption DEF TypeOK, LocalType, Unparsable
<1>2. CASE ~torn
  BY <1>1, <1>2 DEF JournalWith
<1>3. CASE torn
  <2>1. j = [journal EXCEPT ![Len(journal)] = Unparsable]
    BY <1>3 DEF JournalWith
  <2>2. j \in Seq(0..MaxT0) /\ Len(j) = Len(journal) /\ Len(j) # 0
    BY <1>1, <1>3, <2>1 DEF StoreInv
  <2>3. \A i \in 1..Len(j) : j[i] = Unparsable \/ j[i] = journal[i]
    BY <1>1, <2>1, <2>2
  <2>4. j # <<>>
    BY <2>2
  <2> QED
    BY <2>2, <2>3, <2>4
<1> QED
  BY <1>1, <1>2, <1>3

\* A committed row is of a T0 that was POSTed.
LEMMA UpsertedIs ==
    ASSUME TypeOK, NEW w \in wire, Upserted(w)
    PROVE  /\ d1' \in Seq(T0) /\ wire' \subseteq wire
           /\ \A i \in 1..Len(d1') : d1'[i] = w.t \/ \E k \in 1..Len(d1) : d1[k] = d1'[i]
<1>1. d1 \in Seq(T0) /\ Len(d1) \in Nat /\ w.t \in T0 /\ w.id \in Nat /\ w.id # 0 /\ wire' \subseteq wire
  BY DEF TypeOK, RemoteType, Post, Upserted
<1>2. CASE w.id <= Len(d1)
  <2>1. d1' = [d1 EXCEPT ![w.id] = w.t]
    BY <1>2 DEF Upserted
  <2>2. d1' \in Seq(T0) /\ Len(d1') = Len(d1)
    BY <1>1, <1>2, <2>1
  <2>3. \A i \in 1..Len(d1') : d1'[i] = w.t \/ d1'[i] = d1[i]
    BY <1>1, <2>1, <2>2
  <2> QED
    BY <1>1, <2>2, <2>3
<1>3. CASE ~(w.id <= Len(d1))
  <2>1. d1' = Append(d1, w.t)
    BY <1>3 DEF Upserted
  <2> QED
    BY <1>1, <2>1
<1> QED
  BY <1>2, <1>3

\* An action spends at most one fault of the budget.
LEMMA CountersType ==
    ASSUME TypeOK, NoFault \/ Error
    PROVE  crashes' \in 0..MaxCrashes /\ errors' \in 0..MaxErrors
BY BoundsAssumption DEF TypeOK, WorldType, NoFault, Error, faults

\* What an interrupted append leaves is a journal again, with nothing in it
\* but what was there, the T0 in progress and lines that do not parse.
LEMMA JournalInterruptedIs ==
    ASSUME TypeOK, StoreInv, JournalInterrupted
    PROVE  /\ journal' \in Seq(0..MaxT0) /\ torn' \in BOOLEAN /\ (torn' => journal' # <<>>)
           /\ \A i \in 1..Len(journal') : \/ journal'[i] \in {Unparsable, cur}
                                          \/ \E k \in 1..Len(journal) : journal[k] = journal'[i]
<1>1. cur \in 0..MaxT0 /\ Unparsable \in 0..MaxT0
  BY BoundsAssumption DEF TypeOK, TaskType, Unparsable
<1>2. CASE UNCHANGED <<journal, torn>>
  BY <1>2 DEF TypeOK, LocalType, StoreInv
<1>3. CASE journal' = JournalWith(cur) /\ torn' \in BOOLEAN
  BY <1>1, <1>3, JournalWithIs
<1>4. CASE journal' = JournalWith(Unparsable) /\ torn' \in BOOLEAN
  BY <1>1, <1>4, JournalWithIs
<1> QED
  BY <1>2, <1>3, <1>4 DEF JournalInterrupted

\* Going on to the next symbol leaves no T0 in progress.
LEMMA PredictKeeps ==
    ASSUME NEW s \in Nat, Predict(s) PROVE TaskType' /\ TaskInv'
<1>1. pc' = "symbol" /\ mode' = "fresh" /\ symbol' = s /\ cur' = 0 /\ batch' = {} /\ found' = 0
  BY DEF Predict
<1> QED
  BY <1>1, BoundsAssumption DEF TaskType, TaskInv, Busy

\* Leaving a T0 (or the whole retry pass) leaves nothing in progress, provided
\* the receipts still to be retried stay unresolved.
LEMMA LeavingKeeps ==
    ASSUME TypeOK, TaskInv, Done \/ Abandon,
           \A t \in batch : receipt'[t] \in {"ENQUEUED", "FAILED"}
    PROVE  TaskType' /\ TaskInv'
<1>1. symbol + 1 \in Nat /\ (IF mode = "retry" THEN 1 ELSE symbol + 1) \in Nat
  BY DEF TypeOK, TaskType
<1>2. CASE Abandon
  BY <1>1, <1>2, PredictKeeps DEF Abandon
<1>3. CASE Done
  <2>1. CASE mode = "fresh" /\ Predict(symbol + 1)
    BY <1>1, <2>1, PredictKeeps
  <2>2. CASE mode = "retry" /\ pc' = "retry" /\ cur' = 0 /\ found' = 0 /\ UNCHANGED <<mode, symbol, batch>>
    <3>1. TaskType'
      BY <2>2, BoundsAssumption DEF TypeOK, TaskType
    <3>2. TaskInv'
      BY <2>2 DEF TypeOK, TaskType, TaskInv, Busy, Unresolved
    <3> QED
      BY <3>1, <3>2
  <2> QED
    BY <1>3, <2>1, <2>2 DEF Done
<1> QED
  BY <1>2, <1>3

\* Every step keeps the invariant.
LEMMA NextIInv == IInv /\ [Next]_vars => IInv'
<1> SUFFICES ASSUME IInv, [Next]_vars PROVE IInv'
  OBVIOUS
<1>t. TypeOK /\ TaskInv /\ StoreInv /\ RouteOnlyDurable /\ SealedFirst
  BY DEF IInv
<1>1. ASSUME StartCycle PROVE IInv'
  <2>1. TaskType'
    BY <1>t, <1>1 DEF StartCycle, TypeOK, TaskType, Pending, Unresolved
  <2>2. TaskInv'
    BY <1>t, <1>1 DEF StartCycle, TaskInv, Busy, Pending, Unresolved, ledger
  <2>3. LedgerType' /\ LocalType' /\ RemoteType'
    BY <1>t, <1>1 DEF StartCycle, TypeOK, LedgerType, LocalType, RemoteType, ledger, local, remote
  <2>4. WorldType'
    <3>1. crashes' \in 0..MaxCrashes /\ errors' \in 0..MaxErrors
      BY <1>t, <1>1, CountersType DEF StartCycle
    <3>2. stale' \subseteq T0
      BY <1>t, <1>1, BoundsAssumption DEF StartCycle, TypeOK, WorldType, T0
    <3>3. UNCHANGED <<candle, generated, obs, treated>>
      BY <1>1 DEF StartCycle, world
    <3> QED
      BY <1>t, <3>1, <3>2, <3>3 DEF TypeOK, WorldType
  <2>5. StoreInv'
    BY <1>t, <1>1 DEF StartCycle, TypeOK, TaskType, WorldType, T0, TaskInv, StoreInv, Busy, ledger,
        local, world, effects
  <2>6. RouteOnlyDurable'
    BY <1>t, <1>1 DEF StartCycle, RouteOnlyDurable, ledger, local, effects
  <2>7. SealedFirst'
    BY <1>t, <1>1 DEF StartCycle, TypeOK, TaskType, WorldType, T0, TaskInv, SealedFirst, Busy,
        ledger, local, remote
  <2> QED
    BY <2>1, <2>2, <2>3, <2>4, <2>5, <2>6, <2>7 DEF IInv, TypeOK
<1>2. ASSUME TakeReceipt PROVE IInv'
  <2>1. TaskType'
    BY <1>t, <1>2, BoundsAssumption DEF TakeReceipt, Goto, Predict, TypeOK, TaskType, T0, TaskInv,
        Busy
  <2>2. TaskInv'
    BY <1>t, <1>2 DEF TakeReceipt, Oldest, TypeOK, TaskType, LedgerType, WorldType, TaskInv,
        StoreInv, Busy, Unresolved, T0, ledger, local, world, effects
  <2>3. LedgerType' /\ LocalType' /\ RemoteType'
    BY <1>t, <1>2 DEF TakeReceipt, TypeOK, LedgerType, LocalType, RemoteType, ledger, local, remote
  <2>4. WorldType'
    BY <1>t, <1>2, CountersType DEF TakeReceipt, TypeOK, WorldType, world,
        effects
  <2>5. StoreInv' /\ RouteOnlyDurable' /\ SealedFirst'
    BY <1>t, <1>2 DEF TakeReceipt, StoreInv, RouteOnlyDurable, SealedFirst, ledger, local, remote,
        world, effects
  <2> QED
    BY <2>1, <2>2, <2>3, <2>4, <2>5 DEF IInv, TypeOK
<1>3. ASSUME EndRetry PROVE IInv'
  <2>1. TaskType'
    BY <1>t, <1>3, BoundsAssumption DEF EndRetry, Goto, Predict, TypeOK, TaskType, T0, TaskInv, Busy
  <2>2. TaskInv'
    BY <1>t, <1>3 DEF EndRetry, Goto, Predict, TypeOK, TaskType, TaskInv, Busy, Unresolved, ledger,
        local, world, effects
  <2>3. LedgerType' /\ LocalType' /\ RemoteType'
    BY <1>t, <1>3 DEF EndRetry, TypeOK, LedgerType, LocalType, RemoteType, ledger, local, remote
  <2>4. WorldType'
    BY <1>t, <1>3, CountersType DEF EndRetry, TypeOK, WorldType, world, effects
  <2>5. StoreInv' /\ RouteOnlyDurable' /\ SealedFirst'
    BY <1>t, <1>3 DEF EndRetry, StoreInv, RouteOnlyDurable, SealedFirst, ledger, local, remote,
        world, effects
  <2> QED
    BY <2>1, <2>2, <2>3, <2>4, <2>5 DEF IInv, TypeOK
<1>4. ASSUME EndCycle PROVE IInv'
  <2>1. TaskType'
    BY <1>t, <1>4, BoundsAssumption DEF EndCycle, Goto, Predict, TypeOK, TaskType, T0, TaskInv, Busy
  <2>2. TaskInv'
    BY <1>t, <1>4 DEF EndCycle, Goto, Predict, TypeOK, TaskType, TaskInv, Busy, Unresolved, ledger,
        local, world, effects
  <2>3. LedgerType' /\ LocalType' /\ RemoteType'
    BY <1>t, <1>4 DEF EndCycle, TypeOK, LedgerType, LocalType, RemoteType, ledger, local, remote
  <2>4. WorldType'
    BY <1>t, <1>4, CountersType DEF EndCycle, TypeOK, WorldType, world, effects
  <2>5. StoreInv' /\ RouteOnlyDurable' /\ SealedFirst'
    BY <1>t, <1>4 DEF EndCycle, StoreInv, RouteOnlyDurable, SealedFirst, ledger, local, remote,
        world, effects
  <2> QED
    BY <2>1, <2>2, <2>3, <2>4, <2>5 DEF IInv, TypeOK
<1>5. ASSUME CycleWithoutMarket PROVE IInv'
  <2>1. TaskType'
    BY <1>t, <1>5, BoundsAssumption DEF CycleWithoutMarket, Goto, Predict, TypeOK, TaskType, T0,
        TaskInv, Busy
  <2>2. TaskInv'
    BY <1>t, <1>5 DEF CycleWithoutMarket, Goto, Predict, TypeOK, TaskType, TaskInv, Busy,
        Unresolved, ledger, local, world, effects
  <2>3. LedgerType' /\ LocalType' /\ RemoteType'
    BY <1>t, <1>5 DEF CycleWithoutMarket, TypeOK, LedgerType, LocalType, RemoteType, ledger, local,
        remote
  <2>4. WorldType'
    BY <1>t, <1>5, CountersType DEF CycleWithoutMarket, TypeOK, WorldType, world,
        effects
  <2>5. StoreInv' /\ RouteOnlyDurable' /\ SealedFirst'
    BY <1>t, <1>5 DEF CycleWithoutMarket, StoreInv, RouteOnlyDurable, SealedFirst, ledger, local,
        remote, world, effects
  <2> QED
    BY <2>1, <2>2, <2>3, <2>4, <2>5 DEF IInv, TypeOK
<1>6. ASSUME SkipSymbol PROVE IInv'
  <2>1. TaskType'
    BY <1>t, <1>6, BoundsAssumption DEF SkipSymbol, Goto, Predict, TypeOK, TaskType, T0, TaskInv,
        Busy
  <2>2. TaskInv'
    BY <1>t, <1>6 DEF SkipSymbol, Goto, Predict, TypeOK, TaskType, TaskInv, Busy, Unresolved,
        ledger, local, world, effects
  <2>3. LedgerType' /\ LocalType' /\ RemoteType'
    BY <1>t, <1>6 DEF SkipSymbol, TypeOK, LedgerType, LocalType, RemoteType, ledger, local, remote
  <2>4. WorldType'
    BY <1>t, <1>6, CountersType DEF SkipSymbol, TypeOK, WorldType, world,
        effects
  <2>5. StoreInv' /\ RouteOnlyDurable' /\ SealedFirst'
    BY <1>t, <1>6 DEF SkipSymbol, StoreInv, RouteOnlyDurable, SealedFirst, ledger, local, remote,
        world, effects
  <2> QED
    BY <2>1, <2>2, <2>3, <2>4, <2>5 DEF IInv, TypeOK
<1>7. ASSUME Generate PROVE IInv'
  <2>1. PICK c \in 0..candle : /\ IF c = NoCandle THEN Error ELSE c + Lag >= candle /\ NoFault
                            /\ generated' = generated + 1 /\ cur' = generated + 1
                            /\ obs' = [obs EXCEPT ![generated + 1] = [sym |-> symbol, candle |-> c]]
    BY <1>t, <1>7 DEF Generate
  <2>2. generated + 1 \in T0 /\ generated \in Nat /\ symbol \in 0..NSymbols /\ c \in 0..MaxCandle
    BY <1>t, <1>7, BoundsAssumption DEF Generate, TypeOK, TaskType, WorldType, TaskInv, T0
  <2>3. generated + 1 \notin stale /\ receipt[generated + 1] = "NONE"
    BY <1>t, <1>7, <2>2 DEF TypeOK, WorldType, StoreInv
  <2>4. crashes' \in 0..MaxCrashes /\ errors' \in 0..MaxErrors
    BY <1>t, <1>7, <2>1, CountersType
  <2>5. obs' \in [T0 -> [sym : 0..NSymbols, candle : 0..MaxCandle]]
    BY <1>t, <1>7, <2>1, <2>2 DEF TypeOK, WorldType
  <2>6. mode = "fresh" /\ batch = {}
    BY <1>t, <1>7 DEF Generate, TaskInv
  <2>7. TaskType'
    BY <1>t, <1>7, <2>1, <2>2 DEF Generate, TypeOK, TaskType, T0
  <2>8. TaskInv'
    BY <1>t, <1>7, <2>1, <2>2, <2>3, <2>6 DEF Generate, ledger, local, effects, TaskInv, Busy,
        Unresolved
  <2>9. LedgerType' /\ LocalType' /\ RemoteType'
    BY <1>t, <1>7 DEF Generate, TypeOK, LedgerType, LocalType, RemoteType, ledger, local, remote
  <2>10. WorldType'
    BY <1>t, <1>7, <2>1, <2>2, <2>4, <2>5 DEF Generate, TypeOK, WorldType, effects, T0
  <2>11. StoreInv'
    BY <1>t, <1>7, <2>1, <2>2 DEF Generate, TypeOK, WorldType, LocalType, StoreInv, T0, ledger,
        local, effects
  <2>12. RouteOnlyDurable'
    BY <1>t, <1>7 DEF Generate, RouteOnlyDurable, ledger, local, effects
  <2>13. SealedFirst'
    BY <1>t, <1>7 DEF Generate, TypeOK, TaskType, WorldType, T0, TaskInv, SealedFirst, Busy,
        ledger, local, remote
  <2> QED
    BY <2>7, <2>8, <2>9, <2>10, <2>11, <2>12, <2>13 DEF IInv, TypeOK
<1>8. ASSUME Enqueue PROVE IInv'
  <2>1. cur \in T0 /\ Touch(cur) \in [T0 -> Nat]
    BY <1>t, <1>8, TouchType DEF Enqueue, TypeOK, TaskType, WorldType, TaskInv, Busy, T0
  <2>2. TaskType'
    BY <1>t, <1>8, BoundsAssumption DEF Enqueue, Goto, Predict, TypeOK, TaskType, T0, TaskInv, Busy
  <2>3. TaskInv'
    BY <1>t, <1>8, <2>1 DEF Enqueue, Goto, Enqueued, TypeOK, TaskType, LedgerType, TaskInv, Busy,
        Unresolved, local, world, effects
  <2>4. LocalType' /\ RemoteType'
    BY <1>t, <1>8 DEF Enqueue, TypeOK, LocalType, RemoteType, local, remote
  <2>5. LedgerType'
    BY <1>t, <1>8, <2>1 DEF Enqueue, Enqueued, TypeOK, TaskType, LedgerType, ledger
  <2>6. WorldType'
    BY <1>t, <1>8, CountersType DEF Enqueue, TypeOK, WorldType, world, effects
  <2>7. StoreInv'
    BY <1>t, <1>8, <2>1 DEF Enqueue, Enqueued, TypeOK, TaskType, LedgerType, LocalType, WorldType,
        T0, TaskInv, StoreInv, Busy, ledger, local, world, effects
  <2>8. RouteOnlyDurable'
    BY <1>t, <1>8, <2>1 DEF Enqueue, Enqueued, TypeOK, LedgerType, TaskInv, RouteOnlyDurable, Busy,
        ledger, local, effects
  <2>9. SealedFirst'
    BY <1>t, <1>8, <2>1 DEF Enqueue, Enqueued, TypeOK, LedgerType, TaskInv, SealedFirst, Busy,
        ledger, local, remote
  <2> QED
    BY <2>2, <2>3, <2>4, <2>5, <2>6, <2>7, <2>8, <2>9 DEF IInv, TypeOK
<1>9. ASSUME Seal PROVE IInv'
  <2>1. TaskType'
    BY <1>t, <1>9, BoundsAssumption DEF Seal, Goto, Predict, TypeOK, TaskType, T0, TaskInv, Busy
  <2>2. TaskInv'
    BY <1>t, <1>9 DEF Seal, Goto, Predict, TypeOK, TaskType, TaskInv, Busy, Unresolved, ledger,
        local, world, effects
  <2>3. LedgerType' /\ RemoteType'
    BY <1>t, <1>9 DEF Seal, TypeOK, LedgerType, RemoteType, ledger, remote
  <2>4. LocalType'
    BY <1>t, <1>9 DEF Seal, TypeOK, TaskType, LocalType, WorldType, Post, T0, TaskInv, Busy, local
  <2>5. WorldType'
    BY <1>t, <1>9, CountersType DEF Seal, TypeOK, WorldType, world, effects
  <2>6. StoreInv'
    BY <1>t, <1>9 DEF Seal, TypeOK, TaskType, WorldType, T0, TaskInv, StoreInv, Busy, ledger,
        local, world, effects
  <2>7. RouteOnlyDurable'
    BY <1>t, <1>9 DEF Seal, RouteOnlyDurable, ledger, local, effects
  <2>8. SealedFirst'
    BY <1>t, <1>9 DEF Seal, TypeOK, TaskType, WorldType, T0, TaskInv, SealedFirst, Busy, ledger,
        local, remote
  <2> QED
    BY <2>1, <2>2, <2>3, <2>4, <2>5, <2>6, <2>7, <2>8 DEF IInv, TypeOK
<1>10. ASSUME LogPrediction PROVE IInv'
  <2>1. cur \in T0 /\ journal' = JournalWith(cur) /\ torn' = FALSE
    BY <1>t, <1>10 DEF LogPrediction, TypeOK, TaskType, WorldType, TaskInv, Busy, T0
  <2>2. /\ journal' \in Seq(0..MaxT0)
       /\ \A i \in 1..Len(journal') : \/ journal'[i] \in {Unparsable, cur}
                                      \/ \E k \in 1..Len(journal) : journal[k] = journal'[i]
    BY <1>t, <1>10, <2>1, JournalWithIs DEF T0
  <2>3. cur \in sealed /\ receipt[cur] # "NONE"
    BY <1>t, <1>10 DEF LogPrediction, TaskInv, Busy
  <2>4. TaskType'
    BY <1>t, <1>10, BoundsAssumption DEF LogPrediction, Goto, Predict, TypeOK, TaskType, T0,
        TaskInv, Busy
  <2>5. TaskInv'
    BY <1>t, <1>10 DEF LogPrediction, Goto, Predict, TypeOK, TaskType, TaskInv, Busy, Unresolved,
        ledger, local, world, effects
  <2>6. LedgerType' /\ RemoteType'
    BY <1>t, <1>10 DEF LogPrediction, TypeOK, LedgerType, RemoteType, ledger, remote
  <2>7. LocalType'
    BY <1>t, <1>10, <2>1, <2>2 DEF LogPrediction, TypeOK, LocalType
  <2>8. WorldType'
    BY <1>t, <1>10, CountersType DEF LogPrediction, TypeOK, WorldType, world,
        effects
  <2>9. StoreInv'
    BY <1>t, <1>10, <2>1 DEF LogPrediction, StoreInv, ledger, world, effects
  <2>10. RouteOnlyDurable'
    BY <1>t, <1>10 DEF LogPrediction, RouteOnlyDurable, ledger, local, effects
  <2>11. SealedFirst'
    BY <1>t, <1>10, <2>1, <2>2, <2>3 DEF LogPrediction, SealedFirst, Unparsable, T0, ledger, remote
  <2> QED
    BY <2>4, <2>5, <2>6, <2>7, <2>8, <2>9, <2>10, <2>11 DEF IInv, TypeOK
<1>11. ASSUME MarkPersisted PROVE IInv'
  <2>1. cur \in T0 /\ Touch(cur) \in [T0 -> Nat]
    BY <1>t, <1>11, TouchType DEF MarkPersisted, TypeOK, TaskType, WorldType, TaskInv, Busy, T0
  <2>2. \A t \in batch : receipt'[t] \in {"ENQUEUED", "FAILED"}
    BY <1>t, <1>11, <2>1 DEF MarkPersisted, Persisted, TypeOK, TaskType, LedgerType, ledger,
        TaskInv, Busy, Unresolved
  <2>3. TaskType' /\ TaskInv'
    BY <1>t, <1>11, <2>1, <2>2, LeavingKeeps DEF MarkPersisted, Persisted, Goto, TypeOK, TaskType,
        WorldType, LedgerType, TaskInv, Busy, Unresolved, world, effects, local
  <2>4. LocalType' /\ RemoteType'
    BY <1>t, <1>11 DEF MarkPersisted, TypeOK, LocalType, RemoteType, local, remote
  <2>5. LedgerType'
    BY <1>t, <1>11, <2>1 DEF MarkPersisted, Persisted, TypeOK, TaskType, LedgerType, ledger
  <2>6. WorldType'
    BY <1>t, <1>11, CountersType DEF MarkPersisted, TypeOK, WorldType, world,
        effects
  <2>7. StoreInv'
    BY <1>t, <1>11, <2>1 DEF MarkPersisted, Persisted, TypeOK, TaskType, LedgerType, LocalType,
        WorldType, T0, TaskInv, StoreInv, Busy, ledger, local, world, effects
  <2>8. RouteOnlyDurable'
    BY <1>t, <1>11, <2>1 DEF MarkPersisted, Persisted, TypeOK, LedgerType, TaskInv,
        RouteOnlyDurable, Busy, ledger, local, effects
  <2>9. SealedFirst'
    BY <1>t, <1>11, <2>1 DEF MarkPersisted, Persisted, TypeOK, LedgerType, TaskInv, SealedFirst,
        Busy, ledger, local, remote
  <2> QED
    BY <2>3, <2>4, <2>5, <2>6, <2>7, <2>8, <2>9 DEF IInv, TypeOK
<1>12. ASSUME MarkFailed PROVE IInv'
  <2>1. cur \in T0 /\ Touch(cur) \in [T0 -> Nat]
    BY <1>t, <1>12, TouchType DEF MarkFailed, TypeOK, TaskType, WorldType, TaskInv, Busy, T0
  <2>2. \A t \in batch : receipt'[t] \in {"ENQUEUED", "FAILED"}
    BY <1>t, <1>12, <2>1 DEF MarkFailed, Failed, TypeOK, TaskType, LedgerType, ledger, TaskInv,
        Busy, Unresolved
  <2>3. TaskType' /\ TaskInv'
    BY <1>t, <1>12, <2>2, LeavingKeeps DEF MarkFailed
  <2>4. LocalType' /\ RemoteType'
    BY <1>t, <1>12 DEF MarkFailed, TypeOK, LocalType, RemoteType, local, remote
  <2>5. LedgerType'
    BY <1>t, <1>12, <2>1 DEF MarkFailed, Failed, TypeOK, TaskType, LedgerType, ledger
  <2>6. WorldType'
    BY <1>t, <1>12, CountersType DEF MarkFailed, TypeOK, WorldType, world,
        effects
  <2>7. StoreInv'
    BY <1>t, <1>12, <2>1 DEF MarkFailed, Failed, TypeOK, TaskType, LedgerType, LocalType,
        WorldType, T0, TaskInv, StoreInv, Busy, ledger, local, world, effects
  <2>8. RouteOnlyDurable'
    BY <1>t, <1>12, <2>1 DEF MarkFailed, Failed, TypeOK, LedgerType, TaskInv, RouteOnlyDurable,
        Busy, ledger, local, effects
  <2>9. SealedFirst'
    BY <1>t, <1>12, <2>1 DEF MarkFailed, Failed, TypeOK, LedgerType, TaskInv, SealedFirst, Busy,
        ledger, local, remote
  <2> QED
    BY <2>3, <2>4, <2>5, <2>6, <2>7, <2>8, <2>9 DEF IInv, TypeOK
<1>13. ASSUME EnqueueRaises PROVE IInv'
  <2>1. cur \in T0 /\ Touch(cur) \in [T0 -> Nat]
    BY <1>t, <1>13, TouchType DEF EnqueueRaises, TypeOK, TaskType, WorldType, TaskInv, Busy, T0
  <2>2. \A t \in batch : receipt'[t] \in {"ENQUEUED", "FAILED"}
    BY <1>t, <1>13, <2>1 DEF EnqueueRaises, Enqueued, TypeOK, TaskType, LedgerType, ledger,
        TaskInv, Busy, Unresolved
  <2>3. TaskType' /\ TaskInv'
    BY <1>t, <1>13, <2>2, LeavingKeeps DEF EnqueueRaises
  <2>4. receipt' \in {receipt, [receipt EXCEPT ![cur] = "ENQUEUED"]} /\ cur \in 1..generated
    BY <1>t, <1>13 DEF EnqueueRaises, Enqueued, ledger, TaskInv, Busy
  <2>5. receipt'[cur] # "PERSISTED"
    BY <1>t, <1>13, <2>1, <2>4 DEF EnqueueRaises, TypeOK, LedgerType, TaskInv
  <2>6. \A t \in T0 : t # cur => receipt'[t] = receipt[t]
    BY <1>t, <1>13, <2>1, <2>4 DEF TypeOK, LedgerType
  <2>7. receipt[cur] = "NONE" /\ cur \in T0 /\ cur \in 1..generated /\ generated \in Nat
    BY <1>t, <1>13, <2>1, <2>4, BoundsAssumption DEF EnqueueRaises, TypeOK, WorldType, TaskInv
  <2>8. UNCHANGED <<sealed, journal, torn, generated, stale>> /\ sealed \subseteq T0
    BY <1>t, <1>13 DEF EnqueueRaises, local, world, effects, TypeOK, LocalType
  <2>9. LocalType' /\ RemoteType'
    BY <1>t, <1>13 DEF EnqueueRaises, TypeOK, LocalType, RemoteType, local, remote
  <2>10. LedgerType'
    BY <1>t, <1>13, <2>1 DEF EnqueueRaises, Enqueued, TypeOK, TaskType, LedgerType, ledger
  <2>11. WorldType'
    BY <1>t, <1>13, CountersType DEF EnqueueRaises, TypeOK, WorldType, world, effects
  <2>12. StoreInv'
    BY <1>t, <1>13, <2>5, <2>6, <2>7, <2>8 DEF StoreInv, T0
  <2>13. RouteOnlyDurable'
    BY <1>t, <1>13, <2>1 DEF EnqueueRaises, Enqueued, TypeOK, LedgerType, TaskInv,
        RouteOnlyDurable, Busy, ledger, local, effects
  <2>14. SealedFirst'
    BY <1>t, <1>13, <2>1 DEF EnqueueRaises, Enqueued, TypeOK, LedgerType, TaskInv, SealedFirst,
        Busy, ledger, local, remote
  <2> QED
    BY <2>3, <2>9, <2>10, <2>11, <2>12, <2>13, <2>14 DEF IInv, TypeOK
<1>14. ASSUME MarkPersistedRaises PROVE IInv'
  <2>1. cur \in T0 /\ Touch(cur) \in [T0 -> Nat]
    BY <1>t, <1>14, TouchType DEF MarkPersistedRaises, TypeOK, TaskType, WorldType, TaskInv, Busy,
        T0
  <2>2. \A t \in batch : receipt'[t] \in {"ENQUEUED", "FAILED"}
    BY <1>t, <1>14, <2>1 DEF MarkPersistedRaises, Persisted, TypeOK, TaskType, LedgerType, ledger,
        TaskInv, Busy, Unresolved
  <2>3. TaskType' /\ TaskInv'
    BY <1>t, <1>14, <2>2, LeavingKeeps DEF MarkPersistedRaises
  <2>4. LocalType' /\ RemoteType'
    BY <1>t, <1>14 DEF MarkPersistedRaises, TypeOK, LocalType, RemoteType, local, remote
  <2>5. LedgerType'
    BY <1>t, <1>14, <2>1 DEF MarkPersistedRaises, Persisted, TypeOK, TaskType, LedgerType, ledger
  <2>6. WorldType'
    BY <1>t, <1>14, CountersType DEF MarkPersistedRaises, TypeOK, WorldType,
        world, effects
  <2>7. StoreInv'
    BY <1>t, <1>14, <2>1 DEF MarkPersistedRaises, Persisted, TypeOK, TaskType, LedgerType,
        LocalType, WorldType, T0, TaskInv, StoreInv, Busy, ledger, local, world, effects
  <2>8. RouteOnlyDurable'
    BY <1>t, <1>14, <2>1 DEF MarkPersistedRaises, Persisted, TypeOK, LedgerType, TaskInv,
        RouteOnlyDurable, Busy, ledger, local, effects
  <2>9. SealedFirst'
    BY <1>t, <1>14, <2>1 DEF MarkPersistedRaises, Persisted, TypeOK, LedgerType, TaskInv,
        SealedFirst, Busy, ledger, local, remote
  <2> QED
    BY <2>3, <2>4, <2>5, <2>6, <2>7, <2>8, <2>9 DEF IInv, TypeOK
<1>15. ASSUME MarkFailedRaises PROVE IInv'
  <2>1. cur \in T0 /\ Touch(cur) \in [T0 -> Nat]
    BY <1>t, <1>15, TouchType DEF MarkFailedRaises, TypeOK, TaskType, WorldType, TaskInv, Busy, T0
  <2>2. \A t \in batch : receipt'[t] \in {"ENQUEUED", "FAILED"}
    BY <1>t, <1>15, <2>1 DEF MarkFailedRaises, Failed, TypeOK, TaskType, LedgerType, ledger,
        TaskInv, Busy, Unresolved
  <2>3. TaskType' /\ TaskInv'
    BY <1>t, <1>15, <2>2, LeavingKeeps DEF MarkFailedRaises
  <2>4. LocalType' /\ RemoteType'
    BY <1>t, <1>15 DEF MarkFailedRaises, TypeOK, LocalType, RemoteType, local, remote
  <2>5. LedgerType'
    BY <1>t, <1>15, <2>1 DEF MarkFailedRaises, Failed, TypeOK, TaskType, LedgerType, ledger
  <2>6. WorldType'
    BY <1>t, <1>15, CountersType DEF MarkFailedRaises, TypeOK, WorldType, world,
        effects
  <2>7. StoreInv'
    BY <1>t, <1>15, <2>1 DEF MarkFailedRaises, Failed, TypeOK, TaskType, LedgerType, LocalType,
        WorldType, T0, TaskInv, StoreInv, Busy, ledger, local, world, effects
  <2>8. RouteOnlyDurable'
    BY <1>t, <1>15, <2>1 DEF MarkFailedRaises, Failed, TypeOK, LedgerType, TaskInv,
        RouteOnlyDurable, Busy, ledger, local, effects
  <2>9. SealedFirst'
    BY <1>t, <1>15, <2>1 DEF MarkFailedRaises, Failed, TypeOK, LedgerType, TaskInv, SealedFirst,
        Busy, ledger, local, remote
  <2> QED
    BY <2>3, <2>4, <2>5, <2>6, <2>7, <2>8, <2>9 DEF IInv, TypeOK
<1>16. ASSUME LookupFinds PROVE IInv'
  <2>1. TaskType'
    BY <1>t, <1>16 DEF LookupFinds, Goto, Rows, TypeOK, TaskType, RemoteType
  <2>2. TaskInv'
    BY <1>t, <1>16 DEF LookupFinds, Goto, Predict, TypeOK, TaskType, TaskInv, Busy, Unresolved,
        ledger, local, world, effects
  <2>3. LedgerType' /\ LocalType' /\ RemoteType'
    BY <1>t, <1>16 DEF LookupFinds, TypeOK, LedgerType, LocalType, RemoteType, ledger, local, remote
  <2>4. WorldType'
    BY <1>t, <1>16, CountersType DEF LookupFinds, TypeOK, WorldType, world,
        effects
  <2>5. StoreInv' /\ RouteOnlyDurable' /\ SealedFirst'
    BY <1>t, <1>16 DEF LookupFinds, StoreInv, RouteOnlyDurable, SealedFirst, ledger, local, remote,
        world, effects
  <2> QED
    BY <2>1, <2>2, <2>3, <2>4, <2>5 DEF IInv, TypeOK
<1>17. ASSUME LookupFindsNone PROVE IInv'
  <2>1. TaskType'
    BY <1>t, <1>17 DEF LookupFindsNone, Goto, Rows, TypeOK, TaskType, RemoteType
  <2>2. TaskInv'
    BY <1>t, <1>17 DEF LookupFindsNone, Goto, Predict, TypeOK, TaskType, TaskInv, Busy, Unresolved,
        ledger, local, world, effects
  <2>3. LedgerType' /\ LocalType' /\ RemoteType'
    BY <1>t, <1>17 DEF LookupFindsNone, TypeOK, LedgerType, LocalType, RemoteType, ledger, local,
        remote
  <2>4. WorldType'
    BY <1>t, <1>17, CountersType DEF LookupFindsNone, TypeOK, WorldType, world,
        effects
  <2>5. StoreInv' /\ RouteOnlyDurable' /\ SealedFirst'
    BY <1>t, <1>17 DEF LookupFindsNone, StoreInv, RouteOnlyDurable, SealedFirst, ledger, local,
        remote, world, effects
  <2> QED
    BY <2>1, <2>2, <2>3, <2>4, <2>5 DEF IInv, TypeOK
<1>18. ASSUME LookupConflicts PROVE IInv'
  <2>1. TaskType'
    BY <1>t, <1>18 DEF LookupConflicts, Goto, Rows, TypeOK, TaskType, RemoteType
  <2>2. TaskInv'
    BY <1>t, <1>18 DEF LookupConflicts, Goto, Predict, TypeOK, TaskType, TaskInv, Busy, Unresolved,
        ledger, local, world, effects
  <2>3. LedgerType' /\ LocalType' /\ RemoteType'
    BY <1>t, <1>18 DEF LookupConflicts, TypeOK, LedgerType, LocalType, RemoteType, ledger, local,
        remote
  <2>4. WorldType'
    BY <1>t, <1>18, CountersType DEF LookupConflicts, TypeOK, WorldType, world,
        effects
  <2>5. StoreInv' /\ RouteOnlyDurable' /\ SealedFirst'
    BY <1>t, <1>18 DEF LookupConflicts, StoreInv, RouteOnlyDurable, SealedFirst, ledger, local,
        remote, world, effects
  <2> QED
    BY <2>1, <2>2, <2>3, <2>4, <2>5 DEF IInv, TypeOK
<1>19. ASSUME Insert PROVE IInv'
  <2>1. TaskType'
    BY <1>t, <1>19, BoundsAssumption DEF Insert, Goto, Predict, TypeOK, TaskType, T0, TaskInv, Busy
  <2>2. TaskInv'
    BY <1>t, <1>19 DEF Insert, Goto, Predict, TypeOK, TaskType, TaskInv, Busy, Unresolved, ledger,
        local, world, effects
  <2>3. LedgerType' /\ LocalType'
    BY <1>t, <1>19 DEF Insert, TypeOK, LedgerType, LocalType, ledger, local
  <2>4. RemoteType'
    BY <1>t, <1>19 DEF Insert, TypeOK, TaskType, RemoteType, WorldType, Post, T0, TaskInv, Busy,
        remote
  <2>5. WorldType'
    BY <1>t, <1>19, CountersType DEF Insert, TypeOK, WorldType, world, effects
  <2>6. StoreInv'
    BY <1>t, <1>19 DEF Insert, TypeOK, TaskType, WorldType, T0, TaskInv, StoreInv, Busy, ledger,
        local, world, effects
  <2>7. RouteOnlyDurable'
    BY <1>t, <1>19 DEF Insert, RouteOnlyDurable, ledger, local, effects
  <2>8. SealedFirst'
    BY <1>t, <1>19 DEF Insert, TypeOK, TaskType, WorldType, T0, TaskInv, SealedFirst, Busy, ledger,
        local, remote
  <2> QED
    BY <2>1, <2>2, <2>3, <2>4, <2>5, <2>6, <2>7, <2>8 DEF IInv, TypeOK
<1>20. ASSUME SealRaises PROVE IInv'
  <2>1. sealed' \in {sealed, sealed \cup {cur}} /\ cur \in T0 /\ receipt[cur] # "NONE"
    BY <1>t, <1>20 DEF SealRaises, TypeOK, TaskType, WorldType, TaskInv, Busy, T0
  <2>2. \A t \in batch : receipt'[t] \in {"ENQUEUED", "FAILED"}
    BY <1>t, <1>20 DEF SealRaises, ledger, TaskInv, Unresolved
  <2>3. TaskType' /\ TaskInv'
    <3>1. CASE mode = "fresh"
      BY <1>t, <1>20, <2>2, <3>1, LeavingKeeps DEF SealRaises
    <3>2. CASE mode # "fresh"
      <4>1. pc' = "fail" /\ UNCHANGED <<mode, cur, symbol, batch, found, receipt, generated, stale>>
        BY <1>20, <3>2 DEF SealRaises, Goto, ledger, world, effects
      <4>2. TaskType'
        BY <1>t, <4>1 DEF TypeOK, TaskType
      <4>3. TaskInv'
        BY <1>t, <1>20, <3>2, <4>1 DEF SealRaises, TaskInv, Busy, Unresolved
      <4> QED
        BY <4>2, <4>3
    <3> QED
      BY <3>1, <3>2
  <2>4. LedgerType' /\ LocalType' /\ RemoteType' /\ WorldType'
    <3>1. LedgerType' /\ RemoteType'
      BY <1>t, <1>20 DEF SealRaises, TypeOK, TaskType, LedgerType, LocalType, RemoteType,
          WorldType, ledger, remote
    <3>2. LocalType'
      BY <1>t, <1>20, <2>1 DEF SealRaises, TypeOK, LocalType
    <3>3. WorldType'
      BY <1>t, <1>20, CountersType DEF SealRaises, TypeOK, WorldType, world, effects
    <3> QED
      BY <3>1, <3>2, <3>3
  <2>5. StoreInv'
    BY <1>t, <1>20, <2>1 DEF SealRaises, StoreInv, NoFault, Error, task, ledger, local, remote,
        world, effects, faults
  <2>6. RouteOnlyDurable'
    BY <1>t, <1>20, <2>1 DEF SealRaises, RouteOnlyDurable, NoFault, Error, task, ledger, local,
        remote, world, effects, faults
  <2>7. SealedFirst'
    BY <1>t, <1>20, <2>1 DEF SealRaises, SealedFirst, NoFault, Error, task, ledger, local, remote,
        world, effects, faults
  <2> QED
    BY <2>3, <2>4, <2>5, <2>6, <2>7 DEF IInv, TypeOK
<1>21. ASSUME LogRaises PROVE IInv'
  <2>1. /\ journal' \in Seq(0..MaxT0) /\ torn' \in BOOLEAN /\ (torn' => journal' # <<>>)
       /\ \A i \in 1..Len(journal') : \/ journal'[i] \in {Unparsable, cur}
                                      \/ \E k \in 1..Len(journal) : journal[k] = journal'[i]
    BY <1>t, <1>21, JournalInterruptedIs DEF LogRaises
  <2>2. TaskType' /\ TaskInv'
    BY <1>t, <1>21, LeavingKeeps DEF LogRaises, ledger, TaskInv, Unresolved
  <2>3. cur \in sealed /\ receipt[cur] # "NONE"
    BY <1>t, <1>21 DEF LogRaises, TaskInv, Busy
  <2>4. LedgerType' /\ RemoteType'
    BY <1>t, <1>21 DEF LogRaises, TypeOK, LedgerType, RemoteType, ledger, remote
  <2>5. LocalType'
    BY <1>t, <1>21, <2>1 DEF LogRaises, TypeOK, LocalType
  <2>6. WorldType'
    BY <1>t, <1>21, CountersType DEF LogRaises, TypeOK, WorldType, world,
        effects
  <2>7. StoreInv'
    BY <1>t, <1>21, <2>1 DEF LogRaises, StoreInv, ledger, world, effects
  <2>8. RouteOnlyDurable'
    BY <1>t, <1>21 DEF LogRaises, RouteOnlyDurable, ledger, local, effects
  <2>9. SealedFirst'
    BY <1>t, <1>21, <2>1, <2>3 DEF LogRaises, SealedFirst, Unparsable, T0, ledger, remote
  <2> QED
    BY <2>2, <2>4, <2>5, <2>6, <2>7, <2>8, <2>9 DEF IInv, TypeOK
<1>22. ASSUME LookupRaises PROVE IInv'
  <2>1. TaskType'
    BY <1>t, <1>22, BoundsAssumption DEF LookupRaises, Goto, Predict, TypeOK, TaskType, T0,
        TaskInv, Busy
  <2>2. TaskInv'
    BY <1>t, <1>22 DEF LookupRaises, Goto, Predict, TypeOK, TaskType, TaskInv, Busy, Unresolved,
        ledger, local, world, effects
  <2>3. LedgerType' /\ LocalType' /\ RemoteType'
    BY <1>t, <1>22 DEF LookupRaises, TypeOK, LedgerType, LocalType, RemoteType, ledger, local,
        remote
  <2>4. WorldType'
    BY <1>t, <1>22, CountersType DEF LookupRaises, TypeOK, WorldType, world,
        effects
  <2>5. StoreInv' /\ RouteOnlyDurable' /\ SealedFirst'
    BY <1>t, <1>22 DEF LookupRaises, StoreInv, RouteOnlyDurable, SealedFirst, ledger, local,
        remote, world, effects
  <2> QED
    BY <2>1, <2>2, <2>3, <2>4, <2>5 DEF IInv, TypeOK
<1>23. ASSUME PostTimesOut PROVE IInv'
  <2>1. TaskType'
    BY <1>t, <1>23, BoundsAssumption DEF PostTimesOut, Goto, Predict, TypeOK, TaskType, T0,
        TaskInv, Busy
  <2>2. TaskInv'
    BY <1>t, <1>23 DEF PostTimesOut, Goto, Predict, TypeOK, TaskType, TaskInv, Busy, Unresolved,
        ledger, local, world, effects
  <2>3. LedgerType' /\ LocalType' /\ RemoteType'
    BY <1>t, <1>23 DEF PostTimesOut, TypeOK, LedgerType, LocalType, RemoteType, ledger, local,
        remote
  <2>4. WorldType'
    BY <1>t, <1>23, CountersType DEF PostTimesOut, TypeOK, WorldType, world,
        effects
  <2>5. StoreInv' /\ RouteOnlyDurable' /\ SealedFirst'
    BY <1>t, <1>23 DEF PostTimesOut, StoreInv, RouteOnlyDurable, SealedFirst, ledger, local,
        remote, world, effects
  <2> QED
    BY <2>1, <2>2, <2>3, <2>4, <2>5 DEF IInv, TypeOK
<1>24. ASSUME Crash PROVE IInv'
  <2>1. pc' = "down" /\ mode' = "fresh" /\ cur' = 0 /\ symbol' = 0 /\ batch' = {} /\ found' = 0
    BY <1>24 DEF Crash
  <2>2. TaskType' /\ TaskInv'
    BY <1>t, <2>1, BoundsAssumption DEF TypeOK, TaskType, TaskInv, Busy, Unresolved
  <2>3. /\ journal' \in Seq(0..MaxT0) /\ torn' \in BOOLEAN /\ (torn' => journal' # <<>>)
        /\ \A i \in 1..Len(journal') : \/ pc = "log" /\ journal'[i] = cur
                                       \/ journal'[i] = Unparsable
                                       \/ \E k \in 1..Len(journal) : journal[k] = journal'[i]
    <3>1. CASE pc = "log"
      BY <1>t, <1>24, <3>1, JournalInterruptedIs DEF Crash
    <3>2. CASE pc # "log"
      BY <1>t, <1>24, <3>2 DEF Crash, TypeOK, LocalType, StoreInv
    <3> QED
      BY <3>1, <3>2
  <2>4. LedgerType' /\ LocalType' /\ RemoteType' /\ WorldType'
    BY <1>t, <1>24, <2>3, BoundsAssumption DEF Crash, TypeOK, TaskType, LedgerType, LocalType,
        RemoteType, WorldType, ledger, remote, world, effects
  <2>5. StoreInv' /\ RouteOnlyDurable'
    BY <1>t, <1>24, <2>3 DEF Crash, StoreInv, RouteOnlyDurable, ledger, world, effects
  <2>6. SealedFirst'
    BY <1>t, <1>24, <2>3 DEF Crash, TaskInv, SealedFirst, Busy, Unparsable, T0, ledger, remote
  <2> QED
    BY <2>2, <2>4, <2>5, <2>6 DEF IInv, TypeOK
<1>25. ASSUME RouteToPortfolio PROVE IInv'
  <2>1. /\ cur \in T0 /\ receipt[cur] = "PERSISTED" /\ cur \in sealed
        /\ \/ UNCHANGED treated
           \/ \E lane \in Lanes : treated' = [treated EXCEPT ![cur] = @ \cup {lane}]
    BY <1>t, <1>25 DEF RouteToPortfolio, Route, RouteRaises, effects, Lanes, TypeOK, TaskType,
        WorldType, TaskInv, Busy, T0
  <2>2. UNCHANGED <<ledger, local, remote, world, stale>> /\ crashes' \in 0..MaxCrashes /\ errors' \in 0..MaxErrors
    BY <1>t, <1>25, BoundsAssumption DEF RouteToPortfolio, Route, RouteRaises, NoFault, Error,
        faults, effects, TypeOK, WorldType
  <2>3. TaskType' /\ TaskInv'
    BY <1>t, <1>25, <2>1, <2>2 DEF RouteToPortfolio, Route, RouteRaises, Goto, TypeOK, TaskType,
        TaskInv, Busy, Unresolved, ledger, local, world
  <2>4. LedgerType' /\ LocalType' /\ RemoteType' /\ WorldType'
    BY <1>t, <2>1, <2>2 DEF TypeOK, TaskType, LedgerType, LocalType, RemoteType, WorldType, ledger,
        local, remote, world
  <2>5. StoreInv' /\ SealedFirst'
    BY <1>t, <2>2 DEF StoreInv, SealedFirst, ledger, local, remote, world
  <2>6. RouteOnlyDurable'
    BY <1>t, <2>1, <2>2 DEF TypeOK, WorldType, RouteOnlyDurable, ledger, local
  <2> QED
    BY <2>3, <2>4, <2>5, <2>6 DEF IInv, TypeOK
<1>26. ASSUME RouteToBinanceSim PROVE IInv'
  <2>1. /\ cur \in T0 /\ receipt[cur] = "PERSISTED" /\ cur \in sealed
        /\ \/ UNCHANGED treated
           \/ \E lane \in Lanes : treated' = [treated EXCEPT ![cur] = @ \cup {lane}]
    BY <1>t, <1>26 DEF RouteToBinanceSim, Route, RouteRaises, effects, Lanes, TypeOK, TaskType,
        WorldType, TaskInv, Busy, T0
  <2>2. UNCHANGED <<ledger, local, remote, world, stale>> /\ crashes' \in 0..MaxCrashes /\ errors' \in 0..MaxErrors
    BY <1>t, <1>26, BoundsAssumption DEF RouteToBinanceSim, Route, RouteRaises, NoFault, Error,
        faults, effects, TypeOK, WorldType
  <2>3. TaskType' /\ TaskInv'
    BY <1>t, <1>26, <2>2, LeavingKeeps DEF RouteToBinanceSim, Route, RouteRaises, ledger, TaskInv,
        Unresolved
  <2>4. LedgerType' /\ LocalType' /\ RemoteType' /\ WorldType'
    BY <1>t, <2>1, <2>2 DEF TypeOK, TaskType, LedgerType, LocalType, RemoteType, WorldType, ledger,
        local, remote, world
  <2>5. StoreInv' /\ SealedFirst'
    BY <1>t, <2>2 DEF StoreInv, SealedFirst, ledger, local, remote, world
  <2>6. RouteOnlyDurable'
    BY <1>t, <2>1, <2>2 DEF TypeOK, WorldType, RouteOnlyDurable, ledger, local
  <2> QED
    BY <2>3, <2>4, <2>5, <2>6 DEF IInv, TypeOK
<1>27. ASSUME Restart PROVE IInv'
  <2>1. TaskType'
    BY <1>t, <1>27, BoundsAssumption DEF Restart, Goto, Predict, TypeOK, TaskType, T0, TaskInv, Busy
  <2>2. TaskInv'
    BY <1>t, <1>27 DEF Restart, Goto, Predict, TypeOK, TaskType, TaskInv, Busy, Unresolved, ledger,
        local, world, effects
  <2>3. LedgerType' /\ LocalType' /\ RemoteType'
    BY <1>t, <1>27 DEF Restart, TypeOK, LedgerType, LocalType, RemoteType, ledger, local, remote
  <2>4. WorldType'
    BY <1>t, <1>27, CountersType DEF Restart, TypeOK, WorldType, world, effects
  <2>5. StoreInv' /\ RouteOnlyDurable' /\ SealedFirst'
    BY <1>t, <1>27 DEF Restart, StoreInv, RouteOnlyDurable, SealedFirst, ledger, local, remote,
        world, effects
  <2> QED
    BY <2>1, <2>2, <2>3, <2>4, <2>5 DEF IInv, TypeOK
<1>28. ASSUME NextCandle PROVE IInv'
  <2>1. TaskType'
    BY <1>t, <1>28, BoundsAssumption DEF NextCandle, Goto, Predict, TypeOK, TaskType, T0, TaskInv,
        Busy
  <2>2. TaskInv'
    BY <1>t, <1>28 DEF NextCandle, Goto, Predict, TypeOK, TaskType, TaskInv, Busy, Unresolved,
        ledger, local, world, effects
  <2>3. LedgerType' /\ LocalType' /\ RemoteType'
    BY <1>t, <1>28 DEF NextCandle, TypeOK, LedgerType, LocalType, RemoteType, ledger, local, remote
  <2>4. WorldType'
    <3>1. candle' \in 1..(MaxCandle + 1)
      BY <1>t, <1>28, BoundsAssumption DEF NextCandle, TypeOK, WorldType
    <3> QED
      BY <1>t, <1>28, <3>1, CountersType DEF NextCandle, TypeOK, WorldType, effects
  <2>5. StoreInv' /\ RouteOnlyDurable' /\ SealedFirst'
    BY <1>t, <1>28 DEF NextCandle, StoreInv, RouteOnlyDurable, SealedFirst, ledger, local, remote,
        world, effects
  <2> QED
    BY <2>1, <2>2, <2>3, <2>4, <2>5 DEF IInv, TypeOK
<1>29. ASSUME NEW w \in wire, GatewayAssignsId(w) PROVE IInv'
  <2>1. [w EXCEPT !.id = Len(d1) + 1] \in Post
    BY <1>t, <1>29 DEF TypeOK, RemoteType, Post
  <2>2. TaskType'
    BY <1>t, <1>29 DEF GatewayAssignsId, task, TypeOK, TaskType
  <2>3. TaskInv'
    BY <1>t, <1>29 DEF GatewayAssignsId, TaskInv, Busy, Unresolved, task, ledger, local, world,
        effects
  <2>4. LedgerType' /\ LocalType'
    BY <1>t, <1>29 DEF GatewayAssignsId, TypeOK, LedgerType, LocalType, ledger, local
  <2>5. RemoteType'
    BY <1>t, <1>29, <2>1 DEF GatewayAssignsId, TypeOK, RemoteType
  <2>6. WorldType'
    BY <1>t, <1>29, CountersType DEF GatewayAssignsId, TypeOK, WorldType, world,
        effects
  <2>7. StoreInv'
    BY <1>t, <1>29 DEF GatewayAssignsId, TypeOK, TaskType, WorldType, T0, TaskInv, StoreInv, Busy,
        ledger, local, world, effects
  <2>8. RouteOnlyDurable'
    BY <1>t, <1>29 DEF GatewayAssignsId, RouteOnlyDurable, ledger, local, effects
  <2>9. SealedFirst'
    BY <1>t, <1>29 DEF GatewayAssignsId, TypeOK, RemoteType, Post, SealedFirst, ledger, local
  <2> QED
    BY <2>2, <2>3, <2>4, <2>5, <2>6, <2>7, <2>8, <2>9 DEF IInv, TypeOK
<1>30. ASSUME NEW w \in wire, GatewayUpserts(w) PROVE IInv'
  <2>1. /\ d1' \in Seq(T0) /\ wire' \subseteq wire
       /\ \A i \in 1..Len(d1') : d1'[i] = w.t \/ \E k \in 1..Len(d1) : d1[k] = d1'[i]
    BY <1>t, <1>30, UpsertedIs DEF GatewayUpserts
  <2>2. w.t \in T0 /\ w.id \in Nat
    BY <1>t, <1>30 DEF TypeOK, RemoteType, Post
  <2>3. TaskType'
    BY <1>t, <1>30, <2>2 DEF GatewayUpserts, Awaited, Goto, TypeOK, TaskType, task
  <2>4. TaskInv'
    BY <1>t, <1>30 DEF GatewayUpserts, Awaited, Goto, TaskInv, Busy, Unresolved, task, ledger,
        local, world, effects
  <2>5. LedgerType' /\ LocalType'
    BY <1>t, <1>30 DEF GatewayUpserts, TypeOK, LedgerType, LocalType, ledger, local
  <2>6. RemoteType'
    BY <1>t, <1>30, <2>1 DEF GatewayUpserts, TypeOK, RemoteType
  <2>7. WorldType'
    BY <1>t, <1>30, CountersType DEF GatewayUpserts, TypeOK, WorldType, world,
        effects
  <2>8. StoreInv'
    BY <1>t, <1>30 DEF GatewayUpserts, TypeOK, TaskType, WorldType, T0, TaskInv, StoreInv, Busy,
        ledger, local, world, effects
  <2>9. RouteOnlyDurable'
    BY <1>t, <1>30 DEF GatewayUpserts, RouteOnlyDurable, ledger, local, effects
  <2>10. SealedFirst'
    BY <1>t, <1>30, <2>1, <2>2 DEF GatewayUpserts, SealedFirst, ledger, local
  <2> QED
    BY <2>3, <2>4, <2>5, <2>6, <2>7, <2>8, <2>9, <2>10 DEF IInv, TypeOK
<1>31. ASSUME NEW w \in wire, AnswerLost(w) PROVE IInv'
  <2>1. /\ d1' \in Seq(T0) /\ wire' \subseteq wire
       /\ \A i \in 1..Len(d1') : d1'[i] = w.t \/ \E k \in 1..Len(d1) : d1[k] = d1'[i]
    BY <1>t, <1>31, UpsertedIs DEF AnswerLost
  <2>2. w.t \in T0 /\ w.id \in Nat
    BY <1>t, <1>31 DEF TypeOK, RemoteType, Post
  <2>3. TaskType'
    BY <1>t, <1>31, <2>2 DEF AnswerLost, Awaited, Goto, TypeOK, TaskType, task
  <2>4. TaskInv'
    BY <1>t, <1>31 DEF AnswerLost, Awaited, Goto, TaskInv, Busy, Unresolved, task, ledger, local,
        world, effects
  <2>5. LedgerType' /\ LocalType'
    BY <1>t, <1>31 DEF AnswerLost, TypeOK, LedgerType, LocalType, ledger, local
  <2>6. RemoteType'
    BY <1>t, <1>31, <2>1 DEF AnswerLost, TypeOK, RemoteType
  <2>7. WorldType'
    BY <1>t, <1>31, CountersType DEF AnswerLost, TypeOK, WorldType, world,
        effects
  <2>8. StoreInv'
    BY <1>t, <1>31 DEF AnswerLost, TypeOK, TaskType, WorldType, T0, TaskInv, StoreInv, Busy,
        ledger, local, world, effects
  <2>9. RouteOnlyDurable'
    BY <1>t, <1>31 DEF AnswerLost, RouteOnlyDurable, ledger, local, effects
  <2>10. SealedFirst'
    BY <1>t, <1>31, <2>1, <2>2 DEF AnswerLost, SealedFirst, ledger, local
  <2> QED
    BY <2>3, <2>4, <2>5, <2>6, <2>7, <2>8, <2>9, <2>10 DEF IInv, TypeOK
<1>32. ASSUME NEW w \in wire, PostFails(w) PROVE IInv'
  <2>1. TaskType'
    BY <1>t, <1>32 DEF PostFails, Awaited, Goto, TypeOK, TaskType, task
  <2>2. TaskInv'
    BY <1>t, <1>32 DEF PostFails, Awaited, Goto, TaskInv, Busy, Unresolved, task, ledger, local,
        world, effects
  <2>3. LedgerType' /\ LocalType' /\ RemoteType'
    BY <1>t, <1>32 DEF PostFails, TypeOK, LedgerType, LocalType, RemoteType, ledger, local, remote
  <2>4. WorldType'
    BY <1>t, <1>32, CountersType DEF PostFails, TypeOK, WorldType, world,
        effects
  <2>5. StoreInv' /\ RouteOnlyDurable' /\ SealedFirst'
    BY <1>t, <1>32 DEF PostFails, StoreInv, RouteOnlyDurable, SealedFirst, ledger, local, remote,
        world, effects
  <2> QED
    BY <2>1, <2>2, <2>3, <2>4, <2>5 DEF IInv, TypeOK
<1>33. ASSUME UNCHANGED vars PROVE IInv'
  <2>1. UNCHANGED <<task, ledger, local, remote, world, effects, faults>>
    BY <1>33 DEF vars
  <2>2. TypeOK'
    BY <1>t, <2>1 DEF TypeOK, TaskType, LedgerType, LocalType, RemoteType, WorldType, task, ledger,
        local, remote, world, effects, faults
  <2>3. TaskInv' /\ StoreInv'
    BY <1>t, <2>1 DEF TaskInv, StoreInv, Unresolved, task, ledger, local, world, effects
  <2>4. RouteOnlyDurable' /\ SealedFirst'
    BY <1>t, <2>1 DEF RouteOnlyDurable, SealedFirst, ledger, local, remote, effects
  <2> QED
    BY <2>2, <2>3, <2>4 DEF IInv
<1>34. ASSUME PendingRaises PROVE IInv'
  <2>1. TaskType' /\ TaskInv'
    BY <1>34, PredictKeeps DEF PendingRaises
  <2>2. LedgerType' /\ LocalType' /\ RemoteType'
    BY <1>t, <1>34 DEF PendingRaises, TypeOK, LedgerType, LocalType, RemoteType, ledger, local,
        remote
  <2>3. WorldType'
    <3>1. crashes' \in 0..MaxCrashes /\ errors' \in 0..MaxErrors
      BY <1>t, <1>34, CountersType DEF PendingRaises
    <3>2. stale' \subseteq T0
      BY <1>t, <1>34, BoundsAssumption DEF PendingRaises, TypeOK, WorldType, T0
    <3>3. UNCHANGED <<candle, generated, obs, treated>>
      BY <1>34 DEF PendingRaises, world
    <3> QED
      BY <1>t, <3>1, <3>2, <3>3 DEF TypeOK, WorldType
  <2>4. StoreInv' /\ RouteOnlyDurable' /\ SealedFirst'
    BY <1>t, <1>34 DEF PendingRaises, StoreInv, RouteOnlyDurable, SealedFirst, ledger, local,
        remote, world
  <2> QED
    BY <2>1, <2>2, <2>3, <2>4 DEF IInv, TypeOK
<1>35. ASSUME EnqueueAgainRaises PROVE IInv'
  <2>1. TaskType' /\ TaskInv'
    BY <1>t, <1>35, LeavingKeeps DEF EnqueueAgainRaises, ledger, TaskInv, Unresolved
  <2>2. LedgerType' /\ LocalType' /\ RemoteType'
    BY <1>t, <1>35 DEF EnqueueAgainRaises, TypeOK, LedgerType, LocalType, RemoteType, ledger,
        local, remote
  <2>3. WorldType'
    BY <1>t, <1>35, CountersType DEF EnqueueAgainRaises, TypeOK, WorldType, world, effects
  <2>4. StoreInv' /\ RouteOnlyDurable' /\ SealedFirst'
    BY <1>t, <1>35 DEF EnqueueAgainRaises, StoreInv, RouteOnlyDurable, SealedFirst, ledger, local,
        remote, world, effects
  <2> QED
    BY <2>1, <2>2, <2>3, <2>4 DEF IInv, TypeOK
<1> QED
  BY <1>1, <1>2, <1>3, <1>4, <1>5, <1>6, <1>7, <1>8, <1>9, <1>10, <1>11,
     <1>12, <1>13, <1>14, <1>15, <1>16, <1>17, <1>18, <1>19, <1>20, <1>21, <1>22,
     <1>23, <1>24, <1>25, <1>26, <1>27, <1>28, <1>29, <1>30, <1>31, <1>32, <1>33,
     <1>34, <1>35
  DEF Next, Loop, Stores, Client, Gateway, Faults

LEMMA PipelineInvariant == Spec => []IInv
BY InitIInv, NextIInv, PTL DEF Spec

\* The stores, the task, the gateway and the history always have their types:
\* ranks of receipts stay numbers, a crash never leaves a T0 half selected.
THEOREM PipelineTypeCorrect == Spec => []TypeOK
<1>1. IInv => TypeOK
  BY DEF IInv
<1> QED
  BY <1>1, PipelineInvariant, PTL

\* _persist_and_route_prediction: no lane ever sees a T0 without a sealed
\* packet and a persisted authority receipt, for any faults.
THEOREM RoutesOnlyDurable == Spec => []RouteOnlyDurable
<1>1. IInv => RouteOnlyDurable
  BY DEF IInv
<1> QED
  BY <1>1, PipelineInvariant, PTL

\* An authority row, a dedupe marker or a POST under way always has its audit
\* packet and its outbox entry, also after the crash of the writer.
THEOREM EvidenceComesFirst == Spec => []SealedFirst
<1>1. IInv => SealedFirst
  BY DEF IInv
<1> QED
  BY <1>1, PipelineInvariant, PTL

\* _retry_pending_authority_persistence repairs lineage and routes nothing: a
\* lane only ever receives the T0 that the current cycle generated.
THEOREM NeverRetroactive == Spec => NoRetroactiveRouting
<1>1. IInv /\ [Next]_vars =>
        [\A t \in T0 : treated'[t] # treated[t] => t \notin stale /\ t = generated]_vars
  <2> SUFFICES ASSUME IInv, Next
               PROVE  \A t \in T0 : treated'[t] # treated[t] => t \notin stale /\ t = generated
    OBVIOUS
  <2>1. CASE RouteToPortfolio \/ RouteToBinanceSim
    <3>1. /\ cur = generated /\ generated \notin stale /\ treated \in [T0 -> SUBSET Lanes]
          /\ \/ UNCHANGED treated
             \/ \E lane \in Lanes : treated' = [treated EXCEPT ![cur] = @ \cup {lane}]
      BY <2>1 DEF IInv, TypeOK, WorldType, TaskInv, Busy, RouteToPortfolio, RouteToBinanceSim,
                  Route, RouteRaises, effects, Lanes
    <3> QED
      BY <3>1
  <2>2. CASE Loop \/ Stores
    BY <2>2 DEF Loop, Stores, StartCycle, TakeReceipt, EndRetry, EndCycle, CycleWithoutMarket,
                SkipSymbol, Generate, Enqueue, Seal, LogPrediction, MarkPersisted, MarkFailed,
                effects
  <2>3. CASE Client \/ Gateway \/ Restart \/ NextCandle
    BY <2>3 DEF Client, Gateway, LookupFinds, LookupFindsNone, LookupConflicts, Insert,
                GatewayAssignsId, GatewayUpserts, Restart, NextCandle, effects
  <2>4. CASE Faults
    BY <2>4 DEF Faults, PendingRaises, EnqueueRaises, EnqueueAgainRaises, SealRaises, LogRaises,
                LookupRaises, PostTimesOut, MarkPersistedRaises, MarkFailedRaises, Crash,
                AnswerLost, PostFails, effects
  <2> QED
    BY <2>1, <2>2, <2>3, <2>4 DEF Next
<1> QED
  BY <1>1, PipelineInvariant, PTL DEF Spec, NoRetroactiveRouting


-----------------------------------------------------------------------------
\* A POST that its call does not outlive: there is one at a time, for a T0
\* that has no row yet, and the id the gateway took for it is still free.
\* Only then does every row keep its T0 and every T0 get at most one row.
RowInv ==
    /\ \A i, j \in 1..Len(d1) : d1[i] = d1[j] => i = j
    /\ \A w, x \in wire : w = x
    /\ \A w \in wire : w.n = posts /\ w.id \in {0, Len(d1) + 1}
    /\ \A w \in wire : \A i \in 1..Len(d1) : d1[i] # w.t
    /\ pc = "insert" => wire = {} /\ \A i \in 1..Len(d1) : d1[i] # cur
    /\ pc = "await" => \A w \in wire : w.t = cur
    /\ pc = "mark" => found \in 1..Len(d1) /\ d1[found] = cur
    /\ \A t \in T0 : receipt[t] # "PERSISTED" => bound[t] = 0
    /\ LineageExact

LEMMA InitRowInv == Init => RowInv
BY DEF Init, RowInv, LineageExact

\* A step that leaves receipts and rows alone and does not set out to insert,
\* await or mark.
RowsQuiet ==
    /\ UNCHANGED <<receipt, bound, d1, wire, posts>>
    /\ pc' \in {"insert", "await", "mark"} => UNCHANGED <<pc, cur, found>>

LEMMA QuietKeepsRowInv == ASSUME RowInv, RowsQuiet PROVE RowInv'
BY DEF RowInv, RowsQuiet, LineageExact

\* Leaving a T0 never leads to an insert.
LEMMA LeavingGoes == ASSUME Done \/ Abandon PROVE pc' \in {"symbol", "retry"}
BY DEF Done, Abandon, Predict

\* With one POST at a time an upsert appends a row for a T0 that had none.
LEMMA UpsertedAppends ==
    ASSUME TypeOK, RowInv, NEW w \in wire, Upserted(w)
    PROVE  /\ w.id = Len(d1) + 1 /\ d1' = Append(d1, w.t) /\ wire' = {}
           /\ d1' \in Seq(T0) /\ Len(d1') = Len(d1) + 1 /\ d1'[Len(d1) + 1] = w.t
           /\ \A i \in 1..Len(d1) : d1'[i] = d1[i]
<1>1. d1 \in Seq(T0) /\ Len(d1) \in Nat /\ w.t \in T0
  BY DEF TypeOK, RemoteType, Post
<1>2. w.id = Len(d1) + 1 /\ d1' = Append(d1, w.t)
  BY <1>1 DEF RowInv, Upserted
<1>3. wire' = {}
  BY DEF RowInv, Upserted
<1> QED
  BY <1>1, <1>2, <1>3

\* What such an upsert does to the rest: a task that awaits the POST's answer
\* finds the row, one that does not is left where it was or looks it up again.
LEMMA UpsertKeepsRowInv ==
    ASSUME TypeOK, RowInv, UNCHANGED <<receipt, bound, posts>>,
           NEW w \in wire, Upserted(w),
           \/ pc' = "mark" /\ found' = w.id /\ cur' = cur /\ pc = "await"
           \/ pc' = pc /\ pc # "await" /\ UNCHANGED <<cur, found>>
           \/ pc' = "relookup"
    PROVE  RowInv'
<1>1. /\ w.id = Len(d1) + 1 /\ wire' = {} /\ Len(d1) \in Nat /\ Len(d1') = Len(d1) + 1
      /\ d1'[Len(d1) + 1] = w.t /\ \A i \in 1..Len(d1) : d1'[i] = d1[i] /\ d1[i] # w.t
  BY UpsertedAppends DEF TypeOK, RemoteType, RowInv
<1>2. \A i, j \in 1..Len(d1') : d1'[i] = d1'[j] => i = j
  BY <1>1 DEF RowInv
<1>3. /\ pc' = "insert" => \A i \in 1..Len(d1') : d1'[i] # cur'
      /\ pc' = "mark" => found' \in 1..Len(d1') /\ d1'[found'] = cur'
  BY <1>1 DEF RowInv
<1>4. LineageExact'
  BY <1>1 DEF RowInv, LineageExact
<1> QED
  BY <1>1, <1>2, <1>3, <1>4 DEF RowInv

LEMMA NextRowInv == ~PostsMayOverlap /\ IInv /\ RowInv /\ [Next]_vars => RowInv'
<1> SUFFICES ASSUME ~PostsMayOverlap, IInv, RowInv, [Next]_vars PROVE RowInv'
  OBVIOUS
<1>t. TypeOK /\ TaskInv
  BY DEF IInv
<1>1. CASE Loop
  <2>1. RowsQuiet
    BY <1>1 DEF Loop, StartCycle, TakeReceipt, EndRetry, EndCycle, CycleWithoutMarket, SkipSymbol,
        Generate, Predict, ledger, remote, RowsQuiet
  <2> QED
    BY <2>1, QuietKeepsRowInv
<1>2. CASE Seal \/ LogPrediction \/ LookupConflicts \/ Restart \/ NextCandle
  <2>1. RowsQuiet
    BY <1>2 DEF Seal, LogPrediction, LookupConflicts, Restart, NextCandle, Goto, ledger, remote,
        RowsQuiet
  <2> QED
    BY <2>1, QuietKeepsRowInv
<1>3. CASE RouteToPortfolio \/ RouteToBinanceSim
  <2>1. RowsQuiet
    BY <1>3, LeavingGoes DEF RouteToPortfolio, RouteToBinanceSim, Route, RouteRaises, Goto, ledger,
        remote, RowsQuiet
  <2> QED
    BY <2>1, QuietKeepsRowInv
<1>4. CASE \/ PendingRaises \/ EnqueueAgainRaises \/ SealRaises \/ LogRaises \/ LookupRaises
           \/ PostTimesOut \/ Crash
  <2>1. RowsQuiet
    BY <1>4, LeavingGoes DEF PendingRaises, EnqueueAgainRaises, SealRaises, LogRaises, LookupRaises,
        PostTimesOut, Crash, Predict, Goto, ledger, remote, RowsQuiet
  <2> QED
    BY <2>1, QuietKeepsRowInv
<1>5. ASSUME Enqueue \/ EnqueueRaises \/ MarkFailed \/ MarkFailedRaises PROVE RowInv'
  <2>1. /\ UNCHANGED <<bound, d1, wire, posts>> /\ pc' \in {"seal", "symbol", "retry"}
        /\ \/ receipt' = receipt
           \/ \E s \in {"ENQUEUED", "FAILED"} : receipt' = [receipt EXCEPT ![cur] = s]
    BY <1>5, LeavingGoes DEF Enqueue, EnqueueRaises, MarkFailed, MarkFailedRaises, Enqueued, Failed,
        Goto, ledger, remote
  <2>2. receipt[cur] # "PERSISTED" /\ cur \in T0
    <3>1. pc \in {"enqueue", "fail"}
      BY <1>5 DEF Enqueue, EnqueueRaises, MarkFailed, MarkFailedRaises
    <3> QED
      BY <1>t, <3>1, BoundsAssumption DEF TypeOK, WorldType, TaskInv, Busy, T0
  <2>3. \A t \in T0 : receipt'[t] = "PERSISTED" <=> receipt[t] = "PERSISTED"
    BY <1>t, <2>1, <2>2 DEF TypeOK, LedgerType
  <2> QED
    BY <2>1, <2>3 DEF RowInv, LineageExact
<1>6. ASSUME MarkPersisted \/ MarkPersistedRaises PROVE RowInv'
  <2>1. /\ UNCHANGED <<d1, wire, posts>> /\ pc' \in {"route", "symbol", "retry"}
        /\ \/ UNCHANGED <<receipt, bound>>
           \/ /\ receipt' = [receipt EXCEPT ![cur] = "PERSISTED"]
              /\ bound' = [bound EXCEPT ![cur] = found]
    BY <1>6, LeavingGoes DEF MarkPersisted, MarkPersistedRaises, Persisted, Goto, ledger, remote
  <2>2. found \in 1..Len(d1) /\ d1[found] = cur
    BY <1>6 DEF MarkPersisted, MarkPersistedRaises, RowInv
  <2>3. /\ \A t \in T0 : receipt'[t] # "PERSISTED" => bound'[t] = 0
        /\ LineageExact'
    BY <1>t, <2>1, <2>2 DEF TypeOK, LedgerType, RowInv, LineageExact
  <2> QED
    BY <2>1, <2>3 DEF RowInv
<1>7. ASSUME LookupFinds PROVE RowInv'
  BY <1>7 DEF LookupFinds, Rows, ledger, remote, RowInv, LineageExact
<1>8. ASSUME LookupFindsNone PROVE RowInv'
  <2>1. /\ UNCHANGED <<receipt, bound, d1, wire, posts, cur>> /\ pc' \in {"insert", "fail"}
        /\ pc' = "insert" => wire = {}
        /\ \A i \in 1..Len(d1) : d1[i] # cur
    BY <1>8 DEF LookupFindsNone, LookupReady, Rows, Goto, ledger, remote
  <2> QED
    BY <2>1 DEF RowInv, LineageExact
<1>9. ASSUME Insert PROVE RowInv'
  <2>1. /\ UNCHANGED <<receipt, bound, d1, cur>> /\ pc' = "await" /\ posts' = posts + 1
        /\ wire' = {[n |-> posts + 1, t |-> cur, id |-> 0]}
        /\ \A i \in 1..Len(d1) : d1[i] # cur
    BY <1>9 DEF Insert, Goto, ledger, RowInv
  <2> QED
    BY <2>1 DEF RowInv, LineageExact
<1>10. ASSUME NEW w \in wire, GatewayAssignsId(w) PROVE RowInv'
  <2>1. /\ UNCHANGED <<receipt, bound, d1, posts, pc, cur, found>>
        /\ wire' = {[w EXCEPT !.id = Len(d1) + 1]}
    BY <1>10 DEF GatewayAssignsId, ledger, task, RowInv
  <2>2. [w EXCEPT !.id = Len(d1) + 1].n = w.n /\ [w EXCEPT !.id = Len(d1) + 1].t = w.t
        /\ [w EXCEPT !.id = Len(d1) + 1].id = Len(d1) + 1
    BY <1>t DEF TypeOK, RemoteType, Post
  <2> QED
    BY <2>1, <2>2 DEF RowInv, LineageExact
<1>11. ASSUME NEW w \in wire, GatewayUpserts(w) \/ AnswerLost(w) PROVE RowInv'
  <2>1. pc = "await" <=> Awaited(w)
    BY DEF Awaited, RowInv
  <2>2. /\ Upserted(w) /\ UNCHANGED <<receipt, bound, posts>>
        /\ \/ pc' = "mark" /\ found' = w.id /\ cur' = cur /\ pc = "await"
           \/ pc' = pc /\ pc # "await" /\ UNCHANGED <<cur, found>>
           \/ pc' = "relookup"
    BY <1>11, <2>1 DEF GatewayUpserts, AnswerLost, Goto, ledger, task
  <2> QED
    BY <1>t, <2>2, UpsertKeepsRowInv
<1>12. ASSUME NEW w \in wire, PostFails(w) PROVE RowInv'
  <2>1. /\ UNCHANGED <<receipt, bound, d1, posts, cur, found>> /\ wire' = {}
        /\ pc' \in {pc, "relookup"}
    BY <1>12 DEF PostFails, Goto, ledger, task, RowInv
  <2> QED
    BY <2>1 DEF RowInv, LineageExact
<1>13. CASE UNCHANGED vars
  <2>1. RowsQuiet
    BY <1>13 DEF vars, task, ledger, remote, RowsQuiet
  <2> QED
    BY <2>1, QuietKeepsRowInv
<1> QED
  BY <1>1, <1>2, <1>3, <1>4, <1>5, <1>6, <1>7, <1>8, <1>9, <1>10, <1>11, <1>12, <1>13
  DEF Next, Stores, Client, Gateway, Faults

LEMMA RowInvariant == ASSUME ~PostsMayOverlap PROVE Spec => []RowInv
<1>1. RowInv /\ IInv /\ [Next]_vars => RowInv'
  BY NextRowInv
<1> QED
  BY <1>1, InitRowInv, PipelineInvariant, PTL DEF Spec

\* mark_persisted binds a receipt for good: as long as no POST outlives its
\* call, the id on the receipt is that of the T0's own row, whatever is lost,
\* timed out or retried, and no later POST takes it over.
THEOREM LineageIsExact == ASSUME ~PostsMayOverlap PROVE Spec => []LineageExact
<1>1. RowInv => LineageExact
  BY DEF RowInv
<1> QED
  BY <1>1, RowInvariant, PTL

-----------------------------------------------------------------------------
\* check_candle_duplicate reads a few lines only. They are enough when one line
\* per symbol for every candle an exchange may still serve, and one for every
\* failure to serve any, fit into them.
WindowCovers == DedupeWindow >= NSymbols * (2 * Lag + 1) + MaxErrors

Known(t) == obs[t].candle # NoCandle
Undated == {t \in 1..generated : ~Known(t)}

\* The market's clock in the T0s: no candle of the future, none further behind
\* an earlier one than the exchanges lag, and an error for every unknown one.
DatedInv ==
    /\ \A t \in T0 : t > generated => obs[t] = NoObs
    /\ \A t \in 1..generated : obs[t].candle <= candle /\ obs[t].sym # 0
    /\ \A t, u \in 1..generated : t < u /\ Known(u) => obs[t].candle <= obs[u].candle + Lag
    /\ Cardinality(Undated) <= errors
    /\ pc = "symbol" => symbol # 0

LEMMA InitDatedInv == Init => DatedInv
<1> SUFFICES ASSUME Init PROVE DatedInv
  OBVIOUS
<1>1. Undated = {}
  BY DEF Init, Undated
<1>2. Cardinality(Undated) = 0
  BY <1>1, FS_EmptySet
<1> QED
  BY <1>2 DEF Init, DatedInv

LEMMA UndatedFinite == ASSUME TypeOK PROVE IsFiniteSet(Undated) /\ Cardinality(Undated) \in Nat
<1>1. generated \in Nat
  BY DEF TypeOK, WorldType
<1>2. IsFiniteSet(1..generated)
  BY <1>1, FS_Interval
<1>3. IsFiniteSet(Undated)
  BY <1>2, FS_Subset DEF Undated
<1> QED
  BY <1>3, FS_CardinalityType

LEMMA NextDatedInv == IInv /\ DatedInv /\ [Next]_vars => DatedInv'
<1> SUFFICES ASSUME IInv, DatedInv, [Next]_vars PROVE DatedInv'
  OBVIOUS
<1>t. /\ TypeOK /\ generated \in Nat /\ errors \in Nat /\ candle \in Nat
      /\ obs \in [T0 -> [sym : 0..NSymbols, candle : 0..MaxCandle]]
  BY DEF IInv, TypeOK, WorldType
<1>1. CASE /\ UNCHANGED <<obs, generated>>
           /\ candle' \in {candle, candle + 1} /\ errors' \in {errors, errors + 1}
           /\ pc' = "symbol" => symbol' = symbol + 1 \/ symbol' = 1 \/ UNCHANGED <<pc, symbol>>
  <2>1. Undated' = Undated
    BY <1>1 DEF Undated, Known
  <2>2. Cardinality(Undated') <= errors'
    BY <1>t, <1>1, <2>1, UndatedFinite DEF DatedInv
  <2>3. \A t \in 1..generated : obs[t].candle <= candle'
    <3>1. \A t \in 1..generated : obs[t].candle \in Nat
      BY <1>t, BoundsAssumption DEF TypeOK, WorldType, T0
    <3> QED
      BY <1>t, <1>1, <3>1 DEF DatedInv
  <2>4. pc' = "symbol" => symbol' # 0
    BY <1>t, <1>1 DEF TypeOK, TaskType, DatedInv
  <2> QED
    BY <1>1, <2>2, <2>3, <2>4 DEF DatedInv, Known
<1>2. ASSUME Generate PROVE DatedInv'
  <2> DEFINE g == generated + 1
  <2>1. PICK c \in 0..candle :
            /\ IF c = NoCandle THEN Error ELSE c + Lag >= candle /\ NoFault
            /\ generated' = g /\ obs' = [obs EXCEPT ![g] = [sym |-> symbol, candle |-> c]]
    BY <1>2 DEF Generate
  <2>2. g \in T0 /\ symbol # 0 /\ candle' = candle /\ c \in Nat
    <3>1. generated < MaxT0 /\ candle' = candle /\ symbol # 0
      BY <1>2 DEF Generate, DatedInv
    <3> QED
      BY <1>t, <3>1, BoundsAssumption DEF T0
  <2>3. /\ obs'[g] = [sym |-> symbol, candle |-> c] /\ \A t \in T0 \ {g} : obs'[t] = obs[t]
        /\ \A t \in 1..generated : t \in T0 \ {g} /\ obs'[t] = obs[t] /\ obs[t].candle \in Nat
        /\ 1..g = (1..generated) \cup {g}
    BY <1>t, <2>1, <2>2, BoundsAssumption DEF T0
  <2>4. Undated' = IF c = NoCandle THEN Undated \cup {g} ELSE Undated
    BY <1>t, <2>1, <2>3 DEF Undated, Known
  <2>5. Cardinality(Undated') <= errors'
    <3>1. g \notin Undated
      BY <1>t DEF Undated
    <3>2. CASE c = NoCandle
      <4>1. Cardinality(Undated') = Cardinality(Undated) + 1
        BY <1>t, <2>4, <3>1, <3>2, UndatedFinite, FS_AddElement
      <4>2. errors' = errors + 1
        BY <2>1, <3>2 DEF Error
      <4> QED
        BY <1>t, <4>1, <4>2, UndatedFinite DEF DatedInv
    <3>3. CASE c # NoCandle
      BY <1>t, <2>1, <2>4, <3>3 DEF DatedInv, NoFault, faults
    <3> QED
      BY <3>2, <3>3
  <2>6. \A t \in 1..generated : c # NoCandle => obs[t].candle <= c + Lag
    BY <1>t, <2>1, <2>2, <2>3, BoundsAssumption DEF DatedInv
  <2>7. \A t \in T0 : t > generated' => obs'[t] = NoObs
    BY <1>t, <2>1, <2>3 DEF DatedInv, T0
  <2>8. \A t \in 1..generated' : obs'[t].candle <= candle' /\ obs'[t].sym # 0
    BY <1>t, <2>1, <2>2, <2>3 DEF DatedInv
  <2>9. \A t, u \in 1..generated' : t < u /\ obs'[u].candle # NoCandle => obs'[t].candle <= obs'[u].candle + Lag
    BY <1>t, <2>1, <2>3, <2>6 DEF DatedInv, Known
  <2> QED
    BY <1>2, <2>5, <2>7, <2>8, <2>9 DEF Generate, DatedInv, Known
<1>3. ASSUME NextCandle PROVE DatedInv'
  BY <1>1, <1>3 DEF NextCandle, NoFault, faults
<1>4. ASSUME Loop PROVE DatedInv'
  BY <1>1, <1>2, <1>4 DEF Loop, StartCycle, TakeReceipt, EndRetry, EndCycle, CycleWithoutMarket,
      SkipSymbol, Predict, world, NoFault, faults
<1>5. ASSUME Stores \/ Client \/ Restart PROVE DatedInv'
  BY <1>1, <1>5 DEF Stores, Enqueue, Seal, LogPrediction, MarkPersisted, MarkFailed, Client,
      LookupFinds, LookupFindsNone, LookupConflicts, Insert, Restart, Done,
      Abandon, Predict, Goto, world, NoFault, faults
<1>6. ASSUME Gateway PROVE DatedInv'
  BY <1>1, <1>6 DEF Gateway, GatewayAssignsId, GatewayUpserts, task, world, NoFault, faults
<1>7. ASSUME RouteToPortfolio \/ RouteToBinanceSim PROVE DatedInv'
  BY <1>1, <1>7 DEF RouteToPortfolio, RouteToBinanceSim, Route, RouteRaises, Done, Predict,
      Goto, Error, world, NoFault, faults
<1>8. ASSUME Faults PROVE DatedInv'
  BY <1>1, <1>8 DEF Faults, PendingRaises, EnqueueRaises, EnqueueAgainRaises, SealRaises, LogRaises,
      LookupRaises, PostTimesOut, MarkPersistedRaises, MarkFailedRaises, Crash, AnswerLost,
      PostFails, Done, Abandon, Predict, Goto, task, Error, world
<1>9. ASSUME UNCHANGED vars PROVE DatedInv'
  BY <1>1, <1>9 DEF vars, task, world, faults
<1> QED
  BY <1>3, <1>4, <1>5, <1>6, <1>7, <1>8, <1>9 DEF Next

-----------------------------------------------------------------------------
\* A fresh T0 on its way to the journal, and one that is in it.
Unlogged == {"enqueue", "seal", "log"}
InJournal == {"lookup", "insert", "await", "relookup", "mark", "route", "sim"}

Logged(t) == \E i \in 1..Len(journal) : journal[i] = t

\* The journal of a writer whose appends are never torn: T0s in the order of
\* their generation, one per known symbol and candle, the treated ones among
\* them; the T0 still to be logged repeats none.
LoggedInv ==
    /\ torn = FALSE
    /\ \A i \in 1..Len(journal) : journal[i] \in 1..generated
    /\ \A i, j \in 1..Len(journal) : i < j => journal[i] < journal[j]
    /\ \A i, j \in 1..Len(journal) :
            Known(journal[i]) /\ obs[journal[i]] = obs[journal[j]] => i = j
    /\ pc \in Unlogged /\ mode = "fresh" =>
            \A i \in 1..Len(journal) :
                journal[i] < cur /\ (Known(cur) => obs[journal[i]] # obs[cur])
    /\ pc \in InJournal /\ mode = "fresh" => Logged(cur)
    /\ \A t \in T0 : treated[t] # {} => Logged(t)

LEMMA InitLoggedInv == Init => LoggedInv
BY DEF Init, LoggedInv, Unlogged, InJournal

\* Pigeonhole: an injection bounds the number of elements.
LEMMA InjectionBounds ==
    ASSUME NEW S, IsFiniteSet(S), NEW T, IsFiniteSet(T), NEW f \in [S -> T],
           \A x, y \in S : f[x] = f[y] => x = y
    PROVE  Cardinality(S) <= Cardinality(T)
<1>1. Cardinality(S) \in Nat /\ Cardinality(T) \in Nat
  BY FS_CardinalityType
<1>2. ~(Cardinality(T) < Cardinality(S))
  BY FS_PigeonHole
<1> QED
  BY <1>1, <1>2

\* Candles at most L apart, and the same number of candles from a third.
LEMMA Offset ==
    ASSUME NEW a \in Nat, NEW b \in Nat, NEW L \in Nat, a <= b + L, b <= a + L
    PROVE  b + L - a \in 0..(2 * L)
OBVIOUS

LEMMA SameOffset ==
    ASSUME NEW a \in Nat, NEW b \in Nat, NEW c \in Nat, NEW L \in Nat, a + L - c = b + L - c
    PROVE  a = b
OBVIOUS

\* Why the window is wide enough: a line whose candle an exchange may still
\* serve is followed only by lines of candles close to it and by unknown ones.
LEMMA WindowHolds ==
    ASSUME WindowCovers, TypeOK, DatedInv, LoggedInv,
           NEW i \in 1..Len(journal), Known(journal[i]),
           obs[journal[i]].candle + Lag >= candle
    PROVE  i + DedupeWindow > Len(journal)
<1> DEFINE c == obs[journal[i]].candle
           S == i..Len(journal)
           K == {k \in S : Known(journal[k])}
           U == {k \in S : ~Known(journal[k])}
           Near == (1..NSymbols) \X (0..(2 * Lag))
<1>t. /\ Len(journal) \in Nat /\ generated \in Nat /\ generated <= MaxT0 /\ candle \in Nat
      /\ obs \in [T0 -> [sym : 0..NSymbols, candle : 0..MaxCandle]] /\ errors \in 0..MaxErrors
      /\ Lag \in Nat /\ NSymbols \in Nat /\ MaxErrors \in Nat /\ DedupeWindow \in Nat /\ MaxCandle \in Nat
  BY BoundsAssumption DEF TypeOK, LocalType, WorldType
<1>n. /\ Len(journal) \in Nat /\ i \in 1..Len(journal) /\ candle \in Nat /\ errors \in 0..MaxErrors
      /\ Lag \in Nat /\ NSymbols \in Nat /\ MaxErrors \in Nat /\ DedupeWindow \in Nat
  BY <1>t
<1>1. \A k \in 1..Len(journal) : journal[k] \in 1..generated /\ journal[k] \in T0 /\ journal[k] \in Nat
  <2>1. generated \in Nat /\ 1..generated \subseteq T0
    BY <1>t, BoundsAssumption DEF T0
  <2> QED
    BY <2>1 DEF LoggedInv
<1>2. \A k \in 1..Len(journal) :
            /\ obs[journal[k]] = [sym |-> obs[journal[k]].sym, candle |-> obs[journal[k]].candle]
            /\ obs[journal[k]].sym \in 1..NSymbols /\ obs[journal[k]].candle \in Nat
            /\ obs[journal[k]].candle <= candle
  <2>1. \A k \in 1..Len(journal) : obs[journal[k]] \in [sym : 0..NSymbols, candle : 0..MaxCandle]
    BY <1>t, <1>1
  <2>2. \A k \in 1..Len(journal) : obs[journal[k]].sym # 0 /\ obs[journal[k]].candle <= candle
    BY <1>1 DEF DatedInv
  <2> QED
    BY <1>t, <2>1, <2>2
<1>3. S \subseteq 1..Len(journal) /\ IsFiniteSet(S) /\ Cardinality(S) = Len(journal) - i + 1
  BY <1>t, FS_Interval
<1>4. /\ IsFiniteSet(K) /\ IsFiniteSet(U) /\ S = K \cup U /\ K \cap U = {}
      /\ Cardinality(K) \in Nat /\ Cardinality(U) \in Nat
      /\ Cardinality(S) = Cardinality(K) + Cardinality(U)
  <2>1. IsFiniteSet(K) /\ IsFiniteSet(U) /\ S = K \cup U /\ K \cap U = {}
    BY <1>3, FS_Subset
  <2>2. Cardinality(K) \in Nat /\ Cardinality(U) \in Nat /\ Cardinality(K \cap U) = 0
    BY <2>1, FS_CardinalityType, FS_EmptySet
  <2> HIDE DEF S, K, U
  <2>3. Cardinality(K \cup U) = Cardinality(K) + Cardinality(U) - 0
    BY <2>1, <2>2, FS_Union
  <2> QED
    BY <2>1, <2>2, <2>3
<1>5. Cardinality(U) <= errors
  <2>1. [k \in U |-> journal[k]] \in [U -> Undated]
    BY <1>1, <1>3 DEF Undated
  <2>2. \A k, l \in U : journal[k] = journal[l] => k = l
    <3>1. \A k, l \in 1..Len(journal) : k < l => journal[k] < journal[l]
      BY DEF LoggedInv
    <3> SUFFICES ASSUME NEW k \in U, NEW l \in U, journal[k] = journal[l] PROVE k = l
      OBVIOUS
    <3>2. k \in 1..Len(journal) /\ l \in 1..Len(journal)
      BY <1>3
    <3>3. ~(k < l) /\ ~(l < k)
      BY <1>1, <3>1, <3>2
    <3> QED
      BY <3>2, <3>3
  <2>3. Cardinality(U) <= Cardinality(Undated)
    <3> DEFINE f == [k \in U |-> journal[k]]
    <3>1. \A x, y \in U : f[x] = f[y] => x = y
      BY <2>2
    <3>2. f \in [U -> Undated]
      BY <2>1
    <3> HIDE DEF f, U
    <3> QED
      BY <1>4, <3>1, <3>2, UndatedFinite, InjectionBounds
  <2> QED
    BY <1>t, <1>4, <2>3, UndatedFinite DEF DatedInv
<1>6. Cardinality(K) <= Cardinality(Near)
  <2>1. \A k \in K : c <= obs[journal[k]].candle + Lag /\ obs[journal[k]].candle <= c + Lag
    <3> SUFFICES ASSUME NEW k \in K
                 PROVE  c <= obs[journal[k]].candle + Lag /\ obs[journal[k]].candle <= c + Lag
      OBVIOUS
    <3>1. c \in Nat /\ obs[journal[k]].candle \in Nat /\ obs[journal[k]].candle <= candle
      BY <1>2, <1>3
    <3>2. CASE k = i
      BY <1>n, <3>1, <3>2
    <3>3. CASE k # i
      <4>1. i < k /\ journal[i] < journal[k] /\ journal[i] \in 1..generated /\ journal[k] \in 1..generated
        BY <1>t, <1>1, <1>3, <3>3 DEF LoggedInv
      <4>2. c <= obs[journal[k]].candle + Lag
        BY <4>1 DEF DatedInv
      <4> HIDE DEF c
      <4>3. candle <= c + Lag
        BY DEF c
      <4> QED
        BY <1>n, <3>1, <4>2, <4>3
    <3> QED
      BY <3>2, <3>3
  <2> DEFINE f == [k \in K |-> <<obs[journal[k]].sym, obs[journal[k]].candle + Lag - c>>]
  <2>2. \A k \in K : obs[journal[k]].candle + Lag - c \in 0..(2 * Lag)
    <3> SUFFICES ASSUME NEW k \in K PROVE obs[journal[k]].candle + Lag - c \in 0..(2 * Lag)
      OBVIOUS
    <3>1. c \in Nat /\ obs[journal[k]].candle \in Nat
      BY <1>2, <1>3
    <3>2. c <= obs[journal[k]].candle + Lag /\ obs[journal[k]].candle <= c + Lag
      BY <2>1
    <3> HIDE DEF c, K
    <3> QED
      BY <1>n, <3>1, <3>2, Offset
  <2>3. f \in [K -> Near]
    BY <1>2, <1>3, <2>2
  <2>4. \A k, l \in K : f[k] = f[l] => k = l
    <3> SUFFICES ASSUME NEW k \in K, NEW l \in K, f[k] = f[l] PROVE k = l
      OBVIOUS
    <3>1. k \in 1..Len(journal) /\ l \in 1..Len(journal) /\ Known(journal[k])
      BY <1>3
    <3>2. /\ obs[journal[k]].sym = obs[journal[l]].sym
          /\ obs[journal[k]].candle + Lag - c = obs[journal[l]].candle + Lag - c
      OBVIOUS
    <3>3. obs[journal[k]].candle = obs[journal[l]].candle
      <4>1. c \in Nat /\ obs[journal[k]].candle \in Nat /\ obs[journal[l]].candle \in Nat
        BY <1>2, <3>1
      <4> HIDE DEF c, K, f
      <4> QED
        BY <1>n, <3>2, <4>1, SameOffset
    <3>4. obs[journal[k]] = obs[journal[l]]
      BY <1>2, <3>1, <3>2, <3>3
    <3> QED
      BY <3>1, <3>4 DEF LoggedInv
  <2>5. IsFiniteSet(Near)
    <3>1. IsFiniteSet(1..NSymbols) /\ IsFiniteSet(0..(2 * Lag))
      <4>1. 0 \in Int /\ 1 \in Int /\ NSymbols \in Int /\ 2 * Lag \in Int
        BY <1>n
      <4> QED
        BY <4>1, FS_Interval
    <3> QED
      BY <3>1, FS_Product
  <2> HIDE DEF f, K, Near
  <2> QED
    BY <1>4, <2>3, <2>4, <2>5, InjectionBounds
<1>7. Cardinality(Near) = NSymbols * (2 * Lag + 1)
  <2>1. /\ IsFiniteSet(1..NSymbols) /\ Cardinality(1..NSymbols) = NSymbols
        /\ IsFiniteSet(0..(2 * Lag)) /\ Cardinality(0..(2 * Lag)) = 2 * Lag + 1
    <3>1. 1 \in Int /\ NSymbols \in Int /\ 0 \in Int /\ 2 * Lag \in Int /\ ~(0 > 2 * Lag) /\ ~(1 > NSymbols)
      BY <1>n, BoundsAssumption
    <3>2. /\ IsFiniteSet(1..NSymbols) /\ Cardinality(1..NSymbols) = NSymbols - 1 + 1
          /\ IsFiniteSet(0..(2 * Lag)) /\ Cardinality(0..(2 * Lag)) = 2 * Lag - 0 + 1
      BY <3>1, FS_Interval
    <3> QED
      BY <1>n, <3>2
  <2>2. Cardinality(Near) = Cardinality(1..NSymbols) * Cardinality(0..(2 * Lag))
    BY <2>1, FS_Product
  <2> QED
    BY <2>1, <2>2
<1>8. NSymbols * (2 * Lag + 1) \in Nat
  BY <1>t
<1> DEFINE P == NSymbols * (2 * Lag + 1)
<1>9. P \in Nat /\ DedupeWindow >= P + MaxErrors /\ Cardinality(K) <= P
  BY <1>6, <1>7, <1>8 DEF WindowCovers
<1> HIDE DEF P, K, U, S
<1> QED
  BY <1>n, <1>3, <1>4, <1>5, <1>9

\* A step that leaves the journal and the treatments alone, and at most moves
\* the fresh T0 on among the steps before the journal, or among those after.
JournalQuiet ==
    /\ UNCHANGED <<journal, torn, generated, obs, treated>>
    /\ pc' \in Unlogged /\ mode' = "fresh" => pc \in Unlogged /\ UNCHANGED <<mode, cur>>
    /\ pc' \in InJournal /\ mode' = "fresh" => pc \in InJournal /\ UNCHANGED <<mode, cur>>

LEMMA QuietKeepsLoggedInv == ASSUME LoggedInv, JournalQuiet PROVE LoggedInv'
BY DEF JournalQuiet, LoggedInv, Logged, Known

\* Appending the T0 in progress, after which it is looked up or abandoned.
LEMMA LoggingKeepsLoggedInv ==
    ASSUME TypeOK, TaskInv, LoggedInv, pc = "log",
           journal' = Append(journal, cur), torn' = FALSE, UNCHANGED <<generated, obs, treated>>,
           pc' \notin Unlogged, pc' \in InJournal => cur' = cur
    PROVE  LoggedInv'
<1>1. cur \in 1..generated /\ mode = "fresh" /\ Len(journal) \in Nat /\ journal \in Seq(0..MaxT0)
  BY DEF TypeOK, LocalType, TaskInv, Busy
<1>2. /\ Len(journal') = Len(journal) + 1 /\ journal'[Len(journal) + 1] = cur
      /\ \A i \in 1..Len(journal) : journal'[i] = journal[i]
  <2>1. cur \in 0..MaxT0
    BY DEF TypeOK, TaskType
  <2> QED
    BY <1>1, <2>1
<1>3. \A i \in 1..Len(journal) : journal[i] < cur /\ (Known(cur) => obs[journal[i]] # obs[cur])
  BY <1>1 DEF LoggedInv, Unlogged
<1>4. \A i \in 1..Len(journal') : journal'[i] \in 1..generated'
  BY <1>1, <1>2 DEF LoggedInv
<1>5. \A i, j \in 1..Len(journal') : i < j => journal'[i] < journal'[j]
  BY <1>1, <1>2, <1>3 DEF LoggedInv
<1>6. \A i, j \in 1..Len(journal') :
            obs[journal'[i]].candle # NoCandle /\ obs[journal'[i]] = obs[journal'[j]] => i = j
  BY <1>1, <1>2, <1>3 DEF LoggedInv, Known
<1>7. \A t : (t = cur \/ Logged(t)) => \E i \in 1..Len(journal') : journal'[i] = t
  BY <1>1, <1>2 DEF Logged
<1>8. /\ (pc \in InJournal => Logged(cur))'
      /\ (\A t \in T0 : treated[t] # {} => Logged(t))'
  BY <1>7 DEF LoggedInv, Logged
<1>9. ~(pc \in Unlogged)' /\ ~torn'
  OBVIOUS
<1> QED
  BY <1>4, <1>5, <1>6, <1>8, <1>9 DEF LoggedInv, Known

\* The T0 that check_candle_duplicate lets pass repeats no line of the journal.
LEMMA GeneratingKeepsLoggedInv ==
    ASSUME WindowCovers, TypeOK, DatedInv, LoggedInv, Generate PROVE LoggedInv'
<1> DEFINE g == generated + 1
<1>1. PICK c \in 0..candle :
            /\ c = NoCandle \/ c + Lag >= candle
            /\ ~Duplicate(symbol, c)
            /\ generated' = g /\ cur' = g /\ obs' = [obs EXCEPT ![g] = [sym |-> symbol, candle |-> c]]
  BY DEF Generate
<1>2. /\ UNCHANGED <<journal, torn, treated>> /\ pc' = "enqueue" /\ generated \in Nat /\ g \in T0
      /\ obs \in [T0 -> [sym : 0..NSymbols, candle : 0..MaxCandle]] /\ Len(journal) \in Nat
  BY BoundsAssumption DEF Generate, TypeOK, WorldType, LocalType, T0, local, effects
<1>3. /\ \A i \in 1..Len(journal) : journal[i] \in 1..generated
      /\ \A t \in 1..generated : t \in T0 /\ t < g /\ obs'[t] = obs[t]
      /\ obs'[g] = [sym |-> symbol, candle |-> c]
  BY <1>1, <1>2, BoundsAssumption DEF LoggedInv, T0
<1>4. c # NoCandle => \A i \in 1..Len(journal) : obs[journal[i]] # obs'[g]
  <2> SUFFICES ASSUME c # NoCandle, NEW i \in 1..Len(journal), obs[journal[i]] = obs'[g] PROVE FALSE
    OBVIOUS
  <2>1. obs[journal[i]].candle = c /\ Known(journal[i])
    BY <1>3 DEF Known
  <2>2. i + DedupeWindow > Len(journal)
    BY <1>1, <2>1, WindowHolds
  <2>3. journal[i] # Unparsable
    BY <1>3, <1>2 DEF Unparsable
  <2> QED
    BY <1>1, <1>3, <2>2, <2>3 DEF Duplicate
<1>5. /\ \A i \in 1..Len(journal) : journal[i] \in 1..g /\ journal[i] < g /\ obs'[journal[i]] = obs[journal[i]]
  BY <1>2, <1>3
<1>6. /\ \A i \in 1..Len(journal') : journal'[i] \in 1..generated'
      /\ \A i, j \in 1..Len(journal') : i < j => journal'[i] < journal'[j]
      /\ \A i, j \in 1..Len(journal') :
            obs'[journal'[i]].candle # NoCandle /\ obs'[journal'[i]] = obs'[journal'[j]] => i = j
  BY <1>1, <1>2, <1>5 DEF LoggedInv, Known
<1>7. \A i \in 1..Len(journal') :
            journal'[i] < cur' /\ (obs'[cur'].candle # NoCandle => obs'[journal'[i]] # obs'[cur'])
  BY <1>1, <1>2, <1>3, <1>4, <1>5
<1>8. \A t \in T0 : treated'[t] # {} => Logged(t)'
  BY <1>2 DEF LoggedInv, Logged
<1> QED
  BY <1>2, <1>6, <1>7, <1>8 DEF LoggedInv, Known, InJournal

LEMMA NextLoggedInv ==
    JournalTears = {} /\ WindowCovers /\ IInv /\ DatedInv /\ LoggedInv /\ [Next]_vars => LoggedInv'
<1> SUFFICES ASSUME JournalTears = {}, WindowCovers, IInv, DatedInv, LoggedInv, [Next]_vars
             PROVE  LoggedInv'
  OBVIOUS
<1>t. TypeOK /\ TaskInv
  BY DEF IInv
<1>1. ASSUME Loop PROVE LoggedInv'
  <2>1. CASE Generate
    BY <1>t, <2>1, GeneratingKeepsLoggedInv
  <2>2. CASE TakeReceipt
    <3>1. mode # "fresh"
      BY <1>t, <2>2 DEF TakeReceipt, Oldest, TaskInv
    <3>2. JournalQuiet
      BY <2>2, <3>1 DEF TakeReceipt, local, world, effects, JournalQuiet
    <3> QED
      BY <3>2, QuietKeepsLoggedInv
  <2>3. CASE StartCycle \/ EndRetry \/ EndCycle \/ CycleWithoutMarket \/ SkipSymbol
    <3>1. JournalQuiet
      BY <2>3 DEF StartCycle, EndRetry, EndCycle, CycleWithoutMarket, SkipSymbol, Predict, local,
          world, effects, JournalQuiet, Unlogged, InJournal
    <3> QED
      BY <3>1, QuietKeepsLoggedInv
  <2> QED
    BY <1>1, <2>1, <2>2, <2>3 DEF Loop
<1>2. ASSUME LogPrediction PROVE LoggedInv'
  <2>1. /\ pc = "log" /\ journal' = Append(journal, cur) /\ torn' = FALSE
        /\ UNCHANGED <<generated, obs, treated, cur>> /\ pc' = "lookup"
    BY <1>2 DEF LogPrediction, JournalWith, LoggedInv, Goto, world, effects
  <2> QED
    BY <1>t, <2>1, LoggingKeepsLoggedInv DEF Unlogged
<1>3. ASSUME LogRaises \/ Crash PROVE LoggedInv'
  <2>1. /\ UNCHANGED <<generated, obs, treated>> /\ pc' \in {"symbol", "retry", "down"}
        /\ \/ UNCHANGED <<journal, torn>>
           \/ pc = "log" /\ journal' = Append(journal, cur) /\ torn' = FALSE
    BY <1>3, LeavingGoes DEF LogRaises, Crash, JournalInterrupted, JournalWith, LoggedInv, world,
        effects
  <2>2. CASE UNCHANGED <<journal, torn>>
    <3>1. JournalQuiet
      BY <2>1, <2>2 DEF JournalQuiet, Unlogged, InJournal
    <3> QED
      BY <3>1, QuietKeepsLoggedInv
  <2>3. CASE pc = "log" /\ journal' = Append(journal, cur) /\ torn' = FALSE
    BY <1>t, <2>1, <2>3, LoggingKeepsLoggedInv DEF Unlogged, InJournal
  <2> QED
    BY <2>1, <2>2, <2>3
<1>4. ASSUME RouteToPortfolio \/ RouteToBinanceSim PROVE LoggedInv'
  <2>1. /\ UNCHANGED <<journal, torn, generated, obs>> /\ pc \in {"route", "sim"}
        /\ \/ pc' \in {"symbol", "retry"}
           \/ pc' = "sim" /\ UNCHANGED <<mode, cur>>
    <3>1. UNCHANGED <<journal, torn, generated, obs>> /\ pc \in {"route", "sim"}
      BY <1>4 DEF RouteToPortfolio, RouteToBinanceSim, Route, RouteRaises, local, world
    <3>2. CASE RouteToPortfolio
      BY <3>1, <3>2 DEF RouteToPortfolio, Route, RouteRaises, Goto
    <3>3. CASE RouteToBinanceSim
      BY <3>1, <3>3, LeavingGoes DEF RouteToBinanceSim, Route, RouteRaises
    <3> QED
      BY <1>4, <3>2, <3>3
  <2>r. \/ UNCHANGED treated
       \/ \E lane \in Lanes : treated' = [treated EXCEPT ![cur] = @ \cup {lane}]
    BY <1>4 DEF RouteToPortfolio, RouteToBinanceSim, Route, RouteRaises, effects, Lanes
  <2>2. mode = "fresh" /\ Logged(cur)
    BY <1>t, <2>1 DEF TaskInv, LoggedInv, InJournal
  <2>3. \A t \in T0 : treated'[t] # {} => Logged(t)
    BY <1>t, <2>r, <2>2 DEF TypeOK, WorldType, LoggedInv
  <2> QED
    BY <2>1, <2>2, <2>3 DEF LoggedInv, Logged, Known, Unlogged, InJournal
<1>5. CASE Enqueue \/ Seal \/ MarkPersisted \/ MarkFailed
  <2>1. JournalQuiet
    BY <1>5, LeavingGoes DEF Enqueue, Seal, MarkPersisted, MarkFailed, Goto, local, world, effects,
        JournalQuiet, Unlogged, InJournal
  <2> QED
    BY <2>1, QuietKeepsLoggedInv
<1>6. CASE Client \/ Restart \/ NextCandle
  <2>1. JournalQuiet
    BY <1>6 DEF Client, LookupFinds, LookupFindsNone, LookupConflicts, Insert, Restart, NextCandle,
        Goto, local, world, effects, JournalQuiet, Unlogged, InJournal
  <2> QED
    BY <2>1, QuietKeepsLoggedInv
<1>7. CASE Gateway \/ \E w \in wire : AnswerLost(w) \/ PostFails(w)
  <2>1. JournalQuiet
    BY <1>7 DEF Gateway, GatewayAssignsId, GatewayUpserts, AnswerLost, PostFails, Awaited, Goto,
        task, local, world, effects, JournalQuiet, Unlogged, InJournal
  <2> QED
    BY <2>1, QuietKeepsLoggedInv
<1>8. CASE \/ PendingRaises \/ EnqueueRaises \/ EnqueueAgainRaises \/ SealRaises \/ LookupRaises
           \/ PostTimesOut \/ MarkPersistedRaises \/ MarkFailedRaises
  <2>1. JournalQuiet
    BY <1>8, LeavingGoes DEF PendingRaises, EnqueueRaises, EnqueueAgainRaises, SealRaises,
        LookupRaises, PostTimesOut, MarkPersistedRaises, MarkFailedRaises, Predict, Goto, local,
        world, effects, JournalQuiet, Unlogged, InJournal
  <2> QED
    BY <2>1, QuietKeepsLoggedInv
<1>9. CASE UNCHANGED vars
  <2>1. JournalQuiet
    BY <1>9 DEF vars, task, local, world, effects, JournalQuiet
  <2> QED
    BY <2>1, QuietKeepsLoggedInv
<1> QED
  BY <1>1, <1>2, <1>3, <1>4, <1>5, <1>6, <1>7, <1>8, <1>9 DEF Next, Stores, Faults

LEMMA JournalInvariant ==
    ASSUME JournalTears = {}, WindowCovers PROVE Spec => [](DatedInv /\ LoggedInv)
<1>1. IInv /\ DatedInv /\ [Next]_vars => DatedInv'
  BY NextDatedInv
<1>2. IInv /\ DatedInv /\ LoggedInv /\ [Next]_vars => LoggedInv'
  BY NextLoggedInv
<1> QED
  BY <1>1, <1>2, InitDatedInv, InitLoggedInv, PipelineInvariant, PTL DEF Spec

LEMMA LoggedOnce == LoggedInv => OneTreatmentPerCandle
<1> SUFFICES ASSUME LoggedInv, NEW t \in T0, NEW u \in T0, treated[t] # {}, treated[u] # {},
                    obs[t] = obs[u], obs[t].candle # NoCandle
             PROVE  t = u
  BY DEF OneTreatmentPerCandle
<1>1. PICK i \in 1..Len(journal) : journal[i] = t
  BY DEF LoggedInv, Logged
<1>2. PICK j \in 1..Len(journal) : journal[j] = u
  BY DEF LoggedInv, Logged
<1> QED
  BY <1>1, <1>2 DEF LoggedInv, Known

\* check_candle_duplicate and log_prediction: one symbol and candle is treated
\* through one T0, across crashes and restarts, while appends are whole and the
\* window holds a line per symbol and candle that may still be served.
THEOREM TreatsCandleOnce ==
    ASSUME JournalTears = {}, WindowCovers PROVE Spec => []OneTreatmentPerCandle
BY JournalInvariant, LoggedOnce, PTL

-----------------------------------------------------------------------------
\* The T0 that may still be treated, as T0Lineage's current one.
Current == IF mode = "fresh" THEN cur ELSE 0

\* Lineage steps as this module's state shows them.
LEMMA Closes ==
    ASSUME UNCHANGED <<obs, d1, bound, treated>>, Current' \in {Current, 0}
    PROVE  [Lineage!Next]_(Lineage!vars)
BY DEF Current, Lineage!Next, Lineage!Close, Lineage!vars

LEMMA LeavingCloses == ASSUME Done \/ Abandon PROVE Current' = 0
BY DEF Done, Abandon, Predict, Current

\* A T0 that is sealed, or of which a row or POST exists, has been observed.
LEMMA SealedObserved ==
    ASSUME IInv, DatedInv, NEW t \in sealed PROVE t \in T0 /\ t <= generated /\ obs[t] # NoObs
<1>1. t \in T0 /\ receipt[t] # "NONE" /\ generated \in Nat /\ t \in Nat /\ t >= 1
  BY BoundsAssumption DEF IInv, TypeOK, LocalType, WorldType, StoreInv, T0
<1>2. t <= generated
  BY <1>1 DEF IInv, StoreInv
<1>3. obs[t].sym # 0
  BY <1>1, <1>2 DEF DatedInv
<1> QED
  BY <1>1, <1>2, <1>3 DEF NoObs

LEMMA GenerateObserves ==
    ASSUME IInv, DatedInv, Generate PROVE [Lineage!Next]_(Lineage!vars)
<1> DEFINE g == generated + 1
<1>1. PICK c \in 0..candle : generated' = g /\ cur' = g /\ obs' = [obs EXCEPT ![g] = [sym |-> symbol, candle |-> c]]
  BY DEF Generate
<1>2. /\ g \in T0 /\ obs[g] = NoObs /\ generated \in Nat
  <2>1. generated \in Nat /\ generated < MaxT0
    BY DEF Generate, IInv, TypeOK, WorldType
  <2>2. g \in T0 /\ g > generated
    BY <2>1, BoundsAssumption DEF T0
  <2> QED
    BY <2>1, <2>2 DEF DatedInv
<1>3. [sym |-> symbol, candle |-> c] \in [sym : 1..NSymbols, candle : 0..MaxCandle]
  <2>1. symbol \in 1..NSymbols
    BY BoundsAssumption DEF Generate, IInv, TypeOK, TaskType, DatedInv
  <2>2. c \in 0..MaxCandle
    BY BoundsAssumption DEF Generate, IInv, TypeOK, WorldType
  <2> QED
    BY <2>1, <2>2
<1>4. mode' = "fresh" /\ UNCHANGED <<d1, bound, treated>>
  BY DEF Generate, IInv, TaskInv, remote, ledger, effects
<1>5. Lineage!Observe(g, [sym |-> symbol, candle |-> c])
  BY <1>1, <1>2, <1>4 DEF Lineage!Observe
<1>6. Lineage!Next
  BY <1>2, <1>3, <1>5 DEF Lineage!Next
<1> QED
  BY <1>6

LEMMA UpsertAccepts ==
    ASSUME IInv, RowInv, DatedInv, UNCHANGED <<obs, bound, treated, mode, cur>>,
           NEW w \in wire, Upserted(w)
    PROVE  [Lineage!Next]_(Lineage!vars)
<1>1. w.t \in T0 /\ w.t \in sealed
  BY DEF IInv, TypeOK, RemoteType, Post, SealedFirst
<1>2. obs[w.t] # NoObs
  BY <1>1, SealedObserved
<1>3. d1' = Append(d1, w.t) /\ \A i \in 1..Len(d1) : d1[i] # w.t
  BY UpsertedAppends DEF IInv, RowInv
<1>4. Lineage!Accept(w.t)
  BY <1>2, <1>3 DEF Lineage!Accept
<1>5. Lineage!Next
  BY <1>1, <1>4 DEF Lineage!Next
<1> QED
  BY <1>5

LEMMA PersistedBinds ==
    ASSUME IInv, RowInv, pc = "mark", Persisted, UNCHANGED <<obs, d1, treated>>,
           Current' \in {Current, 0}
    PROVE  [Lineage!Next]_(Lineage!vars)
<1>1. cur \in T0 /\ receipt[cur] # "PERSISTED"
  <2>1. cur \in 1..generated /\ receipt[cur] \in {"ENQUEUED", "FAILED"}
    BY DEF IInv, TaskInv, Busy
  <2> QED
    BY <2>1, BoundsAssumption DEF IInv, TypeOK, WorldType, T0
<1>2. bound[cur] = 0 /\ found \in 1..Len(d1) /\ d1[found] = cur
  BY <1>1 DEF RowInv
<1>3. Lineage!Bind(cur, found)
  BY <1>2 DEF Persisted, Current, Lineage!Bind, Lineage!MayClose
<1>4. Lineage!Next
  BY <1>1, <1>2, <1>3 DEF Lineage!Next
<1> QED
  BY <1>4

LEMMA RouteTreats ==
    ASSUME IInv, RowInv, DatedInv, LoggedInv, pc \in {"route", "sim"}, NEW lane \in Lanes,
           treated' = [treated EXCEPT ![cur] = @ \cup {lane}], UNCHANGED <<obs, d1, bound>>,
           Current' \in {Current, 0}
    PROVE  [Lineage!Next]_(Lineage!vars)
<1>1. mode = "fresh" /\ cur \in T0 /\ cur \in sealed /\ receipt[cur] = "PERSISTED"
  <2>1. cur \in 1..generated /\ mode = "fresh" /\ cur \in sealed /\ receipt[cur] = "PERSISTED"
    BY DEF IInv, TaskInv, Busy
  <2> QED
    BY <2>1 DEF IInv, TypeOK, LocalType
<1>2. bound[cur] # 0
  <2>1. bound[cur] \in 1..Len(d1) /\ Len(d1) \in Nat
    BY <1>1 DEF IInv, TypeOK, RemoteType, RowInv, LineageExact
  <2> QED
    BY <2>1
<1>3. ASSUME NEW u \in T0 \ {cur}, treated[u] # {}, obs[u] = obs[cur]
      PROVE  obs[cur] \in [sym : 1..NSymbols, candle : {NoCandle}]
  <2>1. PICK i \in 1..Len(journal) : journal[i] = cur
    BY <1>1 DEF LoggedInv, InJournal, Logged
  <2>2. PICK j \in 1..Len(journal) : journal[j] = u
    BY <1>3 DEF LoggedInv, Logged
  <2>3. ~Known(cur)
    BY <1>3, <2>1, <2>2 DEF LoggedInv
  <2>4. obs[cur] \in [sym : 0..NSymbols, candle : 0..MaxCandle] /\ obs[cur].sym # 0
    <3>1. cur \in 1..generated
      BY DEF IInv, TaskInv, Busy
    <3> QED
      BY <1>1, <3>1 DEF IInv, TypeOK, WorldType, DatedInv
  <2>5. obs[cur].sym \in 1..NSymbols
    BY <2>4, BoundsAssumption
  <2> QED
    BY <2>3, <2>4, <2>5 DEF Known
<1>4. Lineage!Treat(cur, lane)
  BY <1>1, <1>2, <1>3 DEF Current, Lineage!Treat, Lineage!MayClose
<1>5. Lineage!Next
  BY <1>1, <1>4 DEF Lineage!Next
<1> QED
  BY <1>5

\* Step simulation: generating observes, an upsert accepts, mark_persisted
\* binds, routing treats; everything else closes the current T0 or is invisible.
LEMMA StepRefines ==
    IInv /\ RowInv /\ DatedInv /\ LoggedInv /\ [Next]_vars => [Lineage!Next]_(Lineage!vars)
<1> SUFFICES ASSUME IInv, RowInv, DatedInv, LoggedInv, [Next]_vars
             PROVE  [Lineage!Next]_(Lineage!vars)
  OBVIOUS
<1>1. CASE Loop
  <2>1. CASE Generate
    BY <2>1, GenerateObserves
  <2>2. CASE TakeReceipt
    <3>1. mode # "fresh" /\ mode' = mode /\ UNCHANGED <<obs, d1, bound, treated>>
      BY <2>2 DEF TakeReceipt, Oldest, IInv, TaskInv, ledger, remote, world, effects
    <3> QED
      BY <3>1, Closes DEF Current
  <2>3. CASE StartCycle \/ EndRetry \/ EndCycle \/ CycleWithoutMarket \/ SkipSymbol
    <3>1. UNCHANGED <<obs, d1, bound, treated>> /\ Current' \in {Current, 0}
      BY <2>3 DEF StartCycle, EndRetry, EndCycle, CycleWithoutMarket, SkipSymbol, Predict, Current,
          ledger, remote, world, effects
    <3> QED
      BY <3>1, Closes
  <2> QED
    BY <1>1, <2>1, <2>2, <2>3 DEF Loop
<1>2. CASE Enqueue \/ Seal \/ LogPrediction \/ MarkFailed
  <2>1. UNCHANGED <<obs, d1, bound, treated>> /\ Current' \in {Current, 0}
    BY <1>2, LeavingCloses DEF Enqueue, Enqueued, Seal, LogPrediction, MarkFailed, Failed, Goto,
        Current, ledger, remote, world, effects
  <2> QED
    BY <2>1, Closes
<1>3. CASE MarkPersisted \/ MarkPersistedRaises
  <2>1. pc = "mark" /\ UNCHANGED <<obs, d1, treated>> /\ (Persisted \/ UNCHANGED ledger)
    BY <1>3 DEF MarkPersisted, MarkPersistedRaises, remote, world, effects
  <2>2. Current' \in {Current, 0}
    BY <1>3, LeavingCloses DEF MarkPersisted, MarkPersistedRaises, Goto, Current
  <2> QED
    BY <2>1, <2>2, PersistedBinds, Closes DEF ledger
<1>4. CASE Client \/ Restart \/ NextCandle
  <2>1. UNCHANGED <<obs, d1, bound, treated>> /\ Current' = Current
    BY <1>4 DEF Client, LookupFinds, LookupFindsNone, LookupConflicts, Insert, Restart, NextCandle,
        Goto, Current, ledger, remote, world, effects
  <2> QED
    BY <2>1, Closes
<1>5. ASSUME NEW w \in wire, GatewayUpserts(w) \/ AnswerLost(w) PROVE [Lineage!Next]_(Lineage!vars)
  <2>1. Upserted(w) /\ UNCHANGED <<obs, bound, treated, mode, cur>>
    BY <1>5 DEF GatewayUpserts, AnswerLost, Goto, task, ledger, world, effects
  <2> QED
    BY <2>1, UpsertAccepts
<1>6. ASSUME NEW w \in wire, GatewayAssignsId(w) \/ PostFails(w) PROVE [Lineage!Next]_(Lineage!vars)
  <2>1. UNCHANGED <<obs, d1, bound, treated>> /\ Current' = Current
    BY <1>6 DEF GatewayAssignsId, PostFails, Goto, Current, task, ledger, world, effects
  <2> QED
    BY <2>1, Closes
<1>7. CASE RouteToPortfolio \/ RouteToBinanceSim
  <2>1. pc \in {"route", "sim"} /\ UNCHANGED <<obs, d1, bound>>
    BY <1>7 DEF RouteToPortfolio, RouteToBinanceSim, Route, RouteRaises, ledger, remote, world
  <2>2. Current' \in {Current, 0}
    <3>1. CASE RouteToPortfolio
      BY <3>1 DEF RouteToPortfolio, Route, RouteRaises, Goto, Current
    <3>2. CASE RouteToBinanceSim
      BY <3>2, LeavingCloses DEF RouteToBinanceSim, Route, RouteRaises
    <3> QED
      BY <1>7, <3>1, <3>2
  <2>3. CASE UNCHANGED treated
    BY <2>1, <2>2, <2>3, Closes
  <2>4. CASE \E lane \in Lanes : treated' = [treated EXCEPT ![cur] = @ \cup {lane}]
    BY <2>1, <2>2, <2>4, RouteTreats
  <2> QED
    BY <1>7, <2>3, <2>4 DEF RouteToPortfolio, RouteToBinanceSim, Route, RouteRaises, effects, Lanes
<1>8. CASE \/ PendingRaises \/ EnqueueRaises \/ EnqueueAgainRaises \/ SealRaises \/ LogRaises
           \/ LookupRaises \/ PostTimesOut \/ MarkFailedRaises \/ Crash
  <2>1. UNCHANGED <<obs, d1, bound, treated>>
    BY <1>8 DEF PendingRaises, EnqueueRaises, EnqueueAgainRaises, SealRaises, LogRaises,
        LookupRaises, PostTimesOut, MarkFailedRaises, Crash, Enqueued, Failed, ledger, remote,
        world, effects
  <2>2. Current' \in {Current, 0}
    BY <1>8, LeavingCloses DEF PendingRaises, EnqueueRaises, EnqueueAgainRaises, SealRaises,
        LogRaises, LookupRaises, PostTimesOut, MarkFailedRaises, Crash, Predict, Goto, Current
  <2> QED
    BY <2>1, <2>2, Closes
<1>9. CASE UNCHANGED vars
  <2>1. UNCHANGED <<obs, d1, bound, treated>> /\ Current' = Current
    BY <1>9 DEF vars, task, ledger, remote, world, effects, Current
  <2> QED
    BY <2>1, Closes
<1> QED
  BY <1>1, <1>2, <1>3, <1>4, <1>5, <1>6, <1>7, <1>8, <1>9 DEF Next, Stores, Gateway, Faults

\* The pipeline, with its stores, retries, crashes and lost answers, does only
\* what the lineage promise allows: observe, accept one row, bind it for good,
\* treat the current T0 once bound and only if its candle is untreated.
THEOREM RefinesLineage ==
    ASSUME ~PostsMayOverlap, JournalTears = {}, WindowCovers PROVE Spec => ImplementsLineage
<1>1. Init => Lineage!Init
  BY DEF Init, Lineage!Init
<1> QED
  BY <1>1, StepRefines, PipelineInvariant, RowInvariant, JournalInvariant, PTL
  DEF Spec, ImplementsLineage, Lineage!Spec

=============================================================================
