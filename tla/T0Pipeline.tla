----------------------------- MODULE T0Pipeline -----------------------------
(***************************************************************************)
(* The writer's decision pipeline: oracle_runner.py together with the      *)
(* stores every decision (a "T0") goes through on its way to a PAPER lane: *)
(*                                                                         *)
(*   receipt ledger  prediction_persistence.py   durable outbox, local     *)
(*   packet log      t0_audit/sealer.py          durable, local            *)
(*   journal         oracle/predict_only.py      durable, candle dedupe    *)
(*   D1 authority    supabase_client.py + gateway_order074.js, remote      *)
(*   PAPER lanes     the portfolio coordinator and the Binance-sim wallet  *)
(*                                                                         *)
(* One asyncio task runs the cycle: retry unresolved receipts, then predict*)
(* each symbol.  The interleaving comes from outside it: the gateway works *)
(* on a POST while the client may have timed out, the candle moves on, and *)
(* the process may crash between any two steps.  A T0 is a number, in the  *)
(* order of generation; its payload is its symbol and candle.              *)
(***************************************************************************)
EXTENDS Naturals, Sequences, FiniteSets

CONSTANTS
    MaxT0,          \* bound: T0s generated
    NSymbols,       \* SYMBOLS are visited in order 1..NSymbols
    MaxCandle,      \* bound: candles the market opens
    Lag,            \* how many candles an exchange of the fallback chain may be behind
    RetryLimit,     \* receipts one retry pass takes (4 in the code)
    DedupeWindow,   \* journal lines check_candle_duplicate reads (5 in the code)
    Poison,         \* T0s whose idempotency lookup always raises a conflict
    JournalTears,   \* how an interrupted journal append may end on disk
    PostsMayOverlap,\* TRUE: a POST may outlive its call and meet a later one
    MaxCrashes,     \* bound: process crashes
    MaxErrors       \* bound: exceptions, timeouts and lost answers

T0 == 1..MaxT0
Lanes == {"portfolio", "sim"}

ASSUME BoundsAssumption ==
    /\ MaxT0 \in Nat /\ NSymbols \in Nat \ {0} /\ MaxCandle \in Nat \ {0}
    /\ Lag \in Nat /\ RetryLimit \in Nat \ {0} /\ DedupeWindow \in Nat
    /\ MaxCrashes \in Nat /\ MaxErrors \in Nat
ASSUME ScenarioAssumption ==
    /\ Poison \subseteq T0
    /\ JournalTears \subseteq {"torn", "unterminated"}
    /\ PostsMayOverlap \in BOOLEAN

VARIABLES
    \* the oracle task (volatile)
    pc, mode, cur, symbol, batch, found,
    \* local durable stores
    receipt,    \* status of a T0's latest receipt event, "NONE" before the first
    bound,      \* d1_prediction_id of its PERSISTED receipt, else 0
    age,        \* rank of its latest receipt event among all T0s (last_event_index)
    sealed,     \* T0s whose packet is in the packet log
    journal,    \* predictions.jsonl: a T0 per line, 0 for a line that does not parse
    torn,       \* TRUE iff the journal's last line lacks its newline
    \* the gateway
    d1,         \* d1[id] is the T0 whose row has that id
    wire,       \* POSTs sent and not finished
    posts,      \* POSTs sent so far
    \* the world
    candle,     \* the candle the market is in; past MaxCandle no exchange answers
    generated,  \* T0s generated so far
    obs,        \* symbol and candle of each T0
    \* effects and history
    treated,    \* lanes each T0 has been routed to
    stale,      \* history: T0s generated before the current cycle
    crashes, errors

task   == <<pc, mode, cur, symbol, batch, found>>
ledger == <<receipt, bound, age>>
local  == <<sealed, journal, torn>>
remote == <<d1, wire, posts>>
world  == <<candle, generated, obs>>
effects == <<treated, stale>>
faults == <<crashes, errors>>
vars == <<task, ledger, local, remote, world, effects, faults>>

-----------------------------------------------------------------------------
\* Pure helpers.
NoCandle == 0       \* candle_ts when no exchange served OHLCV rows
Unparsable == 0
NoObs == [sym |-> 0, candle |-> NoCandle]

\* check_candle_duplicate: the same symbol and candle in the last few lines;
\* lines that do not parse are skipped, and an unknown candle is no duplicate.
Duplicate(s, c) ==
    /\ c # NoCandle
    /\ \E i \in 1..Len(journal) :
        /\ i + DedupeWindow > Len(journal)
        /\ journal[i] # Unparsable /\ obs[journal[i]] = [sym |-> s, candle |-> c]

\* Text appended to the journal: on a line of its own, or run together with
\* an unterminated last line, which then no longer parses.
JournalWith(line) ==
    IF torn THEN [journal EXCEPT ![Len(journal)] = Unparsable] ELSE Append(journal, line)

\* One more ledger event for t: t becomes the most recently touched receipt.
Touch(t) ==
    LET top == Cardinality({u \in T0 : age[u] # 0} \cup {t}) IN
    [u \in T0 |-> IF u = t THEN top
                  ELSE IF age[t] # 0 /\ age[u] > age[t] THEN age[u] - 1 ELSE age[u]]

\* pending(limit): unresolved receipts, least recently touched first.
Unresolved == {t \in T0 : receipt[t] \in {"ENQUEUED", "FAILED"}}

\* Seeded fault: the lowest numbers first, whatever was tried before.
PendingByNumber == {t \in Unresolved : Cardinality({u \in Unresolved : u < t}) < RetryLimit}

Pending == {t \in Unresolved : Cardinality({u \in Unresolved : age[u] < age[t]}) < RetryLimit}
Oldest(t, S) == t \in S /\ \A u \in S : age[t] <= age[u]

\* Seeded fault: rows of the same symbol and candle match too.
RowsOfCandle(t) == {i \in 1..Len(d1) : obs[d1[i]] = obs[t]}

\* Rows the exact-T0 lookup matches.
Rows(t) == {i \in 1..Len(d1) : d1[i] = t}

Error == errors < MaxErrors /\ errors' = errors + 1 /\ UNCHANGED crashes
NoFault == UNCHANGED faults

-----------------------------------------------------------------------------
Init ==
    /\ pc = "start" /\ mode = "fresh" /\ cur = 0 /\ symbol = 0 /\ batch = {} /\ found = 0
    /\ receipt = [t \in T0 |-> "NONE"] /\ bound = [t \in T0 |-> 0] /\ age = [t \in T0 |-> 0]
    /\ sealed = {} /\ journal = <<>> /\ torn = FALSE
    /\ d1 = <<>> /\ wire = {} /\ posts = 0
    /\ candle = 1 /\ generated = 0 /\ obs = [t \in T0 |-> NoObs]
    /\ treated = [t \in T0 |-> {}] /\ stale = {} /\ crashes = 0 /\ errors = 0

\* Moves of the task. A T0 is done when the retry pass takes its next receipt
\* or the loop its next symbol.
Goto(p) == pc' = p /\ UNCHANGED <<mode, cur, symbol, batch, found>>
Predict(s) ==
    pc' = "symbol" /\ mode' = "fresh" /\ symbol' = s /\ cur' = 0 /\ batch' = {} /\ found' = 0
Done ==
    \/ mode = "fresh" /\ Predict(symbol + 1)
    \/ mode = "retry" /\ pc' = "retry" /\ cur' = 0 /\ found' = 0 /\ UNCHANGED <<mode, symbol, batch>>
\* An exception nothing on the way catches: the retry pass as a whole is
\* abandoned, or this symbol is.
Abandon == Predict(IF mode = "retry" THEN 1 ELSE symbol + 1)

-----------------------------------------------------------------------------
\* _oracle_loop: pending() is read once per cycle.
StartCycle ==
    /\ pc = "start"
    /\ pc' = "retry" /\ mode' = "retry" /\ batch' = Pending
    /\ stale' = 1..generated
    /\ NoFault /\ UNCHANGED <<cur, symbol, found, ledger, local, remote, world, treated>>

\* pending() raises: this cycle retries nothing.
PendingRaises ==
    /\ pc = "start" /\ Error /\ Predict(1) /\ stale' = 1..generated
    /\ UNCHANGED <<ledger, local, remote, world, treated>>

TakeReceipt ==
    /\ pc = "retry"
    /\ \E t \in batch : Oldest(t, batch) /\ cur' = t /\ batch' = batch \ {t}
    /\ pc' = "seal"
    /\ NoFault /\ UNCHANGED <<mode, symbol, found, ledger, local, remote, world, effects>>

EndRetry ==
    /\ pc = "retry" /\ batch = {} /\ Predict(1)
    /\ NoFault /\ UNCHANGED <<ledger, local, remote, world, effects>>

\* sleep(CYCLE_INTERVAL_S): as long as a candle, so the market moves on (see
\* NextCandle).
EndCycle ==
    /\ pc = "symbol" /\ symbol > NSymbols
    /\ pc' = "sleep" /\ symbol' = 0
    /\ NoFault /\ UNCHANGED <<mode, cur, batch, found, ledger, local, remote, world, effects>>

\* _run_one_prediction up to run_prediction: no market data, or the candle is
\* already in the journal.
SkipSymbol ==
    /\ pc = "symbol" /\ symbol <= NSymbols /\ Predict(symbol + 1)
    /\ NoFault /\ UNCHANGED <<ledger, local, remote, world, effects>>

\* The exchange that answered may be behind, or (a fault) serve no OHLCV rows.
Generate ==
    /\ pc = "symbol" /\ symbol <= NSymbols /\ generated < MaxT0 /\ candle <= MaxCandle
    /\ \E c \in 0..candle :
        /\ IF c = NoCandle THEN Error ELSE c + Lag >= candle /\ NoFault
        /\ ~Duplicate(symbol, c)
        /\ generated' = generated + 1 /\ cur' = generated + 1
        /\ obs' = [obs EXCEPT ![generated + 1] = [sym |-> symbol, candle |-> c]]
    /\ pc' = "enqueue"
    /\ UNCHANGED <<mode, symbol, batch, found, ledger, local, remote, candle, effects>>

\* PredictionPersistenceStore.enqueue, the durable outbox entry.
Enqueued == /\ receipt' = [receipt EXCEPT ![cur] = "ENQUEUED"]
            /\ age' = Touch(cur) /\ UNCHANGED bound
Enqueue ==
    /\ pc = "enqueue" /\ Enqueued /\ Goto("seal")
    /\ NoFault /\ UNCHANGED <<local, remote, world, effects>>

\* A failed append or fsync: the T0 is quarantined, with or without a receipt.
EnqueueRaises ==
    /\ pc = "enqueue" /\ Error /\ (Enqueued \/ UNCHANGED ledger) /\ Done
    /\ UNCHANGED <<local, remote, world, effects>>

\* seal_prediction_t0, idempotent by packet id.
Seal ==
    /\ pc = "seal" /\ sealed' = sealed \cup {cur}
    /\ Goto(IF mode = "fresh" THEN "log" ELSE "lookup")
    /\ NoFault /\ UNCHANGED <<ledger, journal, torn, remote, world, effects>>

\* Seeded fault: the seal is best-effort.
SealRaisesIgnored ==
    /\ pc = "seal" /\ Error /\ UNCHANGED sealed
    /\ Goto(IF mode = "fresh" THEN "log" ELSE "fail")
    /\ UNCHANGED <<ledger, journal, torn, remote, world, effects>>

\* A fresh T0 is quarantined, its receipt kept; a retried one is marked failed.
SealRaises ==
    /\ pc = "seal" /\ Error /\ sealed' \in {sealed, sealed \cup {cur}}
    /\ IF mode = "fresh" THEN Done ELSE Goto("fail")
    /\ UNCHANGED <<ledger, journal, torn, remote, world, effects>>

\* log_prediction: the candle-dedupe marker, before anything is routed.
LogPrediction ==
    /\ pc = "log" /\ journal' = JournalWith(cur) /\ torn' = FALSE /\ Goto("lookup")
    /\ NoFault /\ UNCHANGED <<ledger, sealed, remote, world, effects>>

\* What an interrupted append leaves: nothing, everything, or a tear.
JournalInterrupted ==
    \/ UNCHANGED <<journal, torn>>
    \/ journal' = JournalWith(cur) /\ torn' = FALSE
    \/ /\ "torn" \in JournalTears
       /\ journal' = JournalWith(Unparsable) /\ torn' = TRUE
    \/ /\ "unterminated" \in JournalTears
       /\ journal' = JournalWith(cur) /\ torn' = TRUE

\* Seeded fault: a failed append is logged and the T0 goes on.
LogRaisesSwallowed ==
    /\ pc = "log" /\ Error /\ JournalInterrupted /\ Goto("lookup")
    /\ UNCHANGED <<ledger, sealed, remote, world, effects>>

LogRaises ==
    /\ pc = "log" /\ Error /\ JournalInterrupted /\ Abandon
    /\ UNCHANGED <<ledger, sealed, remote, world, effects>>

-----------------------------------------------------------------------------
\* _persist_and_route_prediction enqueues once more, which changes nothing as
\* the receipt exists; should it raise, the T0 is left as it is.
EnqueueAgainRaises ==
    /\ pc = "lookup" /\ mode = "fresh" /\ Error /\ Done
    /\ UNCHANGED <<ledger, local, remote, world, effects>>

\* _lookup_exact_prediction_t0, before the insert and again after an insert
\* that returned nothing. Conflicts and several matching rows raise.
LookupReady == PostsMayOverlap \/ pc = "relookup" \/ wire = {}

LookupFinds ==
    /\ pc \in {"lookup", "relookup"} /\ LookupReady
    /\ cur \notin Poison /\ \E i \in Rows(cur) : Rows(cur) = {i} /\ found' = i
    /\ pc' = "mark"
    /\ NoFault /\ UNCHANGED <<mode, cur, symbol, batch, ledger, local, remote, world, effects>>

LookupFindsNone ==
    /\ pc \in {"lookup", "relookup"} /\ LookupReady
    /\ cur \notin Poison /\ Rows(cur) = {}
    /\ Goto(IF pc = "lookup" THEN "insert" ELSE "fail")
    /\ NoFault /\ UNCHANGED <<ledger, local, remote, world, effects>>

LookupConflicts ==
    /\ pc \in {"lookup", "relookup"} /\ LookupReady
    /\ cur \in Poison \/ Cardinality(Rows(cur)) > 1
    /\ Goto("fail")
    /\ NoFault /\ UNCHANGED <<ledger, local, remote, world, effects>>

\* HTTP error, quota breaker, transport exception.
LookupRaises ==
    /\ pc \in {"lookup", "relookup"} /\ Error /\ Goto("fail")
    /\ UNCHANGED <<ledger, local, remote, world, effects>>

\* insert_prediction: one POST; the task waits for its answer.
Insert ==
    /\ pc = "insert"
    /\ posts' = posts + 1 /\ wire' = wire \cup {[n |-> posts + 1, t |-> cur, id |-> 0]}
    /\ Goto("await")
    /\ NoFault /\ UNCHANGED <<ledger, local, d1, world, effects>>

\* The client's timeout; the gateway may still be working on the POST.
PostTimesOut ==
    /\ pc = "await" /\ Error /\ Goto("relookup")
    /\ UNCHANGED <<ledger, local, remote, world, effects>>

Awaited(w) == pc = "await" /\ w.n = posts

\* Seeded fault: MAX(id) without the increment.
GatewayReusesId(w) ==
    /\ w.id = 0
    /\ wire' = (wire \ {w}) \cup {[w EXCEPT !.id = IF d1 = <<>> THEN 1 ELSE Len(d1)]}
    /\ NoFault /\ UNCHANGED <<task, ledger, local, d1, posts, world, effects>>

\* rawPost, first half: SELECT COALESCE(MAX(id),0) and add one.
GatewayAssignsId(w) ==
    /\ w.id = 0
    /\ wire' = (wire \ {w}) \cup {[w EXCEPT !.id = Len(d1) + 1]}
    /\ NoFault /\ UNCHANGED <<task, ledger, local, d1, posts, world, effects>>

\* rawPost, second half: INSERT .. ON CONFLICT(id) DO UPDATE of every column.
Upserted(w) ==
    /\ w.id # 0 /\ wire' = wire \ {w}
    /\ d1' = IF w.id <= Len(d1) THEN [d1 EXCEPT ![w.id] = w.t] ELSE Append(d1, w.t)

GatewayUpserts(w) ==
    /\ Upserted(w)
    /\ IF Awaited(w)
       THEN pc' = "mark" /\ found' = w.id /\ UNCHANGED <<mode, cur, symbol, batch>>
       ELSE UNCHANGED task
    /\ NoFault /\ UNCHANGED <<ledger, local, posts, world, effects>>

\* The row is committed but its 201 never arrives.
AnswerLost(w) ==
    /\ Awaited(w) /\ Error /\ Upserted(w) /\ Goto("relookup")
    /\ UNCHANGED <<ledger, local, posts, world, effects>>

\* The request is lost or the gateway answers an error and writes no row.
PostFails(w) ==
    /\ Error /\ wire' = wire \ {w}
    /\ IF Awaited(w) THEN Goto("relookup") ELSE UNCHANGED task
    /\ UNCHANGED <<ledger, local, d1, posts, world, effects>>

-----------------------------------------------------------------------------
\* mark_persisted binds the receipt to the row; only a fresh T0 is routed.
Persisted == /\ receipt' = [receipt EXCEPT ![cur] = "PERSISTED"]
             /\ bound' = [bound EXCEPT ![cur] = found] /\ age' = Touch(cur)

\* Seeded fault: a repaired T0 is routed as well.
MarkPersistedRouting ==
    /\ pc = "mark" /\ Persisted /\ Goto("route")
    /\ NoFault /\ UNCHANGED <<local, remote, world, effects>>

MarkPersisted ==
    /\ pc = "mark" /\ Persisted
    /\ IF mode = "fresh" THEN Goto("route") ELSE Done
    /\ NoFault /\ UNCHANGED <<local, remote, world, effects>>

MarkPersistedRaises ==
    /\ pc = "mark" /\ Error /\ (Persisted \/ UNCHANGED ledger) /\ Abandon
    /\ UNCHANGED <<local, remote, world, effects>>

\* mark_failed keeps the receipt unresolved and moves it behind the others.
Failed == /\ receipt' = [receipt EXCEPT ![cur] = "FAILED"]
          /\ age' = Touch(cur) /\ UNCHANGED bound

\* Seeded fault: a fresh T0 is routed although its binding failed.
MarkFailedRouting ==
    /\ pc = "fail" /\ Failed /\ (IF mode = "fresh" THEN Goto("route") ELSE Done)
    /\ NoFault /\ UNCHANGED <<local, remote, world, effects>>

MarkFailed ==
    /\ pc = "fail" /\ Failed /\ Done
    /\ NoFault /\ UNCHANGED <<local, remote, world, effects>>

\* Swallowed for a fresh T0, which is done either way; fatal to a retry pass.
MarkFailedRaises ==
    /\ pc = "fail" /\ Error /\ (Failed \/ UNCHANGED ledger) /\ Abandon
    /\ UNCHANGED <<local, remote, world, effects>>

\* _route_to_portfolio then _route_to_binance_sim, each best-effort.
Route(lane, next) ==
    /\ treated' = [treated EXCEPT ![cur] = @ \cup {lane}]
    /\ IF next = "done" THEN Done ELSE Goto(next)
    /\ NoFault /\ UNCHANGED <<ledger, local, remote, world, stale>>

RouteRaises(next) ==
    /\ Error /\ (IF next = "done" THEN Done ELSE Goto(next))
    /\ UNCHANGED <<ledger, local, remote, world, effects>>

RouteToPortfolio == pc = "route" /\ (Route("portfolio", "sim") \/ RouteRaises("sim"))
RouteToBinanceSim == pc = "sim" /\ (Route("sim", "done") \/ RouteRaises("done"))

-----------------------------------------------------------------------------
\* The process dies between any two steps, in the journal append too; what
\* it sent to the gateway lives on.
Crash ==
    /\ pc # "down" /\ crashes < MaxCrashes /\ crashes' = crashes + 1 /\ UNCHANGED errors
    /\ pc' = "down" /\ mode' = "fresh" /\ cur' = 0 /\ symbol' = 0 /\ batch' = {} /\ found' = 0
    /\ IF pc = "log" THEN JournalInterrupted ELSE UNCHANGED <<journal, torn>>
    /\ UNCHANGED <<ledger, sealed, remote, world, effects>>

Restart ==
    /\ pc = "down" /\ pc' = "start"
    /\ NoFault /\ UNCHANGED <<mode, cur, symbol, batch, found, ledger, local, remote, world, effects>>

\* A candle opens at any time.  The sleep between cycles spans exactly such a
\* moment; a restart, which waits only INITIAL_DELAY_S, need not.
NextCandle ==
    /\ candle <= MaxCandle /\ candle' = candle + 1
    /\ pc' = IF pc = "sleep" THEN "start" ELSE pc
    /\ NoFault
    /\ UNCHANGED <<mode, cur, symbol, batch, found, ledger, local, remote, generated, obs, effects>>

\* Bound: after the last candle the loop goes on without market data.
CycleWithoutMarket ==
    /\ pc = "sleep" /\ candle > MaxCandle /\ pc' = "start"
    /\ NoFault /\ UNCHANGED <<mode, cur, symbol, batch, found, ledger, local, remote, world, effects>>

Loop ==
    \/ StartCycle \/ TakeReceipt \/ EndRetry \/ EndCycle \/ CycleWithoutMarket
    \/ SkipSymbol \/ Generate
Stores == Enqueue \/ Seal \/ LogPrediction \/ MarkPersisted \/ MarkFailed
Client == LookupFinds \/ LookupFindsNone \/ LookupConflicts \/ Insert
Gateway == \E w \in wire : GatewayAssignsId(w) \/ GatewayUpserts(w)
Faults ==
    \/ PendingRaises \/ EnqueueRaises \/ EnqueueAgainRaises \/ SealRaises \/ LogRaises \/ LookupRaises \/ PostTimesOut
    \/ MarkPersistedRaises \/ MarkFailedRaises \/ Crash
    \/ \E w \in wire : AnswerLost(w) \/ PostFails(w)

Next ==
    \/ Loop \/ Stores \/ Client \/ Gateway \/ Faults
    \/ RouteToPortfolio \/ RouteToBinanceSim \/ Restart \/ NextCandle

Spec == Init /\ [][Next]_vars

\* The task runs whenever it can (its loop never returns and every step ends),
\* a supervisor restarts the process, the gateway finishes what it received.
Fairness ==
    /\ WF_vars(Loop \/ Stores \/ Client \/ RouteToPortfolio \/ RouteToBinanceSim)
    /\ WF_vars(Restart) /\ WF_vars(Gateway) /\ WF_vars(NextCandle)

FairSpec == Spec /\ Fairness

-----------------------------------------------------------------------------
(***************************************************************************)
(* Properties                                                              *)
(***************************************************************************)
Post == [n : Nat, t : T0, id : Nat]

TaskType ==
    /\ pc \in {"down", "start", "sleep", "retry", "symbol", "enqueue", "seal", "log", "lookup",
               "insert", "await", "relookup", "mark", "fail", "route", "sim"}
    /\ mode \in {"fresh", "retry"} /\ cur \in 0..MaxT0 /\ symbol \in Nat
    /\ batch \subseteq T0 /\ found \in Nat
LedgerType ==
    /\ receipt \in [T0 -> {"NONE", "ENQUEUED", "FAILED", "PERSISTED"}]
    /\ bound \in [T0 -> Nat] /\ age \in [T0 -> Nat]
LocalType == sealed \subseteq T0 /\ journal \in Seq(0..MaxT0) /\ torn \in BOOLEAN
RemoteType == d1 \in Seq(T0) /\ wire \subseteq Post /\ posts \in Nat
WorldType ==
    /\ candle \in 1..(MaxCandle + 1) /\ generated \in 0..MaxT0
    /\ obs \in [T0 -> [sym : 0..NSymbols, candle : 0..MaxCandle]]
    /\ treated \in [T0 -> SUBSET Lanes] /\ stale \subseteq T0
    /\ crashes \in 0..MaxCrashes /\ errors \in 0..MaxErrors

\* Types of the task's locals, the stores, the gateway and the history.
TypeOK == TaskType /\ LedgerType /\ LocalType /\ RemoteType /\ WorldType

\* No lane ever sees a T0 that is not sealed and bound to an authority row
\* of its own ("Bind one T0 to durable D1 authority before any PAPER lane").
RouteOnlyDurable ==
    \A t \in T0 : treated[t] # {} => receipt[t] = "PERSISTED" /\ t \in sealed

\* A receipt's row is the row of that T0 and stays so: no later POST takes
\* the id over.
LineageExact ==
    \A t \in T0 : receipt[t] = "PERSISTED" => bound[t] \in 1..Len(d1) /\ d1[bound[t]] = t

\* Whatever another store or the gateway knows of has its sealed packet: no
\* authority row and no dedupe marker without audit evidence.
SealedFirst ==
    \A t \in T0 : (\E i \in 1..Len(d1) : d1[i] = t)
                  \/ (\E i \in 1..Len(journal) : journal[i] = t)
                  \/ (\E w \in wire : w.t = t) => t \in sealed /\ receipt[t] # "NONE"

\* The journal's purpose: one symbol and candle is treated through one T0,
\* across restarts ("routing a prediction after an unsuccessful append would
\* permit a duplicate treatment after restart").
OneTreatmentPerCandle ==
    \A t, u \in T0 :
        treated[t] # {} /\ treated[u] # {} /\ obs[t] = obs[u] /\ obs[t].candle # NoCandle => t = u

\* The pipeline implements the lineage promise, with D1's rows in id order as
\* the authority and the fresh T0 in progress as the current one.
Lineage == INSTANCE T0Lineage WITH
    Obs <- [sym : 1..NSymbols, candle : 0..MaxCandle],
    Unknown <- [sym : 1..NSymbols, candle : {NoCandle}],
    None <- 0,
    authority <- d1,
    current <- IF mode = "fresh" THEN cur ELSE 0

ImplementsLineage == Lineage!Spec

\* Recovery repairs lineage and never backdates a PAPER decision: a lane only
\* receives the T0 that the current cycle generated.
NoRetroactiveRouting ==
    [][\A t \in T0 : treated'[t] # treated[t] => t \notin stale /\ t = generated]_vars

\* Once faults stop, every unresolved receipt is eventually persisted, even
\* when others keep failing: the retry pass starves nobody.
EveryReceiptResolves ==
    \A t \in T0 \ Poison :
        receipt[t] \in {"ENQUEUED", "FAILED"} ~> receipt[t] = "PERSISTED"

=============================================================================
