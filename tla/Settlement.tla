------------------------------ MODULE Settlement ------------------------------
(***************************************************************************)
(* A prediction row from its POST to its proof: gateway_order074.js over   *)
(* the two databases HOT and COLD, and its two writers.  The oracle loop   *)
(* (oracle_runner.py, supabase_client.py) posts T0s, binds them and        *)
(* settles the ones an hour old; settlement_reconciler.py, a process of    *)
(* its own, adds the proof to rows settled before proofs existed.          *)
(*                                                                         *)
(* The gateway is not transactional: it reads HOT and COLD, writes COLD,   *)
(* then writes HOT.  A writer that has given up on a request or restarted  *)
(* does not stop it.                                                       *)
(*                                                                         *)
(* T0s 1..MaxLegacy are the rows settled before proofs.  A tick is a       *)
(* quarter of an hour where windows are counted and a candle's minute      *)
(* where maturity is: the 15m window is one tick, the hour two, and a      *)
(* candle closes a tick after it opens.                                    *)
(***************************************************************************)
EXTENDS Naturals, FiniteSets, FiniteSetsExt

CONSTANTS
    MaxLegacy,      \* rows settled without a proof
    MaxT0,          \* bound: T0s, the legacy ones included
    Paths,          \* price paths tried: close of each window's candle, against the origin
    Cap,            \* rows one verifier pass takes
    Overlap,        \* TRUE: a request outlives the client's pause before the next one
    MaxTears,       \* bound: gateway deaths between the COLD and the HOT write
    MaxFaults,      \* bound: other failures, lost answers, restarts
    MaxRequests     \* bound: names for the requests and the proofs in use at a time

T0s == 1..MaxT0
MaxId == MaxT0 + 1     \* room for a T0 posted twice
Ids == 1..MaxId
Legacy == 1..MaxLegacy
Writers == {"oracle", "reconciler"}
Windows == {"15m", "1h"}
Prices == {"up", "down", "same"}

ASSUME SettlementAssumption ==
    /\ MaxLegacy \in Nat /\ MaxT0 \in Nat /\ MaxLegacy <= MaxT0
    /\ Paths \subseteq [Windows -> Prices] /\ Cap \in Nat \ {0}
    /\ Overlap \in BOOLEAN
    /\ MaxTears \in Nat /\ MaxFaults \in Nat /\ MaxRequests \in Nat

VARIABLES
    clock,      \* the time, in ticks
    path,       \* what the exchange's final candles will say, per T0
    hot, cold,  \* the two databases, by id
    req,        \* requests alive at the gateway
    task,       \* per writer: where it is
    local,      \* the oracle's durable authority rows
    bound,      \* per T0: the id its receipt is bound to, 0 if none
    tears, faults

data == <<hot, cold, local, bound>>
bounds == <<tears, faults>>
vars == <<clock, path, data, req, task, bounds>>

-----------------------------------------------------------------------------
NoProof == [n |-> 0, price |-> [w \in Windows |-> "same"]]
Proved(n, price) == [n |-> n, price |-> price]   \* settled_at differs per request
NoRow == [t |-> 0, out |-> "none", proof |-> NoProof]
NoAudit == [t |-> 0, proof |-> NoProof]
Audit(row) == [t |-> row.t, proof |-> row.proof]
Idle == [at |-> "idle", id |-> 0, t |-> 0, todo |-> {}, price |-> NoProof.price, n |-> 0]

Direction(t) == IF t % 2 = 1 THEN "LONG" ELSE "SHORT"

\* directional_outcome.
Outcome(direction, price) ==
    IF <<direction, price>> \in {<<"LONG", "up">>, <<"SHORT", "down">>} THEN "WIN" ELSE "LOSS"

\* target_epoch_ms, and the close of the candle that contains it.
Born(t) == IF t \in Legacy THEN 0 ELSE 3
Target(t, w) == Born(t) + (IF w = "15m" THEN 1 ELSE 2)
CandleClose(t, w) == Target(t, w) + 1
\* The model starts when the new T0s are half an hour old, and posts them late.
StartTick == 5
MaxTick == 6
MaturityBuffer == 1

\* The gateway's full-audit read: the COLD row must be the one HOT names.
Matches(i) == cold[i] = Audit(hot[i])
Present(i) == hot[i].t # 0
RowsOf(t) == {i \in Ids : hot[i].t = t}

Fault == faults < MaxFaults /\ faults' = faults + 1
NoFault == UNCHANGED bounds
AliveOf(c) == {r \in req : r.by = c}

-----------------------------------------------------------------------------
LegacyRow(i) == [t |-> i, out |-> Outcome(Direction(i), path[i]["15m"]), proof |-> NoProof]

\* Legacy rows were settled by the 15m window alone.
Init ==
    /\ clock = StartTick /\ path \in [T0s -> Paths]
    /\ hot = [i \in Ids |-> IF i \in Legacy THEN LegacyRow(i) ELSE NoRow]
    /\ cold = [i \in Ids |-> Audit(hot[i])]
    /\ local = hot
    /\ bound = [t \in T0s |-> IF t \in Legacy THEN t ELSE 0]
    /\ req = {} /\ task = [c \in Writers |-> Idle]
    /\ tears = 0 /\ faults = 0

Tick ==
    /\ clock < MaxTick /\ clock' = clock + 1
    /\ UNCHANGED <<path, data, req, task, bounds>>

-----------------------------------------------------------------------------
\* A name no request or proof in use has.
Named == {r.n : r \in req} \cup {hot[i].proof.n : i \in Ids}
         \cup {cold[i].proof.n : i \in Ids} \cup {local[i].proof.n : i \in Ids}
Fresh == Min((1..MaxRequests) \ Named)

\* A writer sends a write and awaits its answer.
Send(c, kind, i, filter, row) ==
    /\ (1..MaxRequests) \ Named # {}
    /\ Overlap \/ AliveOf(c) = {}
    /\ req' = req \cup
        {[n |-> Fresh, by |-> c, kind |-> kind, id |-> i, filter |-> filter, row |-> row, at |-> "sent"]}
    /\ task' = [task EXCEPT ![c].at = "wait", ![c].n = Fresh, ![c].id = i, ![c].t = row.t]

\* What the writer learns when request r ends.
Answer(r, result) ==
    task' = IF task[r.by].at = "wait" /\ task[r.by].n = r.n
            THEN [task EXCEPT ![r.by].at = result, ![r.by].id = r.id] ELSE task

\* rawPost: the id after HOT's greatest.
ReadPost(r) ==
    /\ r.kind = "POST" /\ r.at = "sent"
    /\ LET next == Max({0} \cup {i \in Ids : Present(i)}) + 1 IN
       /\ next \in Ids
       /\ req' = (req \ {r}) \cup {[r EXCEPT !.id = next, !.at = "read"]}
    /\ UNCHANGED <<clock, path, data, task, bounds>>

\* Seeded fault: the target's filters are left to the row's id.
FiltersIgnored(r) == Present(r.id)

\* Seeded fault: outcome=eq.null, which SQL matches with no row.
FilterEqualsNull(r) ==
    r.filter # "none" /\ Present(r.id) /\ hot[r.id].out = r.filter /\ hot[r.id].proof = NoProof

\* validatePatchTarget, validateAuditPatch: outcome as filtered, no proof yet.
Filtered(r) == Present(r.id) /\ hot[r.id].out = r.filter /\ hot[r.id].proof = NoProof

\* rawPatch reads the row the filters select; a row whose halves differ raises.
ReadPatch(r) ==
    /\ r.kind = "PATCH" /\ r.at = "sent"
    /\ IF Filtered(r) /\ Matches(r.id)
       THEN /\ req' = (req \ {r}) \cup {[r EXCEPT !.row.t = hot[r.id].t, !.at = "read"]}
            /\ UNCHANGED task
       ELSE /\ req' = req \ {r}
            /\ Answer(r, IF Filtered(r) THEN "failed" ELSE "empty")
    /\ UNCHANGED <<clock, path, data, bounds>>

\* Seeded fault: the COLD row is inserted and never updated.
ColdInsertedOnce(r) ==
    /\ r.at = "read"
    /\ cold' = IF cold[r.id].t = 0 THEN [cold EXCEPT ![r.id] = Audit(r.row)] ELSE cold
    /\ req' = (req \ {r}) \cup {[r EXCEPT !.at = "cold"]}
    /\ UNCHANGED <<clock, path, hot, local, bound, task, bounds>>

\* writeBundle.
WriteCold(r) ==
    /\ r.at = "read" /\ cold' = [cold EXCEPT ![r.id] = Audit(r.row)]
    /\ req' = (req \ {r}) \cup {[r EXCEPT !.at = "cold"]}
    /\ UNCHANGED <<clock, path, hot, local, bound, task, bounds>>

WriteHot(r) ==
    /\ r.at = "cold" /\ hot' = [hot EXCEPT ![r.id] = r.row]
    /\ req' = req \ {r} /\ Answer(r, IF r.kind = "POST" THEN "posted" ELSE "done")
    /\ UNCHANGED <<clock, path, cold, local, bound, bounds>>

\* A statement fails or the worker is stopped, before the COLD write or after.
GatewayDies(r) ==
    /\ req' = req \ {r} /\ Answer(r, "failed")
    /\ IF r.at = "cold"
       THEN tears < MaxTears /\ tears' = tears + 1 /\ UNCHANGED faults
       ELSE Fault /\ UNCHANGED tears
    /\ UNCHANGED <<clock, path, data>>

\* The client's timeout, or an answer lost on its way.
GiveUp(c) ==
    /\ task[c].at = "wait" /\ task' = [task EXCEPT ![c].at = "failed"]
    /\ Fault /\ UNCHANGED <<clock, path, data, req, tears>>

Restart(c) ==
    /\ task[c] # Idle /\ task' = [task EXCEPT ![c] = Idle]
    /\ Fault /\ UNCHANGED <<clock, path, data, req, tears>>

-----------------------------------------------------------------------------
\* Seeded fault: a T0 is posted again without looking for its row.
PostAgain ==
    /\ task["oracle"].at = "idle"
    /\ \E t \in T0s : bound[t] = 0 /\ Send("oracle", "POST", 0, "none", [NoRow EXCEPT !.t = t])
    /\ UNCHANGED <<clock, path, data, bounds>>

\* insert_prediction, after the lookup by exact T0 found no row.
PostT0 ==
    /\ task["oracle"].at = "idle"
    /\ \E t \in T0s :
        /\ bound[t] = 0 /\ RowsOf(t) = {}
        /\ Send("oracle", "POST", 0, "none", [NoRow EXCEPT !.t = t])
    /\ UNCHANGED <<clock, path, data, bounds>>

\* Seeded fault: the lookup asks for rows without an outcome.
LookupUnsettledOnly ==
    /\ task["oracle"].at = "idle"
    /\ \E t \in T0s : bound[t] = 0 /\ \E i \in RowsOf(t) :
        /\ Matches(i) /\ RowsOf(t) = {i} /\ hot[i].out = "none"
        /\ bound' = [bound EXCEPT ![t] = i] /\ local' = [local EXCEPT ![i] = hot[i]]
    /\ UNCHANGED <<clock, path, hot, cold, req, task>> /\ NoFault

\* _lookup_exact_prediction_t0 is a full-audit read.
LookupT0 ==
    /\ task["oracle"].at = "idle"
    /\ \E t \in T0s : bound[t] = 0 /\ \E i \in RowsOf(t) :
        /\ Matches(i) /\ RowsOf(t) = {i}
        /\ bound' = [bound EXCEPT ![t] = i] /\ local' = [local EXCEPT ![i] = hot[i]]
    /\ UNCHANGED <<clock, path, hot, cold, req, task>> /\ NoFault

\* The answer carries the row; a POST that failed is looked up next cycle.
PostAnswered ==
    LET t == task["oracle"].t
        i == task["oracle"].id IN
    /\ task["oracle"].at = "posted"
    /\ bound' = [bound EXCEPT ![t] = i] /\ local' = [local EXCEPT ![i] = [NoRow EXCEPT !.t = t]]
    /\ task' = [task EXCEPT !["oracle"] = Idle]
    /\ UNCHANGED <<clock, path, hot, cold, req>> /\ NoFault

PostFailed ==
    /\ task["oracle"].at = "failed" /\ task["oracle"].todo = {}
    /\ task' = [task EXCEPT !["oracle"] = Idle]
    /\ UNCHANGED <<clock, path, data, req>> /\ NoFault

\* fetch_authority_history imports HOT's rows; it reads no COLD row.
Refresh ==
    /\ local # hot /\ local' = hot
    /\ UNCHANGED <<clock, path, hot, cold, bound, req, task>> /\ NoFault

-----------------------------------------------------------------------------
\* Seeded fault: a row is due as soon as its hour is over.
DueAtTheHour(i) ==
    /\ local[i].t # 0 /\ local[i].out = "none" /\ clock >= Target(local[i].t, "1h")

\* Seeded fault: the oldest Cap rows are taken before the settled ones are left out.
DueOfOldest(i) ==
    /\ i <= Cap /\ local[i].t # 0 /\ local[i].out = "none"
    /\ clock >= Target(local[i].t, "1h") + MaturityBuffer

\* fetch_pending_outcomes: local rows without an outcome, an hour and the
\* maturity buffer old; the oldest Cap of them.
Due(i) ==
    /\ local[i].t # 0 /\ local[i].out = "none"
    /\ clock >= Target(local[i].t, "1h") + MaturityBuffer
Oldest(S) == {i \in S : Cardinality({j \in S : j < i}) < Cap}

VerifyPass ==
    /\ task["oracle"].at = "idle"
    /\ LET todo == Oldest({i \in Ids : Due(i)}) IN
       /\ todo # {} /\ task' = [task EXCEPT !["oracle"].at = "pass", !["oracle"].todo = todo]
    /\ UNCHANGED <<clock, path, data, req>> /\ NoFault

\* reconcile_once: sealed local rows with an outcome and no proof, an hour old.
Repairable(i) ==
    /\ local[i].t # 0 /\ local[i].out # "none" /\ local[i].proof = NoProof
    /\ clock >= Target(local[i].t, "1h")

RepairPass ==
    /\ task["reconciler"].at = "idle"
    /\ LET todo == Oldest({i \in Ids : Repairable(i)}) IN
       /\ todo # {} /\ task' = [task EXCEPT !["reconciler"].at = "pass", !["reconciler"].todo = todo]
    /\ UNCHANGED <<clock, path, data, req>> /\ NoFault

NextRow(c) == [task EXCEPT ![c].at = "pass", ![c].todo = @ \ {task[c].id}]
\* The reconciler stops its pass at the first error.
AfterError(c) == IF c = "reconciler" THEN [task EXCEPT ![c] = Idle] ELSE NextRow(c)

EndPass(c) ==
    /\ task[c].at = "pass" /\ task[c].todo = {} /\ task' = [task EXCEPT ![c] = Idle]
    /\ UNCHANGED <<clock, path, data, req>> /\ NoFault

\* fetch_historical_price_evidence: the exchange's answer is as old as the
\* request; a candle that has not closed shows any price.
ReadCandles(c) ==
    /\ task[c].at = "pass" /\ task[c].todo # {}
    /\ LET i == Min(task[c].todo)
           t == local[i].t IN
       \E price \in [Windows -> Prices] :
        /\ \A w \in Windows : clock >= CandleClose(t, w) => price[w] = path[t][w]
        /\ \A w \in Windows : clock < CandleClose(t, w) => price[w] \in {"up", "down"}
        /\ task' = [task EXCEPT ![c].at = "evidence", ![c].id = i, ![c].t = t, ![c].price = price]
    /\ UNCHANGED <<clock, path, data, req>> /\ NoFault

\* price_evidence_from_candles takes the time of observation after the answer.
Observed(c) == \A w \in Windows : clock >= CandleClose(task[c].t, w)

\* The exchange has no candle, or one that has not closed.
NoEvidence(c) ==
    /\ task[c].at = "evidence" /\ task' = AfterError(c)
    /\ IF Observed(c) THEN Fault ELSE UNCHANGED faults
    /\ UNCHANGED <<clock, path, data, req, tears>>

SettledRow(t, n, price) ==
    [t |-> t, out |-> Outcome(Direction(t), price["1h"]), proof |-> Proved(n, price)]

\* update_outcome_dual: GET the row, check it, then the compare-and-set PATCH.
SettleRow ==
    LET i == task["oracle"].id
        price == task["oracle"].price IN
    /\ task["oracle"].at = "evidence" /\ Observed("oracle")
    /\ Present(i) /\ Matches(i) /\ hot[i].out = "none"
    /\ Send("oracle", "PATCH", i, "none", SettledRow(hot[i].t, Fresh, price))
    /\ UNCHANGED <<clock, path, data, bounds>>

\* The GET raised, or the row has an outcome already.
SettleSkips ==
    LET i == task["oracle"].id IN
    /\ task["oracle"].at = "evidence" /\ Observed("oracle")
    /\ ~(Present(i) /\ Matches(i) /\ hot[i].out = "none") /\ task' = NextRow("oracle")
    /\ UNCHANGED <<clock, path, data, req>> /\ NoFault

\* "success": the PATCH answered with the row it changed.
Settles(c) == c = "oracle" /\ task[c].at = "done"

\* The oracle writes a row it has settled through; the reconciler leaves it to
\* the next refresh, and stops at an answer without a row.
PatchAnswered(c) ==
    LET i == task[c].id IN
    /\ task[c].at \in {"done", "empty", "failed"} /\ task[c].todo # {}
    /\ task' = IF task[c].at = "done" THEN NextRow(c) ELSE AfterError(c)
    /\ local' = IF Settles(c)
                THEN [local EXCEPT ![i] = SettledRow(task[c].t, task[c].n, task[c].price)]
                ELSE local
    /\ UNCHANGED <<clock, path, hot, cold, bound, req>> /\ NoFault

\* _repair_row never changes an outcome: one the candles contradict stays.
Conflict(i, price) == local[i].out # Outcome(Direction(local[i].t), price["1h"])

\* Seeded fault: a conflict ends the pass as an error does.
ConflictStops ==
    LET i == task["reconciler"].id
        price == task["reconciler"].price IN
    /\ task["reconciler"].at = "evidence" /\ Observed("reconciler")
    /\ IF Conflict(i, price)
       THEN task' = AfterError("reconciler") /\ UNCHANGED req
       ELSE Send("reconciler", "PATCH", i, local[i].out,
                 [local[i] EXCEPT !.proof = Proved(Fresh, price)])
    /\ UNCHANGED <<clock, path, data, bounds>>

RepairRow ==
    LET i == task["reconciler"].id
        price == task["reconciler"].price IN
    /\ task["reconciler"].at = "evidence" /\ Observed("reconciler")
    /\ IF Conflict(i, price)
       THEN task' = NextRow("reconciler") /\ UNCHANGED req
       ELSE Send("reconciler", "PATCH", i, local[i].out,
                 [local[i] EXCEPT !.proof = Proved(Fresh, price)])
    /\ UNCHANGED <<clock, path, data, bounds>>

-----------------------------------------------------------------------------
Gateway(c) == \E r \in AliveOf(c) : ReadPost(r) \/ ReadPatch(r) \/ WriteCold(r) \/ WriteHot(r)
Pass(c) == ReadCandles(c) \/ EndPass(c) \/ PatchAnswered(c)
Oracle ==
    PostT0 \/ LookupT0 \/ PostAnswered \/ PostFailed \/ VerifyPass \/ SettleRow \/ SettleSkips
    \/ Pass("oracle")
Reconciler == RepairPass \/ RepairRow \/ Pass("reconciler")

Next ==
    \/ Tick \/ Oracle \/ Refresh \/ Reconciler
    \/ \E r \in req : GatewayDies(r)
    \/ \E c \in Writers : Gateway(c) \/ NoEvidence(c) \/ GiveUp(c) \/ Restart(c)

Spec == Init /\ [][Next]_vars

\* Both processes loop for ever and snapshots are refreshed; the gateway serves
\* every request it accepts; faults are bounded.
FairSpec ==
    /\ Spec /\ WF_vars(Tick) /\ WF_vars(Refresh) /\ \A c \in Writers : WF_vars(Gateway(c))
    /\ WF_vars(Oracle \/ NoEvidence("oracle")) /\ WF_vars(Reconciler \/ NoEvidence("reconciler"))

-----------------------------------------------------------------------------
Proof == [n : 0..MaxRequests, price : [Windows -> Prices]]
Row == [t : 0..MaxT0, out : {"none", "WIN", "LOSS"}, proof : Proof]

\* Types of both databases, the requests, both writers and the local rows.
TypeOK ==
    /\ clock \in 0..MaxTick /\ path \in [T0s -> [Windows -> Prices]]
    /\ hot \in [Ids -> Row] /\ cold \in [Ids -> [t : 0..MaxT0, proof : Proof]]
    /\ local \in [Ids -> Row] /\ bound \in [T0s -> 0..MaxId]
    /\ req \subseteq
        [n : 1..MaxRequests, by : Writers, kind : {"POST", "PATCH"}, id : 0..MaxId,
         filter : {"none", "WIN", "LOSS"}, row : Row, at : {"sent", "read", "cold"}]
    /\ task \in
        [Writers -> [at : {"idle", "pass", "evidence", "wait", "posted", "done", "empty", "failed"},
                     id : 0..MaxId, t : 0..MaxT0, todo : SUBSET Ids, price : [Windows -> Prices],
                     n : 0..MaxRequests]]
    /\ tears \in 0..MaxTears /\ faults \in 0..MaxFaults

\* HOT never names a proof, or a T0, that COLD does not hold: whatever request
\* was served or cut short, the audit behind a row can be read or the row
\* refuses to be, and no reader is shown another row's audit.
HotIsBacked ==
    \A i \in Ids : Present(i) =>
        cold[i].t = hot[i].t /\ (hot[i].proof # NoProof => cold[i].proof = hot[i].proof)

\* "PERSISTED_BY_COMPARE_AND_SET": a row is settled once.  No later request of
\* either writer changes its outcome, its proof or its T0, though the gateway
\* checks the row a request selected before it writes, not while it writes.
SettledOnce ==
    [][\A i \in Ids : Present(i) =>
        /\ hot'[i].t = hot[i].t
        /\ hot[i].out # "none" => hot'[i].out = hot[i].out
        /\ hot[i].proof # NoProof => hot'[i].proof = hot[i].proof]_vars

\* A proof is of the row's own T0 and of closed candles, and the outcome is the
\* one they give, whichever writer made it and however long it was under way.
ProvedByFinalCandles ==
    \A i \in Ids : hot[i].proof # NoProof =>
        /\ hot[i].proof.price = path[hot[i].t]
        /\ hot[i].out = Outcome(Direction(hot[i].t), path[hot[i].t]["1h"])

\* A receipt is bound to a row that is its T0's, and no T0 has two rows.
BoundToItsRow ==
    \A t \in T0s : Cardinality(RowsOf(t)) <= 1 /\ (bound[t] # 0 => hot[bound[t]].t = t)

\* A row whose COLD half is ahead, and no write of it under way.
Torn(i) == Present(i) /\ ~Matches(i) /\ \A r \in req : r.at = "cold" => r.id # i

\* A posted row is settled, or was torn between its two writes (the legacy rows
\* are settled from the start), although a pass takes Cap rows, oldest first, and
\* takes a torn one again and again (fetch_pending_outcomes, supabase_client.py:1464).
SettledOrTorn ==
    \A i \in Ids \ Legacy : (Present(i) /\ hot[i].out = "none") ~> (hot[i].proof # NoProof \/ Torn(i))

\* Every T0 is bound to its row, though the answer to its POST was lost, the
\* POST was torn or repeated, or the row was settled before it was looked up,
\* unless that settlement was torn: the lookup reads the audit too.
EveryT0Binds ==
    \A t \in T0s \ Legacy : <>(bound[t] # 0 \/ \E i \in RowsOf(t) : Torn(i))

\* A row settled without a proof gets one unless the candles contradict it or
\* an older row is torn: the reconciler's pass stops at the first error.
RepairedOrBlocked ==
    \A i \in Legacy :
        <>(\/ hot[i].proof # NoProof \/ hot[i].out # Outcome(Direction(i), path[i]["1h"])
           \/ \E j \in 1..i : Torn(j))

\* "Settle one bounded restart-safe keyset pass": every posted row is settled.
EverySettles ==
    \A i \in Ids : (Present(i) /\ hot[i].out = "none") ~> (hot[i].proof # NoProof)
=============================================================================
