----------------------------- MODULE PaperControl ----------------------------
(***************************************************************************)
(* PAPER portfolio control (backend/portfolio): the coordinator that the   *)
(* oracle loop hands every persisted prediction to, its RiskKernel, the    *)
(* ExecutionEngine's positions, and the two files they live in: the        *)
(* closed-trade journal, appended at every exit, and the control-state     *)
(* checkpoint, replaced atomically, which must agree with the journal      *)
(* whenever it is written or read.                                         *)
(*                                                                         *)
(* One asyncio task routes predictions: a tick, which may close the        *)
(* symbol's position, then the ingest, which may open one.  Only while an  *)
(* order fills does it await, and there the kill-switch handlers, midnight *)
(* and a shutdown may come in.  A crash may come anywhere.                 *)
(*                                                                         *)
(* Positions are numbered in the order they open, from 1; the first may    *)
(* have been closed and journaled before checkpoints existed.  A trade's   *)
(* result is rounded to cents: it loses a unit, wins one, or comes out     *)
(* even.  Drawdown is taken at market prices, so whether its limit is      *)
(* breached is an input.                                                   *)
(***************************************************************************)
EXTENDS Integers, Sequences, FiniteSets, Functions

CONSTANTS
    Symbols,
    MaxConcurrent,      \* max_concurrent
    LossThreshold,      \* consecutive_loss_threshold
    DailyLimit,         \* max_daily_loss_pct, in units
    Legacy,             \* results tried for a trade journaled before checkpoints
    AllowBootstrap,     \* SENEX_PAPER_CONTROL_ALLOW_JOURNAL_BOOTSTRAP
    MaxPositions,       \* bound: positions opened
    MaxDay,             \* bound: midnights
    MaxFaults,          \* bound: failed or short writes of the two files
    MaxCrashes          \* bound: crashes

ASSUME PaperControlAssumption ==
    /\ "none" \notin Symbols /\ MaxConcurrent \in Nat \ {0} /\ LossThreshold \in Nat \ {0}
    /\ DailyLimit \in Nat \ {0} /\ Legacy \subseteq {-1, 0, 1} /\ AllowBootstrap \in BOOLEAN
    /\ MaxPositions \in Nat \ {0} /\ MaxDay \in Nat
    /\ MaxFaults \in Nat /\ MaxCrashes \in Nat

VARIABLES
    up,         \* the coordinator is published
    mem,        \* its state: open and closed positions, historical ids, risk kernel
    pc, at,     \* the routing task: where it is, on which symbol
    ckpt,       \* paper_control_state.json, as it was last written
    garbled,    \* the write was short, and the file does not parse
    journal,    \* trades.jsonl
    unended,    \* its last row lacks the newline
    torn,       \* one of its lines does not parse
    today, opened, faults, crashes,
    kept,       \* history: positions a checkpoint has shown open
    operator    \* history: the operator's acknowledged trip: no, held, overwritten

files == <<journal, unended, torn>>
disk == <<ckpt, garbled, files>>
bounds == <<today, opened, faults, crashes>>
vars == <<up, mem, pc, at, disk, bounds, kept, operator>>

PnL == {-1, 0, 1}
Reasons == {"none", "manual", "streak", "daily_loss", "drawdown"}
Trades == [id : 1..MaxPositions, pnl : PnL]
IdsOf(S) == {x.id : x \in S}
Rows == Range(journal)

\* `since` is a history component: journal rows when the streak was last cleared.
FreshKernel(day) == [day |-> day, daily |-> 0, streak |-> 0, since |-> 0,
                     cooldown |-> FALSE, drawdown |-> FALSE, kill |-> "none"]
Fresh(kernel) == [open |-> {}, closed |-> {}, hist |-> {}, kernel |-> kernel]
NoState == Fresh(FreshKernel(-1))
PositionAt(s) == {p \in mem.open : p.sym = s}

Fault == faults < MaxFaults /\ faults' = faults + 1

Init ==
    /\ journal \in {<<>>} \union {<<[id |-> 1, pnl |-> r]>> : r \in Legacy}
    /\ up = FALSE /\ pc = "idle" /\ at = "none"
    /\ today = 0 /\ opened = Len(journal) /\ faults = 0 /\ crashes = 0
    /\ mem = NoState /\ ckpt = NoState
    /\ garbled = FALSE /\ unended = FALSE /\ torn = FALSE /\ kept = {} /\ operator = "no"

-----------------------------------------------------------------------------
(* The risk kernel. *)

\* RiskKernel.reset_kill_switch; seen: trades journaled before.
Reset(k, seen) ==
    [k EXCEPT !.kill = "none", !.cooldown = FALSE, !.streak = 0, !.since = seen]

\* Seeded fault: the trades of a loss streak are not counted across midnight.
RolloverClearsStreak(k, seen) ==
    IF k.day = today THEN k ELSE [k EXCEPT !.day = today, !.daily = 0, !.streak = 0]

\* _maybe_rollover_day.
Rollover(k, seen) ==
    LET fresh == [k EXCEPT !.day = today, !.daily = 0] IN
    CASE k.day = today -> k
      [] k.day # today /\ k.kill = "daily_loss" -> Reset(fresh, seen)
      [] OTHER -> fresh

\* The automatic trips of record_pnl, in its order: the last reason stands.
Trip(kill, streak, daily, breach) ==
    CASE breach -> "drawdown"
      [] ~breach /\ daily <= -DailyLimit -> "daily_loss"
      [] ~breach /\ daily > -DailyLimit /\ streak >= 2 * LossThreshold -> "streak"
      [] OTHER -> kill

\* record_pnl.  A trade that comes out even leaves streak and cooldown alone.
RecordPnl(k, pnl, breach) ==
    LET n == Rollover(k, Len(journal))
        daily == n.daily + pnl
        streak == CASE pnl < 0 -> n.streak + 1 [] pnl = 0 -> n.streak [] pnl > 0 -> 0
        cooldown == CASE pnl < 0 -> n.cooldown \/ streak >= LossThreshold
                      [] pnl = 0 -> n.cooldown
                      [] pnl > 0 -> FALSE IN
    [n EXCEPT
        !.daily = daily, !.streak = streak, !.drawdown = breach, !.cooldown = cooldown,
        !.kill = Trip(n.kill, IF pnl < 0 THEN streak ELSE 0, daily, breach)]

\* The checks evaluate makes before it approves.
Approves(k, cooled) ==
    /\ k.kill = "none" /\ k.daily > -DailyLimit /\ ~k.drawdown
    /\ k.cooldown => cooled

-----------------------------------------------------------------------------
(* The two files. *)

\* Seeded fault: only open positions are compared with the journal.
AgreesOnOpen(m) ==
    ~torn /\ IdsOf(m.open) \intersect IdsOf(Rows) = {}

\* Seeded fault: only closed positions are compared with the journal, and one way.
AgreesOnClosed(m) == ~torn /\ m.closed \subseteq Rows

\* load_strict_closed_journal and _assert_journal_state_consistency.
Agrees(m) ==
    /\ ~torn /\ IsInjective([i \in DOMAIN journal |-> journal[i].id])
    /\ m.hist \intersect IdsOf(m.closed) = {}
    /\ IdsOf(m.open) \intersect IdsOf(Rows) = {}
    /\ m.hist \union IdsOf(m.closed) = IdsOf(Rows)
    /\ m.closed \subseteq Rows

Replaces(m) == ckpt' = m /\ kept' = kept \union IdsOf(m.open)

\* _persist_control_state.  The store does not look at how much of its temporary
\* file it has written.
SaveSucceeds(m) ==
    /\ Agrees(m) /\ Replaces(m)
    /\ \/ garbled' = FALSE /\ UNCHANGED faults
       \/ garbled' = TRUE /\ Fault

\* The directory is synced after the file is replaced.
SaveRaises(m) ==
    \/ ~Agrees(m) /\ UNCHANGED <<ckpt, garbled, kept, faults>>
    \/ /\ Agrees(m) /\ Fault
       /\ \/ UNCHANGED <<ckpt, garbled, kept>>
          \/ Replaces(m) /\ garbled' = FALSE

\* Where an exception of _persist_control_state changes nothing more.
Save(m) == SaveSucceeds(m) \/ SaveRaises(m)

-----------------------------------------------------------------------------
(* _get_portfolio_coordinator: start, retried whenever it has failed. *)

Starts(m) ==
    /\ ~up
    /\ \/ SaveSucceeds(m) /\ up' = TRUE /\ mem' = m
       \/ SaveRaises(m) /\ UNCHANGED <<up, mem>>
    /\ UNCHANGED <<pc, at, files, today, opened, crashes, operator>>

\* Seeded fault: the risk state is not restored.
RestoredExecutionOnly(state) == [state EXCEPT !.kernel = FreshKernel(today)]

\* Seeded fault: positions are restored only while trading is allowed.
RestoredUnlessKilled(state) ==
    IF state.kernel.kill = "none" THEN state ELSE [state EXCEPT !.open = {}]

\* _apply_control_state.
Restored(state) == state

StartRestored == ckpt # NoState /\ ~garbled /\ Agrees(ckpt) /\ Starts(Restored(ckpt))

StartFresh == ckpt = NoState /\ journal = <<>> /\ ~torn /\ Starts(Fresh(FreshKernel(today)))

\* bootstrap_from_closed_journal: the trade closed today or before.
StartBootstrapped ==
    /\ ckpt = NoState /\ journal # <<>> /\ AllowBootstrap
    /\ \E daily \in {0, journal[1].pnl}, cooldown, breach \in BOOLEAN :
        LET streak == IF journal[1].pnl < 0 THEN 1 ELSE 0 IN
        /\ cooldown => streak >= LossThreshold
        /\ Starts([open |-> {}, closed |-> {}, hist |-> IdsOf(Rows),
                   kernel |-> [day |-> today, daily |-> daily, streak |-> streak, since |-> 0,
                               cooldown |-> cooldown, drawdown |-> breach,
                               kill |-> Trip("none", streak, daily, breach)]])

Start == StartRestored \/ StartFresh \/ StartBootstrapped

-----------------------------------------------------------------------------
(* _route_to_portfolio: on_tick. *)

\* check_exits finds nothing to close; the kill switch would close anything.
TickHold(s) ==
    /\ up /\ pc = "idle"
    /\ PositionAt(s) # {} => mem.kernel.kill = "none"
    /\ pc' = "ticked" /\ at' = s
    /\ UNCHANGED <<up, mem, disk, bounds, kept, operator>>

\* TradeJournal._append; a failure is logged and swallowed.  Nothing looks at
\* how the file ends: a row is glued to one that lacks its newline, and what
\* follows a torn line is lost with it.
JournalAppend(row) ==
    \/ /\ ~torn /\ ~unended /\ journal' = Append(journal, row) /\ UNCHANGED torn
       /\ \/ UNCHANGED <<unended, faults>>
          \/ Fault /\ unended' = TRUE
    \/ (torn \/ unended) /\ torn' = TRUE /\ UNCHANGED <<journal, unended, faults>>
    \/ Fault /\ torn' \in {torn, TRUE} /\ UNCHANGED <<journal, unended>>

\* check_exits closes the position (the kill switch, its stop, its target or its
\* time stop), journals it, and on_tick tells the kernel.
TickExit(s) ==
    /\ up /\ pc = "idle"
    /\ \E p \in PositionAt(s), pnl \in PnL, breach \in BOOLEAN :
        LET row == [id |-> p.id, pnl |-> pnl]
            kernel == RecordPnl(mem.kernel, pnl, breach) IN
        /\ mem' = [mem EXCEPT !.open = @ \ {p}, !.closed = @ \union {row}, !.kernel = kernel]
        /\ JournalAppend(row)
        /\ operator' = IF operator = "held" /\ kernel.kill = "daily_loss"
                       THEN "overwritten" ELSE operator
    /\ pc' = "ticked" /\ at' = s
    /\ UNCHANGED <<up, ckpt, garbled, today, opened, crashes, kept>>

\* The checkpoint that ends on_tick; if it raises there is no ingest.
TickSave ==
    /\ up /\ pc = "ticked"
    /\ \/ SaveSucceeds(mem) /\ pc' = "ingest" /\ UNCHANGED at
       \/ SaveRaises(mem) /\ pc' = "idle" /\ at' = "none"
    /\ UNCHANGED <<up, mem, files, today, opened, crashes, operator>>

-----------------------------------------------------------------------------
(* ingest_prediction. *)

\* Not a direction, no price: returned before anything is touched.
IngestIgnored ==
    /\ up /\ pc = "ingest" /\ pc' = "idle" /\ at' = "none"
    /\ UNCHANGED <<up, mem, disk, bounds, kept, operator>>

EndsWith(m) ==
    /\ mem' = m /\ Save(m) /\ pc' = "idle" /\ at' = "none"
    /\ UNCHANGED <<up, files, today, opened, crashes, operator>>

\* build_proposal refuses: no validated edge, or no room.
NoProposal == up /\ pc = "ingest" /\ EndsWith(mem)

\* build_proposal's caps.
Room == PositionAt(at) = {} /\ Cardinality(mem.open) < MaxConcurrent

\* evaluate rejects, for a reason of its own or for confidence or toxic flow;
\* the cooldown may be found expired and cleared before that.
RejectProposal ==
    /\ up /\ pc = "ingest" /\ Room
    /\ LET k == Rollover(mem.kernel, Len(journal)) IN
       \/ EndsWith([mem EXCEPT !.kernel = k])
       \/ Approves(k, TRUE) /\ EndsWith([mem EXCEPT !.kernel = [k EXCEPT !.cooldown = FALSE]])

\* evaluate approves and submit waits for the first fill.
SubmitOrder ==
    /\ up /\ pc = "ingest" /\ Room /\ opened < MaxPositions
    /\ LET k == Rollover(mem.kernel, Len(journal)) IN
       /\ \E cooled \in BOOLEAN : Approves(k, cooled)
       /\ mem' = [mem EXCEPT !.kernel = [k EXCEPT !.cooldown = FALSE]]
    /\ pc' = "filling"
    /\ UNCHANGED <<up, at, disk, bounds, kept, operator>>

\* The order is cancelled with nothing filled.
NoFill == up /\ pc = "filling" /\ EndsWith(mem)

\* Filled, or partially filled and its residual cancelled: _open_or_add_position.
\* The checkpoint is the audit listener's, whose exceptions are swallowed.
OpenPosition ==
    /\ up /\ pc = "filling"
    /\ opened' = opened + 1
    /\ LET m == [mem EXCEPT !.open = @ \union {[id |-> opened', sym |-> at, stop |-> FALSE]}] IN
       mem' = m /\ Save(m)
    /\ pc' = "opened"
    /\ UNCHANGED <<up, at, files, today, crashes, operator>>

\* set_stop_target, checkpointed by the listener too.
ProtectPosition ==
    /\ up /\ pc = "opened"
    /\ LET m == [mem EXCEPT !.open = (@ \ PositionAt(at)) \union
                    {[p EXCEPT !.stop = TRUE] : p \in PositionAt(at)}] IN
       mem' = m /\ Save(m)
    /\ pc' = "protected"
    /\ UNCHANGED <<up, at, files, today, opened, crashes, operator>>

EndIngest == up /\ pc = "protected" /\ EndsWith(mem)

Ingest == IngestIgnored \/ NoProposal \/ RejectProposal \/ SubmitOrder
Order == NoFill \/ OpenPosition \/ ProtectPosition \/ EndIngest

-----------------------------------------------------------------------------
(* What comes in while the task waits, or has nothing to do. *)

Waits == up /\ pc \in {"idle", "filling"}

\* POST /api/portfolio/kill_switch; acknowledged once it is checkpointed.
TripKillSwitch ==
    /\ Waits
    /\ LET m == [mem EXCEPT !.kernel.kill = "manual"] IN
       /\ mem' = m
       /\ \/ SaveSucceeds(m) /\ operator' = "held"
          \/ SaveRaises(m) /\ UNCHANGED operator
    /\ UNCHANGED <<up, pc, at, files, today, opened, crashes>>

\* POST /api/portfolio/reset_kill_switch.
ResetKillSwitch ==
    /\ Waits /\ mem.kernel.kill # "none"
    /\ LET m == [mem EXCEPT !.kernel = Reset(@, Len(journal))] IN
       mem' = m /\ Save(m)
    /\ operator' = "no"
    /\ UNCHANGED <<up, pc, at, files, today, opened, crashes>>

\* oracle_runner.stop cancels the task, then PortfolioCoordinator.stop checkpoints.
Stop ==
    /\ Waits /\ Save(mem)
    /\ up' = FALSE /\ mem' = NoState /\ pc' = "idle" /\ at' = "none"
    /\ UNCHANGED <<files, today, opened, crashes, operator>>

Crash ==
    /\ up /\ crashes < MaxCrashes /\ crashes' = crashes + 1
    /\ up' = FALSE /\ mem' = NoState /\ pc' = "idle" /\ at' = "none"
    /\ UNCHANGED <<disk, today, opened, faults, kept, operator>>

NewDay ==
    /\ today < MaxDay /\ today' = today + 1
    /\ UNCHANGED <<up, mem, pc, at, disk, opened, faults, crashes, kept, operator>>

Operator == TripKillSwitch \/ ResetKillSwitch \/ Stop
Next ==
    \/ Start \/ TickSave \/ Ingest \/ Order \/ Operator \/ Crash \/ NewDay
    \/ \E s \in Symbols : TickHold(s) \/ TickExit(s)

Spec == Init /\ [][Next]_vars

\* The coordinator is asked for at every prediction, the task's own steps do not
\* stop half-way, and predictions for a symbol go on until its time stop is due.
Fairness ==
    /\ WF_vars(Start) /\ WF_vars(TickSave \/ Ingest \/ Order)
    /\ \A s \in Symbols : SF_vars(TickExit(s))
FairSpec == Spec /\ Fairness

-----------------------------------------------------------------------------
(* Properties. *)

Positions == [id : 1..MaxPositions, sym : Symbols, stop : BOOLEAN]
Kernels == [day : -1..MaxDay, daily : Int, streak : Nat, since : Nat,
            cooldown : BOOLEAN, drawdown : BOOLEAN, kill : Reasons]
States == [open : SUBSET Positions, closed : SUBSET Trades,
           hist : SUBSET (1..MaxPositions), kernel : Kernels]

\* Every variable has its type; the coordinator is in its initial phase when down,
\* and an order being worked on belongs to a symbol.
TypeOK ==
    /\ up \in BOOLEAN /\ mem \in States /\ ckpt \in States
    /\ pc \in {"idle", "ticked", "ingest", "filling", "opened", "protected"}
    /\ at \in Symbols \union {"none"} /\ (pc = "idle" <=> at = "none")
    /\ journal \in Seq(Trades) /\ {garbled, unended, torn} \subseteq BOOLEAN
    /\ today \in 0..MaxDay /\ opened \in 0..MaxPositions
    /\ faults \in 0..MaxFaults /\ crashes \in 0..MaxCrashes
    /\ kept \subseteq 1..MaxPositions /\ operator \in {"no", "held", "overwritten"}
    /\ ~up => mem = NoState /\ pc = "idle"

\* A trade is journaled once, although a restart reopens every position whose exit
\* was journaled after the last checkpoint unless start refuses it (coordinator.py
\* 585-598, _assert_journal_state_consistency).
TradeOnce == \A i, j \in DOMAIN journal : journal[i].id = journal[j].id => i = j

\* A checkpoint never calls a trade closed that the journal, whose append failures
\* are swallowed, does not hold with the same result.
CheckpointBacked ==
    /\ ckpt.closed \subseteq Rows
    /\ ckpt.hist \subseteq IdsOf(Rows)

\* A position that a checkpoint has shown is never forgotten: it is open in the
\* checkpoint, or its exit is in the journal.
Accounted == kept \subseteq IdsOf(ckpt.open) \union IdsOf(Rows)

\* The losses of the journal after its first n trades that no win has followed.
Losses(s, n) == {i \in (n + 1)..Len(s) : s[i].pnl < 0 /\ \A j \in i..Len(s) : s[j].pnl <= 0}

\* The size of a loss streak, which cools trading down and then stops it, is the
\* number of losses in the journal since the last win, or since it was cleared;
\* trades that come out even, restarts and midnights do not change it.
LossesRemembered ==
    up /\ Agrees(mem) => mem.kernel.streak = Cardinality(Losses(journal, mem.kernel.since))

\* Once the API has acknowledged the operator's trip, no restart forgets it; only
\* a daily-loss trip, whose reason takes its place, lets midnight clear it.
TripSurvives ==
    operator = "held" =>
        /\ ckpt.kernel.kill # "none"
        /\ up => mem.kernel.kill # "none"

\* Checkpoint and journal cannot be read or disagree, or the book in memory and the journal do.
Halted ==
    \/ torn
    \/ ~up /\ ckpt # NoState /\ (garbled \/ ~Agrees(ckpt))
    \/ up /\ ~Agrees(mem)

\* A position that a checkpoint shows is closed and journaled in the end, after
\* whatever restarts, unless the two files have been left disagreeing.
EveryTradeCloses ==
    \A i \in 1..MaxPositions :
        i \in IdsOf(ckpt.open) ~> (i \in IdsOf(Rows) \/ Halted)

\* What the reset's docstring promises (risk_kernel.py:402, "Clear the kill switch
\* (requires explicit human action)"): what the operator has stopped stays stopped
\* until the operator resets it.
ManualKillHolds == up /\ operator # "no" => mem.kernel.kill # "none"

\* What its comment promises (risk_kernel.py:407, "Also reset cooldown + loss streak
\* so we can resume"): once the switch is off, some proposal can be approved.  With
\* no position left nothing updates the drawdown that evaluate rejects by.
ResetResumes == up /\ mem.open = {} /\ pc = "idle" => mem.kernel.kill # "none" \/ ~mem.kernel.drawdown
=============================================================================
