--------------------------- MODULE BinanceSimLane ---------------------------
(***************************************************************************)
(* The isolated simulated wallet of binance_sim_lane.py: one position at a *)
(* time, its exits, and the JSON ledger rewritten on every prediction the  *)
(* pipeline routes to it.  The runner swallows what it raises              *)
(* (oracle_runner.py:233): a ledger that could not be written stays behind *)
(* the memory until another prediction writes it, or a restart forgets the *)
(* difference.  Predictions the lane ignores without a trace (of another   *)
(* symbol, with an invalid price or timestamp) are left out.               *)
(*                                                                         *)
(* A position is one unit and slippage is part of its price.               *)
(***************************************************************************)
EXTENDS Integers, Sequences

CONSTANTS
    Start,        \* starting_bankroll_usdt
    Prices,       \* reference prices
    Fee,          \* taker fee of an order
    Band,         \* distance of stop and target from the entry
    TimeStop,     \* TIME_STOP_SECONDS
    MaxClosed,    \* MAX_CLOSED_TRADES
    MaxOrders,    \* bound: orders
    MaxFaults     \* bound: failed writes, restarts

ASSUME LaneAssumption ==
    /\ Start \in Nat \ {0} /\ Prices \subseteq Nat /\ Fee \in Nat
    /\ Band \in Nat \ {0} /\ TimeStop \in Nat \ {0} /\ MaxClosed \in Nat \ {0}
    /\ MaxOrders \in Nat /\ MaxFaults \in Nat

VARIABLES
    state,      \* the ledger in memory
    file,       \* the ledger file: none, whole, or one the lane refuses
    broken,     \* _load_error
    faults

vars == <<state, file, broken, faults>>

Flat == [dir |-> "NONE", entry |-> 0, age |-> 0]

\* _fresh_state.
Fresh == [cash |-> Start, fees |-> 0, realized |-> 0, orders |-> 0,
          trades |-> <<>>, position |-> Flat]

Whole(ledger) == [kind |-> "whole", ledger |-> ledger]
Missing == [kind |-> "missing", ledger |-> Fresh]
Refused == [kind |-> "refused", ledger |-> Fresh]

IsOpen(s) == s.position.dir # "NONE"
Fault == faults < MaxFaults /\ faults' = faults + 1

\* _directional_pnl.
Gross(position, price) ==
    IF position.dir = "LONG" THEN price - position.entry ELSE position.entry - price

\* Seeded fault: no time stop.
MustExitOnPrice(position, mark) ==
    Gross(position, mark) <= -Band \/ Gross(position, mark) >= Band

\* _exit_reason: the stop, the target or the time stop.
MustExit(position, mark) ==
    \/ Gross(position, mark) <= -Band
    \/ Gross(position, mark) >= Band
    \/ position.age >= TimeStop

\* The newest MaxClosed of the closed trades.
Newest(trades) ==
    IF Len(trades) > MaxClosed THEN Tail(trades) ELSE trades

\* _open.
Opened(s, dir, price) ==
    [cash |-> s.cash - Fee, fees |-> s.fees + Fee, realized |-> s.realized,
     orders |-> s.orders + 1, trades |-> s.trades,
     position |-> [dir |-> dir, entry |-> price, age |-> 0]]

\* Seeded fault: the entry fee is charged again.
ClosedTwiceCharged(s, price) ==
    LET gross == Gross(s.position, price)
        cash == s.cash + gross - 2 * Fee IN
    [cash |-> cash, fees |-> s.fees + Fee, realized |-> cash - Start,
     orders |-> s.orders, position |-> Flat,
     trades |-> Newest(Append(s.trades, [net |-> gross - 2 * Fee, after |-> cash]))]

\* _close: the entry fee was paid at the entry.
Closed(s, price) ==
    LET gross == Gross(s.position, price)
        cash == s.cash + gross - Fee IN
    [cash |-> cash, fees |-> s.fees + Fee, realized |-> cash - Start,
     orders |-> s.orders, position |-> Flat,
     trades |-> Newest(Append(s.trades, [net |-> gross - 2 * Fee, after |-> cash]))]

\* __init__ and _load_if_present.
Loaded(f) ==
    [state |-> IF f.kind = "whole" THEN f.ledger ELSE Fresh, broken |-> f.kind = "refused"]

Init ==
    /\ file \in {Missing, Refused}
    /\ state = Loaded(file).state /\ broken = Loaded(file).broken
    /\ faults = 0

\* _persist: the file is replaced at once, or it raises and stays as it was.
Persisted(s) ==
    /\ state' = s /\ UNCHANGED broken
    /\ \/ file' = Whole(s) /\ UNCHANGED faults
       \/ UNCHANGED file /\ Fault

\* on_prediction with a position to keep, whatever the signal.
Hold(price) ==
    /\ ~broken /\ IsOpen(state) /\ ~MustExit(state.position, price)
    /\ Persisted(state)

Exit(price) ==
    /\ ~broken /\ IsOpen(state) /\ MustExit(state.position, price)
    /\ Persisted(Closed(state, price))

\* Without a position: FLAT or ABSTAIN only rewrites the ledger.
NoSignal ==
    /\ ~broken /\ ~IsOpen(state) /\ Persisted(state)

Enter(dir, price) ==
    /\ ~broken /\ ~IsOpen(state) /\ state.cash > 0 /\ state.orders < MaxOrders
    /\ Persisted(Opened(state, dir, price))

\* stop() or a crash drops the lane; the next prediction or request reads the file.
Restart ==
    /\ Fault /\ state' = Loaded(file).state /\ broken' = Loaded(file).broken
    /\ UNCHANGED file

\* Time since opened_epoch, which the ledger keeps.
Aged(s) ==
    IF IsOpen(s) /\ s.position.age < TimeStop
    THEN [s EXCEPT !.position =
              [dir |-> s.position.dir, entry |-> s.position.entry, age |-> s.position.age + 1]]
    ELSE s

Tick ==
    /\ state' = Aged(state) /\ file' = [file EXCEPT !.ledger = Aged(@)]
    /\ UNCHANGED <<broken, faults>>

Directions == {"LONG", "SHORT"}
OnPrediction ==
    \/ NoSignal
    \/ \E price \in Prices : Hold(price) \/ Exit(price)
    \/ \E price \in Prices, dir \in Directions : Enter(dir, price)

Next == OnPrediction \/ Restart \/ Tick
Spec == Init /\ [][Next]_vars

\* Predictions keep being routed, at prices nobody controls, and time passes.
ExitsAtAnyPrice == IsOpen(state) /\ \A price \in Prices : MustExit(state.position, price)
FairSpec == Spec /\ WF_vars(ExitsAtAnyPrice /\ OnPrediction) /\ WF_vars(Tick)

-----------------------------------------------------------------------------
Positions == [dir : {"NONE", "LONG", "SHORT"}, entry : Nat, age : 0..TimeStop]
Ledgers == [cash : Int, fees : Nat, realized : Int, orders : 0..MaxOrders,
            trades : Seq([net : Int, after : Int]), position : Positions]

\* Every variable has its type.
TypeOK ==
    /\ state \in Ledgers /\ broken \in BOOLEAN /\ faults \in 0..MaxFaults
    /\ file \in [kind : {"whole", "missing", "refused"}, ledger : Ledgers]

Last(trades) == trades[Len(trades)]

\* Cash, fees, orders, realized profit and the kept trades tell one story.
Balanced(s) ==
    LET closed == IF IsOpen(s) THEN s.orders - 1 ELSE s.orders IN
    /\ s.cash = IF IsOpen(s) THEN Start + s.realized - Fee ELSE Start + s.realized
    /\ s.fees = (closed + s.orders) * Fee
    /\ Len(s.trades) = IF closed <= MaxClosed THEN closed ELSE MaxClosed
    /\ s.trades = <<>> => s.realized = 0
    /\ s.trades # <<>> => Last(s.trades).after = Start + s.realized
    /\ \A i \in 1..(Len(s.trades) - 1) :
           s.trades[i + 1].after = s.trades[i].after + s.trades[i + 1].net

\* The books balance in memory and in the file, whatever was not written, and
\* whatever a restart made the lane forget.
BooksBalance == Balanced(state) /\ Balanced(file.ledger)

\* A ledger the lane refuses is never overwritten, by any number of restarts and
\* predictions (binance_sim_lane.py:132, "Never silently overwrite a possibly
\* valuable simulated ledger").
RefusedIsKept == [][file.kind = "refused" => file'.kind = "refused"]_vars

\* While predictions keep coming, a position does not stay open for good, whatever
\* they say.
EveryPositionCloses == IsOpen(state) ~> ~IsOpen(state)
=============================================================================
