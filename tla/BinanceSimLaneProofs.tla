------------------------ MODULE BinanceSimLaneProofs ------------------------
(***************************************************************************)
(* The simulated wallet's books balance for any bankroll, prices, fees and *)
(* limits, after any number of orders, failed writes and restarts, and a   *)
(* ledger it refuses is never written.  Each lemma follows one function of *)
(* the lane; the invariant is inductive as it stands.                      *)
(***************************************************************************)
EXTENDS BinanceSimLane, TLAPS

Trade == [net : Int, after : Int]

LEMMA FreshLedger == Fresh \in Ledgers /\ Balanced(Fresh) /\ ~IsOpen(Fresh)
BY LaneAssumption DEF Fresh, Flat, Ledgers, Positions, Balanced, IsOpen

\* _open takes the entry fee.
LEMMA OpenedLedger ==
    ASSUME NEW s \in Ledgers, Balanced(s), ~IsOpen(s), s.orders < MaxOrders,
           NEW dir \in Directions, NEW price \in Prices
    PROVE  Opened(s, dir, price) \in Ledgers /\ Balanced(Opened(s, dir, price))
<1> DEFINE o == Opened(s, dir, price)
<1>1. o \in Ledgers
  BY LaneAssumption DEF Opened, Ledgers, Positions, Directions
<1>2. IsOpen(o)
  BY DEF Opened, Ledgers, IsOpen, Directions
<1>3. /\ o.cash = s.cash - Fee /\ o.fees = s.fees + Fee /\ o.orders = s.orders + 1
      /\ o.trades = s.trades /\ o.realized = s.realized
  BY DEF Opened, Ledgers
<1>4. Balanced(o)
  <2>1. /\ s.cash \in Int /\ s.realized \in Int /\ s.fees \in Nat /\ s.orders \in Nat
        /\ Fee \in Nat /\ Start \in Nat /\ MaxClosed \in Nat
    BY LaneAssumption DEF Ledgers
  <2>2. /\ s.cash = Start + s.realized /\ s.fees = (s.orders + s.orders) * Fee
        /\ Len(s.trades) = IF s.orders <= MaxClosed THEN s.orders ELSE MaxClosed
        /\ s.trades = <<>> => s.realized = 0
        /\ s.trades # <<>> => Last(s.trades).after = Start + s.realized
        /\ \A i \in 1..(Len(s.trades) - 1) :
               s.trades[i + 1].after = s.trades[i].after + s.trades[i + 1].net
    BY <2>1 DEF Balanced
  <2>3. s.fees + Fee = (s.orders + (s.orders + 1)) * Fee
    BY <2>1, <2>2
  <2>4. o.cash = Start + o.realized - Fee
    <3>1. s.cash = Start + s.realized
      BY <2>2
    <3> HIDE DEF o
    <3> QED
      BY <1>3, <2>1, <3>1
  <2>5. o.orders - 1 = s.orders
    BY <1>3, <2>1
  <2>6. o.fees = (o.orders - 1 + o.orders) * Fee
    BY <1>3, <2>3, <2>5
  <2> QED
    BY <1>2, <1>3, <2>2, <2>4, <2>5, <2>6 DEF Balanced
<1> QED
  BY <1>1, <1>4

\* Only the newest trades are kept, and they still follow from each other.
LEMMA NewestTrades ==
    ASSUME NEW trades \in Seq(Trade), NEW t \in Trade, Len(trades) <= MaxClosed,
           \A i \in 1..(Len(trades) - 1) :
               trades[i + 1].after = trades[i].after + trades[i + 1].net,
           trades # <<>> => t.after = trades[Len(trades)].after + t.net
    PROVE  LET n == Newest(Append(trades, t)) IN
           /\ n \in Seq(Trade) /\ n # <<>> /\ Last(n) = t
           /\ Len(n) = IF Len(trades) + 1 <= MaxClosed THEN Len(trades) + 1 ELSE MaxClosed
           /\ \A i \in 1..(Len(n) - 1) : n[i + 1].after = n[i].after + n[i + 1].net
<1> DEFINE a == Append(trades, t)
           n == Newest(a)
<1>0. MaxClosed \in Nat \ {0} /\ Len(trades) \in Nat
  BY LaneAssumption
<1>1. /\ a \in Seq(Trade) /\ Len(a) = Len(trades) + 1 /\ a[Len(a)] = t
      /\ \A i \in 1..Len(trades) : a[i] = trades[i]
  OBVIOUS
<1>2. \A i \in 1..(Len(a) - 1) : a[i + 1].after = a[i].after + a[i + 1].net
  <2> SUFFICES ASSUME NEW i \in 1..(Len(a) - 1)
               PROVE  a[i + 1].after = a[i].after + a[i + 1].net
    OBVIOUS
  <2>1. CASE i = Len(trades)
    <3>1. trades # <<>> /\ a[i] = trades[Len(trades)] /\ a[i + 1] = t
      BY <1>0, <1>1, <2>1
    <3> QED
      BY <3>1
  <2>2. CASE i # Len(trades)
    <3>1. i \in 1..(Len(trades) - 1) /\ a[i] = trades[i] /\ a[i + 1] = trades[i + 1]
      BY <1>0, <1>1, <2>2
    <3> QED
      BY <3>1
  <2> QED
    BY <2>1, <2>2
<1>3. CASE Len(a) <= MaxClosed
  <2>1. n = a
    BY <1>0, <1>1, <1>3 DEF Newest
  <2> QED
    BY <1>0, <1>1, <1>2, <1>3, <2>1 DEF Last
<1>4. CASE Len(a) > MaxClosed
  <2>1. n = Tail(a) /\ Len(a) = MaxClosed + 1
    BY <1>0, <1>1, <1>4 DEF Newest
  <2>2. /\ n \in Seq(Trade) /\ Len(n) = MaxClosed
        /\ \A i \in 1..Len(n) : n[i] = a[i + 1]
    BY <1>0, <1>1, <2>1
  <2>3. n # <<>> /\ Last(n) = t
    BY <1>0, <1>1, <2>1, <2>2 DEF Last
  <2>4. \A i \in 1..(Len(n) - 1) : n[i + 1].after = n[i].after + n[i + 1].net
    BY <1>0, <1>1, <1>2, <2>1, <2>2
  <2> QED
    BY <1>0, <1>1, <2>1, <2>2, <2>3, <2>4
<1> QED
  BY <1>0, <1>1, <1>3, <1>4

\* _close settles the trade against what the entry has already paid.
LEMMA ClosedLedger ==
    ASSUME NEW s \in Ledgers, Balanced(s), IsOpen(s), s.orders > 0, NEW price \in Prices
    PROVE  Closed(s, price) \in Ledgers /\ Balanced(Closed(s, price)) /\ ~IsOpen(Closed(s, price))
<1> DEFINE gross == Gross(s.position, price)
           cash == s.cash + gross - Fee
           t == [net |-> gross - 2 * Fee, after |-> cash]
           n == Newest(Append(s.trades, t))
           c == Closed(s, price)
<1>0. /\ gross \in Int /\ cash \in Int /\ Fee \in Nat /\ Start \in Nat /\ t \in Trade
      /\ s.trades \in Seq(Trade) /\ s.orders \in Nat /\ s.fees \in Nat
      /\ s.cash \in Int /\ s.realized \in Int /\ MaxClosed \in Nat \ {0}
  <2>1. /\ s.trades \in Seq(Trade) /\ s.orders \in Nat /\ s.fees \in Nat
        /\ s.cash \in Int /\ s.realized \in Int /\ s.position.entry \in Nat
    BY DEF Ledgers, Positions, Trade
  <2>2. Fee \in Nat /\ Start \in Nat /\ MaxClosed \in Nat \ {0} /\ price \in Nat
    BY LaneAssumption
  <2>3. gross \in Int
    BY <2>1, <2>2 DEF Gross
  <2> HIDE DEF gross
  <2> QED
    BY <2>1, <2>2, <2>3 DEF Trade
<1>a. s.fees = (s.orders - 1 + s.orders) * Fee
  BY DEF Balanced
<1>b. s.cash = Start + s.realized - Fee
  BY DEF Balanced
<1>1. /\ Len(s.trades) = IF s.orders - 1 <= MaxClosed THEN s.orders - 1 ELSE MaxClosed
      /\ s.trades # <<>> => s.trades[Len(s.trades)].after = Start + s.realized
      /\ \A i \in 1..(Len(s.trades) - 1) :
             s.trades[i + 1].after = s.trades[i].after + s.trades[i + 1].net
  BY <1>0 DEF Balanced, Last
<1>2. s.trades # <<>> => t.after = s.trades[Len(s.trades)].after + t.net
  <2>1. cash = Start + s.realized + (gross - 2 * Fee)
    <3> HIDE DEF gross
    <3> QED
      BY <1>0, <1>b
  <2>2. t.after = cash /\ t.net = gross - 2 * Fee
    OBVIOUS
  <2> HIDE DEF t, cash, gross
  <2> QED
    BY <1>1, <2>1, <2>2
<1>3. /\ n \in Seq(Trade) /\ n # <<>> /\ Last(n) = t
      /\ Len(n) = IF Len(s.trades) + 1 <= MaxClosed THEN Len(s.trades) + 1 ELSE MaxClosed
      /\ \A i \in 1..(Len(n) - 1) : n[i + 1].after = n[i].after + n[i + 1].net
  <2>1. Len(s.trades) <= MaxClosed
    BY <1>0, <1>1
  <2> HIDE DEF t
  <2> QED
    BY <1>0, <1>1, <1>2, <2>1, NewestTrades
<1>4. /\ c.cash = cash /\ c.fees = s.fees + Fee /\ c.realized = cash - Start
      /\ c.orders = s.orders /\ c.trades = n /\ c.position = Flat
  BY DEF Closed, Ledgers
<1>5. c = [cash |-> cash, fees |-> s.fees + Fee, realized |-> cash - Start,
           orders |-> s.orders, trades |-> n, position |-> Flat]
  BY DEF Closed, Ledgers
<1>6. c \in Ledgers
  <2>1. Flat \in Positions
    BY LaneAssumption DEF Flat, Positions
  <2>2. n \in Seq([net : Int, after : Int])
    BY <1>3 DEF Trade
  <2>3. s.fees + Fee \in Nat /\ cash - Start \in Int /\ s.orders \in 0..MaxOrders
    <3>1. s.orders \in 0..MaxOrders
      BY DEF Ledgers
    <3> HIDE DEF cash
    <3> QED
      BY <1>0, <3>1
  <2> HIDE DEF n, cash, c, t, gross
  <2> QED
    BY <1>0, <1>5, <2>1, <2>2, <2>3 DEF Ledgers
<1>7. ~IsOpen(c)
  BY <1>4 DEF IsOpen, Flat
<1>8. Last(n).after = cash
  BY <1>3
<1>9. Balanced(c)
  <2>1. c.fees = (c.orders + c.orders) * Fee
    <3>1. \A o, f \in Int : (o - 1 + o) * f + f = (o + o) * f
      OBVIOUS
    <3> HIDE DEF n, cash, c
    <3> QED
      BY <1>0, <1>a, <1>4, <3>1
  <2>2. c.cash = Start + c.realized
    BY <1>0, <1>4
  <2>3. Len(c.trades) = IF c.orders <= MaxClosed THEN c.orders ELSE MaxClosed
    <3>1. Len(n) = IF s.orders <= MaxClosed THEN s.orders ELSE MaxClosed
      BY <1>0, <1>1, <1>3
    <3> HIDE DEF n, cash, c
    <3> QED
      BY <1>4, <3>1
  <2>4. c.trades # <<>> /\ Last(c.trades).after = Start + c.realized
    BY <1>0, <1>3, <1>4, <1>8
  <2> HIDE DEF n, cash, c, t
  <2> QED
    BY <1>0, <1>3, <1>4, <1>7, <2>1, <2>2, <2>3, <2>4 DEF Balanced
<1> QED
  BY <1>6, <1>7, <1>9

LEMMA AgedLedger ==
    ASSUME NEW s \in Ledgers, Balanced(s)
    PROVE  Aged(s) \in Ledgers /\ Balanced(Aged(s))
<1>1. Aged(s) \in Ledgers
  <2>1. CASE IsOpen(s) /\ s.position.age < TimeStop
    <3> DEFINE p == [dir |-> s.position.dir, entry |-> s.position.entry,
                     age |-> s.position.age + 1]
    <3>1. p \in Positions
      BY <2>1, LaneAssumption DEF Ledgers, Positions
    <3>2. Aged(s) = [s EXCEPT !.position = p]
      BY <2>1 DEF Aged
    <3> HIDE DEF p
    <3> QED
      BY <3>1, <3>2 DEF Ledgers
  <2> QED
    BY <2>1 DEF Aged
<1>2. /\ IsOpen(Aged(s)) <=> IsOpen(s)
      /\ Aged(s).cash = s.cash /\ Aged(s).fees = s.fees /\ Aged(s).orders = s.orders
      /\ Aged(s).trades = s.trades /\ Aged(s).realized = s.realized
  BY DEF Aged, IsOpen, Ledgers, Positions
<1> QED
  BY <1>1, <1>2 DEF Balanced

\* An open position has been ordered.
Ordered(s) == IsOpen(s) => s.orders > 0
Sound(s) == s \in Ledgers /\ Balanced(s) /\ Ordered(s)
IInv == TypeOK /\ Sound(state) /\ Sound(file.ledger)

LEMMA PersistKeeps ==
    ASSUME IInv, NEW s, Sound(s), Persisted(s)
    PROVE  IInv'
<1>1. state' = s /\ broken' \in BOOLEAN /\ faults' \in 0..MaxFaults
  BY LaneAssumption DEF IInv, TypeOK, Persisted, Fault
<1>2. CASE file' = Whole(s)
  BY <1>1, <1>2 DEF IInv, TypeOK, Sound, Whole
<1>3. CASE UNCHANGED file
  BY <1>1, <1>3 DEF IInv, TypeOK, Sound
<1> QED
  BY <1>2, <1>3 DEF Persisted

LEMMA InitIInv == Init => IInv
BY FreshLedger, LaneAssumption
   DEF Init, IInv, TypeOK, Sound, Ordered, Loaded, Missing, Refused

LEMMA NextIInv == IInv /\ [Next]_vars => IInv'
<1> SUFFICES ASSUME IInv, [Next]_vars PROVE IInv'
  OBVIOUS
<1>0. Sound(state) /\ Sound(file.ledger) /\ TypeOK
  BY DEF IInv
<1>1. CASE NoSignal
  BY <1>0, <1>1, PersistKeeps DEF NoSignal
<1>2. ASSUME NEW price \in Prices, Hold(price) PROVE IInv'
  BY <1>0, <1>2, PersistKeeps DEF Hold
<1>3. ASSUME NEW price \in Prices, Exit(price) PROVE IInv'
  <2>1. IsOpen(state) /\ Persisted(Closed(state, price))
    BY <1>3 DEF Exit
  <2>2. Sound(Closed(state, price))
    BY <1>0, <2>1, ClosedLedger DEF Sound, Ordered
  <2> QED
    BY <2>1, <2>2, PersistKeeps
<1>4. ASSUME NEW price \in Prices, NEW dir \in Directions, Enter(dir, price) PROVE IInv'
  <2>1. ~IsOpen(state) /\ state.orders < MaxOrders /\ Persisted(Opened(state, dir, price))
    BY <1>4 DEF Enter
  <2>2. Opened(state, dir, price) \in Ledgers /\ Balanced(Opened(state, dir, price))
    BY <1>0, <2>1, OpenedLedger DEF Sound
  <2>3. Ordered(Opened(state, dir, price))
    BY <1>0 DEF Sound, Ordered, Opened, Ledgers
  <2>4. Sound(Opened(state, dir, price))
    BY <2>2, <2>3 DEF Sound
  <2> QED
    BY <2>1, <2>4, PersistKeeps
<1>5. CASE Restart
  <2>1. state' \in {file.ledger, Fresh} /\ broken' \in BOOLEAN
    BY <1>0, <1>5 DEF Restart, Loaded, TypeOK
  <2>2. Sound(Fresh)
    BY FreshLedger DEF Sound, Ordered
  <2> QED
    BY <1>0, <1>5, <2>1, <2>2, LaneAssumption DEF Restart, Fault, IInv, TypeOK, Sound
<1>6. CASE Tick
  <2>1. ASSUME NEW s, Sound(s) PROVE Sound(Aged(s))
    <3>1. Aged(s) \in Ledgers /\ Balanced(Aged(s))
      BY <2>1, AgedLedger DEF Sound
    <3>2. Ordered(Aged(s))
      BY <2>1 DEF Sound, Ordered, Aged, IsOpen, Ledgers, Positions
    <3> QED
      BY <3>1, <3>2 DEF Sound
  <2>2. file'.ledger = Aged(file.ledger) /\ file'.kind = file.kind
    BY <1>0, <1>6 DEF Tick, TypeOK
  <2>3. file' = [kind |-> file.kind, ledger |-> Aged(file.ledger)]
    BY <1>0, <1>6 DEF Tick, TypeOK
  <2>4. Sound(state') /\ Sound(file'.ledger) /\ UNCHANGED <<broken, faults>>
    BY <1>0, <1>6, <2>1, <2>2 DEF Tick
  <2>5. file' \in [kind : {"whole", "missing", "refused"}, ledger : Ledgers]
    BY <1>0, <2>1, <2>3 DEF TypeOK, Sound
  <2> QED
    BY <1>0, <2>4, <2>5 DEF IInv, TypeOK, Sound
<1>7. CASE UNCHANGED vars
  BY <1>0, <1>7 DEF vars, IInv, TypeOK
<1> QED
  BY <1>1, <1>2, <1>3, <1>4, <1>5, <1>6, <1>7 DEF Next, OnPrediction

LEMMA LaneInvariant == Spec => []IInv
BY InitIInv, NextIInv, PTL DEF Spec

\* The lane's ledger, its file and its bounds are always well typed.
THEOREM LaneTypeCorrect == Spec => []TypeOK
<1>1. IInv => TypeOK
  BY DEF IInv
<1> QED
  BY <1>1, LaneInvariant, PTL

\* Cash, fees, orders, realized profit and the kept trades tell one story, in
\* memory and on disk, whatever _persist could not write and a restart forgot.
THEOREM LaneBooksBalance == Spec => []BooksBalance
<1>1. IInv => BooksBalance
  BY DEF IInv, Sound, BooksBalance
<1> QED
  BY <1>1, LaneInvariant, PTL

\* While a refused ledger is on disk the lane is broken, and writes nothing.
BrokenWhileRefused == file.kind = "refused" => broken

LEMMA RefusedBreaks == TypeOK /\ BrokenWhileRefused /\ [Next]_vars =>
    BrokenWhileRefused' /\ (file.kind = "refused" => file'.kind = "refused")
<1> SUFFICES ASSUME TypeOK, BrokenWhileRefused, [Next]_vars
             PROVE  BrokenWhileRefused' /\ (file.kind = "refused" => file'.kind = "refused")
  OBVIOUS
<1>1. ASSUME NEW s, ~broken, Persisted(s)
      PROVE  BrokenWhileRefused' /\ (file.kind = "refused" => file'.kind = "refused")
  BY <1>1 DEF BrokenWhileRefused, Persisted, Whole
<1>2. CASE OnPrediction
  BY <1>1, <1>2 DEF OnPrediction, NoSignal, Hold, Exit, Enter
<1>3. CASE Restart
  BY <1>3 DEF Restart, Loaded, BrokenWhileRefused
<1>4. CASE Tick
  BY <1>4 DEF Tick, TypeOK, BrokenWhileRefused
<1>5. CASE UNCHANGED vars
  BY <1>5 DEF vars, BrokenWhileRefused
<1> QED
  BY <1>2, <1>3, <1>4, <1>5 DEF Next

\* _load_if_present's promise: a ledger that was refused is never overwritten.
THEOREM LaneKeepsRefused == Spec => RefusedIsKept
<1>1. Init => BrokenWhileRefused
  BY DEF Init, Loaded, Missing, Refused, BrokenWhileRefused
<1>2. TypeOK /\ BrokenWhileRefused /\ [Next]_vars =>
        BrokenWhileRefused' /\ [file.kind = "refused" => file'.kind = "refused"]_vars
  BY RefusedBreaks
<1> QED
  BY <1>1, <1>2, LaneTypeCorrect, PTL DEF Spec, RefusedIsKept
=============================================================================
