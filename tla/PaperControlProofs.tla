-------------------------- MODULE PaperControlProofs --------------------------
(***************************************************************************)
(* PAPER portfolio control never loses a position or a kill switch, and    *)
(* never journals a trade twice, for any symbols, limits, positions and    *)
(* faults.  The invariant relates the three places a position can be: the  *)
(* book in memory, the checkpoint and the journal.  A book is Good if what *)
(* the checkpoint shows open is open or closed in it, and none of its open *)
(* positions is in the journal; a checkpoint is a Good book that agrees    *)
(* with the journal.  The kernel of a book, or checkpoint, that agrees     *)
(* with the journal counts the losses no win has followed.                 *)
(***************************************************************************)
EXTENDS PaperControl, FiniteSetTheorems, TLAPS

Distinct(S) == \A p, q \in S : p.id = q.id => p = q

Good(m, n) ==
    /\ m \in States /\ Distinct(m.open)
    /\ \A p \in m.open : p.id <= n /\ p.id \notin IdsOf(Rows)
    /\ IdsOf(ckpt.open) \subseteq IdsOf(m.open) \union IdsOf(m.closed)

\* A kill switch that midnight does not clear.
Stays(m) == m.kernel.kill \notin {"none", "daily_loss"}

Held == operator = "held" => Stays(ckpt) /\ (up => Stays(mem))

\* Positions are numbered as they open.
Numbered ==
    /\ Distinct(ckpt.open) /\ \A p \in ckpt.open : p.id <= opened
    /\ \A i \in DOMAIN journal : journal[i].id <= opened

\* An order is submitted only while positions are left.
Filling == pc = "filling" => opened < MaxPositions

IInv ==
    /\ TypeOK /\ (up => Good(mem, opened)) /\ Numbered /\ Filling
    /\ TradeOnce /\ CheckpointBacked /\ Accounted /\ Held

LEMMA KernelTyped ==
    ASSUME NEW k \in Kernels, NEW seen \in Nat, TypeOK
    PROVE  Reset(k, seen) \in Kernels /\ Rollover(k, seen) \in Kernels
<1>1. \A x \in Kernels : Reset(x, seen) \in Kernels
  BY DEF Reset, Kernels, Reasons
<1> DEFINE fresh == [k EXCEPT !.day = today, !.daily = 0]
<1>2. today \in -1..MaxDay
  BY PaperControlAssumption DEF TypeOK
<1>3. fresh \in Kernels
  <2>1. 0 \in Int
    OBVIOUS
  <2>2. \A d \in -1..MaxDay, i \in Int : [k EXCEPT !.day = d, !.daily = i] \in Kernels
    <3> DEFINE Days == -1..MaxDay
    <3> HIDE DEF Days
    <3>1. \A d \in Days, i \in Int : [k EXCEPT !.day = d, !.daily = i] \in
            [day : Days, daily : Int, streak : Nat, since : Nat,
             cooldown : BOOLEAN, drawdown : BOOLEAN, kill : Reasons]
      <4>1. k \in [day : Days, daily : Int, streak : Nat, since : Nat,
                   cooldown : BOOLEAN, drawdown : BOOLEAN, kill : Reasons]
        BY DEF Kernels, Days
      <4> QED
        BY <4>1
    <3> QED
      BY <3>1 DEF Days, Kernels
  <2> QED
    BY <1>2, <2>1, <2>2
<1> HIDE DEF fresh
<1>4. Rollover(k, seen) \in {k, Reset(fresh, seen), fresh}
  BY DEF Rollover, fresh
<1> QED
  BY <1>1, <1>3, <1>4

\* What a rollover does to the kill switch.
LEMMA RolloverKeepsKill ==
    ASSUME NEW k \in Kernels, NEW seen, k.kill \notin {"none", "daily_loss"}
    PROVE  Rollover(k, seen).kill = k.kill
BY DEF Rollover, Kernels

LEMMA RecordTyped ==
    ASSUME NEW k \in Kernels, NEW pnl \in PnL, NEW breach \in BOOLEAN, TypeOK
    PROVE  /\ RecordPnl(k, pnl, breach) \in Kernels
           /\ k.kill \notin {"none", "daily_loss"} /\ RecordPnl(k, pnl, breach).kill # "daily_loss"
                => RecordPnl(k, pnl, breach).kill \notin {"none", "daily_loss"}
<1> DEFINE n == Rollover(k, Len(journal))
           daily == n.daily + pnl
           streak == CASE pnl < 0 -> n.streak + 1 [] pnl = 0 -> n.streak [] pnl > 0 -> 0
           kill == Trip(n.kill, IF pnl < 0 THEN streak ELSE 0, daily, breach)
           cool == CASE pnl < 0 -> n.cooldown \/ streak >= LossThreshold
                     [] pnl = 0 -> n.cooldown
                     [] pnl > 0 -> FALSE
           r == RecordPnl(k, pnl, breach)
<1>1. n \in Kernels /\ pnl \in Int
  BY KernelTyped DEF TypeOK, PnL
<1>2. daily \in Int /\ streak \in Nat /\ cool \in BOOLEAN
  <2> HIDE DEF n
  <2>1. daily \in Int /\ streak \in Nat
    BY <1>1 DEF Kernels
  <2>2. n.cooldown \in BOOLEAN /\ (pnl < 0 \/ pnl = 0 \/ pnl > 0)
    BY <1>1 DEF Kernels
  <2> HIDE DEF streak
  <2>3. cool \in BOOLEAN
    BY <2>2
  <2> QED
    BY <2>1, <2>3
<1>3. kill \in {n.kill, "drawdown", "daily_loss", "streak"} /\ n.kill \in Reasons
  <2> HIDE DEF n, daily, streak
  <2> QED
    BY <1>1 DEF Trip, Kernels
<1>4. r = [n EXCEPT !.daily = daily, !.streak = streak, !.drawdown = breach,
                    !.cooldown = cool, !.kill = kill]
  BY DEF RecordPnl
<1>5. r \in Kernels /\ r.kill = kill
  <2> HIDE DEF n, daily, streak, kill, cool, r
  <2>1. kill \in Reasons
    BY <1>3 DEF Reasons
  <2> QED
    BY <1>1, <1>2, <1>4, <2>1 DEF Kernels
<1>6. k.kill \notin {"none", "daily_loss"} => n.kill = k.kill
  BY RolloverKeepsKill
<1>7. k.kill \notin {"none", "daily_loss"} /\ kill # "daily_loss" => kill # "none"
  <2> HIDE DEF n, kill
  <2> QED
    BY <1>3, <1>6
<1> HIDE DEF n, kill, r
<1>8. r = RecordPnl(k, pnl, breach)
  BY DEF r
<1> QED
  BY <1>5, <1>7, <1>8

LEMMA RowsTyped ==
    ASSUME TypeOK
    PROVE  /\ Rows \subseteq Trades /\ IdsOf(Rows) \subseteq 1..MaxPositions
           /\ \A i \in DOMAIN journal : journal[i] \in Rows
           /\ \A x \in Rows : \E i \in DOMAIN journal : x = journal[i]
<1>1. journal \in Seq(Trades)
  BY DEF TypeOK
<1>2. \A i \in DOMAIN journal : journal[i] \in Trades
  BY <1>1
<1>3. Rows = {journal[i] : i \in DOMAIN journal}
  BY DEF Rows, Range
<1>4. \A x \in Trades : x.id \in 1..MaxPositions
  BY DEF Trades
<1> HIDE DEF Rows
<1> QED
  BY <1>2, <1>3, <1>4 DEF IdsOf

LEMMA NoStateTyped == NoState \in States /\ NoState.open = {} /\ NoState.closed = {} /\ NoState.hist = {}
                      /\ NoState.kernel.kill = "none"
BY PaperControlAssumption DEF NoState, Fresh, FreshKernel, States, Kernels, Reasons

LEMMA InitIInv == Init => IInv
<1> SUFFICES ASSUME Init PROVE IInv
  OBVIOUS
<1>1. journal = <<>> \/ \E r \in Legacy : journal = <<[id |-> 1, pnl |-> r]>>
  BY DEF Init
<1>2. \A r \in Legacy : [id |-> 1, pnl |-> r] \in Trades
  BY PaperControlAssumption DEF Trades, PnL
<1>3. /\ journal \in Seq(Trades) /\ Len(journal) \in 0..1
      /\ \A i, j \in DOMAIN journal : i = j /\ journal[i].id = Len(journal)
  <2>1. CASE journal = <<>>
    BY <2>1
  <2>2. ASSUME NEW r \in Legacy, journal = <<[id |-> 1, pnl |-> r]>>
        PROVE  /\ journal \in Seq(Trades) /\ Len(journal) \in 0..1
               /\ \A i, j \in DOMAIN journal : i = j /\ journal[i].id = Len(journal)
    <3> DEFINE x == [id |-> 1, pnl |-> r]
    <3>1. x \in Trades /\ x.id = 1
      BY <1>2
    <3> HIDE DEF x
    <3>2. journal = <<x>>
      BY <2>2 DEF x
    <3> QED
      BY <3>1, <3>2
  <2> QED
    BY <1>1, <2>1, <2>2
<1>4. TypeOK
  <2>1. 0 \in 0..MaxDay /\ Len(journal) \in 0..MaxPositions /\ 0 \in 0..MaxFaults /\ 0 \in 0..MaxCrashes
    BY <1>3, PaperControlAssumption
  <2>2. /\ up = FALSE /\ pc = "idle" /\ at = "none" /\ mem = NoState /\ ckpt = NoState
        /\ garbled = FALSE /\ unended = FALSE /\ torn = FALSE
        /\ today = 0 /\ opened = Len(journal) /\ faults = 0 /\ crashes = 0 /\ kept = {} /\ operator = "no"
    BY DEF Init
  <2> QED
    <3>1. {garbled, unended, torn} \subseteq BOOLEAN
      BY <2>2
    <3> QED
      BY <1>3, <2>1, <2>2, <3>1, NoStateTyped, Zenon DEF TypeOK
<1>5. Numbered /\ TradeOnce /\ Filling
  BY <1>3, NoStateTyped DEF Init, Filling, Numbered, TradeOnce, Distinct
<1>6. CheckpointBacked /\ Accounted /\ Held
  BY NoStateTyped DEF Init, CheckpointBacked, Accounted, Held, IdsOf
<1> QED
  BY <1>4, <1>5, <1>6 DEF Init, IInv
-----------------------------------------------------------------------------
(* Steps that touch the checkpoint or the book. *)

LEMMA SavesTyped ==
    ASSUME TypeOK, NEW m \in States, \A p \in m.open : p.id <= opened', opened' \in 0..MaxPositions, Save(m)
    PROVE  ckpt' \in States /\ garbled' \in BOOLEAN /\ kept' \subseteq 1..MaxPositions /\ faults' \in 0..MaxFaults
<1>1. IdsOf(m.open) \subseteq 1..MaxPositions
  BY DEF IdsOf, States, Positions
<1>2. ckpt' \in {ckpt, m} /\ kept' \subseteq kept \union IdsOf(m.open)
  BY DEF Save, SaveSucceeds, SaveRaises, Replaces
<1>3. faults' = faults \/ (faults < MaxFaults /\ faults' = faults + 1)
  BY DEF Save, SaveSucceeds, SaveRaises, Fault
<1>4. faults' \in 0..MaxFaults
  BY <1>3, PaperControlAssumption DEF TypeOK
<1>5. garbled' \in BOOLEAN
  BY DEF Save, SaveSucceeds, SaveRaises, TypeOK
<1> QED
  BY <1>1, <1>2, <1>4, <1>5 DEF TypeOK

\* A good book is saved, or it is not: either way nothing is forgotten.
LEMMA SaveKeeps ==
    ASSUME IInv, NEW m, Good(m, opened'), Save(m), UNCHANGED journal,
           opened \in 0..opened', TypeOK', Filling',
           up' => mem' = m,
           operator' = "held" => Stays(m) /\ (Stays(ckpt) \/ SaveSucceeds(m))
    PROVE  IInv'
<1>1. /\ Rows' = Rows /\ opened \in Nat /\ opened' \in Nat /\ opened <= opened'
      /\ \A p \in ckpt.open : p.id \in Nat
      /\ \A i \in DOMAIN journal : journal[i].id \in Nat
  <2>1. Rows' = Rows
    BY DEF Rows
  <2>2. opened \in Nat /\ opened' \in Nat /\ opened <= opened'
    BY PaperControlAssumption DEF IInv, TypeOK
  <2>3. \A p \in ckpt.open : p.id \in Nat
    BY DEF IInv, TypeOK, States, Positions
  <2>4. \A i \in DOMAIN journal : journal[i].id \in Nat
    BY RowsTyped DEF IInv, Trades
  <2> QED
    BY <2>1, <2>2, <2>3, <2>4
<1>2. CheckpointBacked /\ Accounted /\ TradeOnce /\ Numbered
  BY DEF IInv
<1>3. CASE Agrees(m) /\ Replaces(m)
  <2>1. ckpt' = m /\ kept' = kept \union IdsOf(m.open) /\ Agrees(m)
    BY <1>3 DEF Replaces
  <2>2. m.closed \subseteq Rows /\ m.hist \subseteq IdsOf(Rows) /\ IdsOf(m.closed) \subseteq IdsOf(Rows)
    BY <2>1 DEF Agrees, IdsOf
  <2>3. CheckpointBacked'
    BY <1>1, <2>1, <2>2 DEF CheckpointBacked, IdsOf
  <2>4. Accounted'
    BY <1>1, <1>2, <2>1, <2>2 DEF Accounted, Good, IdsOf
  <2>5. Numbered' /\ TradeOnce'
    BY <1>1, <1>2, <2>1 DEF Numbered, TradeOnce, Good
  <2>6. (up => Good(mem, opened))'
    BY <1>1, <2>1 DEF Good, Distinct, IdsOf
  <2>7. Held'
    BY <2>1 DEF Held, Stays
  <2> QED
    BY <2>3, <2>4, <2>5, <2>6, <2>7 DEF IInv
<1>4. CASE UNCHANGED <<ckpt, kept>>
  <2>1. UNCHANGED <<ckpt, kept>>
    BY <1>4
  <2>2. CheckpointBacked' /\ Accounted' /\ TradeOnce'
    BY <1>1, <1>2, <2>1 DEF CheckpointBacked, Accounted, TradeOnce, IdsOf
  <2>3. Numbered'
    BY <1>1, <1>2, <2>1 DEF Numbered, Distinct
  <2>4. (up => Good(mem, opened))'
    BY <1>1, <2>1 DEF Good, Distinct, IdsOf
  <2>5. operator' = "held" => Stays(m) /\ Stays(ckpt)
    BY <2>1 DEF SaveSucceeds, Replaces, Stays
  <2>6. Held'
    BY <2>1, <2>5 DEF Held, Stays
  <2> QED
    BY <2>2, <2>3, <2>4, <2>6 DEF IInv
<1> QED
  BY <1>3, <1>4 DEF Save, SaveSucceeds, SaveRaises

\* Steps that leave the files, and the positions of the book, alone.
LEMMA BookKept ==
    ASSUME IInv, TypeOK', Filling', UNCHANGED <<ckpt, journal, opened, kept, operator>>,
           up' => up /\ mem'.open = mem.open /\ mem'.closed = mem.closed,
           up' /\ Stays(mem) => Stays(mem')
    PROVE  IInv'
<1>1. Rows' = Rows
  BY DEF Rows
<1>2. (up => Good(mem, opened))'
  BY <1>1 DEF IInv, Good, Distinct, IdsOf, TypeOK
<1>3. Held'
  BY DEF IInv, Held, Stays
<1>4. Numbered' /\ TradeOnce' /\ CheckpointBacked' /\ Accounted'
  BY <1>1 DEF IInv, Numbered, Distinct, TradeOnce, CheckpointBacked, Accounted, IdsOf
<1> QED
  BY <1>2, <1>3, <1>4 DEF IInv

LEMMA RolloverFacts ==
    ASSUME IInv, up
    PROVE  /\ mem.kernel \in Kernels /\ Len(journal) \in Nat
           /\ Rollover(mem.kernel, Len(journal)) \in Kernels
           /\ Stays(mem) => Rollover(mem.kernel, Len(journal)).kill = mem.kernel.kill
BY KernelTyped, RolloverKeepsKill DEF IInv, TypeOK, States, Stays

\* The book with another kernel.
LEMMA KernelReplaced ==
    ASSUME IInv, up, NEW k \in Kernels
    PROVE  /\ [mem EXCEPT !.kernel = k] \in States
           /\ [mem EXCEPT !.kernel = k].open = mem.open /\ [mem EXCEPT !.kernel = k].closed = mem.closed
           /\ [mem EXCEPT !.kernel = k].kernel = k
           /\ Good([mem EXCEPT !.kernel = k], opened)
<1>1. mem \in States
  BY DEF IInv, TypeOK
<1> DEFINE m == [mem EXCEPT !.kernel = k]
<1>2. m \in States /\ m.open = mem.open /\ m.closed = mem.closed /\ m.kernel = k
  BY <1>1 DEF States
<1>3. Good(m, opened)
  <2> HIDE DEF m
  <2> QED
    BY <1>2 DEF IInv, Good
<1> QED
  BY <1>2, <1>3

LEMMA StartsKeeps ==
    ASSUME IInv, NEW m \in States, Starts(m), Distinct(m.open),
           \A p \in m.open : p.id <= opened /\ p.id \notin IdsOf(Rows),
           IdsOf(ckpt.open) \subseteq IdsOf(m.open) \union IdsOf(m.closed),
           operator = "held" => Stays(m)
    PROVE  IInv'
<1>1. /\ ~up /\ Save(m)
      /\ (up' = TRUE /\ mem' = m) \/ (up' = up /\ mem' = mem)
      /\ UNCHANGED <<pc, at, journal, unended, torn, today, opened, crashes, operator>>
  BY DEF Starts, Save, files
<1>2. Good(m, opened')
  BY <1>1 DEF Good
<1>3. opened' \in 0..MaxPositions /\ opened \in 0..opened' /\ pc = "idle" /\ at = "none"
  BY <1>1, PaperControlAssumption DEF IInv, TypeOK
<1>4. ckpt' \in States /\ garbled' \in BOOLEAN /\ kept' \subseteq 1..MaxPositions /\ faults' \in 0..MaxFaults
  BY <1>1, <1>3, SavesTyped DEF IInv
<1>5. TypeOK' /\ Filling'
  BY <1>1, <1>3, <1>4 DEF IInv, TypeOK, Filling, files
<1>6. operator' = "held" => Stays(m) /\ Stays(ckpt)
  BY <1>1 DEF IInv, Held
<1> QED
  BY <1>1, <1>2, <1>3, <1>5, <1>6, SaveKeeps DEF files

LEMMA BootstrapTyped ==
    ASSUME TypeOK, NEW daily \in {0, journal[1].pnl}, NEW cooldown \in BOOLEAN, NEW breach \in BOOLEAN,
           journal # <<>>
    PROVE  LET streak == IF journal[1].pnl < 0 THEN 1 ELSE 0
               k == [day |-> today, daily |-> daily, streak |-> streak, since |-> 0,
                     cooldown |-> cooldown, drawdown |-> breach,
                     kill |-> Trip("none", streak, daily, breach)]
               m == [open |-> {}, closed |-> {}, hist |-> IdsOf(Rows), kernel |-> k] IN
           m \in States /\ m.open = {}
<1> DEFINE streak == IF journal[1].pnl < 0 THEN 1 ELSE 0
           kill == Trip("none", streak, daily, breach)
           k == [day |-> today, daily |-> daily, streak |-> streak, since |-> 0,
                 cooldown |-> cooldown, drawdown |-> breach, kill |-> kill]
           m == [open |-> {}, closed |-> {}, hist |-> IdsOf(Rows), kernel |-> k]
<1>1. journal[1] \in Trades /\ daily \in Int /\ streak \in Nat
  <2>1. journal \in Seq(Trades)
    BY DEF TypeOK
  <2>2. journal[1] \in Trades
    BY <2>1
  <2>3. journal[1].pnl \in Int
    BY <2>2 DEF Trades, PnL
  <2> QED
    BY <2>2, <2>3
<1>2. kill \in Reasons
  BY DEF Trip, Reasons
<1>4. today \in -1..MaxDay
  BY PaperControlAssumption DEF TypeOK
<1>5. k \in Kernels
  <2> HIDE DEF streak, kill
  <2> QED
    BY <1>1, <1>2, <1>4 DEF Kernels
<1>6. m \in States /\ m.open = {}
  <2> HIDE DEF k
  <2> QED
    BY <1>5, RowsTyped DEF States
<1> QED
  BY <1>6

LEMMA StartKeeps == IInv /\ Start => IInv'
<1> SUFFICES ASSUME IInv, Start PROVE IInv'
  OBVIOUS
<1>1. TypeOK /\ Numbered /\ Held /\ ckpt \in States /\ today \in -1..MaxDay
  BY PaperControlAssumption DEF IInv, TypeOK
<1>2. CASE StartRestored
  <2>1. Starts(ckpt) /\ \A p \in ckpt.open : p.id \notin IdsOf(Rows)
    BY <1>2 DEF StartRestored, Restored, Agrees, IdsOf
  <2> QED
    BY <1>1, <2>1, StartsKeeps DEF Numbered, Held
<1>3. ckpt = NoState => ckpt.open = {} /\ operator # "held"
  BY <1>1, NoStateTyped DEF Held, Stays
<1>4. ASSUME NEW m \in States, m.open = {}, Starts(m), ckpt = NoState PROVE IInv'
  <2>1. IdsOf(ckpt.open) = {}
    BY <1>3, <1>4 DEF IdsOf
  <2> QED
    BY <1>3, <1>4, <2>1, StartsKeeps DEF Distinct
<1>5. CASE StartFresh
  <2> DEFINE k == [day |-> today, daily |-> 0, streak |-> 0, since |-> 0,
                   cooldown |-> FALSE, drawdown |-> FALSE, kill |-> "none"]
             m == [open |-> {}, closed |-> {}, hist |-> {}, kernel |-> k]
  <2>1. k \in Kernels
    BY <1>1 DEF Kernels, Reasons
  <2>2. m \in States /\ m.open = {}
    <3> HIDE DEF k
    <3> QED
      BY <2>1 DEF States
  <2>3. Starts(m) /\ ckpt = NoState
    BY <1>5 DEF StartFresh, Fresh, FreshKernel
  <2> QED
    BY <1>4, <2>2, <2>3
<1>6. CASE StartBootstrapped
  <2>1. ckpt = NoState /\ journal # <<>>
    BY <1>6 DEF StartBootstrapped
  <2>2. PICK daily \in {0, journal[1].pnl}, cooldown \in BOOLEAN, breach \in BOOLEAN :
          LET streak == IF journal[1].pnl < 0 THEN 1 ELSE 0 IN
          Starts([open |-> {}, closed |-> {}, hist |-> IdsOf(Rows),
                  kernel |-> [day |-> today, daily |-> daily, streak |-> streak, since |-> 0,
                              cooldown |-> cooldown, drawdown |-> breach,
                              kill |-> Trip("none", streak, daily, breach)]])
    BY <1>6, ZenonT(60) DEF StartBootstrapped
  <2> QED
    BY <1>1, <1>4, <2>1, <2>2, BootstrapTyped
<1> QED
  BY <1>2, <1>5, <1>6 DEF Start

\* The last save of a route.
LEMMA EndsKeeps ==
    ASSUME IInv, up, NEW m, Good(m, opened), Stays(mem) => Stays(m), EndsWith(m)
    PROVE  IInv'
<1>1. /\ mem' = m /\ Save(m) /\ pc' = "idle" /\ at' = "none"
      /\ UNCHANGED <<up, journal, unended, torn, today, opened, crashes, operator>>
  BY DEF EndsWith, files
<1>2. m \in States /\ opened' \in 0..MaxPositions /\ opened \in 0..opened' /\ Good(m, opened')
  BY <1>1, PaperControlAssumption DEF Good, IInv, TypeOK
<1>3. ckpt' \in States /\ garbled' \in BOOLEAN /\ kept' \subseteq 1..MaxPositions /\ faults' \in 0..MaxFaults
  BY <1>1, <1>2, SavesTyped DEF Good, IInv
<1>4. TypeOK' /\ Filling'
  BY <1>1, <1>2, <1>3 DEF IInv, TypeOK, Filling
<1>5. operator' = "held" => Stays(m) /\ Stays(ckpt)
  BY <1>1 DEF IInv, Held
<1> QED
  BY <1>1, <1>2, <1>4, <1>5, SaveKeeps

LEMMA TickHoldKeeps == IInv /\ (IngestIgnored \/ \E s \in Symbols : TickHold(s)) => IInv'
<1> SUFFICES ASSUME IInv, IngestIgnored \/ \E s \in Symbols : TickHold(s) PROVE IInv'
  OBVIOUS
<1>1. UNCHANGED <<up, mem, disk, bounds, kept, operator>> /\ up
  BY DEF IngestIgnored, TickHold
<1>2. (pc' = "idle" /\ at' = "none") \/ (pc' = "ticked" /\ at' \in Symbols)
  BY DEF IngestIgnored, TickHold
<1>3. TypeOK' /\ Filling'
  BY <1>1, <1>2, PaperControlAssumption DEF IInv, TypeOK, Filling, disk, files, bounds
<1> QED
  BY <1>1, <1>3, BookKept DEF disk, files, bounds

LEMMA TickSaveKeeps == IInv /\ TickSave => IInv'
<1> SUFFICES ASSUME IInv, TickSave PROVE IInv'
  OBVIOUS
<1>1. /\ up /\ Save(mem) /\ UNCHANGED <<up, mem, journal, unended, torn, today, opened, crashes, operator>>
      /\ (pc' = "ingest" /\ at' = at) \/ (pc' = "idle" /\ at' = "none")
      /\ pc = "ticked"
  BY DEF TickSave, Save, files
<1>2. Good(mem, opened') /\ mem \in States /\ opened' \in 0..MaxPositions /\ opened \in 0..opened'
  BY <1>1, PaperControlAssumption DEF IInv, TypeOK, Good
<1>3. ckpt' \in States /\ garbled' \in BOOLEAN /\ kept' \subseteq 1..MaxPositions /\ faults' \in 0..MaxFaults
  BY <1>2, <1>1, SavesTyped DEF Good, IInv
<1>4. TypeOK' /\ Filling'
  BY <1>1, <1>3 DEF IInv, TypeOK, Filling
<1>5. operator' = "held" => Stays(mem) /\ Stays(ckpt)
  BY <1>1 DEF IInv, Held
<1> QED
  BY <1>1, <1>2, <1>4, <1>5, SaveKeeps

\* An exit leaves the book and, if the append succeeds, enters the journal.
LEMMA TickExitKeeps == ASSUME NEW s \in Symbols PROVE IInv /\ TickExit(s) => IInv'
<1> SUFFICES ASSUME IInv, TickExit(s) PROVE IInv'
  OBVIOUS
<1>1. PICK p \in PositionAt(s), pnl \in PnL, breach \in BOOLEAN :
        LET row == [id |-> p.id, pnl |-> pnl]
            kernel == RecordPnl(mem.kernel, pnl, breach) IN
        /\ mem' = [mem EXCEPT !.open = @ \ {p}, !.closed = @ \union {row}, !.kernel = kernel]
        /\ JournalAppend(row)
        /\ operator' = IF operator = "held" /\ kernel.kill = "daily_loss"
                       THEN "overwritten" ELSE operator
  BY DEF TickExit
<1> DEFINE row == [id |-> p.id, pnl |-> pnl]
           kernel == RecordPnl(mem.kernel, pnl, breach)
<1>2. /\ up /\ pc' = "ticked" /\ at' = s /\ UNCHANGED <<up, ckpt, garbled, today, opened, crashes, kept>>
      /\ mem \in States /\ mem.kernel \in Kernels /\ p \in mem.open /\ p.id \in 1..MaxPositions
      /\ Good(mem, opened) /\ opened \in 0..MaxPositions
  BY DEF TickExit, IInv, TypeOK, States, PositionAt, Positions
<1>3. row \in Trades /\ row.id = p.id /\ p.id <= opened /\ p.id \notin IdsOf(Rows)
  BY <1>2, PaperControlAssumption DEF Trades, Good
<1>4. /\ kernel \in Kernels
      /\ Stays(mem) /\ kernel.kill # "daily_loss" => kernel.kill \notin {"none", "daily_loss"}
  BY <1>2, RecordTyped DEF IInv, Stays
<1>5. mem' = [open |-> mem.open \ {p}, closed |-> mem.closed \union {row}, hist |-> mem.hist, kernel |-> kernel]
  BY <1>1, <1>2 DEF States
<1>6. /\ JournalAppend(row)
      /\ operator' = IF operator = "held" /\ kernel.kill = "daily_loss" THEN "overwritten" ELSE operator
  BY <1>1
<1> HIDE DEF row, kernel
<1>7. mem' \in States
  BY <1>2, <1>3, <1>4, <1>5 DEF States
<1>8. /\ journal' \in Seq(Trades) /\ torn' \in BOOLEAN /\ unended' \in BOOLEAN /\ faults' \in 0..MaxFaults
      /\ journal' = journal \/ journal' = Append(journal, row)
  <2>1. journal \in Seq(Trades) /\ torn \in BOOLEAN /\ unended \in BOOLEAN /\ faults \in 0..MaxFaults
    BY DEF IInv, TypeOK
  <2>2. journal' = journal \/ journal' = Append(journal, row)
    BY <1>6 DEF JournalAppend
  <2>3. torn' \in BOOLEAN /\ unended' \in BOOLEAN
    BY <1>6, <2>1 DEF JournalAppend
  <2>4. faults' = faults \/ (faults < MaxFaults /\ faults' = faults + 1)
    BY <1>6 DEF JournalAppend, Fault
  <2>5. faults' \in 0..MaxFaults
    BY <2>1, <2>4, PaperControlAssumption
  <2>6. journal' \in Seq(Trades)
    BY <1>3, <2>1, <2>2
  <2> QED
    BY <2>2, <2>3, <2>5, <2>6
<1>9. Rows \subseteq Rows' /\ Rows' \subseteq Rows \union {row} /\ TradeOnce'
      /\ \A i \in DOMAIN journal' : journal'[i].id <= opened
  <2>1. /\ journal \in Seq(Trades) /\ TradeOnce /\ \A i \in DOMAIN journal : journal[i].id <= opened
        /\ Rows = {journal[i] : i \in DOMAIN journal}
        /\ \A i \in DOMAIN journal : journal[i].id # row.id
    BY <1>3, RowsTyped DEF IInv, TypeOK, Numbered, Rows, Range, IdsOf
  <2>2. CASE journal' = journal
    BY <2>1, <2>2 DEF TradeOnce, Rows, Range
  <2>3. CASE journal' = Append(journal, row)
    <3>1. /\ DOMAIN journal = 1..Len(journal) /\ DOMAIN journal' = 1..(Len(journal) + 1)
          /\ \A i \in DOMAIN journal : journal'[i] = journal[i]
          /\ journal'[Len(journal) + 1] = row /\ Len(journal) \in Nat
      BY <1>3, <2>1, <2>3
    <3>2. TradeOnce'
      BY <2>1, <3>1 DEF TradeOnce
    <3>3. Rows' = {journal'[i] : i \in DOMAIN journal'}
      BY DEF Rows, Range
    <3>4. \A i \in DOMAIN journal' : i \in DOMAIN journal \/ journal'[i] = row
      BY <3>1
    <3>5. Rows \subseteq Rows' /\ Rows' \subseteq Rows \union {row}
      BY <2>1, <3>1, <3>3, <3>4
    <3>6. \A i \in DOMAIN journal' : journal'[i].id <= opened
      BY <1>3, <2>1, <3>1, <3>4
    <3> QED
      BY <3>2, <3>5, <3>6
  <2> QED
    BY <1>8, <2>2, <2>3
<1>10. Good(mem, opened)'
  <2>1. IdsOf(mem.open) \subseteq IdsOf(mem'.open) \union {p.id}
    BY <1>5 DEF IdsOf
  <2>2. p.id \in IdsOf(mem'.closed) /\ IdsOf(mem.closed) \subseteq IdsOf(mem'.closed)
    BY <1>3, <1>5 DEF IdsOf
  <2>3. IdsOf(ckpt.open) \subseteq IdsOf(mem'.open) \union IdsOf(mem'.closed)
    BY <1>2, <2>1, <2>2 DEF Good
  <2>4. \A q \in mem'.open : q \in mem.open /\ q.id # p.id
    BY <1>2, <1>5 DEF Good, Distinct
  <2>5. \A q \in mem'.open : q.id <= opened /\ q.id \notin IdsOf(Rows')
    BY <1>2, <1>3, <1>9, <2>4 DEF Good, IdsOf
  <2>6. Distinct(mem'.open)
    BY <1>2, <2>4 DEF Good, Distinct
  <2> QED
    BY <1>2, <1>7, <2>3, <2>5, <2>6 DEF Good, Distinct, IdsOf
<1>11. TypeOK' /\ Filling'
  <2>1. operator' \in {"no", "held", "overwritten"}
    BY <1>6 DEF IInv, TypeOK
  <2>2. at' # "none" /\ at' \in Symbols
    BY <1>2, PaperControlAssumption
  <2> QED
    BY <1>2, <1>7, <1>8, <2>1, <2>2 DEF IInv, TypeOK, Filling
<1>12. Numbered' /\ CheckpointBacked' /\ Accounted'
  BY <1>2, <1>9 DEF IInv, Numbered, Distinct, CheckpointBacked, Accounted, IdsOf
<1>13. Held'
  BY <1>2, <1>4, <1>5, <1>6 DEF IInv, Held, Stays
<1> QED
  BY <1>9, <1>10, <1>11, <1>12, <1>13 DEF IInv

LEMMA IngestKeeps == IInv /\ (NoProposal \/ RejectProposal \/ SubmitOrder \/ NoFill \/ EndIngest) => IInv'
<1> SUFFICES ASSUME IInv, NoProposal \/ RejectProposal \/ SubmitOrder \/ NoFill \/ EndIngest PROVE IInv'
  OBVIOUS
<1> DEFINE k == Rollover(mem.kernel, Len(journal))
           quiet == [k EXCEPT !.cooldown = FALSE]
<1>1. up /\ Good(mem, opened)
  BY DEF NoProposal, RejectProposal, SubmitOrder, NoFill, EndIngest, IInv
<1>2. k \in Kernels /\ (Stays(mem) => k.kill = mem.kernel.kill)
  BY <1>1, RolloverFacts
<1>3. quiet \in Kernels /\ quiet.kill = k.kill
  <2> HIDE DEF k
  <2> QED
    BY <1>2 DEF Kernels
<1>4. ASSUME EndsWith(mem) PROVE IInv'
  BY <1>1, <1>4, EndsKeeps
<1>5. ASSUME NEW x \in {k, quiet}, EndsWith([mem EXCEPT !.kernel = x]) PROVE IInv'
  <2>1. x \in Kernels /\ (Stays(mem) => x.kill = mem.kernel.kill)
    BY <1>2, <1>3
  <2>2. Good([mem EXCEPT !.kernel = x], opened) /\ [mem EXCEPT !.kernel = x].kernel = x
    BY <1>1, <2>1, KernelReplaced
  <2> QED
    BY <1>1, <1>5, <2>1, <2>2, EndsKeeps DEF Stays
<1>6. CASE RejectProposal
  BY <1>5, <1>6 DEF RejectProposal
<1>7. CASE SubmitOrder
  <2> DEFINE m == [mem EXCEPT !.kernel = quiet]
  <2>1. mem' = m /\ pc' = "filling" /\ pc = "ingest" /\ opened < MaxPositions
        /\ UNCHANGED <<up, at, disk, bounds, kept, operator>>
    BY <1>7 DEF SubmitOrder
  <2>2. m \in States /\ m.open = mem.open /\ m.closed = mem.closed /\ m.kernel = quiet
    BY <1>1, <1>3, KernelReplaced
  <2>3. Stays(mem) => Stays(m)
    BY <1>2, <1>3, <2>2 DEF Stays
  <2> HIDE DEF m
  <2>4. TypeOK' /\ Filling'
    BY <1>1, <2>1, <2>2 DEF IInv, TypeOK, Filling, disk, files, bounds
  <2> QED
    BY <1>1, <2>1, <2>2, <2>3, <2>4, BookKept DEF disk, files, bounds
<1> QED
  BY <1>4, <1>6, <1>7 DEF NoProposal, NoFill, EndIngest

LEMMA OpenKeeps == IInv /\ OpenPosition => IInv'
<1> SUFFICES ASSUME IInv, OpenPosition PROVE IInv'
  OBVIOUS
<1> DEFINE p == [id |-> opened', sym |-> at, stop |-> FALSE]
           m == [mem EXCEPT !.open = @ \union {p}]
<1>1. /\ up /\ pc = "filling" /\ opened' = opened + 1 /\ mem' = m /\ Save(m) /\ pc' = "opened"
      /\ UNCHANGED <<up, at, journal, unended, torn, today, crashes, operator>>
      /\ mem \in States /\ Good(mem, opened) /\ at \in Symbols
      /\ opened \in 0..MaxPositions /\ opened < MaxPositions
  BY DEF OpenPosition, IInv, TypeOK, Filling, files
<1>2. opened' \in 1..MaxPositions /\ opened \in 0..opened'
  BY <1>1, PaperControlAssumption
<1>3. p \in Positions /\ p.id = opened'
  BY <1>1, <1>2 DEF Positions
<1> HIDE DEF p
<1>4. m = [open |-> mem.open \union {p}, closed |-> mem.closed, hist |-> mem.hist, kernel |-> mem.kernel]
  <2>1. mem \in [open : SUBSET Positions, closed : SUBSET Trades,
                 hist : SUBSET (1..MaxPositions), kernel : Kernels]
    BY <1>1 DEF States
  <2> QED
    BY <2>1
<1> HIDE DEF m
<1>5. m \in States
  BY <1>1, <1>3, <1>4 DEF States
<1>6. Good(m, opened')
  <2>1. \A q \in mem.open : q.id \in Nat /\ q.id <= opened
    BY <1>1 DEF Good, States, Positions
  <2>2. \A q \in mem.open : q.id <= opened' /\ q.id # opened'
    BY <1>1, <2>1
  <2>3. p.id \notin IdsOf(Rows)
    <3>1. \A i \in DOMAIN journal : journal[i].id <= opened /\ journal[i].id \in Nat
      BY RowsTyped DEF IInv, Numbered, Trades
    <3>2. \A x \in Rows : x.id <= opened /\ x.id \in Nat
      BY <3>1, RowsTyped DEF IInv
    <3>3. \A x \in Rows : x.id # opened'
      BY <1>1, <3>2
    <3> QED
      BY <1>3, <3>3 DEF IdsOf
  <2>4. Distinct(m.open)
    BY <1>1, <1>3, <1>4, <2>2 DEF Good, Distinct
  <2>5. p.id <= opened'
    BY <1>2, <1>3
  <2>6. \A q \in m.open : q.id <= opened' /\ q.id \notin IdsOf(Rows)
    BY <1>1, <1>4, <2>2, <2>3, <2>5 DEF Good
  <2>7. IdsOf(ckpt.open) \subseteq IdsOf(m.open) \union IdsOf(m.closed)
    BY <1>1, <1>4 DEF Good, IdsOf
  <2> QED
    BY <1>5, <2>4, <2>6, <2>7 DEF Good
<1>7. ckpt' \in States /\ garbled' \in BOOLEAN /\ kept' \subseteq 1..MaxPositions /\ faults' \in 0..MaxFaults
  <2>1. opened' \in 0..MaxPositions /\ \A q \in m.open : q.id <= opened'
    BY <1>2, <1>6, PaperControlAssumption DEF Good
  <2> QED
    BY <1>1, <1>5, <2>1, SavesTyped DEF IInv
<1>8. TypeOK' /\ Filling'
  <2>1. opened' \in 0..MaxPositions
    BY <1>2
  <2> QED
    BY <1>1, <1>5, <1>7, <2>1 DEF IInv, TypeOK, Filling
<1>9. operator' = "held" => Stays(m) /\ Stays(ckpt)
  BY <1>1, <1>4 DEF IInv, Held, Stays
<1> QED
  BY <1>1, <1>2, <1>6, <1>8, <1>9, SaveKeeps

LEMMA ProtectKeeps == IInv /\ ProtectPosition => IInv'
<1> SUFFICES ASSUME IInv, ProtectPosition PROVE IInv'
  OBVIOUS
<1> DEFINE new == {[p EXCEPT !.stop = TRUE] : p \in PositionAt(at)}
           m == [mem EXCEPT !.open = (@ \ PositionAt(at)) \union new]
<1>1. /\ up /\ pc = "opened" /\ mem' = m /\ Save(m) /\ pc' = "protected"
      /\ UNCHANGED <<up, at, journal, unended, torn, today, opened, crashes, operator>>
      /\ mem \in States /\ Good(mem, opened) /\ opened \in 0..MaxPositions
  BY DEF ProtectPosition, IInv, TypeOK, files
<1>2. /\ PositionAt(at) \subseteq mem.open /\ mem.open \subseteq Positions
      /\ new \subseteq Positions
      /\ \A q \in new : \E p \in PositionAt(at) : q = [p EXCEPT !.stop = TRUE] /\ q.id = p.id
      /\ \A p \in PositionAt(at) : \E q \in new : q.id = p.id
  <2>1. PositionAt(at) \subseteq mem.open /\ mem.open \subseteq Positions
    BY <1>1 DEF PositionAt, States
  <2>2. \A p \in Positions : [p EXCEPT !.stop = TRUE] \in Positions /\ [p EXCEPT !.stop = TRUE].id = p.id
    BY DEF Positions
  <2> QED
    BY <2>1, <2>2
<1> HIDE DEF new
<1>3. m = [open |-> (mem.open \ PositionAt(at)) \union new, closed |-> mem.closed,
           hist |-> mem.hist, kernel |-> mem.kernel]
  <2>1. mem \in [open : SUBSET Positions, closed : SUBSET Trades,
                 hist : SUBSET (1..MaxPositions), kernel : Kernels]
    BY <1>1 DEF States
  <2>2. \A S : [mem EXCEPT !.open = S] = [open |-> S, closed |-> mem.closed,
                                         hist |-> mem.hist, kernel |-> mem.kernel]
    BY <2>1
  <2>3. m = [mem EXCEPT !.open = (mem.open \ PositionAt(at)) \union new]
    OBVIOUS
  <2> HIDE DEF m
  <2> QED
    BY <2>2, <2>3
<1> HIDE DEF m
<1>4. m \in States
  BY <1>1, <1>2, <1>3 DEF States
<1>5. Good(m, opened)
  <2>1. \A q \in m.open : \E p \in mem.open :
          /\ q.id = p.id
          /\ (q = p /\ p \notin PositionAt(at)) \/ (q = [p EXCEPT !.stop = TRUE] /\ p \in PositionAt(at))
    <3>1. \A q \in m.open : q \in mem.open \ PositionAt(at) \/ q \in new
      BY <1>3
    <3> QED
      BY <1>2, <3>1
  <2>2. Distinct(m.open)
    <3> SUFFICES ASSUME NEW q \in m.open, NEW r \in m.open, q.id = r.id PROVE q = r
      BY DEF Distinct
    <3>1. PICK p \in mem.open :
            /\ q.id = p.id
            /\ (q = p /\ p \notin PositionAt(at)) \/ (q = [p EXCEPT !.stop = TRUE] /\ p \in PositionAt(at))
      BY <2>1
    <3>2. PICK o \in mem.open :
            /\ r.id = o.id
            /\ (r = o /\ o \notin PositionAt(at)) \/ (r = [o EXCEPT !.stop = TRUE] /\ o \in PositionAt(at))
      BY <2>1
    <3>3. p = o
      BY <1>1, <3>1, <3>2 DEF Good, Distinct
    <3> QED
      BY <3>1, <3>2, <3>3
  <2>3. \A q \in m.open : q.id <= opened /\ q.id \notin IdsOf(Rows)
    BY <1>1, <2>1 DEF Good
  <2>4. IdsOf(mem.open) \subseteq IdsOf(m.open)
    BY <1>2, <1>3 DEF IdsOf
  <2> QED
    BY <1>1, <1>3, <1>4, <2>2, <2>3, <2>4 DEF Good
<1>6. ckpt' \in States /\ garbled' \in BOOLEAN /\ kept' \subseteq 1..MaxPositions /\ faults' \in 0..MaxFaults
  BY <1>1, <1>4, <1>5, SavesTyped DEF IInv, Good
<1>7. TypeOK' /\ Filling'
  BY <1>1, <1>4, <1>6 DEF IInv, TypeOK, Filling
<1>8. operator' = "held" => Stays(m) /\ Stays(ckpt)
  BY <1>1, <1>3 DEF IInv, Held, Stays
<1>9. Good(m, opened') /\ opened \in 0..opened'
  BY <1>1, <1>5, PaperControlAssumption
<1> QED
  BY <1>1, <1>7, <1>8, <1>9, SaveKeeps

\* The two kill-switch handlers.
LEMMA SwitchKeeps == IInv /\ (TripKillSwitch \/ ResetKillSwitch) => IInv'
<1> SUFFICES ASSUME IInv, TripKillSwitch \/ ResetKillSwitch PROVE IInv'
  OBVIOUS
<1>1. /\ up /\ pc \in {"idle", "filling"} /\ mem \in States /\ mem.kernel \in Kernels
      /\ UNCHANGED <<up, pc, at, journal, unended, torn, today, opened, crashes>>
      /\ opened \in 0..MaxPositions /\ opened \in 0..opened'
  BY PaperControlAssumption DEF TripKillSwitch, ResetKillSwitch, Waits, IInv, TypeOK, States, files
<1>2. ASSUME NEW k \in Kernels, mem' = [mem EXCEPT !.kernel = k], Save([mem EXCEPT !.kernel = k]),
             operator' \in {"no", "held", "overwritten"},
             operator' = "held" => k.kill = "manual" /\ (operator = "held" \/ SaveSucceeds([mem EXCEPT !.kernel = k]))
      PROVE  IInv'
  <2> DEFINE m == [mem EXCEPT !.kernel = k]
  <2>1. m \in States /\ m.kernel = k /\ Good(m, opened)
    BY <1>1, KernelReplaced
  <2> HIDE DEF m
  <2>2. mem' = m /\ Save(m)
    BY <1>2 DEF m
  <2>3. Good(m, opened') /\ opened' \in 0..MaxPositions
    BY <1>1, <2>1
  <2>4. ckpt' \in States /\ garbled' \in BOOLEAN /\ kept' \subseteq 1..MaxPositions /\ faults' \in 0..MaxFaults
    BY <2>1, <2>2, <2>3, SavesTyped DEF IInv, Good
  <2>5. TypeOK' /\ Filling'
    BY <1>1, <1>2, <2>1, <2>2, <2>4 DEF IInv, TypeOK, Filling
  <2>6. operator' = "held" => Stays(m) /\ (Stays(ckpt) \/ SaveSucceeds(m))
    BY <1>2, <2>1 DEF IInv, Held, Stays, m
  <2> QED
    BY <1>1, <2>2, <2>3, <2>5, <2>6, SaveKeeps
<1>3. CASE TripKillSwitch
  <2> DEFINE k == [mem.kernel EXCEPT !.kill = "manual"]
  <2>1. k \in Kernels /\ k.kill = "manual"
    BY <1>1 DEF Kernels, Reasons
  <2>2. [mem EXCEPT !.kernel.kill = "manual"] = [mem EXCEPT !.kernel = k]
    BY <1>1 DEF States
  <2> HIDE DEF k
  <2>3. /\ mem' = [mem EXCEPT !.kernel = k] /\ Save([mem EXCEPT !.kernel = k])
        /\ (operator' = "held" /\ SaveSucceeds([mem EXCEPT !.kernel = k])) \/ operator' = operator
    BY <1>3, <2>2 DEF TripKillSwitch, Save
  <2> QED
    BY <1>2, <2>1, <2>3 DEF IInv, TypeOK
<1>4. CASE ResetKillSwitch
  <2> DEFINE k == Reset(mem.kernel, Len(journal))
  <2>1. k \in Kernels
    BY <1>1, KernelTyped DEF IInv, TypeOK
  <2>2. mem' = [mem EXCEPT !.kernel = k] /\ Save([mem EXCEPT !.kernel = k]) /\ operator' = "no"
    BY <1>4 DEF ResetKillSwitch
  <2> HIDE DEF k
  <2> QED
    BY <1>2, <2>1, <2>2
<1> QED
  BY <1>3, <1>4

LEMMA StopKeeps == IInv /\ Stop => IInv'
<1> SUFFICES ASSUME IInv, Stop PROVE IInv'
  OBVIOUS
<1>1. /\ up /\ Save(mem) /\ ~up' /\ mem' = NoState /\ pc' = "idle" /\ at' = "none"
      /\ UNCHANGED <<journal, unended, torn, today, opened, crashes, operator>>
      /\ mem \in States /\ Good(mem, opened') /\ opened' \in 0..MaxPositions /\ opened \in 0..opened'
  BY PaperControlAssumption DEF Stop, Waits, IInv, TypeOK, files
<1>2. ckpt' \in States /\ garbled' \in BOOLEAN /\ kept' \subseteq 1..MaxPositions /\ faults' \in 0..MaxFaults
  BY <1>1, SavesTyped DEF IInv, Good
<1>3. TypeOK' /\ Filling'
  BY <1>1, <1>2, NoStateTyped DEF Stop, IInv, TypeOK, Filling
<1>4. operator' = "held" => Stays(mem) /\ Stays(ckpt)
  BY <1>1 DEF IInv, Held
<1> QED
  BY <1>1, <1>3, <1>4, SaveKeeps

LEMMA OutsideKeeps == IInv /\ (Crash \/ NewDay \/ UNCHANGED vars) => IInv'
<1> SUFFICES ASSUME IInv, Crash \/ NewDay \/ UNCHANGED vars PROVE IInv'
  OBVIOUS
<1>1. /\ UNCHANGED <<ckpt, journal, unended, torn, opened, faults, kept, operator>>
      /\ up' => up /\ mem' = mem
  BY DEF Crash, NewDay, vars, disk, bounds, files
<1>2. today' \in 0..MaxDay /\ crashes' \in 0..MaxCrashes
  BY PaperControlAssumption DEF Crash, NewDay, vars, disk, files, bounds, IInv, TypeOK
<1>3. TypeOK' /\ Filling'
  BY <1>1, <1>2, NoStateTyped DEF Crash, NewDay, vars, disk, files, bounds, IInv, TypeOK, Filling
<1> QED
  BY <1>1, <1>3, BookKept

LEMMA NextIInv == IInv /\ [Next]_vars => IInv'
BY StartKeeps, TickHoldKeeps, TickSaveKeeps, TickExitKeeps, IngestKeeps, OpenKeeps, ProtectKeeps,
   SwitchKeeps, StopKeeps, OutsideKeeps
   DEF Next, Ingest, Order, Operator

LEMMA PaperInvariant == Spec => []IInv
BY InitIInv, NextIInv, PTL DEF Spec

\* The coordinator's book, its two files and its phases keep their types.
THEOREM PaperTypeCorrect == Spec => []TypeOK
<1>1. IInv => TypeOK
  BY DEF IInv
<1> QED
  BY <1>1, PaperInvariant, PTL

\* _assert_journal_state_consistency keeps a restart from journaling a trade again.
THEOREM PaperTradeOnce == Spec => []TradeOnce
<1>1. IInv => TradeOnce
  BY DEF IInv
<1> QED
  BY <1>1, PaperInvariant, PTL

\* No checkpoint calls a trade closed that the journal does not hold.
THEOREM PaperCheckpointBacked == Spec => []CheckpointBacked
<1>1. IInv => CheckpointBacked
  BY DEF IInv
<1> QED
  BY <1>1, PaperInvariant, PTL

\* A position shown open by a checkpoint is still open there, or journaled.
THEOREM PaperAccounted == Spec => []Accounted
<1>1. IInv => Accounted
  BY DEF IInv
<1> QED
  BY <1>1, PaperInvariant, PTL

\* A trip POST /api/portfolio/kill_switch has acknowledged outlives every restart.
THEOREM PaperTripSurvives == Spec => []TripSurvives
<1>1. IInv => TripSurvives
  BY DEF IInv, Held, Stays, TripSurvives
<1> QED
  BY <1>1, PaperInvariant, PTL
-----------------------------------------------------------------------------
(* The loss streak.  A book that agrees with the journal counts its losses *)
(* since the last win; so does the checkpoint until the next exit.          *)

\* In the journal s, k's streak is the losses since its last win, or since it was cleared.
TailRight(s, k) == k.since <= Len(s) /\ k.streak = Cardinality(Losses(s, k.since))

Started(m) == m.kernel.day # -1

\* A lost row leaves the book ahead of the journal for good: a closed position
\* never exits again.
BookRight(m, n) ==
    /\ Started(m) /\ \A p \in m.open : p.id \notin IdsOf(m.closed)
    /\ \A x \in m.closed : x.id <= n
    /\ m.closed \subseteq Rows => TailRight(journal, m.kernel)

CheckpointRight ==
    /\ ~Started(ckpt) => ~up /\ Len(journal) <= 1 /\ ckpt = NoState
    /\ Started(ckpt) /\ IdsOf(Rows) \subseteq ckpt.hist \union IdsOf(ckpt.closed) =>
          TailRight(journal, ckpt.kernel)

StreakInv == (up => BookRight(mem, opened)) /\ CheckpointRight

\* Only the streak, and where it was cleared, matter.
LEMMA TailRightSame ==
    ASSUME NEW s, NEW k, NEW l, TailRight(s, k), l.streak = k.streak, l.since = k.since
    PROVE  TailRight(s, l)
BY DEF TailRight

LEMMA TailRightCleared ==
    ASSUME NEW s \in Seq(Trades), NEW k, k.streak = 0, k.since = Len(s)
    PROVE  TailRight(s, k)
<1>1. Losses(s, k.since) = {}
  BY DEF Losses
<1> QED
  BY <1>1, FS_EmptySet DEF TailRight

\* A loss adds to the losses, a win ends them, an even trade does neither.
LEMMA LossesAppend ==
    ASSUME NEW s \in Seq(Trades), NEW row \in Trades, NEW n \in Nat, n <= Len(s)
    PROVE  /\ IsFiniteSet(Losses(s, n)) /\ Len(s) + 1 \notin Losses(s, n)
           /\ Losses(Append(s, row), n) =
                CASE row.pnl < 0 -> Losses(s, n) \union {Len(s) + 1}
                  [] row.pnl = 0 -> Losses(s, n)
                  [] row.pnl > 0 -> {}
<1> DEFINE t == Append(s, row)
<1>1. /\ Len(s) \in Nat /\ Len(t) = Len(s) + 1 /\ t[Len(s) + 1] = row
      /\ \A i \in 1..Len(s) : t[i] = s[i] /\ s[i].pnl \in Int
      /\ row.pnl \in Int
  <2>1. \A x \in Trades : x.pnl \in Int
    BY DEF Trades, PnL
  <2>2. \A i \in 1..Len(s) : s[i] \in Trades
    OBVIOUS
  <2>3. Len(s) \in Nat /\ Len(t) = Len(s) + 1 /\ t[Len(s) + 1] = row /\ \A i \in 1..Len(s) : t[i] = s[i]
    OBVIOUS
  <2> HIDE DEF t
  <2> QED
    BY <2>1, <2>2, <2>3
<1> HIDE DEF t
<1>2. Losses(s, n) \subseteq (n + 1)..Len(s) /\ IsFiniteSet((n + 1)..Len(s))
  <2>1. n + 1 \in Int /\ Len(s) \in Int
    BY <1>1
  <2> QED
    BY <2>1, FS_Interval DEF Losses
<1>3. IsFiniteSet(Losses(s, n)) /\ Len(s) + 1 \notin Losses(s, n)
  BY <1>1, <1>2, FS_Subset
<1>4. \A i \in (n + 1)..Len(s) : (\A j \in i..Len(t) : t[j].pnl <= 0) <=>
                                 row.pnl <= 0 /\ \A j \in i..Len(s) : s[j].pnl <= 0
  <2> SUFFICES ASSUME NEW i \in (n + 1)..Len(s)
               PROVE  (\A j \in i..Len(t) : t[j].pnl <= 0) <=>
                          row.pnl <= 0 /\ \A j \in i..Len(s) : s[j].pnl <= 0
    OBVIOUS
  <2>1. \A j : j \in i..Len(t) <=> j \in i..Len(s) \/ j = Len(s) + 1
    BY <1>1
  <2>2. \A j \in i..Len(s) : t[j] = s[j]
    BY <1>1
  <2> QED
    BY <1>1, <2>1, <2>2
<1>5. \A i : i \in (n + 1)..Len(t) <=> i \in (n + 1)..Len(s) \/ i = Len(s) + 1
  BY <1>1
<1>6. \A i \in (n + 1)..Len(s) : t[i] = s[i]
  BY <1>1
<1>7. (\A j \in (Len(s) + 1)..Len(t) : t[j].pnl <= 0) <=> row.pnl <= 0
  BY <1>1
<1>8. \A i : i \in Losses(t, n) <=>
          \/ i \in Losses(s, n) /\ row.pnl <= 0
          \/ i = Len(s) + 1 /\ row.pnl < 0
  <2>1. \A i : i \in Losses(t, n) <=>
            i \in (n + 1)..Len(t) /\ t[i].pnl < 0 /\ \A j \in i..Len(t) : t[j].pnl <= 0
    BY DEF Losses
  <2>2. \A i : i \in Losses(s, n) <=>
            i \in (n + 1)..Len(s) /\ s[i].pnl < 0 /\ \A j \in i..Len(s) : s[j].pnl <= 0
    BY DEF Losses
  <2>3. Len(s) + 1 \in Losses(t, n) <=> row.pnl < 0
    BY <1>1, <1>5, <1>7, <2>1
  <2>4. \A i \in (n + 1)..Len(s) : i \in Losses(t, n) <=> i \in Losses(s, n) /\ row.pnl <= 0
    BY <1>4, <1>5, <1>6, <2>1, <2>2
  <2> QED
    BY <1>3, <1>5, <2>1, <2>2, <2>3, <2>4
<1>9. Losses(t, n) = CASE row.pnl < 0 -> Losses(s, n) \union {Len(s) + 1}
                       [] row.pnl = 0 -> Losses(s, n)
                       [] row.pnl > 0 -> {}
  <2>1. CASE row.pnl < 0
    BY <1>1, <1>8, <2>1
  <2>2. CASE row.pnl = 0
    <3>1. \A i : i \in Losses(t, n) <=> i \in Losses(s, n)
      BY <1>8, <2>2
    <3>2. Losses(t, n) = Losses(s, n)
      <4>1. Losses(t, n) \subseteq Losses(s, n) /\ Losses(s, n) \subseteq Losses(t, n)
        BY <3>1
      <4> QED
        BY <4>1
    <3> QED
      BY <2>2, <3>2
  <2>3. CASE row.pnl > 0
    BY <1>1, <1>8, <2>3
  <2> QED
    BY <1>1, <2>1, <2>2, <2>3
<1> QED
  BY <1>3, <1>9 DEF t

\* What record_pnl makes of a streak.
Counted(streak, pnl) == CASE pnl < 0 -> streak + 1 [] pnl = 0 -> streak [] pnl > 0 -> 0

\* record_pnl and the journal count a trade alike.
LEMMA TailRightAppend ==
    ASSUME NEW s \in Seq(Trades), NEW row \in Trades, NEW k \in Kernels, NEW l, TailRight(s, k),
           l.since = k.since, l.streak = Counted(k.streak, row.pnl)
    PROVE  TailRight(Append(s, row), l)
<1> DEFINE before == Losses(s, k.since)
           after == Losses(Append(s, row), k.since)
<1>1. /\ k.since \in Nat /\ k.since <= Len(s) /\ k.streak = Cardinality(before)
      /\ Len(s) \in Nat /\ Len(Append(s, row)) = Len(s) + 1 /\ row.pnl \in {-1, 0, 1}
  BY DEF TailRight, Kernels, Trades, PnL
<1>2. /\ IsFiniteSet(before) /\ Len(s) + 1 \notin before
      /\ after = CASE row.pnl < 0 -> before \union {Len(s) + 1}
                   [] row.pnl = 0 -> before
                   [] row.pnl > 0 -> {}
  BY <1>1, LossesAppend
<1>3. Cardinality(before \union {Len(s) + 1}) = Cardinality(before) + 1 /\ Cardinality({}) = 0
  BY <1>2, FS_AddElement, FS_EmptySet
<1> HIDE DEF before, after
<1>4. Cardinality(after) = Counted(Cardinality(before), row.pnl)
  BY <1>1, <1>2, <1>3 DEF Counted
<1> QED
  BY <1>1, <1>4 DEF TailRight, after

LEMMA RolloverCounts ==
    ASSUME TypeOK, NEW k \in Kernels
    PROVE  LET n == Rollover(k, Len(journal)) IN
           n \in Kernels /\ n.day # -1 /\ (TailRight(journal, k) => TailRight(journal, n))
<1> DEFINE n == Rollover(k, Len(journal))
           fresh == [k EXCEPT !.day = today, !.daily = 0]
<1>1. today # -1 /\ journal \in Seq(Trades) /\ Len(journal) \in Nat
  BY PaperControlAssumption DEF TypeOK
<1>2. n \in Kernels
  BY <1>1, KernelTyped
<1>3. fresh.day = today /\ fresh.streak = k.streak /\ fresh.since = k.since
  BY DEF Kernels
<1>4. CASE k.day = today
  BY <1>1, <1>2, <1>4 DEF Rollover
<1>5. CASE k.day # today /\ k.kill = "daily_loss"
  <2> DEFINE clear == Reset(fresh, Len(journal))
  <2>1. n = clear
    BY <1>5 DEF Rollover
  <2>2. clear.day = fresh.day /\ clear.streak = 0 /\ clear.since = Len(journal)
    BY DEF Reset, Kernels
  <2> HIDE DEF n, fresh, clear
  <2>3. TailRight(journal, n) /\ n.day = today
    BY <1>1, <1>3, <2>1, <2>2, TailRightCleared
  <2> QED
    BY <1>1, <1>2, <2>3 DEF n
<1>6. CASE k.day # today /\ k.kill # "daily_loss"
  <2>1. n = fresh
    BY <1>6 DEF Rollover
  <2> HIDE DEF n, fresh
  <2>2. n.day = today /\ (TailRight(journal, k) => TailRight(journal, n))
    BY <1>3, <2>1, TailRightSame
  <2> QED
    BY <1>1, <1>2, <2>2 DEF n
<1> QED
  BY <1>4, <1>5, <1>6

LEMMA InitStreak == Init => StreakInv
<1> SUFFICES ASSUME Init PROVE StreakInv
  OBVIOUS
<1>1. ~up /\ ckpt = NoState /\ (journal = <<>> \/ \E r \in Legacy : journal = <<[id |-> 1, pnl |-> r]>>)
  BY DEF Init
<1>2. Len(journal) <= 1
  <2>1. CASE journal = <<>>
    BY <2>1
  <2>2. ASSUME NEW r \in Legacy, journal = <<[id |-> 1, pnl |-> r]>> PROVE Len(journal) <= 1
    BY <2>2
  <2> QED
    BY <1>1, <2>1, <2>2
<1>3. ~Started(ckpt)
  BY <1>1 DEF Started, NoState, Fresh, FreshKernel
<1> QED
  BY <1>1, <1>2, <1>3 DEF StreakInv, CheckpointRight

\* A right book that is saved makes a right checkpoint.
LEMMA SaveStreak ==
    ASSUME StreakInv, UNCHANGED journal, NEW m, BookRight(m, opened'), Save(m),
           up \/ ~up' \/ SaveSucceeds(m), up' => mem' = m
    PROVE  StreakInv'
<1>1. Rows' = Rows
  BY DEF Rows
<1>2. (up => BookRight(mem, opened))'
  BY <1>1 DEF BookRight, Started, TailRight
<1>3. CASE Agrees(m) /\ Replaces(m)
  <2>1. ckpt' = m /\ Started(m) /\ TailRight(journal, m.kernel)
    BY <1>3 DEF Replaces, Agrees, BookRight
  <2>2. CheckpointRight'
    BY <2>1 DEF CheckpointRight, Started, TailRight
  <2> QED
    BY <1>2, <2>2 DEF StreakInv
<1>4. CASE SaveRaises(m) /\ ~(Agrees(m) /\ Replaces(m))
  <2>1. UNCHANGED <<ckpt, journal>> /\ (up' => up)
    BY <1>4 DEF SaveRaises, SaveSucceeds
  <2>2. CheckpointRight'
    BY <1>1, <2>1 DEF StreakInv, CheckpointRight, Started, TailRight
  <2> QED
    BY <1>2, <2>2 DEF StreakInv
<1> QED
  BY <1>3, <1>4 DEF Save, SaveSucceeds

\* Steps that leave the files alone.
LEMMA BookStreak ==
    ASSUME StreakInv, UNCHANGED <<ckpt, journal, opened>>, up' => up,
           NEW m, up' => mem' = m /\ BookRight(m, opened)
    PROVE  StreakInv'
<1>1. Rows' = Rows
  BY DEF Rows
<1>2. (up => BookRight(mem, opened))'
  BY <1>1 DEF BookRight, Started, TailRight
<1>3. CheckpointRight'
  BY <1>1 DEF StreakInv, CheckpointRight, Started, TailRight
<1> QED
  BY <1>2, <1>3 DEF StreakInv

\* A kernel that counts as the old one does, or starts counting now.
LEMMA KernelStreak ==
    ASSUME IInv, StreakInv, up, NEW k \in Kernels, k.day # -1,
           mem.closed \subseteq Rows => TailRight(journal, k)
    PROVE  BookRight([mem EXCEPT !.kernel = k], opened)
<1> DEFINE m == [mem EXCEPT !.kernel = k]
<1>1. m.open = mem.open /\ m.closed = mem.closed /\ m.kernel = k
  BY KernelReplaced
<1> HIDE DEF m
<1>2. BookRight(m, opened)
  BY <1>1 DEF StreakInv, BookRight, Started
<1> QED
  BY <1>2 DEF m

LEMMA StartStreak == IInv /\ StreakInv /\ Start => StreakInv'
<1> SUFFICES ASSUME IInv, StreakInv, Start PROVE StreakInv'
  OBVIOUS
<1>1. ASSUME NEW m, Starts(m), BookRight(m, opened) PROVE StreakInv'
  <2>1. /\ UNCHANGED <<journal, opened>> /\ Save(m) /\ (up' => mem' = m)
        /\ ~up' \/ SaveSucceeds(m)
    BY <1>1 DEF Starts, Save, files
  <2>2. BookRight(m, opened')
    BY <1>1, <2>1
  <2> QED
    BY <2>1, <2>2, SaveStreak
<1>2. today # -1 /\ today \in Int /\ journal \in Seq(Trades) /\ Len(journal) \in Nat
  BY PaperControlAssumption DEF IInv, TypeOK
<1>3. CASE StartRestored
  <2>1. Starts(ckpt) /\ Agrees(ckpt) /\ ckpt # NoState
    BY <1>3 DEF StartRestored, Restored
  <2>2. Started(ckpt)
    BY <2>1 DEF StreakInv, CheckpointRight
  <2>3. TailRight(journal, ckpt.kernel)
    BY <2>1, <2>2 DEF Agrees, StreakInv, CheckpointRight
  <2>4. \A p \in ckpt.open : p.id \notin IdsOf(ckpt.closed)
    BY <2>1 DEF Agrees, IdsOf
  <2>5. \A x \in ckpt.closed : x.id <= opened
    BY <2>1, RowsTyped DEF Agrees, IInv, Numbered
  <2>6. BookRight(ckpt, opened)
    BY <2>2, <2>3, <2>4, <2>5 DEF BookRight
  <2> QED
    BY <1>1, <2>1, <2>6
<1>4. ASSUME NEW k, NEW m, m.open = {}, m.closed = {}, m.kernel = k, k.day = today, TailRight(journal, k)
      PROVE  BookRight(m, opened)
  BY <1>2, <1>4 DEF BookRight, Started, IdsOf
<1>5. CASE StartFresh
  <2> DEFINE m == Fresh(FreshKernel(today))
  <2>1. /\ Starts(m) /\ m.open = {} /\ m.closed = {} /\ m.kernel = FreshKernel(today)
        /\ FreshKernel(today).day = today
    BY <1>5 DEF StartFresh, Fresh, FreshKernel
  <2>2. TailRight(journal, FreshKernel(today))
    <3>1. FreshKernel(today).streak = 0 /\ FreshKernel(today).since = Len(journal)
      BY <1>5 DEF StartFresh, FreshKernel
    <3> QED
      BY <1>2, <3>1, TailRightCleared
  <2> HIDE DEF m
  <2> QED
    BY <1>1, <1>4, <2>1, <2>2
<1>6. CASE StartBootstrapped
  <2>1. ckpt = NoState /\ journal # <<>>
    BY <1>6 DEF StartBootstrapped
  <2>2. PICK daily \in {0, journal[1].pnl}, cooldown \in BOOLEAN, breach \in BOOLEAN :
          LET streak == IF journal[1].pnl < 0 THEN 1 ELSE 0 IN
          Starts([open |-> {}, closed |-> {}, hist |-> IdsOf(Rows),
                  kernel |-> [day |-> today, daily |-> daily, streak |-> streak, since |-> 0,
                              cooldown |-> cooldown, drawdown |-> breach,
                              kill |-> Trip("none", streak, daily, breach)]])
    BY <1>6, ZenonT(60) DEF StartBootstrapped
  <2>3. Len(journal) = 1
    <3>1. ~Started(ckpt)
      BY <2>1 DEF Started, NoState, Fresh, FreshKernel
    <3>2. Len(journal) <= 1
      BY <3>1 DEF StreakInv, CheckpointRight
    <3>3. Len(journal) # 0
      BY <1>2, <2>1
    <3>4. Len(journal) \in Nat /\ \A n \in Nat : n <= 1 /\ n # 0 => n = 1
      BY <1>2
    <3> QED
      BY <3>2, <3>3, <3>4
  <2> DEFINE streak == IF journal[1].pnl < 0 THEN 1 ELSE 0
             k == [day |-> today, daily |-> daily, streak |-> streak, since |-> 0,
                   cooldown |-> cooldown, drawdown |-> breach, kill |-> Trip("none", streak, daily, breach)]
             m == [open |-> {}, closed |-> {}, hist |-> IdsOf(Rows), kernel |-> k]
  <2>4. k.day = today /\ k.streak = streak /\ k.since = 0
    OBVIOUS
  <2>5. m.open = {} /\ m.closed = {} /\ m.kernel = k /\ Starts(m)
    BY <2>2
  <2> HIDE DEF k, m
  <2>6. TailRight(journal, k)
    <3>1. journal[1] \in Trades /\ journal[1].pnl \in {-1, 0, 1}
      <4>1. journal[1] \in Trades
        BY <1>2, <2>3
      <4> QED
        BY <4>1 DEF Trades, PnL
    <3>2. Losses(journal, 0) = IF journal[1].pnl < 0 THEN {1} ELSE {}
      <4>1. (0 + 1)..Len(journal) = {1} /\ 1..Len(journal) = {1}
        BY <2>3
      <4> QED
        BY <3>1, <4>1 DEF Losses
    <3>3. Cardinality({}) = 0 /\ Cardinality({1}) = 1
      BY FS_EmptySet, FS_Singleton
    <3>4. Cardinality(Losses(journal, 0)) = streak
      <4>1. CASE journal[1].pnl < 0
        BY <3>2, <3>3, <4>1
      <4>2. CASE ~(journal[1].pnl < 0)
        BY <3>2, <3>3, <4>2
      <4> QED
        BY <4>1, <4>2
    <3> HIDE DEF streak
    <3> QED
      BY <1>2, <2>3, <2>4, <3>4 DEF TailRight
  <2> QED
    BY <1>1, <1>4, <2>4, <2>5, <2>6
<1> QED
  BY <1>3, <1>5, <1>6 DEF Start

\* The exit: the book and the journal take the same row, or the row is lost.
LEMMA ExitStreak == ASSUME NEW s \in Symbols PROVE IInv /\ StreakInv /\ TickExit(s) => StreakInv'
<1> SUFFICES ASSUME IInv, StreakInv, TickExit(s) PROVE StreakInv'
  OBVIOUS
<1>1. PICK p \in PositionAt(s), pnl \in PnL, breach \in BOOLEAN :
        LET row == [id |-> p.id, pnl |-> pnl]
            kernel == RecordPnl(mem.kernel, pnl, breach) IN
        /\ mem' = [mem EXCEPT !.open = @ \ {p}, !.closed = @ \union {row}, !.kernel = kernel]
        /\ JournalAppend(row)
        /\ operator' = IF operator = "held" /\ kernel.kill = "daily_loss"
                       THEN "overwritten" ELSE operator
  BY DEF TickExit
<1> DEFINE row == [id |-> p.id, pnl |-> pnl]
           kernel == RecordPnl(mem.kernel, pnl, breach)
           n == Rollover(mem.kernel, Len(journal))
<1>2. /\ up /\ UNCHANGED <<up, ckpt, opened>> /\ mem \in States /\ mem.kernel \in Kernels
      /\ p \in mem.open /\ p.id \in 1..MaxPositions /\ Good(mem, opened) /\ BookRight(mem, opened)
      /\ journal \in Seq(Trades) /\ Len(journal) \in Nat
  BY DEF TickExit, IInv, StreakInv, TypeOK, States, PositionAt, Positions
<1>3. row \in Trades /\ row.id = p.id /\ row.pnl = pnl /\ p.id <= opened /\ p.id \notin IdsOf(Rows)
  BY <1>2, PaperControlAssumption DEF Trades, Good
<1>4. n \in Kernels /\ n.day # -1 /\ (TailRight(journal, mem.kernel) => TailRight(journal, n))
  BY <1>2, RolloverCounts DEF IInv
<1>5. /\ kernel.day = n.day /\ kernel.since = n.since
      /\ kernel.streak = Counted(n.streak, pnl)
  <2>1. \A x \in Kernels : \A a, b, c, d, e :
          LET y == [x EXCEPT !.daily = a, !.streak = b, !.drawdown = c, !.cooldown = d, !.kill = e] IN
          y.day = x.day /\ y.since = x.since /\ y.streak = b
    BY DEF Kernels
  <2>2. \E a, c, d, e : kernel = [n EXCEPT !.daily = a, !.streak = Counted(n.streak, pnl),
                                           !.drawdown = c, !.cooldown = d, !.kill = e]
    BY Zenon DEF RecordPnl, Counted
  <2> HIDE DEF n, kernel
  <2> QED
    BY <1>4, <2>1, <2>2
<1>6. mem' = [open |-> mem.open \ {p}, closed |-> mem.closed \union {row}, hist |-> mem.hist, kernel |-> kernel]
  BY <1>1, <1>2 DEF States
<1>7. journal' = journal \/ journal' = Append(journal, row)
  BY <1>1 DEF JournalAppend
<1> HIDE DEF row, kernel, n
<1>8. Started(mem')
  BY <1>4, <1>5, <1>6 DEF Started
<1>9. \A q \in mem'.open : q.id \notin IdsOf(mem'.closed)
  BY <1>2, <1>3, <1>6 DEF Good, Distinct, BookRight, IdsOf
<1>10. \A x \in mem'.closed : x.id <= opened
  BY <1>2, <1>3, <1>6 DEF BookRight
<1>11. row \notin Rows /\ row \notin mem.closed
  BY <1>2, <1>3 DEF IdsOf, BookRight
<1>12. CASE journal' = journal
  <2>1. Rows' = Rows
    BY <1>12 DEF Rows
  <2>2. ~(mem'.closed \subseteq Rows')
    BY <1>6, <1>11, <2>1
  <2>3. BookRight(mem, opened)'
    BY <1>2, <1>8, <1>9, <1>10, <2>2 DEF BookRight, Started, IdsOf
  <2>4. CheckpointRight'
    BY <1>2, <1>12, <2>1 DEF StreakInv, CheckpointRight, Started, TailRight
  <2> QED
    BY <2>3, <2>4 DEF StreakInv
<1>13. CASE journal' = Append(journal, row)
  <2>1. Rows' = Rows \union {row}
    <3>1. Rows' = {journal'[i] : i \in DOMAIN journal'} /\ Rows = {journal[i] : i \in DOMAIN journal}
      BY DEF Rows, Range
    <3>2. /\ DOMAIN journal = 1..Len(journal) /\ DOMAIN journal' = 1..(Len(journal) + 1)
          /\ \A i \in DOMAIN journal : journal'[i] = journal[i]
          /\ journal'[Len(journal) + 1] = row
      BY <1>2, <1>3, <1>13
    <3>3. \A i : i \in DOMAIN journal' <=> i \in DOMAIN journal \/ i = Len(journal) + 1
      BY <1>2, <3>2
    <3> QED
      BY <3>1, <3>2, <3>3
  <2>2. mem'.closed \subseteq Rows' => mem.closed \subseteq Rows
    BY <1>6, <1>11, <2>1
  <2>3. TailRight(journal, mem.kernel) => TailRight(journal', kernel)
    BY <1>2, <1>3, <1>4, <1>5, <1>13, TailRightAppend
  <2>4. mem'.closed \subseteq Rows' => TailRight(journal', mem'.kernel)
    BY <1>2, <1>6, <2>2, <2>3 DEF BookRight
  <2>5. BookRight(mem, opened)'
    BY <1>2, <1>8, <1>9, <1>10, <2>4 DEF BookRight, Started, IdsOf, TailRight
  <2>6. p.id \in IdsOf(Rows') /\ p.id \notin ckpt.hist \union IdsOf(ckpt.closed)
    BY <1>3, <2>1 DEF IInv, CheckpointBacked, IdsOf
  <2>7. CheckpointRight'
    BY <1>2, <2>6 DEF StreakInv, CheckpointRight, Started, IdsOf
  <2> QED
    BY <2>5, <2>7 DEF StreakInv
<1> QED
  BY <1>7, <1>12, <1>13

LEMMA RouteStreak ==
    ASSUME IInv, StreakInv, TickSave \/ NoProposal \/ RejectProposal \/ SubmitOrder \/ NoFill \/ EndIngest
    PROVE  StreakInv'
<1> DEFINE k == Rollover(mem.kernel, Len(journal))
           quiet == [k EXCEPT !.cooldown = FALSE]
<1>1. up /\ BookRight(mem, opened) /\ mem.kernel \in Kernels
  BY DEF TickSave, NoProposal, RejectProposal, SubmitOrder, NoFill, EndIngest, IInv, StreakInv, TypeOK, States
<1>2. k \in Kernels /\ k.day # -1 /\ (TailRight(journal, mem.kernel) => TailRight(journal, k))
  BY <1>1, RolloverCounts DEF IInv
<1>3. quiet \in Kernels /\ quiet.day = k.day /\ quiet.streak = k.streak /\ quiet.since = k.since
  <2> HIDE DEF k
  <2> QED
    BY <1>2 DEF Kernels
<1>4. mem.closed \subseteq Rows => TailRight(journal, k) /\ TailRight(journal, quiet)
  <2> HIDE DEF k, quiet
  <2> QED
    BY <1>1, <1>2, <1>3, TailRightSame DEF BookRight
<1>5. BookRight([mem EXCEPT !.kernel = k], opened) /\ BookRight([mem EXCEPT !.kernel = quiet], opened)
  <2> HIDE DEF k, quiet
  <2> QED
    BY <1>1, <1>2, <1>3, <1>4, KernelStreak
<1>6. ASSUME NEW m, Save(m), BookRight(m, opened), UNCHANGED <<journal, opened>>, mem' = m
      PROVE  StreakInv'
  <2>1. BookRight(m, opened')
    BY <1>6
  <2> QED
    BY <1>1, <1>6, <2>1, SaveStreak
<1>7. ASSUME NEW m, EndsWith(m), BookRight(m, opened) PROVE StreakInv'
  BY <1>6, <1>7 DEF EndsWith, files
<1>8. CASE TickSave
  BY <1>1, <1>6, <1>8 DEF TickSave, Save, files
<1>9. CASE RejectProposal
  BY <1>5, <1>7, <1>9 DEF RejectProposal
<1>10. CASE SubmitOrder
  <2>1. mem' = [mem EXCEPT !.kernel = quiet] /\ UNCHANGED <<up, ckpt, journal, opened>>
    BY <1>10 DEF SubmitOrder, disk, files, bounds
  <2> QED
    BY <1>1, <1>5, <2>1, BookStreak
<1> QED
  BY <1>1, <1>7, <1>8, <1>9, <1>10 DEF NoProposal, NoFill, EndIngest

LEMMA OpenStreak == IInv /\ StreakInv /\ (OpenPosition \/ ProtectPosition) => StreakInv'
<1> SUFFICES ASSUME IInv, StreakInv, OpenPosition \/ ProtectPosition PROVE StreakInv'
  OBVIOUS
<1>1. /\ up /\ BookRight(mem, opened) /\ mem \in States /\ opened \in Nat /\ UNCHANGED journal
      /\ \A x \in mem.closed : x.id \in Nat
  BY PaperControlAssumption DEF OpenPosition, ProtectPosition, files, IInv, StreakInv, TypeOK, States, Trades
<1>2. ASSUME NEW S, \A q \in S : q.id \notin IdsOf(mem.closed), opened' \in {opened, opened + 1},
             mem' = [mem EXCEPT !.open = S], Save([mem EXCEPT !.open = S])
      PROVE  StreakInv'
  <2> DEFINE m == [mem EXCEPT !.open = S]
  <2>1. m.open = S /\ m.closed = mem.closed /\ m.kernel = mem.kernel
    BY <1>1 DEF States
  <2>2. mem' = m /\ Save(m)
    BY <1>2
  <2> HIDE DEF m
  <2>3. \A x \in mem.closed : x.id <= opened'
    BY <1>1, <1>2 DEF BookRight
  <2>4. BookRight(m, opened')
    BY <1>1, <1>2, <2>1, <2>3 DEF BookRight, Started
  <2> QED
    BY <1>1, <2>2, <2>4, SaveStreak
<1>3. CASE OpenPosition
  <2> DEFINE p == [id |-> opened', sym |-> at, stop |-> FALSE]
  <2>1. opened' = opened + 1 /\ mem' = [mem EXCEPT !.open = mem.open \union {p}]
        /\ Save([mem EXCEPT !.open = mem.open \union {p}])
    BY <1>3 DEF OpenPosition
  <2>2. p.id = opened + 1
    BY <2>1
  <2> HIDE DEF p
  <2>3. \A x \in mem.closed : x.id # opened + 1
    BY <1>1 DEF BookRight
  <2>4. \A q \in mem.open \union {p} : q.id \notin IdsOf(mem.closed)
    BY <1>1, <2>2, <2>3 DEF BookRight, IdsOf
  <2> QED
    BY <1>2, <2>1, <2>4
<1>4. CASE ProtectPosition
  <2> DEFINE new == {[p EXCEPT !.stop = TRUE] : p \in PositionAt(at)}
             S == (mem.open \ PositionAt(at)) \union new
  <2>1. opened' = opened /\ mem' = [mem EXCEPT !.open = S] /\ Save([mem EXCEPT !.open = S])
    BY <1>4 DEF ProtectPosition
  <2>2. PositionAt(at) \subseteq mem.open /\ \A p \in mem.open : [p EXCEPT !.stop = TRUE].id = p.id
    BY <1>1 DEF PositionAt, States, Positions
  <2>3. \A q \in new : \E p \in mem.open : q.id = p.id
    BY <2>2
  <2>4. \A q \in S : \E p \in mem.open : q.id = p.id
    BY <2>3
  <2>5. \A q \in S : q.id \notin IdsOf(mem.closed)
    BY <1>1, <2>4 DEF BookRight
  <2> HIDE DEF S
  <2> QED
    BY <1>2, <2>1, <2>5
<1> QED
  BY <1>3, <1>4

LEMMA SwitchStreak == IInv /\ StreakInv /\ (TripKillSwitch \/ ResetKillSwitch) => StreakInv'
<1> SUFFICES ASSUME IInv, StreakInv, TripKillSwitch \/ ResetKillSwitch PROVE StreakInv'
  OBVIOUS
<1>1. /\ up /\ BookRight(mem, opened) /\ mem \in States /\ mem.kernel \in Kernels
      /\ UNCHANGED <<journal, opened>> /\ journal \in Seq(Trades) /\ Len(journal) \in Nat
  BY DEF TripKillSwitch, ResetKillSwitch, Waits, files, IInv, StreakInv, TypeOK, States
<1>2. ASSUME NEW k \in Kernels, k.day = mem.kernel.day, mem.closed \subseteq Rows => TailRight(journal, k),
             mem' = [mem EXCEPT !.kernel = k], Save([mem EXCEPT !.kernel = k])
      PROVE  StreakInv'
  <2>1. BookRight([mem EXCEPT !.kernel = k], opened')
    BY <1>1, <1>2, KernelStreak DEF BookRight, Started
  <2> QED
    BY <1>1, <1>2, <2>1, SaveStreak
<1>3. CASE TripKillSwitch
  <2> DEFINE k == [mem.kernel EXCEPT !.kill = "manual"]
  <2>1. k \in Kernels /\ k.day = mem.kernel.day /\ k.streak = mem.kernel.streak /\ k.since = mem.kernel.since
    BY <1>1 DEF Kernels, Reasons
  <2>2. [mem EXCEPT !.kernel.kill = "manual"] = [mem EXCEPT !.kernel = k]
    BY <1>1 DEF States
  <2> HIDE DEF k
  <2>3. mem' = [mem EXCEPT !.kernel = k] /\ Save([mem EXCEPT !.kernel = k])
    BY <1>3, <2>2 DEF TripKillSwitch, Save
  <2>4. mem.closed \subseteq Rows => TailRight(journal, k)
    BY <1>1, <2>1, TailRightSame DEF BookRight
  <2> QED
    BY <1>2, <2>1, <2>3, <2>4
<1>4. CASE ResetKillSwitch
  <2> DEFINE k == Reset(mem.kernel, Len(journal))
  <2>1. k \in Kernels
    BY <1>1, KernelTyped DEF IInv
  <2>2. k.day = mem.kernel.day /\ k.streak = 0 /\ k.since = Len(journal)
    BY <1>1 DEF Reset, Kernels
  <2>3. mem' = [mem EXCEPT !.kernel = k] /\ Save([mem EXCEPT !.kernel = k])
    BY <1>4 DEF ResetKillSwitch
  <2> HIDE DEF k
  <2>4. TailRight(journal, k)
    BY <1>1, <2>2, TailRightCleared
  <2> QED
    BY <1>2, <2>1, <2>2, <2>3, <2>4
<1> QED
  BY <1>3, <1>4

LEMMA OutsideStreak ==
    ASSUME IInv, StreakInv,
           Stop \/ Crash \/ NewDay \/ IngestIgnored \/ (\E s \in Symbols : TickHold(s)) \/ UNCHANGED vars
    PROVE  StreakInv'
<1>1. CASE Stop
  <2>1. up /\ ~up' /\ Save(mem) /\ UNCHANGED <<journal, opened>> /\ BookRight(mem, opened)
    BY <1>1 DEF Stop, Waits, files, StreakInv
  <2>2. BookRight(mem, opened')
    BY <2>1
  <2> QED
    BY <2>1, <2>2, SaveStreak
<1>2. CASE ~Stop
  <2>1. UNCHANGED <<ckpt, journal, opened>> /\ (up' => up /\ mem' = mem)
    BY <1>2 DEF Crash, NewDay, IngestIgnored, TickHold, vars, disk, files, bounds
  <2> QED
    BY <2>1, BookStreak DEF StreakInv
<1> QED
  BY <1>1, <1>2

LEMMA NextStreak == IInv /\ StreakInv /\ [Next]_vars => StreakInv'
<1> SUFFICES ASSUME IInv, StreakInv, [Next]_vars PROVE StreakInv'
  OBVIOUS
<1> QED
  BY StartStreak, ExitStreak, RouteStreak, OpenStreak, SwitchStreak, OutsideStreak
     DEF Next, Ingest, Order, Operator

LEMMA StreakInvariant == Spec => []StreakInv
BY InitStreak, NextStreak, PaperInvariant, PTL DEF Spec

\* record_pnl's streak, which cools trading down and then stops it, is the one the
\* journal shows, whatever was restarted, refused, lost or saved in between.
THEOREM PaperLossesRemembered == Spec => []LossesRemembered
<1>1. IInv /\ StreakInv => LossesRemembered
  BY DEF StreakInv, BookRight, Agrees, TailRight, LossesRemembered
<1> QED
  BY <1>1, PaperInvariant, StreakInvariant, PTL
=============================================================================
