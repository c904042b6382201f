-------------------------- MODULE SettlementProofs --------------------------
(***************************************************************************)
(* A row is settled once, by final candles, and HOT is backed by COLD, for *)
(* any number of T0s, price paths, gateway deaths, restarts and lost       *)
(* answers, if no writer has two requests alive.  The gateway checks a row *)
(* when it reads and writes later, so the invariant has to say why nobody  *)
(* else writes that row meanwhile: the oracle's requests are about rows    *)
(* without an outcome, the reconciler's about rows with one (RowsApart).   *)
(* The last section lets requests overlap and says what binding still      *)
(* rests on: that no two POSTs are alive, or none between the reading and  *)
(* the writing of another.                                                 *)
(***************************************************************************)
EXTENDS Settlement, FiniteSetTheorems, WellFoundedInduction, TLAPS

\* The types by part.
Tasks == [at : {"idle", "pass", "evidence", "wait", "posted", "done", "empty", "failed"},
          id : 0..MaxId, t : 0..MaxT0, todo : SUBSET Ids, price : [Windows -> Prices],
          n : 0..MaxRequests]
Requests == [n : 1..MaxRequests, by : Writers, kind : {"POST", "PATCH"}, id : 0..MaxId,
             filter : {"none", "WIN", "LOSS"}, row : Row, at : {"sent", "read", "cold"}]
StoreType ==
    /\ clock \in StartTick..MaxTick /\ path \in [T0s -> [Windows -> Prices]]
    /\ hot \in [Ids -> Row] /\ cold \in [Ids -> [t : 0..MaxT0, proof : Proof]]
    /\ local \in [Ids -> Row] /\ bound \in [T0s -> 0..MaxId]
CountType == tears \in 0..MaxTears /\ faults \in 0..MaxFaults

\* Both candles of t are final.
Closed(t) == \A w \in Windows : clock >= CandleClose(t, w)

\* An absent row is blank, rows are of different T0s, and only the legacy rows
\* were ever settled without a proof.
HotOk ==
    /\ \A i \in Ids : ~Present(i) => hot[i] = NoRow
    /\ \A i, j \in Ids : Present(i) /\ hot[i].t = hot[j].t => i = j
    /\ \A i \in Ids : hot[i].out # "none" /\ hot[i].proof = NoProof => hot[i].t \in Legacy

\* What the oracle knows locally is of the row that HOT has.
LocalOk ==
    \A i \in Ids : local[i].t # 0 =>
        /\ local[i].t = hot[i].t
        /\ local[i].out # "none" /\ local[i].proof = NoProof => local[i].t \in Legacy

BoundOk == \A t \in T0s : bound[t] # 0 => hot[bound[t]].t = t

\* A POST is of a T0 without a row and, once read, for an id without one; a
\* PATCH carries a proof by final candles of its row's T0 and, once read, its
\* row is as filtered.  COLD then has what HOT will have.
PostOk(r) ==
    /\ r.by = "oracle" /\ r.row = [NoRow EXCEPT !.t = r.row.t]
    /\ r.row.t # 0 /\ RowsOf(r.row.t) = {}
    /\ r.at # "sent" => r.id \in Ids /\ ~Present(r.id)
PatchOk(r) ==
    /\ r.id \in Ids /\ r.row.t # 0 /\ hot[r.id].t = r.row.t
    /\ r.row.proof.n # 0 /\ r.row.proof.price = path[r.row.t]
    /\ r.row.out = Outcome(Direction(r.row.t), path[r.row.t]["1h"])
    /\ IF r.by = "oracle" THEN r.filter = "none" ELSE r.filter # "none" /\ r.filter = r.row.out
    /\ r.at # "sent" => hot[r.id].out = r.filter /\ hot[r.id].proof = NoProof
ReqOk(r) ==
    /\ r.kind = "POST" => PostOk(r)
    /\ r.kind = "PATCH" => PatchOk(r)
    /\ r.at = "cold" => cold[r.id] = Audit(r.row)

\* A writer has one request alive at a time.
OneEach == \A r, q \in req : r.by = q.by => r = q

\* The rows a pass will take are due, the evidence is final and about the row
\* at hand, and an answer is about the T0 that was sent.
Sound(c, k) ==
    /\ \A i \in k.todo : local[i].t # 0 /\ Closed(local[i].t)
    /\ k.at = "evidence" =>
        k.id \in Ids /\ k.t # 0 /\ local[k.id].t = k.t /\ k.price = path[k.t] /\ Closed(k.t)
    /\ k.at = "wait" => k.n # 0 /\ \A r \in AliveOf(c) : r.row.t = k.t
    /\ k.at \in {"posted", "done"} =>
        k.id \in Ids /\ k.t # 0 /\ hot[k.id].t = k.t /\ k.n # 0
TaskOk(c) == Sound(c, task[c])

\* The inductive invariant.
IInv ==
    /\ StoreType /\ req \subseteq Requests /\ task \in [Writers -> Tasks] /\ CountType
    /\ HotOk /\ HotIsBacked /\ ProvedByFinalCandles /\ LocalOk /\ BoundOk
    /\ OneEach /\ (\A r \in req : ReqOk(r)) /\ (\A c \in Writers : TaskOk(c))
-----------------------------------------------------------------------------
\* What Min and Max are of sets of naturals.

LEMMA LeastNatural ==
    ASSUME NEW S \in SUBSET Nat, S # {}
    PROVE  \E n \in S : \A m \in S : n <= m
<1> DEFINE T == {0..n : n \in S}
<1>1. T \subseteq FiniteSubsetsOf(Nat) /\ T # {}
  <2>1. \A n \in S : IsFiniteSet(0..n) /\ 0..n \in SUBSET Nat
    BY FS_Interval
  <2> QED
    BY <2>1 DEF FiniteSubsetsOf
<1>2. \E x \in T : \A y \in T : ~ (<<y, x>> \in StrictSubsetOrdering(Nat))
  <2> HIDE DEF T
  <2> QED
    BY <1>1, FS_StrictSubsetOrderingWellFounded, WFMin
<1>3. PICK n \in S : \A m \in S : ~ (<<0..m, 0..n>> \in StrictSubsetOrdering(Nat))
  BY <1>2
<1>4. ASSUME NEW m \in S, m < n
      PROVE  <<0..m, 0..n>> \in StrictSubsetOrdering(Nat)
  <2>1. 0..m \subseteq 0..n /\ 0..m # 0..n
    BY <1>4
  <2>2. 0..m \in SUBSET Nat /\ 0..n \in SUBSET Nat
    OBVIOUS
  <2> QED
    BY <1>1, <2>1, <2>2 DEF StrictSubsetOrdering, FiniteSubsetsOf
<1>5. ASSUME NEW m \in S PROVE n <= m
  <2>1. ~ (m < n)
    BY <1>3, <1>4
  <2> QED
    BY <2>1
<1> QED
  BY <1>5

LEMMA MinIn ==
    ASSUME NEW S \in SUBSET Nat, S # {}
    PROVE  Min(S) \in S
BY LeastNatural DEF Min

LEMMA MaxAbove ==
    ASSUME NEW n \in Nat, NEW S \in SUBSET (0..n), S # {}
    PROVE  Max(S) \in S /\ \A m \in S : m <= Max(S)
<1> DEFINE D == {n - m : m \in S}
<1>1. D \in SUBSET Nat /\ D # {}
  <2>1. \A m \in S : m \in Nat /\ m <= n /\ n - m \in Nat
    OBVIOUS
  <2> QED
    BY <2>1
<1>2. PICK d \in D : \A e \in D : d <= e
  <2> HIDE DEF D
  <2> QED
    BY <1>1, LeastNatural
<1>3. PICK k \in S : d = n - k
  BY <1>2
<1>4. \A m \in S : m <= k
  <2> TAKE m \in S
  <2>1. n - k <= n - m
    BY <1>2, <1>3
  <2> QED
    BY <2>1
<1>5. \A m \in S : k >= m
  BY <1>4
<1> QED
  BY <1>5 DEF Max

\* The name of a new request is a new name.
LEMMA FreshIs ==
    ASSUME (1..MaxRequests) \ Named # {}
    PROVE  Fresh \in 1..MaxRequests /\ \A r \in req : r.n # Fresh
<1>1. (1..MaxRequests) \ Named \in SUBSET Nat
  BY SettlementAssumption
<1>2. Fresh \in (1..MaxRequests) \ Named
  <2> DEFINE S == (1..MaxRequests) \ Named
  <2> HIDE DEF S
  <2>1. Min(S) \in S
    BY <1>1, MinIn DEF S
  <2> QED
    BY <2>1 DEF S, Fresh
<1> QED
  BY <1>2 DEF Named

\* rawPost's id is of no row.
LEMMA NextIdIs ==
    LET next == Max({0} \cup {i \in Ids : Present(i)}) + 1 IN
    next \in Ids => ~Present(next)
<1> DEFINE S == {0} \cup {i \in Ids : Present(i)}
<1>1. MaxId \in Nat
  BY SettlementAssumption DEF MaxId
<1>2. S \in SUBSET (0..MaxId) /\ S # {}
  BY <1>1 DEF Ids
<1>3. Max(S) \in S /\ \A m \in S : m <= Max(S)
  <2> HIDE DEF S
  <2> QED
    BY <1>1, <1>2, MaxAbove
<1>4. Max(S) \in Nat
  BY <1>1, <1>2, <1>3
<1>5. Max(S) + 1 \notin S
  <2> HIDE DEF S
  <2> QED
    BY <1>3, <1>4
<1> QED
  BY <1>5

-----------------------------------------------------------------------------
\* Facts the steps share.

LEMMA Sizes ==
    /\ MaxId \in Nat /\ T0s = 1..MaxT0 /\ Ids = 1..MaxId /\ Legacy \subseteq T0s
    /\ MaxId = MaxT0 + 1 /\ MaxT0 \in Nat /\ MaxLegacy \in Nat /\ MaxRequests \in Nat
BY SettlementAssumption DEF MaxId, T0s, Ids, Legacy

LEMMA Blank ==
    /\ NoProof \in Proof /\ NoRow \in Row /\ Idle \in Tasks
    /\ \A t \in 0..MaxT0 : [NoRow EXCEPT !.t = t] \in Row
BY Sizes DEF NoProof, Proof, NoRow, Row, Idle, Tasks, Windows, Prices

LEMMA OutcomeIs == \A d, p : Outcome(d, p) \in {"WIN", "LOSS"}
BY DEF Outcome

\* The stores stay as good as they are.
LEMMA StoreKept ==
    ASSUME IInv, UNCHANGED <<clock, path, data>>
    PROVE  StoreType' /\ HotOk' /\ HotIsBacked' /\ ProvedByFinalCandles' /\ LocalOk' /\ BoundOk'
<1>1. UNCHANGED <<clock, path, hot, cold, local, bound>>
  BY DEF data
<1>2. StoreType'
  BY <1>1 DEF IInv, StoreType
<1>3. HotOk'
  BY <1>1 DEF IInv, HotOk, Present
<1>4. HotIsBacked'
  BY <1>1 DEF IInv, HotIsBacked, Present
<1>5. ProvedByFinalCandles'
  BY <1>1 DEF IInv, ProvedByFinalCandles
<1>6. LocalOk'
  BY <1>1 DEF IInv, LocalOk
<1>7. BoundOk'
  BY <1>1 DEF IInv, BoundOk
<1> QED
  BY <1>2, <1>3, <1>4, <1>5, <1>6, <1>7

\* So does a request that is alive, and a writer that waits for it.
LEMMA ReqKept ==
    ASSUME UNCHANGED <<path, hot, cold>>, NEW r, ReqOk(r)
    PROVE  ReqOk(r)'
BY DEF ReqOk, PostOk, PatchOk, RowsOf, Present

LEMMA FewerRequests ==
    ASSUME IInv, UNCHANGED <<path, hot, cold>>, req' \subseteq req
    PROVE  req' \subseteq Requests /\ OneEach' /\ \A r \in req' : ReqOk(r)'
<1>1. req' \subseteq Requests /\ OneEach'
  BY DEF IInv, OneEach
<1>2. ASSUME NEW r \in req' PROVE ReqOk(r)'
  BY ReqKept DEF IInv
<1> QED
  BY <1>1, <1>2

LEMMA SoundKept ==
    ASSUME UNCHANGED <<clock, path, hot, local>>, NEW c, NEW k, Sound(c, k),
           AliveOf(c)' \subseteq AliveOf(c)
    PROVE  Sound(c, k)'
BY DEF Sound, Closed

\* A step that changes only what one writer is about.
LEMMA TaskKeeps ==
    ASSUME IInv, UNCHANGED <<clock, path, data>>, req' \subseteq req, CountType',
           NEW c \in Writers, NEW k \in Tasks, Sound(c, k), task' = [task EXCEPT ![c] = k]
    PROVE  IInv'
<1>1. StoreType' /\ HotOk' /\ HotIsBacked' /\ ProvedByFinalCandles' /\ LocalOk' /\ BoundOk'
  BY StoreKept
<1>2. UNCHANGED <<clock, path, hot, cold, local>>
  BY DEF data
<1>3. req' \subseteq Requests /\ OneEach' /\ \A r \in req' : ReqOk(r)'
  BY <1>2, FewerRequests
<1>4. task' \in [Writers -> Tasks]
  BY DEF IInv
<1>5. ASSUME NEW d \in Writers PROVE TaskOk(d)'
  <2>1. task'[d] = IF d = c THEN k ELSE task[d]
    BY DEF IInv
  <2>2. Sound(d, task'[d])
    BY <2>1 DEF IInv, TaskOk
  <2>3. AliveOf(d)' \subseteq AliveOf(d)
    BY DEF AliveOf
  <2>4. ASSUME NEW j, Sound(d, j) PROVE Sound(d, j)'
    BY <1>2, <2>3, <2>4, SoundKept
  <2>5. CASE d = c
    BY <2>1, <2>4, <2>5 DEF TaskOk, Sound
  <2>6. CASE d # c
    BY <2>1, <2>2, <2>4, <2>6 DEF TaskOk, Sound
  <2> QED
    BY <2>5, <2>6
<1> QED
  BY <1>1, <1>3, <1>4, <1>5 DEF IInv

\* The same when the writer is idle again.
LEMMA IdleSound == \A c : Sound(c, Idle)
BY DEF Sound, Idle

\* Request NewReq is what Send adds.
NewReq(c, kind, i, filter, row) ==
    [n |-> Fresh, by |-> c, kind |-> kind, id |-> i, filter |-> filter, row |-> row, at |-> "sent"]

LEMMA SendKeeps ==
    ASSUME IInv, ~Overlap, UNCHANGED <<clock, path, data, bounds>>, NEW c \in Writers,
           NEW kind \in {"POST", "PATCH"}, NEW i \in 0..MaxId,
           NEW filter \in {"none", "WIN", "LOSS"}, NEW row \in Row, row.t # 0,
           Send(c, kind, i, filter, row), ReqOk(NewReq(c, kind, i, filter, row))
    PROVE  IInv'
<1> DEFINE new == NewReq(c, kind, i, filter, row)
<1>1. StoreType' /\ HotOk' /\ HotIsBacked' /\ ProvedByFinalCandles' /\ LocalOk' /\ BoundOk'
  BY StoreKept
<1>2. UNCHANGED <<clock, path, hot, cold, local, tears, faults>>
  BY DEF data, bounds
<1>3. Fresh \in 1..MaxRequests /\ AliveOf(c) = {}
  BY FreshIs DEF Send
<1>4. req' = req \cup {new}
  BY DEF Send, NewReq
<1>5. new \in Requests /\ new.by = c /\ new.row = row
  BY <1>3 DEF NewReq, Requests
<1>6. req' \subseteq Requests
  BY <1>4, <1>5 DEF IInv
<1>7. OneEach'
  <2> HIDE DEF new
  <2>1. \A r \in req : r.by # c
    BY <1>3 DEF AliveOf
  <2> QED
    BY <1>4, <1>5, <2>1 DEF OneEach, IInv
<1>8. ASSUME NEW r \in req' PROVE ReqOk(r)'
  <2>1. ReqOk(r)
    BY <1>4 DEF IInv
  <2> QED
    BY <1>2, <2>1, ReqKept
<1>9. CountType'
  BY <1>2 DEF IInv, CountType
<1>10. task' = [task EXCEPT ![c] = [task[c] EXCEPT !.at = "wait", !.n = Fresh, !.id = i, !.t = row.t]]
  BY DEF Send, IInv
<1>11. task' \in [Writers -> Tasks]
  <2>1. row.t \in 0..MaxT0 /\ Fresh \in 0..MaxRequests
    BY <1>3 DEF Row
  <2> QED
    BY <1>10, <2>1 DEF IInv, Tasks
<1>12. ASSUME NEW d \in Writers PROVE TaskOk(d)'
  <2>1. CASE d # c
    <3>1. task'[d] = task[d] /\ AliveOf(d)' = AliveOf(d)
      <4> HIDE DEF new
      <4> QED
        BY <1>4, <1>5, <1>10, <2>1 DEF AliveOf, IInv
    <3> QED
      BY <1>2, <3>1 DEF TaskOk, Sound, IInv, Closed
  <2>2. CASE d = c
    <3>1. task'[c] = [task[c] EXCEPT !.at = "wait", !.n = Fresh, !.id = i, !.t = row.t]
      BY <1>10 DEF IInv
    <3>2. /\ task'[c].at = "wait" /\ task'[c].n # 0 /\ task'[c].t = row.t
          /\ task'[c].todo = task[c].todo
      BY <1>3, <3>1 DEF IInv, Tasks
    <3>3. \A r \in AliveOf(c)' : r.row.t = row.t
      <4> HIDE DEF new
      <4> QED
        BY <1>3, <1>4, <1>5 DEF AliveOf
    <3>4. \A j \in task[c].todo : local[j].t # 0 /\ Closed(local[j].t)
      BY DEF IInv, TaskOk, Sound
    <3>5. \A j \in task'[c].todo : local'[j].t # 0 /\ Closed(local[j].t)'
      BY <1>2, <3>2, <3>4 DEF Closed
    <3> QED
      BY <2>2, <3>2, <3>3, <3>5 DEF TaskOk, Sound
  <2> QED
    BY <2>1, <2>2
<1> QED
  BY <1>1, <1>6, <1>7, <1>8, <1>9, <1>11, <1>12 DEF IInv

LEMMA CountKept ==
    ASSUME IInv, NoFault \/ (Fault /\ UNCHANGED tears)
    PROVE  CountType'
BY SettlementAssumption DEF IInv, CountType, NoFault, bounds, Fault

\* A writer is idle again, whatever it was about.
LEMMA IdleKeeps ==
    ASSUME IInv, UNCHANGED <<clock, path, data, req>>, NoFault \/ (Fault /\ UNCHANGED tears),
           NEW c \in Writers, task' = [task EXCEPT ![c] = Idle]
    PROVE  IInv'
BY CountKept, IdleSound, Blank, TaskKeeps

\* A pass goes on to its next row.
LEMMA NextRowSound ==
    ASSUME IInv, NEW c \in Writers
    PROVE  \E k \in Tasks : Sound(c, k) /\ NextRow(c) = [task EXCEPT ![c] = k]
<1> DEFINE k == [task[c] EXCEPT !.at = "pass", !.todo = @ \ {task[c].id}]
<1>1. task \in [Writers -> Tasks] /\ Sound(c, task[c])
  BY DEF IInv, TaskOk
<1>2. k \in Tasks
  BY <1>1 DEF Tasks
<1>3. k.at = "pass" /\ k.todo \subseteq task[c].todo
  BY <1>1 DEF Tasks
<1>4. Sound(c, k)
  <2> HIDE DEF k
  <2> QED
    BY <1>1, <1>3 DEF Sound
<1>5. NextRow(c) = [task EXCEPT ![c] = k]
  BY <1>1 DEF NextRow
<1> QED
  BY <1>2, <1>4, <1>5

LEMMA NextRowKeeps ==
    ASSUME IInv, UNCHANGED <<clock, path, data, req>>, NoFault \/ (Fault /\ UNCHANGED tears),
           NEW c \in Writers, task' = NextRow(c)
    PROVE  IInv'
BY CountKept, NextRowSound, TaskKeeps

LEMMA AfterErrorKeeps ==
    ASSUME IInv, UNCHANGED <<clock, path, data, req>>, NoFault \/ (Fault /\ UNCHANGED tears),
           NEW c \in Writers, task' = AfterError(c)
    PROVE  IInv'
BY IdleKeeps, NextRowKeeps DEF AfterError

-----------------------------------------------------------------------------
\* The steps of time and of one writer on its own.

LEMMA TickKeeps == ASSUME IInv, Tick PROVE IInv'
<1>1. UNCHANGED <<path, hot, cold, local, bound, req, task, tears, faults>> /\ clock' = clock + 1
  BY DEF Tick, data, bounds
<1>2. StoreType'
  BY <1>1 DEF IInv, StoreType, Tick, StartTick, MaxTick
<1>3. HotOk' /\ HotIsBacked' /\ ProvedByFinalCandles' /\ LocalOk' /\ BoundOk'
  BY <1>1 DEF IInv, HotOk, HotIsBacked, ProvedByFinalCandles, LocalOk, BoundOk, Present
<1>4. req' \subseteq Requests /\ OneEach' /\ \A r \in req' : ReqOk(r)'
  BY <1>1, FewerRequests
<1>5. ASSUME NEW c \in Writers PROVE TaskOk(c)'
  <2>1. ASSUME NEW t \in 0..MaxT0, Closed(t) PROVE Closed(t)'
    <3>1. ASSUME NEW w \in Windows PROVE CandleClose(t, w) \in Nat
      BY DEF CandleClose, Target, Born
    <3>2. clock \in Nat
      BY DEF IInv, StoreType, StartTick, MaxTick
    <3>3. ASSUME NEW w \in Windows PROVE clock + 1 >= CandleClose(t, w)
      BY <2>1, <3>1, <3>2 DEF Closed
    <3> QED
      BY <1>1, <3>3 DEF Closed, CandleClose, Target, Born
  <2>2. \A i \in Ids : local[i].t \in 0..MaxT0
    BY DEF IInv, StoreType, Row
  <2>3. task[c].todo \subseteq Ids /\ task[c].t \in 0..MaxT0
    BY DEF IInv, Tasks
  <2>4. Sound(c, task[c])
    BY DEF IInv, TaskOk
  <2> QED
    BY <1>1, <2>1, <2>2, <2>3, <2>4 DEF TaskOk, Sound, AliveOf
<1> QED
  BY <1>1, <1>2, <1>3, <1>4, <1>5 DEF IInv, CountType

LEMMA PostT0Keeps == ASSUME IInv, ~Overlap, PostT0 PROVE IInv'
<1>1. PICK t \in T0s : /\ bound[t] = 0 /\ RowsOf(t) = {}
                       /\ Send("oracle", "POST", 0, "none", [NoRow EXCEPT !.t = t])
  BY DEF PostT0
<1> DEFINE row == [NoRow EXCEPT !.t = t]
           r == NewReq("oracle", "POST", 0, "none", row)
<1>2. row \in Row /\ row.t = t /\ t # 0
  BY Blank, Sizes DEF NoRow
<1>3. r.kind = "POST" /\ r.by = "oracle" /\ r.row = row /\ r.at = "sent"
  BY DEF NewReq
<1>4. ReqOk(r)
  <2> HIDE DEF r
  <2> QED
    BY <1>1, <1>2, <1>3 DEF ReqOk, PostOk
<1>5. "oracle" \in Writers /\ 0 \in 0..MaxId
  BY Sizes DEF Writers
<1>6. UNCHANGED <<clock, path, data, bounds>>
  BY DEF PostT0
<1> HIDE DEF row, r
<1> QED
  BY <1>1, <1>2, <1>4, <1>5, <1>6, SendKeeps DEF row, r

LEMMA PassKeeps ==
    ASSUME IInv, UNCHANGED <<clock, path, data, req>>, NoFault, NEW c \in Writers,
           NEW todo \in SUBSET Ids, \A i \in todo : local[i].t # 0 /\ Closed(local[i].t),
           task' = [task EXCEPT ![c].at = "pass", ![c].todo = todo]
    PROVE  IInv'
<1> DEFINE k == [task[c] EXCEPT !.at = "pass", !.todo = todo]
<1>1. k \in Tasks /\ k.at = "pass" /\ k.todo = todo
  BY DEF IInv, Tasks
<1>2. task' = [task EXCEPT ![c] = k]
  BY DEF IInv
<1> HIDE DEF k
<1>3. Sound(c, k)
  BY <1>1 DEF Sound
<1> QED
  BY <1>1, <1>2, <1>3, CountKept, TaskKeeps

\* The maturity buffer makes every candle of a due row final.
LEMMA VerifyPassKeeps == ASSUME IInv, VerifyPass PROVE IInv'
<1> DEFINE todo == Oldest({i \in Ids : Due(i)})
<1>1. todo \in SUBSET Ids /\ \A i \in todo : Due(i)
  BY DEF Oldest
<1>2. ASSUME NEW i \in todo PROVE local[i].t # 0 /\ Closed(local[i].t)
  <2>1. /\ local[i].t # 0 /\ clock >= Target(local[i].t, "1h") + MaturityBuffer
        /\ clock \in Nat
    BY <1>1 DEF Due, IInv, StoreType, StartTick, MaxTick
  <2> QED
    BY <2>1 DEF Closed, CandleClose, Target, Born, MaturityBuffer, Windows
<1>3. task' = [task EXCEPT !["oracle"].at = "pass", !["oracle"].todo = todo]
  BY DEF VerifyPass
<1>4. UNCHANGED <<clock, path, data, req>> /\ NoFault /\ "oracle" \in Writers
  BY DEF VerifyPass, Writers
<1> HIDE DEF todo
<1> QED
  BY <1>1, <1>2, <1>3, <1>4, PassKeeps

\* A row settled without a proof is a legacy row, whose hour is long over.
LEMMA RepairPassKeeps == ASSUME IInv, RepairPass PROVE IInv'
<1> DEFINE todo == Oldest({i \in Ids : Repairable(i)})
<1>1. todo \in SUBSET Ids /\ \A i \in todo : Repairable(i)
  BY DEF Oldest
<1>2. ASSUME NEW i \in todo PROVE local[i].t # 0 /\ Closed(local[i].t)
  <2>1. local[i].t # 0 /\ local[i].t \in Legacy /\ clock \in 5..6
    BY <1>1 DEF Repairable, IInv, LocalOk, StoreType, StartTick, MaxTick
  <2> QED
    BY <2>1 DEF Closed, CandleClose, Target, Born, Windows
<1>3. task' = [task EXCEPT !["reconciler"].at = "pass", !["reconciler"].todo = todo]
  BY DEF RepairPass
<1>4. UNCHANGED <<clock, path, data, req>> /\ NoFault /\ "reconciler" \in Writers
  BY DEF RepairPass, Writers
<1> HIDE DEF todo
<1> QED
  BY <1>1, <1>2, <1>3, <1>4, PassKeeps

\* What a closed candle shows is final.
LEMMA ReadCandlesKeeps == ASSUME IInv, NEW c \in Writers, ReadCandles(c) PROVE IInv'
<1> DEFINE i == Min(task[c].todo)
           t == local[i].t
<1>1. PICK price \in [Windows -> Prices] :
        /\ \A w \in Windows : clock >= CandleClose(t, w) => price[w] = path[t][w]
        /\ task' = [task EXCEPT ![c].at = "evidence", ![c].id = i, ![c].t = t, ![c].price = price]
  BY DEF ReadCandles
<1>2. i \in task[c].todo /\ i \in Ids
  <2>1. task[c].todo \in SUBSET Ids /\ task[c].todo # {}
    BY DEF ReadCandles, IInv, Tasks
  <2>2. task[c].todo \in SUBSET Nat
    BY <2>1, Sizes
  <2> QED
    BY <2>1, <2>2, MinIn
<1> HIDE DEF i
<1>3. t \in T0s /\ t # 0 /\ Closed(t)
  <2>1. t \in 0..MaxT0
    BY <1>2 DEF IInv, StoreType, Row
  <2>2. t # 0 /\ Closed(t)
    BY <1>2 DEF IInv, TaskOk, Sound
  <2> QED
    BY <2>1, <2>2, Sizes
<1>4. path[t] \in [Windows -> Prices]
  BY <1>3 DEF IInv, StoreType
<1> HIDE DEF t
<1>5. price = path[t]
  BY <1>1, <1>3, <1>4 DEF Closed
<1> DEFINE k == [task[c] EXCEPT !.at = "evidence", !.id = i, !.t = t, !.price = price]
<1>6. k \in Tasks
  <2>1. i \in 0..MaxId /\ t \in 0..MaxT0
    BY <1>2, <1>3, Sizes
  <2> QED
    BY <2>1 DEF IInv, Tasks
<1>7. /\ k.at = "evidence" /\ k.id = i /\ k.t = t /\ k.price = price /\ k.todo = task[c].todo
      /\ task' = [task EXCEPT ![c] = k]
  BY <1>1 DEF IInv, Tasks
<1> HIDE DEF k
<1>8. Sound(c, k)
  BY <1>2, <1>3, <1>5, <1>7 DEF Sound, IInv, TaskOk, t
<1> QED
  BY <1>6, <1>7, <1>8, CountKept, TaskKeeps DEF ReadCandles

LEMMA EndPassKeeps == ASSUME IInv, NEW c \in Writers, EndPass(c) PROVE IInv'
BY IdleKeeps DEF EndPass

LEMMA NoEvidenceKeeps == ASSUME IInv, NEW c \in Writers, NoEvidence(c) PROVE IInv'
<1>1. NoFault \/ (Fault /\ UNCHANGED tears)
  BY DEF NoEvidence, NoFault, bounds
<1> QED
  BY <1>1, AfterErrorKeeps DEF NoEvidence

LEMMA RestartKeeps == ASSUME IInv, NEW c \in Writers, Restart(c) PROVE IInv'
BY IdleKeeps DEF Restart

LEMMA GiveUpKeeps == ASSUME IInv, NEW c \in Writers, GiveUp(c) PROVE IInv'
<1> DEFINE k == [task[c] EXCEPT !.at = "failed"]
<1>1. k \in Tasks /\ k.at = "failed" /\ k.todo = task[c].todo
  BY DEF IInv, Tasks
<1>2. task' = [task EXCEPT ![c] = k]
  BY DEF GiveUp, IInv
<1> HIDE DEF k
<1>3. Sound(c, k)
  BY <1>1 DEF Sound, IInv, TaskOk
<1> QED
  BY <1>1, <1>2, <1>3, CountKept, TaskKeeps DEF GiveUp

LEMMA SettleSkipsKeeps == ASSUME IInv, SettleSkips PROVE IInv'
BY NextRowKeeps DEF SettleSkips, Writers

\* The evidence is final, so the row that is sent is.
LEMMA SettleRowKeeps == ASSUME IInv, ~Overlap, SettleRow PROVE IInv'
<1> DEFINE i == task["oracle"].id
           price == task["oracle"].price
           t == hot[i].t
           row == SettledRow(t, Fresh, price)
           r == NewReq("oracle", "PATCH", i, "none", row)
<1>1. "oracle" \in Writers /\ Sound("oracle", task["oracle"]) /\ task["oracle"] \in Tasks
  BY DEF IInv, TaskOk, Writers
<1>2. Send("oracle", "PATCH", i, "none", row) /\ task["oracle"].at = "evidence" /\ Present(i)
  BY DEF SettleRow
<1>3. i \in Ids /\ local[i].t = task["oracle"].t /\ price = path[local[i].t] /\ local[i].t # 0
  BY <1>1, <1>2 DEF Sound
<1>4. t = local[i].t /\ t \in T0s /\ t # 0 /\ t \in 0..MaxT0
  <2>1. t = local[i].t
    BY <1>3 DEF IInv, LocalOk
  <2>2. t \in 0..MaxT0
    BY <1>3 DEF IInv, StoreType, Row
  <2> QED
    BY <1>3, <2>1, <2>2, Sizes
<1>5. Fresh \in 1..MaxRequests
  BY <1>2, FreshIs DEF Send
<1>6. price \in [Windows -> Prices]
  BY <1>1 DEF Tasks
<1>7. /\ row.t = t /\ row.proof.n = Fresh /\ row.proof.price = price
      /\ row.out = Outcome(Direction(t), price["1h"])
  BY DEF SettledRow, Proved
<1>8. row \in Row
  BY <1>4, <1>5, <1>6, OutcomeIs DEF SettledRow, Proved, Row, Proof
<1>9. /\ r.kind = "PATCH" /\ r.by = "oracle" /\ r.row = row /\ r.at = "sent" /\ r.id = i
      /\ r.filter = "none"
  BY DEF NewReq
<1> HIDE DEF row, r, t, price, i
<1>10. ReqOk(r)
  <2>1. PatchOk(r)
    BY <1>3, <1>4, <1>5, <1>7, <1>9, Sizes DEF PatchOk, t
  <2> QED
    BY <1>9, <2>1 DEF ReqOk
<1>11. UNCHANGED <<clock, path, data, bounds>>
  BY DEF SettleRow
<1>12. i \in 0..MaxId /\ row.t # 0
  BY <1>3, <1>4, <1>7, Sizes
<1> QED
  BY <1>1, <1>2, <1>8, <1>10, <1>11, <1>12, SendKeeps DEF r

LEMMA RepairRowKeeps == ASSUME IInv, ~Overlap, RepairRow PROVE IInv'
<1> DEFINE i == task["reconciler"].id
           price == task["reconciler"].price
           t == local[i].t
           row == [local[i] EXCEPT !.proof = Proved(Fresh, price)]
           r == NewReq("reconciler", "PATCH", i, local[i].out, row)
<1>1. /\ "reconciler" \in Writers /\ Sound("reconciler", task["reconciler"])
      /\ task["reconciler"] \in Tasks
  BY DEF IInv, TaskOk, Writers
<1>2. task["reconciler"].at = "evidence" /\ UNCHANGED <<clock, path, data, bounds>>
  BY DEF RepairRow
<1>3. CASE Conflict(i, price)
  <2>1. task' = NextRow("reconciler") /\ UNCHANGED req /\ NoFault
    BY <1>3 DEF RepairRow, NoFault
  <2> QED
    BY <1>1, <1>2, <2>1, NextRowKeeps
<1>4. CASE ~Conflict(i, price)
  <2>1. Send("reconciler", "PATCH", i, local[i].out, row)
    BY <1>4 DEF RepairRow
  <2>2. i \in Ids /\ local[i].t = task["reconciler"].t /\ price = path[t] /\ t # 0
    BY <1>1, <1>2 DEF Sound
  <2>3. local[i] \in Row /\ t = hot[i].t
    BY <2>2 DEF IInv, StoreType, LocalOk
  <2>4. t \in T0s /\ t \in 0..MaxT0
    BY <2>2, <2>3, Sizes DEF Row
  <2>5. Fresh \in 1..MaxRequests
    BY <2>1, FreshIs DEF Send
  <2>6. price \in [Windows -> Prices]
    BY <1>1 DEF Tasks
  <2>7. /\ row.t = t /\ row.proof.n = Fresh /\ row.proof.price = price
        /\ row.out = local[i].out
    BY <2>3 DEF Proved, Row
  <2>8. row \in Row
    <3>1. Proved(Fresh, price) \in Proof
      BY <2>5, <2>6 DEF Proved, Proof
    <3> QED
      BY <2>3, <3>1 DEF Row
  <2>9. local[i].out = Outcome(Direction(t), price["1h"]) /\ local[i].out \in {"WIN", "LOSS"}
    BY <1>4, OutcomeIs DEF Conflict
  <2>10. /\ r.kind = "PATCH" /\ r.by = "reconciler" /\ r.row = row /\ r.at = "sent" /\ r.id = i
         /\ r.filter = local[i].out
    BY DEF NewReq
  <2> HIDE DEF row, r, t, price, i
  <2>11. ReqOk(r)
    <3>1. PatchOk(r)
      BY <2>2, <2>3, <2>5, <2>7, <2>9, <2>10, Sizes DEF PatchOk
    <3> QED
      BY <2>10, <3>1 DEF ReqOk
  <2>12. i \in 0..MaxId /\ row.t # 0
    BY <2>2, <2>7, Sizes
  <2> QED
    BY <1>1, <1>2, <2>1, <2>8, <2>9, <2>11, <2>12, SendKeeps DEF r
<1> QED
  BY <1>3, <1>4

-----------------------------------------------------------------------------
\* The steps that change what the oracle knows.

\* A local row that becomes HOT's disturbs nobody.
Learnt(i) ==
    \/ local'[i] = local[i]
    \/ /\ local'[i].t = hot[i].t
       /\ local'[i].out # "none" /\ local'[i].proof = NoProof => local'[i].t \in Legacy

LEMMA LearningKeeps ==
    ASSUME IInv, UNCHANGED <<clock, path, hot, cold, req>>, CountType',
           local' \in [Ids -> Row], \A i \in Ids : Learnt(i),
           bound' \in [T0s -> 0..MaxId], BoundOk',
           NEW c \in Writers, NEW k \in Tasks, Sound(c, k), task' = [task EXCEPT ![c] = k]
    PROVE  IInv'
<1>1. StoreType'
  BY DEF IInv, StoreType
<1>2. HotOk' /\ HotIsBacked' /\ ProvedByFinalCandles'
  BY DEF IInv, HotOk, HotIsBacked, ProvedByFinalCandles, Present
<1>3. LocalOk'
  BY DEF IInv, LocalOk, Learnt
<1>4. req' \subseteq Requests /\ OneEach' /\ \A r \in req' : ReqOk(r)'
  BY FewerRequests
<1>5. task' \in [Writers -> Tasks]
  BY DEF IInv
<1>6. ASSUME NEW i \in Ids, local[i].t # 0 PROVE local'[i].t = local[i].t
  BY <1>6 DEF IInv, LocalOk, Learnt
<1>7. ASSUME NEW d \in Writers PROVE TaskOk(d)'
  <2>1. task'[d] = IF d = c THEN k ELSE task[d]
    BY DEF IInv
  <2>2. Sound(d, task'[d]) /\ task'[d] \in Tasks
    BY <1>5, <2>1 DEF IInv, TaskOk
  <2>3. ASSUME NEW j \in Tasks, Sound(d, j) PROVE Sound(d, j)'
    <3>1. j.todo \subseteq Ids
      BY DEF Tasks
    <3>2. \A i \in j.todo : local'[i].t # 0 /\ Closed(local[i].t)
      BY <1>6, <2>3, <3>1 DEF Sound
    <3>3. \A i \in j.todo : local'[i].t = local[i].t
      BY <1>6, <2>3, <3>1 DEF Sound
    <3>4. j.at = "evidence" => local'[j.id].t = j.t
      BY <1>6, <2>3 DEF Sound
    <3> QED
      BY <2>3, <3>2, <3>3, <3>4 DEF Sound, Closed, AliveOf
  <2>4. CASE d = c
    BY <2>1, <2>3, <2>4 DEF TaskOk, Sound
  <2>5. CASE d # c
    BY <2>1, <2>2, <2>3, <2>5 DEF TaskOk, Sound
  <2> QED
    BY <2>4, <2>5
<1> QED
  BY <1>1, <1>2, <1>3, <1>4, <1>5, <1>7 DEF IInv

LEMMA RefreshKeeps == ASSUME IInv, Refresh PROVE IInv'
<1>1. UNCHANGED <<clock, path, hot, cold, bound, req, task>> /\ local' = hot /\ CountType'
  BY CountKept DEF Refresh
<1>2. local' \in [Ids -> Row] /\ \A i \in Ids : Learnt(i)
  BY <1>1 DEF IInv, StoreType, Learnt, HotOk
<1>3. bound' \in [T0s -> 0..MaxId] /\ BoundOk'
  BY <1>1 DEF IInv, StoreType, BoundOk
<1>4. "oracle" \in Writers /\ task["oracle"] \in Tasks /\ Sound("oracle", task["oracle"])
      /\ task' = [task EXCEPT !["oracle"] = task["oracle"]]
  BY <1>1 DEF IInv, TaskOk, Writers
<1> QED
  BY <1>1, <1>2, <1>3, <1>4, LearningKeeps

LEMMA LookupT0Keeps == ASSUME IInv, LookupT0 PROVE IInv'
<1>1. PICK t \in T0s, i \in Ids :
        /\ hot[i].t = t
        /\ bound' = [bound EXCEPT ![t] = i] /\ local' = [local EXCEPT ![i] = hot[i]]
  BY DEF LookupT0, RowsOf
<1>2. UNCHANGED <<clock, path, hot, cold, req, task>> /\ CountType'
  BY CountKept DEF LookupT0
<1>3. local' \in [Ids -> Row] /\ \A j \in Ids : Learnt(j)
  BY <1>1 DEF IInv, StoreType, Learnt, HotOk
<1>4. bound' \in [T0s -> 0..MaxId] /\ BoundOk'
  BY <1>1, <1>2, Sizes DEF IInv, StoreType, BoundOk
<1>5. "oracle" \in Writers /\ task["oracle"] \in Tasks /\ Sound("oracle", task["oracle"])
      /\ task' = [task EXCEPT !["oracle"] = task["oracle"]]
  BY <1>2 DEF IInv, TaskOk, Writers
<1> QED
  BY <1>2, <1>3, <1>4, <1>5, LearningKeeps

LEMMA PostAnsweredKeeps == ASSUME IInv, PostAnswered PROVE IInv'
<1> DEFINE t == task["oracle"].t
           i == task["oracle"].id
<1>1. "oracle" \in Writers /\ task["oracle"] \in Tasks /\ Sound("oracle", task["oracle"])
  BY DEF IInv, TaskOk, Writers
<1>2. i \in Ids /\ hot[i].t = t /\ t # 0
  BY <1>1 DEF PostAnswered, Sound
<1>3. t \in 0..MaxT0 /\ t \in T0s
  BY <1>1, <1>2, Sizes DEF Tasks
<1>4. /\ bound' = [bound EXCEPT ![t] = i] /\ local' = [local EXCEPT ![i] = [NoRow EXCEPT !.t = t]]
      /\ task' = [task EXCEPT !["oracle"] = Idle] /\ UNCHANGED <<clock, path, hot, cold, req>>
      /\ CountType'
  BY CountKept DEF PostAnswered
<1> HIDE DEF t, i
<1>5. local' \in [Ids -> Row] /\ \A j \in Ids : Learnt(j)
  <2>1. [NoRow EXCEPT !.t = t] \in Row
    BY <1>3, Blank
  <2>2. [NoRow EXCEPT !.t = t].t = t /\ [NoRow EXCEPT !.t = t].out = "none"
    BY DEF NoRow
  <2>3. local \in [Ids -> Row]
    BY DEF IInv, StoreType
  <2> QED
    BY <1>2, <1>4, <2>1, <2>2, <2>3 DEF Learnt
<1>6. bound' \in [T0s -> 0..MaxId] /\ BoundOk'
  BY <1>2, <1>3, <1>4, Sizes DEF IInv, StoreType, BoundOk
<1> QED
  BY <1>1, <1>4, <1>5, <1>6, Blank, IdleSound, LearningKeeps

LEMMA PostFailedKeeps == ASSUME IInv, PostFailed PROVE IInv'
BY IdleKeeps DEF PostFailed, Writers

\* A settlement written through is of the row that was settled.
LEMMA PatchAnsweredKeeps == ASSUME IInv, NEW c \in Writers, PatchAnswered(c) PROVE IInv'
<1>1. CASE ~Settles(c)
  <2>1. UNCHANGED <<clock, path, data, req>> /\ NoFault
    BY <1>1 DEF PatchAnswered, data
  <2>2. task' = NextRow(c) \/ task' = AfterError(c)
    BY DEF PatchAnswered
  <2> QED
    BY <2>1, <2>2, NextRowKeeps, AfterErrorKeeps
<1>2. CASE Settles(c)
  <2> DEFINE i == task[c].id
             t == task[c].t
             row == SettledRow(t, task[c].n, task[c].price)
  <2>1. /\ c = "oracle" /\ task[c] \in Tasks /\ Sound(c, task[c])
        /\ task[c].at = "done"
    BY <1>2 DEF Settles, IInv, TaskOk
  <2>2. i \in Ids /\ hot[i].t = t /\ t # 0 /\ task[c].n # 0 /\ t \in 0..MaxT0
    BY <2>1 DEF Sound, Tasks
  <2>3. /\ local' = [local EXCEPT ![i] = row] /\ task' = NextRow(c)
        /\ UNCHANGED <<clock, path, hot, cold, bound, req>> /\ CountType'
    BY <1>2, <2>1, CountKept DEF PatchAnswered
  <2>4. row \in Row /\ row.t = t /\ row.proof # NoProof
    <3>1. task[c].price \in [Windows -> Prices] /\ task[c].n \in 0..MaxRequests
      BY <2>1 DEF Tasks
    <3>2. row.proof.n = task[c].n /\ row.t = t
      BY DEF SettledRow, Proved
    <3>3. row \in Row
      BY <2>2, <3>1, OutcomeIs DEF SettledRow, Proved, Row, Proof
    <3> QED
      BY <2>2, <3>2, <3>3 DEF NoProof
  <2>5. local' \in [Ids -> Row] /\ \A j \in Ids : Learnt(j)
    <3> HIDE DEF row, i, t
    <3>1. local \in [Ids -> Row]
      BY DEF IInv, StoreType
    <3> QED
      BY <2>2, <2>3, <2>4, <3>1 DEF Learnt
  <2>6. bound' \in [T0s -> 0..MaxId] /\ BoundOk'
    BY <2>3 DEF IInv, StoreType, BoundOk
  <2> HIDE DEF row, i, t
  <2> QED
    BY <2>3, <2>5, <2>6, NextRowSound, LearningKeeps
<1> QED
  BY <1>1, <1>2

-----------------------------------------------------------------------------
\* The steps of the gateway.

\* Two requests at work are about different rows: the writers' discipline.
LEMMA RowsApart ==
    ASSUME IInv, NEW r \in req, NEW p \in req, r # p, r.at # "sent", p.at # "sent"
    PROVE  r.id # p.id
<1>1. r \in Requests /\ p \in Requests /\ ReqOk(r) /\ ReqOk(p) /\ r.by # p.by
  BY DEF IInv, OneEach
<1>2. r.by \in {"oracle", "reconciler"} /\ p.by \in {"oracle", "reconciler"}
      /\ r.kind \in {"POST", "PATCH"} /\ p.kind \in {"POST", "PATCH"}
  BY <1>1 DEF Requests, Writers
<1>3. CASE r.kind = "POST"
  <2>1. hot[r.id].t = 0 /\ p.by = "reconciler"
    BY <1>1, <1>2, <1>3 DEF ReqOk, PostOk, Present
  <2>2. p.kind = "PATCH"
    BY <1>1, <1>2, <2>1 DEF ReqOk, PostOk
  <2>3. hot[p.id].t # 0
    BY <1>1, <2>2 DEF ReqOk, PatchOk
  <2> QED
    BY <2>1, <2>3
<1>4. CASE p.kind = "POST"
  <2>1. hot[p.id].t = 0 /\ r.by = "reconciler"
    BY <1>1, <1>2, <1>4 DEF ReqOk, PostOk, Present
  <2>2. r.kind = "PATCH"
    BY <1>1, <1>2, <2>1 DEF ReqOk, PostOk
  <2>3. hot[r.id].t # 0
    BY <1>1, <2>2 DEF ReqOk, PatchOk
  <2> QED
    BY <2>1, <2>3
<1>5. CASE r.kind = "PATCH" /\ p.kind = "PATCH"
  <2>1. hot[r.id].out = r.filter /\ hot[p.id].out = p.filter
    BY <1>1, <1>5 DEF ReqOk, PatchOk
  <2>2. (r.filter = "none") # (p.filter = "none")
    BY <1>1, <1>2, <1>5 DEF ReqOk, PatchOk
  <2> QED
    BY <2>1, <2>2
<1> QED
  BY <1>2, <1>3, <1>4, <1>5

\* A request goes on; HOT stays as it is.
LEMMA AdvanceKeeps ==
    ASSUME IInv, UNCHANGED <<clock, path, hot, local, bound, task, bounds>>,
           cold' \in [Ids -> [t : 0..MaxT0, proof : Proof]], HotIsBacked',
           NEW r \in req, NEW q \in Requests, q.by = r.by, q.row.t = r.row.t,
           req' = (req \ {r}) \cup {q}, ReqOk(q)', \A p \in req \ {r} : ReqOk(p)'
    PROVE  IInv'
<1>1. StoreType' /\ CountType' /\ task' \in [Writers -> Tasks]
  BY DEF IInv, StoreType, CountType, bounds
<1>2. HotOk' /\ ProvedByFinalCandles' /\ LocalOk' /\ BoundOk'
  BY DEF IInv, HotOk, ProvedByFinalCandles, LocalOk, BoundOk, Present
<1>3. req' \subseteq Requests /\ OneEach'
  BY DEF IInv, OneEach
<1>4. \A p \in req' : ReqOk(p)'
  OBVIOUS
<1>5. ASSUME NEW c \in Writers PROVE TaskOk(c)'
  <2>1. Sound(c, task[c])
    BY DEF IInv, TaskOk
  <2>2. (\A p \in AliveOf(c) : p.row.t = task[c].t) => \A p \in AliveOf(c)' : p.row.t = task[c].t
    BY DEF AliveOf
  <2> QED
    BY <2>1, <2>2 DEF TaskOk, Sound, Closed
<1> QED
  BY <1>1, <1>2, <1>3, <1>4, <1>5 DEF IInv

LEMMA ReadPostKeeps == ASSUME IInv, NEW r \in req, ReadPost(r) PROVE IInv'
<1>1. r \in Requests /\ r.kind = "POST" /\ PostOk(r)
  BY DEF ReadPost, IInv, ReqOk
<1>2. PICK next \in Ids : ~Present(next) /\ req' = (req \ {r}) \cup {[r EXCEPT !.id = next, !.at = "read"]}
  BY NextIdIs DEF ReadPost
<1> DEFINE q == [r EXCEPT !.id = next, !.at = "read"]
<1>3. UNCHANGED <<clock, path, hot, cold, local, bound, task, bounds>>
  BY DEF ReadPost, data
<1>4. /\ q \in Requests /\ q.by = r.by /\ q.row = r.row /\ q.id = next /\ q.at = "read"
      /\ q.kind = "POST"
  <2>1. next \in 0..MaxId
    BY Sizes
  <2> QED
    BY <1>1, <2>1 DEF Requests
<1> HIDE DEF q
<1>5. ReqOk(q)
  BY <1>1, <1>2, <1>4 DEF ReqOk, PostOk
<1>6. ReqOk(q)' /\ \A p \in req \ {r} : ReqOk(p)'
  BY <1>3, <1>5, ReqKept DEF IInv
<1>7. cold' \in [Ids -> [t : 0..MaxT0, proof : Proof]] /\ HotIsBacked'
  BY <1>3 DEF IInv, StoreType, HotIsBacked, Present
<1> QED
  BY <1>2, <1>3, <1>4, <1>6, <1>7, AdvanceKeeps DEF q

\* A request ends without a write, and its writer may hear of it.
LEMMA EndsKeeps ==
    ASSUME IInv, UNCHANGED <<clock, path, data>>, CountType', NEW r \in req,
           NEW result \in {"failed", "empty"}, req' = req \ {r}, Answer(r, result)
    PROVE  IInv'
<1> DEFINE c == r.by
           k == [task[c] EXCEPT !.at = result, !.id = r.id]
<1>1. r \in Requests /\ c \in Writers /\ r.id \in 0..MaxId /\ task \in [Writers -> Tasks]
  BY DEF IInv, Requests
<1>2. task[c] \in Tasks /\ Sound(c, task[c])
  BY <1>1 DEF IInv, TaskOk
<1>3. k \in Tasks /\ k.at = result /\ k.todo = task[c].todo
  BY <1>1, <1>2 DEF Tasks
<1>4. \/ task' = [task EXCEPT ![c] = k]
      \/ task' = [task EXCEPT ![c] = task[c]]
  BY <1>1 DEF Answer
<1> HIDE DEF k, c
<1>5. Sound(c, k)
  BY <1>2, <1>3 DEF Sound
<1>6. req' \subseteq req
  OBVIOUS
<1> QED
  BY <1>1, <1>2, <1>3, <1>4, <1>5, <1>6, TaskKeeps

LEMMA ReadPatchKeeps == ASSUME IInv, NEW r \in req, ReadPatch(r) PROVE IInv'
<1>1. r \in Requests /\ r.kind = "PATCH" /\ PatchOk(r)
  BY DEF ReadPatch, IInv, ReqOk
<1>2. UNCHANGED <<clock, path, hot, cold, local, bound, bounds>>
  BY DEF ReadPatch, data
<1>3. CASE Filtered(r) /\ Matches(r.id)
  <2> DEFINE q == [r EXCEPT !.at = "read"]
  <2>1. req' = (req \ {r}) \cup {[r EXCEPT !.row.t = hot[r.id].t, !.at = "read"]} /\ UNCHANGED task
    BY <1>3 DEF ReadPatch
  <2>2. r.row \in Row /\ hot[r.id].t = r.row.t
    BY <1>1 DEF Requests, PatchOk
  <2>3. [r.row EXCEPT !.t = hot[r.id].t] = r.row
    BY <2>2 DEF Row
  <2>4. [r EXCEPT !.row.t = hot[r.id].t, !.at = "read"] = q
    BY <1>1, <2>3 DEF Requests
  <2>5. /\ q \in Requests /\ q.by = r.by /\ q.row = r.row /\ q.id = r.id /\ q.at = "read"
        /\ q.kind = "PATCH" /\ q.filter = r.filter
    BY <1>1 DEF Requests
  <2> HIDE DEF q
  <2>6. ReqOk(q)
    BY <1>1, <1>3, <2>5 DEF ReqOk, PatchOk, Filtered
  <2>7. ReqOk(q)' /\ \A p \in req \ {r} : ReqOk(p)'
    BY <1>2, <2>6, ReqKept DEF IInv
  <2>8. cold' \in [Ids -> [t : 0..MaxT0, proof : Proof]] /\ HotIsBacked'
    BY <1>2 DEF IInv, StoreType, HotIsBacked, Present
  <2> QED
    BY <1>2, <2>1, <2>4, <2>5, <2>7, <2>8, AdvanceKeeps
<1>4. CASE ~(Filtered(r) /\ Matches(r.id))
  <2>1. PICK result \in {"failed", "empty"} : req' = req \ {r} /\ Answer(r, result)
    BY <1>4 DEF ReadPatch
  <2>2. UNCHANGED <<clock, path, data>> /\ CountType'
    BY <1>2 DEF data, bounds, IInv, CountType
  <2> QED
    BY <2>1, <2>2, EndsKeeps
<1> QED
  BY <1>3, <1>4

LEMMA GatewayDiesKeeps == ASSUME IInv, NEW r \in req, GatewayDies(r) PROVE IInv'
<1>1. CountType'
  BY SettlementAssumption DEF GatewayDies, Fault, IInv, CountType
<1> QED
  BY <1>1, EndsKeeps DEF GatewayDies

\* COLD gets what HOT will have; the other request at work is about another row.
LEMMA WriteColdKeeps == ASSUME IInv, NEW r \in req, WriteCold(r) PROVE IInv'
<1> DEFINE q == [r EXCEPT !.at = "cold"]
<1>1. r \in Requests /\ ReqOk(r) /\ r.at = "read" /\ r.row \in Row /\ r.kind \in {"POST", "PATCH"}
  BY DEF WriteCold, IInv, Requests
<1>2. r.id \in Ids
  BY <1>1 DEF ReqOk, PostOk, PatchOk
<1>3. /\ UNCHANGED <<clock, path, hot, local, bound, task, bounds>>
      /\ cold' = [cold EXCEPT ![r.id] = Audit(r.row)] /\ req' = (req \ {r}) \cup {q}
  BY DEF WriteCold
<1>4. /\ q \in Requests /\ q.by = r.by /\ q.row = r.row /\ q.id = r.id /\ q.at = "cold"
      /\ q.kind = r.kind /\ q.filter = r.filter
  BY <1>1 DEF Requests
<1> HIDE DEF q
<1>5. Audit(r.row) \in [t : 0..MaxT0, proof : Proof] /\ Audit(r.row).t = r.row.t
  BY <1>1 DEF Audit, Row
<1>6. cold' \in [Ids -> [t : 0..MaxT0, proof : Proof]] /\ cold'[r.id] = Audit(r.row)
      /\ \A i \in Ids : i # r.id => cold'[i] = cold[i]
  BY <1>2, <1>3, <1>5 DEF IInv, StoreType
<1>7. ReqOk(q)'
  BY <1>1, <1>3, <1>4, <1>6 DEF ReqOk, PostOk, PatchOk, RowsOf, Present
<1>8. ASSUME NEW p \in req \ {r} PROVE ReqOk(p)'
  <2>1. ReqOk(p) /\ p \in Requests
    BY DEF IInv
  <2>2. p.at = "cold" => cold'[p.id] = cold[p.id]
    <3>1. SUFFICES ASSUME p.at = "cold" PROVE cold'[p.id] = cold[p.id]
      OBVIOUS
    <3>2. p.id # r.id
      BY <1>1, <3>1, RowsApart
    <3>3. p.id \in Ids
      BY <2>1, <3>1 DEF ReqOk, PostOk, PatchOk, Requests
    <3> QED
      BY <1>6, <3>2, <3>3
  <2> QED
    BY <1>3, <2>1, <2>2 DEF ReqOk, PostOk, PatchOk, RowsOf, Present
<1>9. HotIsBacked'
  <2>1. Present(r.id) => hot[r.id].t = r.row.t /\ hot[r.id].proof = NoProof
    BY <1>1 DEF ReqOk, PostOk, PatchOk
  <2> QED
    BY <1>3, <1>5, <1>6, <2>1 DEF IInv, HotIsBacked, Present
<1> QED
  BY <1>3, <1>4, <1>6, <1>7, <1>8, <1>9, AdvanceKeeps

\* HOT gets the row.  A posted row is the first of its T0, a settled one was
\* not settled before; the other request's row and T0 are others.
LEMMA WriteHotStores ==
    ASSUME IInv, NEW r \in req, WriteHot(r)
    PROVE  /\ StoreType' /\ HotOk' /\ HotIsBacked' /\ ProvedByFinalCandles' /\ LocalOk' /\ BoundOk'
           /\ \A i \in Ids : hot[i].t # 0 => hot'[i].t = hot[i].t
           /\ \A p \in req \ {r} : ReqOk(p)'
           /\ r.id \in Ids /\ r.row.t # 0 /\ hot'[r.id].t = r.row.t
<1>1. r \in Requests /\ ReqOk(r) /\ r.at = "cold" /\ r.row \in Row /\ r.kind \in {"POST", "PATCH"}
  BY DEF WriteHot, IInv, Requests
<1>2. r.id \in Ids /\ r.row.t # 0 /\ cold[r.id] = Audit(r.row)
  BY <1>1 DEF ReqOk, PostOk, PatchOk
<1>3. UNCHANGED <<clock, path, cold, local, bound>> /\ hot' = [hot EXCEPT ![r.id] = r.row]
  BY DEF WriteHot
<1>4. hot'[r.id] = r.row /\ \A i \in Ids : i # r.id => hot'[i] = hot[i]
  BY <1>2, <1>3 DEF IInv, StoreType
<1>5. StoreType'
  BY <1>1, <1>2, <1>3 DEF IInv, StoreType
<1>6. CASE r.kind = "POST"
  <2>1. /\ hot[r.id].t = 0 /\ r.row.out = "none" /\ r.row.proof = NoProof
        /\ \A i \in Ids : hot[i].t # r.row.t
    BY <1>1, <1>6 DEF ReqOk, PostOk, Present, RowsOf, NoRow
  <2>2. \A i \in Ids : hot[i].t # 0 => hot'[i].t = hot[i].t
    BY <1>4, <2>1
  <2>3. HotOk'
    <3>1. \A i \in Ids : ~Present(i)' => hot'[i] = NoRow
      BY <1>2, <1>4 DEF IInv, HotOk, Present
    <3>2. \A i, j \in Ids : Present(i)' /\ hot'[i].t = hot'[j].t => i = j
      BY <1>4, <2>1 DEF IInv, HotOk, Present
    <3>3. \A i \in Ids : hot'[i].out # "none" /\ hot'[i].proof = NoProof => hot'[i].t \in Legacy
      BY <1>4, <2>1 DEF IInv, HotOk
    <3> QED
      BY <3>1, <3>2, <3>3 DEF HotOk
  <2>4. HotIsBacked'
    BY <1>2, <1>3, <1>4 DEF IInv, HotIsBacked, Present, Audit
  <2>5. ProvedByFinalCandles'
    BY <1>3, <1>4, <2>1 DEF IInv, ProvedByFinalCandles
  <2>6. \A p \in req \ {r} : ReqOk(p)'
    <3>1. SUFFICES ASSUME NEW p \in req \ {r} PROVE ReqOk(p)'
      OBVIOUS
    <3>2. p \in Requests /\ ReqOk(p) /\ p.by # r.by
      BY DEF IInv, OneEach
    <3>3. p.kind = "PATCH" /\ p.id # r.id /\ p.id \in Ids
      <4>1. r.by = "oracle"
        BY <1>1, <1>6 DEF ReqOk, PostOk
      <4>2. p.kind = "PATCH"
        BY <3>2, <4>1 DEF ReqOk, PostOk, Requests
      <4> QED
        BY <2>1, <3>2, <4>2 DEF ReqOk, PatchOk
    <3> QED
      BY <1>3, <1>4, <3>2, <3>3 DEF ReqOk, PatchOk
  <2>7. LocalOk' /\ BoundOk'
    <3>1. LocalOk'
      BY <1>3, <2>2 DEF IInv, LocalOk
    <3>2. \A t \in T0s : bound[t] # 0 => bound[t] \in Ids /\ t # 0
      BY Sizes DEF IInv, StoreType
    <3>3. BoundOk'
      BY <1>3, <2>2, <3>2 DEF IInv, BoundOk
    <3> QED
      BY <3>1, <3>3
  <2> QED
    BY <1>2, <1>4, <1>5, <2>2, <2>3, <2>4, <2>5, <2>6, <2>7
<1>7. CASE r.kind = "PATCH"
  <2>1. /\ hot[r.id].t = r.row.t /\ hot[r.id].out = r.filter /\ hot[r.id].proof = NoProof
        /\ r.row.proof.n # 0 /\ r.row.proof.price = path[r.row.t]
        /\ r.row.out = Outcome(Direction(r.row.t), path[r.row.t]["1h"])
    BY <1>1, <1>7 DEF ReqOk, PatchOk
  <2>2. \A i \in Ids : hot'[i].t = hot[i].t
    BY <1>4, <2>1
  <2>3. HotOk'
    <3>1. \A i \in Ids : ~Present(i)' => hot'[i] = NoRow
      BY <1>2, <1>4 DEF IInv, HotOk, Present
    <3>2. \A i, j \in Ids : Present(i)' /\ hot'[i].t = hot'[j].t => i = j
      BY <2>2 DEF IInv, HotOk, Present
    <3>3. \A i \in Ids : hot'[i].out # "none" /\ hot'[i].proof = NoProof => hot'[i].t \in Legacy
      BY <1>4, <2>1 DEF IInv, HotOk, NoProof
    <3> QED
      BY <3>1, <3>2, <3>3 DEF HotOk
  <2>4. HotIsBacked'
    BY <1>2, <1>3, <1>4 DEF IInv, HotIsBacked, Present, Audit
  <2>5. ProvedByFinalCandles'
    BY <1>3, <1>4, <2>1 DEF IInv, ProvedByFinalCandles
  <2>6. \A p \in req \ {r} : ReqOk(p)'
    <3>1. SUFFICES ASSUME NEW p \in req \ {r} PROVE ReqOk(p)'
      OBVIOUS
    <3>2. p \in Requests /\ ReqOk(p) /\ (p.at # "sent" => p.id # r.id)
      BY <1>1, RowsApart DEF IInv
    <3>3. RowsOf(p.row.t)' = RowsOf(p.row.t)
      BY <2>2 DEF RowsOf
    <3>4. p.kind = "POST" => PostOk(p)'
      BY <2>2, <3>2, <3>3 DEF ReqOk, PostOk, Present
    <3>5. p.kind = "PATCH" => PatchOk(p)'
      BY <1>3, <1>4, <2>2, <3>2 DEF ReqOk, PatchOk
    <3> QED
      BY <1>3, <3>2, <3>4, <3>5 DEF ReqOk
  <2>7. LocalOk' /\ BoundOk'
    <3>1. LocalOk'
      BY <1>3, <2>2 DEF IInv, LocalOk
    <3>2. \A t \in T0s : bound[t] # 0 => bound[t] \in Ids
      BY Sizes DEF IInv, StoreType
    <3>3. BoundOk'
      BY <1>3, <2>2, <3>2 DEF IInv, BoundOk
    <3> QED
      BY <3>1, <3>3
  <2> QED
    BY <1>2, <1>4, <1>5, <2>2, <2>3, <2>4, <2>5, <2>6, <2>7
<1> QED
  BY <1>1, <1>6, <1>7

LEMMA WriteHotKeeps == ASSUME IInv, NEW r \in req, WriteHot(r) PROVE IInv'
<1> DEFINE c == r.by
           result == IF r.kind = "POST" THEN "posted" ELSE "done"
<1>1. /\ StoreType' /\ HotOk' /\ HotIsBacked' /\ ProvedByFinalCandles' /\ LocalOk' /\ BoundOk'
      /\ \A i \in Ids : hot[i].t # 0 => hot'[i].t = hot[i].t
      /\ \A p \in req \ {r} : ReqOk(p)'
      /\ r.id \in Ids /\ r.row.t # 0 /\ hot'[r.id].t = r.row.t
  BY WriteHotStores
<1>2. UNCHANGED <<clock, path, local, bounds>> /\ req' = req \ {r} /\ Answer(r, result)
  BY DEF WriteHot
<1>3. req' \subseteq Requests /\ OneEach' /\ \A p \in req' : ReqOk(p)'
  BY <1>1, <1>2 DEF IInv, OneEach
<1>4. CountType'
  BY <1>2 DEF IInv, CountType, bounds
<1>5. c \in Writers /\ r.id \in 0..MaxId /\ task \in [Writers -> Tasks] /\ result \in {"posted", "done"}
  BY DEF IInv, Requests
<1>6. task[c] \in Tasks /\ Sound(c, task[c])
  BY <1>5 DEF IInv, TaskOk
<1>7. PICK k \in Tasks :
        /\ k = [task[c] EXCEPT !.at = result, !.id = r.id]
        /\ k.at = result /\ k.id = r.id /\ k.todo = task[c].todo /\ k.n = task[c].n /\ k.t = task[c].t
  <2> DEFINE j == [task[c] EXCEPT !.at = result, !.id = r.id]
  <2>1. /\ j \in Tasks /\ j.at = result /\ j.id = r.id /\ j.todo = task[c].todo /\ j.n = task[c].n
        /\ j.t = task[c].t
    BY <1>5, <1>6 DEF Tasks
  <2> QED
    BY <2>1
<1>8. IF task[c].at = "wait" /\ task[c].n = r.n THEN task' = [task EXCEPT ![c] = k] ELSE task' = task
  BY <1>2, <1>5, <1>7 DEF Answer
<1> HIDE DEF c, result
<1>9. task' \in [Writers -> Tasks]
  BY <1>5, <1>7, <1>8
<1>10. ASSUME NEW d \in Writers, NEW j \in Tasks, Sound(d, j) PROVE Sound(d, j)'
  <2>1. AliveOf(d)' \subseteq AliveOf(d)
    BY <1>2 DEF AliveOf
  <2>2. j.at \in {"posted", "done"} => hot'[j.id].t = j.t
    BY <1>1, <1>10 DEF Sound
  <2> QED
    BY <1>2, <1>10, <2>1, <2>2 DEF Sound, Closed
<1>11. ASSUME task[c].at = "wait" PROVE Sound(c, k)'
  <2>1. task[c].n # 0 /\ r.row.t = task[c].t
    BY <1>6, <1>11 DEF Sound, AliveOf, c
  <2>2. \A i \in task[c].todo : local[i].t # 0 /\ Closed(local[i].t)
    BY <1>6 DEF Sound
  <2> QED
    BY <1>1, <1>2, <1>5, <1>7, <2>1, <2>2 DEF Sound, Closed
<1>12. ASSUME NEW d \in Writers PROVE TaskOk(d)'
  <2>1. task[d] \in Tasks /\ Sound(d, task[d])
    BY DEF IInv, TaskOk
  <2>2. CASE task' = task
    BY <1>10, <2>1, <2>2 DEF TaskOk, Sound
  <2>3. CASE task' # task
    <3>1. task[c].at = "wait" /\ task' = [task EXCEPT ![c] = k]
      BY <1>8, <2>3
    <3>2. CASE d = c
      BY <1>5, <1>11, <3>1, <3>2 DEF TaskOk, Sound
    <3>3. CASE d # c
      <4>1. task'[d] = task[d]
        BY <1>5, <3>1, <3>3
      <4> QED
        BY <1>10, <2>1, <4>1 DEF TaskOk, Sound
    <3> QED
      BY <3>2, <3>3
  <2> QED
    BY <2>2, <2>3
<1> QED
  BY <1>1, <1>3, <1>4, <1>9, <1>12 DEF IInv

-----------------------------------------------------------------------------
\* Init and Next.

LEMMA InitIInv == ASSUME Init PROVE IInv
<1>1. /\ clock = 5 /\ path \in [T0s -> [Windows -> Prices]] /\ local = hot /\ req = {}
      /\ hot = [i \in Ids |-> IF i \in Legacy THEN LegacyRow(i) ELSE NoRow]
      /\ cold = [i \in Ids |-> Audit(hot[i])]
      /\ bound = [t \in T0s |-> IF t \in Legacy THEN t ELSE 0]
      /\ task = [c \in Writers |-> Idle] /\ tears = 0 /\ faults = 0
  BY SettlementAssumption DEF Init, StartTick
<1>2. ASSUME NEW i \in Legacy
      PROVE  /\ LegacyRow(i) \in Row /\ LegacyRow(i).t = i /\ LegacyRow(i).proof = NoProof
             /\ i \in T0s /\ i \in Ids /\ i # 0
  <2>1. i \in T0s /\ i \in Ids /\ i # 0 /\ i \in 0..MaxT0
    BY SettlementAssumption, Sizes DEF Legacy
  <2> QED
    BY <2>1, Blank, OutcomeIs DEF LegacyRow, Row
<1>3. \A i \in Ids : /\ hot[i] \in Row /\ hot[i].proof = NoProof
                     /\ i \in Legacy => hot[i].t = i /\ i # 0
                     /\ i \notin Legacy => hot[i] = NoRow /\ hot[i].t = 0 /\ hot[i].out = "none"
  BY <1>1, <1>2, Blank DEF NoRow
<1>4. \A i \in Ids : /\ cold[i] \in [t : 0..MaxT0, proof : Proof]
                     /\ cold[i].t = hot[i].t /\ cold[i].proof = hot[i].proof
  BY <1>1, <1>3 DEF Audit, Row
<1>5. StoreType
  <2>1. hot \in [Ids -> Row] /\ cold \in [Ids -> [t : 0..MaxT0, proof : Proof]]
    BY <1>1, <1>3, <1>4
  <2>2. bound \in [T0s -> 0..MaxId]
    BY <1>1, <1>2, Sizes
  <2> QED
    BY <1>1, <2>1, <2>2 DEF StoreType, StartTick, MaxTick
<1>6. HotOk /\ HotIsBacked /\ ProvedByFinalCandles /\ LocalOk
  BY <1>1, <1>3, <1>4 DEF HotOk, HotIsBacked, ProvedByFinalCandles, LocalOk, Present
<1>7. BoundOk
  BY <1>1, <1>2, <1>3 DEF BoundOk
<1>8. CountType
  BY <1>1, SettlementAssumption DEF CountType
<1>9. task \in [Writers -> Tasks] /\ \A c \in Writers : TaskOk(c)
  BY <1>1, Blank, IdleSound DEF TaskOk
<1> QED
  BY <1>1, <1>5, <1>6, <1>7, <1>8, <1>9 DEF IInv, OneEach

LEMMA StutterKeeps == ASSUME IInv, UNCHANGED vars PROVE IInv'
<1>1. UNCHANGED <<clock, path, data, req, task, bounds>>
  BY DEF vars
<1>2. "oracle" \in Writers /\ task["oracle"] \in Tasks /\ Sound("oracle", task["oracle"])
      /\ task' = [task EXCEPT !["oracle"] = task["oracle"]]
  BY <1>1 DEF IInv, TaskOk, Writers
<1>3. CountType'
  BY <1>1 DEF IInv, CountType, bounds
<1> QED
  BY <1>1, <1>2, <1>3, TaskKeeps

LEMMA NextIInv == ASSUME IInv, ~Overlap, [Next]_vars PROVE IInv'
<1>1. CASE Tick
  BY <1>1, TickKeeps
<1>2. CASE Oracle
  <2>1. CASE PostT0 \/ LookupT0 \/ PostAnswered \/ PostFailed
    BY <2>1, PostT0Keeps, LookupT0Keeps, PostAnsweredKeeps, PostFailedKeeps
  <2>2. CASE VerifyPass \/ SettleRow \/ SettleSkips
    BY <2>2, VerifyPassKeeps, SettleRowKeeps, SettleSkipsKeeps
  <2>3. CASE Pass("oracle")
    BY <2>3, ReadCandlesKeeps, EndPassKeeps, PatchAnsweredKeeps DEF Pass, Writers
  <2> QED
    BY <1>2, <2>1, <2>2, <2>3 DEF Oracle
<1>3. CASE Refresh
  BY <1>3, RefreshKeeps
<1>4. CASE Reconciler
  <2>1. CASE RepairPass \/ RepairRow
    BY <2>1, RepairPassKeeps, RepairRowKeeps
  <2>2. CASE Pass("reconciler")
    BY <2>2, ReadCandlesKeeps, EndPassKeeps, PatchAnsweredKeeps DEF Pass, Writers
  <2> QED
    BY <1>4, <2>1, <2>2 DEF Reconciler
<1>5. ASSUME NEW r \in req, GatewayDies(r) PROVE IInv'
  BY <1>5, GatewayDiesKeeps
<1>6. ASSUME NEW c \in Writers, Gateway(c) PROVE IInv'
  <2>1. PICK r \in req : ReadPost(r) \/ ReadPatch(r) \/ WriteCold(r) \/ WriteHot(r)
    BY <1>6 DEF Gateway, AliveOf
  <2> QED
    BY <2>1, ReadPostKeeps, ReadPatchKeeps, WriteColdKeeps, WriteHotKeeps
<1>7. ASSUME NEW c \in Writers, NoEvidence(c) \/ GiveUp(c) \/ Restart(c) PROVE IInv'
  BY <1>7, NoEvidenceKeeps, GiveUpKeeps, RestartKeeps
<1>8. CASE UNCHANGED vars
  BY <1>8, StutterKeeps
<1> QED
  BY <1>1, <1>2, <1>3, <1>4, <1>5, <1>6, <1>7, <1>8 DEF Next

-----------------------------------------------------------------------------
\* A writer never has two requests alive.
NoOverlap == ~Overlap

LEMMA SpecIInv == ASSUME NoOverlap PROVE Spec => []IInv
<1>1. Init => IInv
  BY InitIInv
<1>2. IInv /\ [Next]_vars => IInv'
  BY NextIInv DEF NoOverlap
<1> QED
  BY <1>1, <1>2, PTL DEF Spec

LEMMA IInvTypeOK == IInv => TypeOK
BY DEF IInv, StoreType, CountType, TypeOK, Tasks, Requests, StartTick, MaxTick

\* A step changes nothing of what HOT has settled.
KeepsSettled ==
    \A i \in Ids : Present(i) =>
        /\ hot'[i].t = hot[i].t
        /\ hot[i].out # "none" => hot'[i].out = hot[i].out
        /\ hot[i].proof # NoProof => hot'[i].proof = hot[i].proof

LEMMA StepSettles == ASSUME IInv, [Next]_vars PROVE KeepsSettled
<1>1. CASE UNCHANGED hot
  BY <1>1 DEF KeepsSettled
<1>2. ASSUME NEW r \in req, WriteHot(r) PROVE KeepsSettled
  <2>1. r \in Requests /\ ReqOk(r) /\ r.at = "cold" /\ r.kind \in {"POST", "PATCH"}
    BY <1>2 DEF WriteHot, IInv, Requests
  <2>2. r.id \in Ids
    BY <2>1 DEF ReqOk, PostOk, PatchOk
  <2>3. hot'[r.id] = r.row /\ \A i \in Ids : i # r.id => hot'[i] = hot[i]
    BY <1>2, <2>2 DEF WriteHot, IInv, StoreType
  <2>4. Present(r.id) =>
            /\ r.row.t = hot[r.id].t /\ hot[r.id].proof = NoProof
            /\ hot[r.id].out # "none" => r.row.out = hot[r.id].out
    <3>1. CASE r.kind = "POST"
      BY <2>1, <3>1 DEF ReqOk, PostOk
    <3>2. CASE r.kind = "PATCH"
      BY <2>1, <3>2 DEF ReqOk, PatchOk
    <3> QED
      BY <2>1, <3>1, <3>2
  <2> QED
    BY <2>3, <2>4 DEF KeepsSettled
<1>3. CASE \E r \in req : WriteHot(r)
  BY <1>2, <1>3
<1>4. UNCHANGED hot \/ \E r \in req : WriteHot(r)
  <2>1. CASE Oracle
    BY <2>1 DEF Oracle, PostT0, LookupT0, PostAnswered, PostFailed, VerifyPass, SettleRow,
        SettleSkips, Pass, ReadCandles, EndPass, PatchAnswered, data
  <2>2. CASE Reconciler
    BY <2>2 DEF Reconciler, RepairPass, RepairRow, Pass, ReadCandles, EndPass, PatchAnswered, data
  <2>3. ASSUME NEW c \in Writers, Gateway(c) PROVE UNCHANGED hot \/ \E r \in req : WriteHot(r)
    BY <2>3 DEF Gateway, AliveOf, ReadPost, ReadPatch, WriteCold, data
  <2>4. CASE Tick \/ Refresh \/ \E r \in req : GatewayDies(r)
    BY <2>4 DEF Tick, Refresh, GatewayDies, data
  <2>5. ASSUME NEW c \in Writers, NoEvidence(c) \/ GiveUp(c) \/ Restart(c) PROVE UNCHANGED hot
    BY <2>5 DEF NoEvidence, GiveUp, Restart, data
  <2>6. CASE UNCHANGED vars
    BY <2>6 DEF vars, data
  <2> QED
    BY <2>1, <2>2, <2>3, <2>4, <2>5, <2>6 DEF Next
<1> QED
  BY <1>1, <1>3, <1>4

\* Types of both databases, the requests, both writers and the local rows, for
\* any number of T0s and faults.
THEOREM SettlementTypeCorrect == ASSUME NoOverlap PROVE Spec => []TypeOK
BY SpecIInv, IInvTypeOK, PTL

\* Wherever a write of the gateway is cut off, HOT never names an audit that
\* COLD does not hold (writeBundle's order, COLD then HOT).
THEOREM SettlementBacked == ASSUME NoOverlap PROVE Spec => []HotIsBacked
<1>1. IInv => HotIsBacked
  BY DEF IInv
<1> QED
  BY <1>1, SpecIInv, PTL

\* Every proof is of closed candles of its own T0 (update_outcome_dual,
\* _repair_row): the maturity buffer and the age of legacy rows suffice.
THEOREM SettlementFinal == ASSUME NoOverlap PROVE Spec => []ProvedByFinalCandles
<1>1. IInv => ProvedByFinalCandles
  BY DEF IInv
<1> QED
  BY <1>1, SpecIInv, PTL

\* No request changes what is settled, though rawPatch checks the row when it
\* reads and writes later.
THEOREM SettlementHappensOnce == ASSUME NoOverlap PROVE Spec => SettledOnce
<1>1. IInv /\ [Next]_vars =>
        [\A i \in Ids : Present(i) =>
            /\ hot'[i].t = hot[i].t
            /\ hot[i].out # "none" => hot'[i].out = hot[i].out
            /\ hot[i].proof # NoProof => hot'[i].proof = hot[i].proof]_vars
  BY StepSettles DEF KeepsSettled
<1> QED
  BY <1>1, SpecIInv, PTL DEF Spec, SettledOnce
-----------------------------------------------------------------------------
(* Requests that overlap: whose row a receipt is bound to. *)

\* The gateway serves one POST at a time: no two are between the read that allots
\* an id and the write of the row.  Others may wait, of the same T0 too.
ServedApart ==
    \A r, q \in req : r.kind = "POST" /\ q.kind = "POST" /\ r.at # "sent" /\ q.at # "sent" => r = q

\* Types, and a pass looks at rows there can be.
Typed == StoreType /\ req \subseteq Requests /\ task \in [Writers -> Tasks] /\ CountType

\* A POST at work has an id without a row, a PATCH at work carries its row's T0.
PostBinds(r) == r.row.t # 0 /\ (r.at # "sent" => r.id \in Ids /\ ~Present(r.id))
PatchBinds(r) == r.id \in Ids /\ (r.at # "sent" => r.row.t # 0 /\ r.row.t = hot[r.id].t)
ReqBinds(r) == IF r.kind = "POST" THEN PostBinds(r) ELSE PatchBinds(r)

\* A writer that awaits a POST awaits its T0's, and was answered its T0's row.
TaskBinds(c, k) ==
    /\ k.at = "evidence" => k.id \in Ids
    /\ k.at = "wait" =>
        \A r \in req : r.kind = "POST" /\ r.by = c /\ r.n = k.n => r.row.t = k.t
    /\ k.at = "posted" => k.id \in Ids /\ k.t # 0 /\ hot[k.id].t = k.t

OwnInv ==
    /\ Typed /\ BoundOk
    /\ (\A r \in req : ReqBinds(r)) /\ (\A c \in Writers : TaskBinds(c, task[c]))

\* Request q goes on with what r was about.
Continues(q, r) == q.kind = r.kind /\ q.by = r.by /\ q.n = r.n /\ q.row.t = r.row.t

\* A step that writes no row and sends nothing.
LEMMA OwnKept ==
    ASSUME OwnInv, UNCHANGED hot, StoreType', CountType', BoundOk', req' \subseteq Requests,
           \A q \in req' : ReqBinds(q) /\ (q.kind = "POST" => \E r \in req : Continues(q, r)),
           NEW c \in Writers, NEW k \in Tasks, TaskBinds(c, k), task' = [task EXCEPT ![c] = k]
    PROVE  OwnInv'
<1>1. task' \in [Writers -> Tasks] /\ \A d \in Writers : TaskBinds(d, task'[d])
  BY DEF OwnInv, Typed
<1>2. ASSUME NEW d, NEW j, TaskBinds(d, j) PROVE TaskBinds(d, j)'
  BY <1>2 DEF TaskBinds, Continues
<1>3. ASSUME NEW d \in Writers PROVE TaskBinds(d, task[d])'
  <2>1. TaskBinds(d, task'[d])
    BY <1>1
  <2> QED
    BY <1>2, <2>1 DEF TaskBinds, Continues
<1>4. \A q \in req' : ReqBinds(q)'
  BY DEF ReqBinds, PostBinds, PatchBinds, Present
<1> QED
  BY <1>1, <1>3, <1>4 DEF OwnInv, Typed

\* The same with the stores and the requests as they are, or fewer.
LEMMA OwnTaskKept ==
    ASSUME OwnInv, UNCHANGED <<clock, path, data>>, req' \subseteq req, CountType',
           NEW c \in Writers, NEW k \in Tasks, TaskBinds(c, k), task' = [task EXCEPT ![c] = k]
    PROVE  OwnInv'
<1>1. UNCHANGED hot /\ StoreType' /\ BoundOk'
  BY DEF OwnInv, Typed, StoreType, BoundOk, data
<1>2. /\ req' \subseteq Requests
      /\ \A q \in req' : ReqBinds(q) /\ (q.kind = "POST" => \E r \in req : Continues(q, r))
  BY DEF OwnInv, Typed, Continues
<1> QED
  BY <1>1, <1>2, OwnKept

LEMMA OwnCount ==
    ASSUME OwnInv, NoFault \/ (Fault /\ UNCHANGED tears)
    PROVE  CountType'
BY SettlementAssumption DEF OwnInv, Typed, CountType, NoFault, bounds, Fault

\* Where a writer may go without an answer.
LEMMA OwnTasks ==
    ASSUME OwnInv, NEW c \in Writers
    PROVE  /\ TaskBinds(c, Idle)
           /\ \E k \in Tasks : TaskBinds(c, k) /\ task = [task EXCEPT ![c] = k]
           /\ \E k \in Tasks : TaskBinds(c, k) /\ NextRow(c) = [task EXCEPT ![c] = k]
           /\ \E k \in Tasks : TaskBinds(c, k) /\ AfterError(c) = [task EXCEPT ![c] = k]
           /\ \E k \in Tasks : TaskBinds(c, k) /\ [task EXCEPT ![c].at = "failed"] = [task EXCEPT ![c] = k]
           /\ \A todo \in SUBSET Ids : \E k \in Tasks :
                TaskBinds(c, k) /\ [task EXCEPT ![c].at = "pass", ![c].todo = todo] = [task EXCEPT ![c] = k]
<1>1. task \in [Writers -> Tasks] /\ TaskBinds(c, task[c])
  BY DEF OwnInv, Typed
<1>2. TaskBinds(c, Idle) /\ Idle \in Tasks
  BY Blank DEF TaskBinds, Idle
<1>3. task = [task EXCEPT ![c] = task[c]]
  BY <1>1
<1>4. \E k \in Tasks : TaskBinds(c, k) /\ NextRow(c) = [task EXCEPT ![c] = k]
  <2> DEFINE k == [task[c] EXCEPT !.at = "pass", !.todo = @ \ {task[c].id}]
  <2>1. k \in Tasks /\ k.at = "pass" /\ NextRow(c) = [task EXCEPT ![c] = k]
    BY <1>1 DEF Tasks, NextRow
  <2> HIDE DEF k
  <2> QED
    BY <2>1 DEF TaskBinds
<1>5. \E k \in Tasks : TaskBinds(c, k) /\ [task EXCEPT ![c].at = "failed"] = [task EXCEPT ![c] = k]
  <2> DEFINE k == [task[c] EXCEPT !.at = "failed"]
  <2>1. k \in Tasks /\ k.at = "failed" /\ [task EXCEPT ![c].at = "failed"] = [task EXCEPT ![c] = k]
    BY <1>1 DEF Tasks
  <2> HIDE DEF k
  <2> QED
    BY <2>1 DEF TaskBinds
<1>6. ASSUME NEW todo \in SUBSET Ids
      PROVE  \E k \in Tasks : /\ TaskBinds(c, k)
                              /\ [task EXCEPT ![c].at = "pass", ![c].todo = todo] = [task EXCEPT ![c] = k]
  <2> DEFINE k == [task[c] EXCEPT !.at = "pass", !.todo = todo]
  <2>1. /\ k \in Tasks /\ k.at = "pass"
        /\ [task EXCEPT ![c].at = "pass", ![c].todo = todo] = [task EXCEPT ![c] = k]
    BY <1>1 DEF Tasks
  <2> HIDE DEF k
  <2> QED
    BY <2>1 DEF TaskBinds
<1>7. \E k \in Tasks : TaskBinds(c, k) /\ AfterError(c) = [task EXCEPT ![c] = k]
  BY <1>2, <1>4 DEF AfterError
<1>8. task[c] \in Tasks
  BY <1>1
<1>9. \E k \in Tasks : TaskBinds(c, k) /\ task = [task EXCEPT ![c] = k]
  BY <1>1, <1>3, <1>8, Zenon
<1> QED
  BY <1>2, <1>4, <1>5, <1>6, <1>7, <1>9, Zenon

\* A request is sent under a name no other has.
LEMMA OwnSend ==
    ASSUME OwnInv, UNCHANGED <<clock, path, data, bounds>>, NEW c \in Writers,
           NEW kind \in {"POST", "PATCH"}, NEW i \in 0..MaxId,
           NEW filter \in {"none", "WIN", "LOSS"}, NEW row \in Row,
           Send(c, kind, i, filter, row), ReqBinds(NewReq(c, kind, i, filter, row))
    PROVE  OwnInv'
<1> DEFINE new == NewReq(c, kind, i, filter, row)
<1>1. StoreType' /\ CountType' /\ BoundOk' /\ UNCHANGED hot
  BY DEF OwnInv, Typed, StoreType, CountType, BoundOk, data, bounds
<1>2. Fresh \in 1..MaxRequests /\ \A r \in req : r.n # Fresh
  BY FreshIs DEF Send
<1>3. req' = req \cup {new}
  BY DEF Send, NewReq
<1>4. new \in Requests /\ new.n = Fresh /\ new.by = c /\ new.row = row
  BY <1>2 DEF NewReq, Requests
<1> HIDE DEF new
<1>5. req' \subseteq Requests /\ \A r \in req' : ReqBinds(r)'
  BY <1>1, <1>3, <1>4 DEF OwnInv, Typed, ReqBinds, PostBinds, PatchBinds, Present, new
<1>6. PICK k \in Tasks : /\ k = [task[c] EXCEPT !.at = "wait", !.n = Fresh, !.id = i, !.t = row.t]
                         /\ k.at = "wait" /\ k.n = Fresh /\ k.t = row.t
  <2> DEFINE k == [task[c] EXCEPT !.at = "wait", !.n = Fresh, !.id = i, !.t = row.t]
  <2>1. row.t \in 0..MaxT0 /\ Fresh \in 0..MaxRequests /\ task[c] \in Tasks
    BY <1>2 DEF Row, OwnInv, Typed
  <2>2. k \in Tasks /\ k.at = "wait" /\ k.n = Fresh /\ k.t = row.t
    BY <2>1 DEF Tasks
  <2> QED
    BY <2>2
<1>7. task' = [task EXCEPT ![c] = k]
  BY <1>6 DEF Send, OwnInv, Typed
<1>8. task' \in [Writers -> Tasks]
  BY <1>7 DEF OwnInv, Typed
<1>9. ASSUME NEW d \in Writers PROVE TaskBinds(d, task[d])'
  <2>1. CASE d = c
    <3>1. task'[c] = k
      BY <1>7 DEF OwnInv, Typed
    <3>2. \A r \in req' : r.kind = "POST" /\ r.by = c /\ r.n = k.n => r.row.t = k.t
      BY <1>2, <1>3, <1>4, <1>6
    <3> QED
      BY <1>6, <2>1, <3>1, <3>2 DEF TaskBinds
  <2>2. CASE d # c
    <3>1. task'[d] = task[d] /\ TaskBinds(d, task[d])
      BY <1>7, <2>2 DEF OwnInv, Typed
    <3> QED
      BY <1>1, <1>3, <1>4, <2>2, <3>1 DEF TaskBinds
  <2> QED
    BY <2>1, <2>2
<1> QED
  BY <1>1, <1>5, <1>8, <1>9 DEF OwnInv, Typed

LEMMA OwnPost == ASSUME OwnInv, PostT0 PROVE OwnInv'
<1>1. PICK t \in T0s : Send("oracle", "POST", 0, "none", [NoRow EXCEPT !.t = t])
  BY DEF PostT0
<1> DEFINE row == [NoRow EXCEPT !.t = t]
           r == NewReq("oracle", "POST", 0, "none", row)
<1>2. row \in Row /\ row.t = t /\ t # 0 /\ "oracle" \in Writers /\ 0 \in 0..MaxId
  BY Blank, Sizes DEF NoRow, Writers
<1>3. r.kind = "POST" /\ r.row = row /\ r.at = "sent"
  BY DEF NewReq
<1>4. ReqBinds(r)
  <2> HIDE DEF r, row
  <2> QED
    BY <1>2, <1>3 DEF ReqBinds, PostBinds
<1>5. UNCHANGED <<clock, path, data, bounds>>
  BY DEF PostT0
<1> HIDE DEF row, r
<1> QED
  BY <1>1, <1>2, <1>4, <1>5, OwnSend DEF row, r

\* A PATCH is sent for a row a pass has looked at.
LEMMA OwnPatchSend ==
    ASSUME OwnInv, NEW c \in Writers, task[c].at = "evidence", NEW row \in Row,
           NEW filter \in {"none", "WIN", "LOSS"}, UNCHANGED <<clock, path, data, bounds>>,
           Send(c, "PATCH", task[c].id, filter, row)
    PROVE  OwnInv'
<1> DEFINE r == NewReq(c, "PATCH", task[c].id, filter, row)
<1>1. task[c].id \in Ids /\ task[c].id \in 0..MaxId
  BY Sizes DEF OwnInv, TaskBinds
<1>2. r.kind = "PATCH" /\ r.id = task[c].id /\ r.at = "sent"
  BY DEF NewReq
<1> HIDE DEF r
<1>3. ReqBinds(r)
  BY <1>1, <1>2 DEF ReqBinds, PatchBinds
<1> QED
  BY <1>1, <1>3, OwnSend DEF r

LEMMA OwnSettleRow == ASSUME OwnInv, SettleRow PROVE OwnInv'
<1> DEFINE i == task["oracle"].id
           price == task["oracle"].price
           row == SettledRow(hot[i].t, Fresh, price)
<1>1. /\ Send("oracle", "PATCH", i, "none", row) /\ task["oracle"].at = "evidence"
      /\ UNCHANGED <<clock, path, data, bounds>> /\ "oracle" \in Writers
  BY DEF SettleRow, Writers
<1>2. i \in Ids /\ price \in [Windows -> Prices]
  BY <1>1 DEF OwnInv, Typed, TaskBinds, Tasks
<1>3. Fresh \in 1..MaxRequests /\ hot[i].t \in 0..MaxT0
  BY <1>1, <1>2, FreshIs DEF Send, OwnInv, Typed, StoreType, Row
<1>4. row \in Row
  <2> HIDE DEF i, price
  <2> QED
    BY <1>2, <1>3, OutcomeIs DEF SettledRow, Proved, Row, Proof
<1> HIDE DEF row
<1> QED
  BY <1>1, <1>4, OwnPatchSend

LEMMA OwnRepairRow == ASSUME OwnInv, RepairRow PROVE OwnInv'
<1> DEFINE i == task["reconciler"].id
           price == task["reconciler"].price
           row == [local[i] EXCEPT !.proof = Proved(Fresh, price)]
<1>1. /\ task["reconciler"].at = "evidence" /\ "reconciler" \in Writers
      /\ UNCHANGED <<clock, path, data, bounds>>
  BY DEF RepairRow, Writers
<1>2. CASE task' = NextRow("reconciler") /\ UNCHANGED req
  BY <1>1, <1>2, OwnTasks, OwnCount, OwnTaskKept DEF NoFault
<1>3. CASE ~Conflict(i, price) /\ Send("reconciler", "PATCH", i, local[i].out, row)
  <2>1. i \in Ids /\ price \in [Windows -> Prices]
    BY <1>1 DEF OwnInv, Typed, TaskBinds, Tasks
  <2>2. Fresh \in 1..MaxRequests /\ local[i] \in Row
    BY <1>3, <2>1, FreshIs DEF Send, OwnInv, Typed, StoreType
  <2> HIDE DEF i, price
  <2>3. Proved(Fresh, price) \in Proof
    BY <2>1, <2>2 DEF Proved, Proof
  <2>4. row \in Row /\ local[i].out \in {"none", "WIN", "LOSS"}
    BY <2>2, <2>3 DEF Row
  <2> HIDE DEF row
  <2> QED
    BY <1>1, <1>3, <2>4, OwnPatchSend DEF i
<1> QED
  BY <1>2, <1>3 DEF RepairRow

\* What the oracle learns is of rows there are, and it binds its T0's.
LEMMA OwnLearn ==
    ASSUME OwnInv, UNCHANGED <<clock, path, hot, cold, req>>, NoFault,
           local' \in [Ids -> Row], bound' \in [T0s -> 0..MaxId], BoundOk', NEW c \in Writers,
           NEW k \in Tasks, TaskBinds(c, k), task' = [task EXCEPT ![c] = k]
    PROVE  OwnInv'
<1>1. StoreType' /\ CountType'
  BY OwnCount DEF OwnInv, Typed, StoreType
<1>2. /\ req' \subseteq Requests
      /\ \A q \in req' : ReqBinds(q) /\ (q.kind = "POST" => \E r \in req : Continues(q, r))
  BY DEF OwnInv, Typed, Continues
<1> QED
  BY <1>1, <1>2, OwnKept

LEMMA OwnOracleLearns ==
    ASSUME OwnInv, Refresh \/ LookupT0 \/ PostAnswered
    PROVE  OwnInv'
<1>0. /\ "oracle" \in Writers /\ local \in [Ids -> Row] /\ hot \in [Ids -> Row]
      /\ bound \in [T0s -> 0..MaxId] /\ task["oracle"] \in Tasks
  BY DEF OwnInv, Typed, StoreType, Writers
<1>1. CASE Refresh
  <2>1. BoundOk' /\ local' \in [Ids -> Row] /\ bound' \in [T0s -> 0..MaxId]
    BY <1>0, <1>1 DEF Refresh, OwnInv, BoundOk
  <2> QED
    BY <1>0, <1>1, <2>1, OwnTasks, OwnLearn DEF Refresh
<1>2. CASE LookupT0
  <2>1. PICK t \in T0s, i \in Ids :
          /\ hot[i].t = t
          /\ bound' = [bound EXCEPT ![t] = i] /\ local' = [local EXCEPT ![i] = hot[i]]
    BY <1>2 DEF LookupT0, RowsOf
  <2>2. UNCHANGED <<clock, path, hot, cold, req, task>> /\ NoFault
    BY <1>2 DEF LookupT0
  <2>3. BoundOk' /\ local' \in [Ids -> Row] /\ bound' \in [T0s -> 0..MaxId]
    BY <1>0, <2>1, <2>2, Sizes DEF OwnInv, BoundOk
  <2> QED
    BY <1>0, <2>2, <2>3, OwnTasks, OwnLearn
<1>3. CASE PostAnswered
  <2> DEFINE t == task["oracle"].t
             i == task["oracle"].id
  <2>1. i \in Ids /\ t # 0 /\ hot[i].t = t /\ t \in 0..MaxT0
    BY <1>0, <1>3 DEF PostAnswered, OwnInv, TaskBinds, Tasks
  <2>2. /\ bound' = [bound EXCEPT ![t] = i] /\ local' = [local EXCEPT ![i] = [NoRow EXCEPT !.t = t]]
        /\ task' = [task EXCEPT !["oracle"] = Idle] /\ UNCHANGED <<clock, path, hot, cold, req>>
        /\ NoFault
    BY <1>3 DEF PostAnswered
  <2> HIDE DEF t, i
  <2>3. BoundOk' /\ local' \in [Ids -> Row] /\ bound' \in [T0s -> 0..MaxId]
    BY <1>0, <2>1, <2>2, Sizes, Blank DEF OwnInv, BoundOk
  <2> QED
    BY <1>0, <2>2, <2>3, OwnTasks, OwnLearn, Blank
<1> QED
  BY <1>1, <1>2, <1>3

LEMMA OwnPatchAnswered == ASSUME OwnInv, NEW c \in Writers, PatchAnswered(c) PROVE OwnInv'
<1>1. CASE ~Settles(c)
  <2>1. UNCHANGED <<clock, path, data, req>> /\ NoFault
    BY <1>1 DEF PatchAnswered, data
  <2>2. task' = NextRow(c) \/ task' = AfterError(c)
    BY DEF PatchAnswered
  <2> QED
    BY <2>1, <2>2, OwnTasks, OwnCount, OwnTaskKept
<1>2. CASE Settles(c)
  <2> DEFINE row == SettledRow(task[c].t, task[c].n, task[c].price)
  <2>1. /\ local' = [local EXCEPT ![task[c].id] = row] /\ task' = NextRow(c)
        /\ UNCHANGED <<clock, path, hot, cold, bound, req>> /\ NoFault
    BY <1>2 DEF PatchAnswered, Settles
  <2>2. task[c].t \in 0..MaxT0 /\ task[c].n \in 0..MaxRequests /\ task[c].price \in [Windows -> Prices]
    BY DEF OwnInv, Typed, Tasks
  <2>3. row \in Row
    BY <2>2, OutcomeIs DEF SettledRow, Proved, Row, Proof
  <2> HIDE DEF row
  <2>4. BoundOk' /\ local' \in [Ids -> Row] /\ bound' \in [T0s -> 0..MaxId]
    BY <2>1, <2>3 DEF OwnInv, Typed, StoreType, BoundOk
  <2> QED
    BY <2>1, <2>4, OwnTasks, OwnLearn
<1> QED
  BY <1>1, <1>2

LEMMA OwnReadCandles == ASSUME OwnInv, NEW c \in Writers, ReadCandles(c) PROVE OwnInv'
<1> DEFINE i == Min(task[c].todo)
           t == local[i].t
<1>1. PICK price \in [Windows -> Prices] :
        task' = [task EXCEPT ![c].at = "evidence", ![c].id = i, ![c].t = t, ![c].price = price]
  BY DEF ReadCandles
<1>2. i \in Ids /\ i \in 0..MaxId
  <2>1. task[c].todo \in SUBSET Ids /\ task[c].todo # {}
    BY DEF ReadCandles, OwnInv, Typed, Tasks
  <2>2. task[c].todo \in SUBSET Nat
    BY <2>1, Sizes
  <2> QED
    BY <2>1, <2>2, MinIn, Sizes
<1> HIDE DEF i
<1>3. t \in 0..MaxT0
  BY <1>2 DEF OwnInv, Typed, StoreType, Row
<1> HIDE DEF t
<1> DEFINE k == [task[c] EXCEPT !.at = "evidence", !.id = i, !.t = t, !.price = price]
<1>4. k \in Tasks /\ k.at = "evidence" /\ k.id = i /\ task' = [task EXCEPT ![c] = k]
  BY <1>1, <1>2, <1>3 DEF OwnInv, Typed, Tasks
<1> HIDE DEF k
<1>5. TaskBinds(c, k)
  BY <1>2, <1>4 DEF TaskBinds
<1>6. UNCHANGED <<clock, path, data, req>> /\ NoFault
  BY DEF ReadCandles
<1> QED
  BY <1>4, <1>5, <1>6, OwnCount, OwnTaskKept

\* A request goes on, and what it is about with it.
LEMMA OwnAdvance ==
    ASSUME OwnInv, UNCHANGED <<clock, path, hot, local, bound, task, bounds>>,
           cold' \in [Ids -> [t : 0..MaxT0, proof : Proof]], NEW r \in req, NEW q \in Requests,
           req' = (req \ {r}) \cup {q}, ReqBinds(q), q.kind = "POST" => Continues(q, r)
    PROVE  OwnInv'
<1>1. StoreType' /\ CountType' /\ BoundOk'
  BY DEF OwnInv, Typed, StoreType, CountType, BoundOk, bounds
<1>2. /\ req' \subseteq Requests
      /\ \A p \in req' : ReqBinds(p) /\ (p.kind = "POST" => \E u \in req : Continues(p, u))
  BY DEF OwnInv, Typed, Continues
<1>3. "oracle" \in Writers /\ UNCHANGED task
  BY DEF Writers
<1> QED
  BY <1>1, <1>2, <1>3, OwnTasks, OwnKept

\* A request ends without a write, and its writer may hear of it.
LEMMA OwnEnds ==
    ASSUME OwnInv, UNCHANGED <<clock, path, data>>, CountType', NEW r \in req,
           NEW result \in {"failed", "empty"}, req' = req \ {r}, Answer(r, result)
    PROVE  OwnInv'
<1> DEFINE c == r.by
           k == [task[c] EXCEPT !.at = result, !.id = r.id]
<1>1. c \in Writers /\ r.id \in 0..MaxId /\ task \in [Writers -> Tasks]
  BY DEF OwnInv, Typed, Requests
<1>2. k \in Tasks /\ k.at = result
  BY <1>1 DEF Tasks
<1>3. task' = [task EXCEPT ![c] = k] \/ task' = [task EXCEPT ![c] = task[c]]
  BY <1>1 DEF Answer
<1> HIDE DEF k, c
<1>4. TaskBinds(c, k) /\ TaskBinds(c, task[c]) /\ task[c] \in Tasks
  BY <1>1, <1>2 DEF TaskBinds, OwnInv
<1>5. req' \subseteq req
  OBVIOUS
<1> QED
  BY <1>1, <1>2, <1>3, <1>4, <1>5, OwnTaskKept

LEMMA OwnReadPost == ASSUME OwnInv, NEW r \in req, ReadPost(r) PROVE OwnInv'
<1>1. r \in Requests /\ r.kind = "POST" /\ ReqBinds(r)
  BY DEF ReadPost, OwnInv, Typed
<1>2. PICK next \in Ids : ~Present(next) /\ req' = (req \ {r}) \cup {[r EXCEPT !.id = next, !.at = "read"]}
  BY NextIdIs DEF ReadPost
<1> DEFINE q == [r EXCEPT !.id = next, !.at = "read"]
<1>3. UNCHANGED <<clock, path, hot, cold, local, bound, task, bounds>>
  BY DEF ReadPost, data
<1>4. /\ q \in Requests /\ q.by = r.by /\ q.row = r.row /\ q.id = next /\ q.at = "read"
      /\ q.kind = "POST" /\ q.n = r.n
  <2>1. next \in 0..MaxId
    BY Sizes
  <2> QED
    BY <1>1, <2>1 DEF Requests
<1> HIDE DEF q
<1>5. ReqBinds(q) /\ Continues(q, r)
  BY <1>1, <1>2, <1>4 DEF ReqBinds, PostBinds, Continues
<1>6. cold' \in [Ids -> [t : 0..MaxT0, proof : Proof]]
  BY <1>3 DEF OwnInv, Typed, StoreType
<1> QED
  BY <1>2, <1>3, <1>4, <1>5, <1>6, OwnAdvance DEF q

LEMMA OwnReadPatch == ASSUME OwnInv, NEW r \in req, ReadPatch(r) PROVE OwnInv'
<1>1. r \in Requests /\ ReqBinds(r) /\ r.kind = "PATCH"
  BY DEF ReadPatch, OwnInv, Typed
<1>2. UNCHANGED <<clock, path, hot, cold, local, bound, bounds>>
  BY DEF ReadPatch, data
<1>3. cold' \in [Ids -> [t : 0..MaxT0, proof : Proof]]
  BY <1>2 DEF OwnInv, Typed, StoreType
<1>4. CASE Filtered(r) /\ Matches(r.id)
  <2> DEFINE q == [r EXCEPT !.row.t = hot[r.id].t, !.at = "read"]
  <2>1. req' = (req \ {r}) \cup {q} /\ UNCHANGED task /\ r.kind = "PATCH" /\ r.id \in Ids
    BY <1>1, <1>4 DEF ReadPatch, ReqBinds, PatchBinds
  <2>2. hot[r.id].t \in 0..MaxT0 /\ hot[r.id].t # 0
    BY <1>4, <2>1 DEF Filtered, Present, OwnInv, Typed, StoreType, Row
  <2>3. q \in Requests /\ q.id = r.id /\ q.at = "read" /\ q.kind = "PATCH" /\ q.row.t = hot[r.id].t
    <3>1. PICK row : row = [r.row EXCEPT !.t = hot[r.id].t]
      OBVIOUS
    <3>2. row \in Row /\ row.t = hot[r.id].t
      BY <1>1, <2>2, <3>1 DEF Requests, Row
    <3>3. q = [r EXCEPT !.row = row, !.at = "read"]
      BY <1>1, <3>1 DEF Requests
    <3> QED
      BY <1>1, <2>1, <3>2, <3>3 DEF Requests
  <2> HIDE DEF q
  <2>4. ReqBinds(q)
    BY <2>1, <2>2, <2>3 DEF ReqBinds, PatchBinds
  <2> QED
    BY <1>2, <1>3, <2>1, <2>3, <2>4, OwnAdvance
<1>5. CASE ~(Filtered(r) /\ Matches(r.id))
  <2>1. PICK result \in {"failed", "empty"} : req' = req \ {r} /\ Answer(r, result)
    BY <1>5 DEF ReadPatch
  <2>2. UNCHANGED <<clock, path, data>> /\ CountType'
    BY <1>2 DEF data, bounds, OwnInv, Typed, CountType
  <2> QED
    BY <2>1, <2>2, OwnEnds
<1> QED
  BY <1>4, <1>5

LEMMA OwnDies == ASSUME OwnInv, NEW r \in req, GatewayDies(r) PROVE OwnInv'
<1>1. CountType'
  BY SettlementAssumption DEF GatewayDies, Fault, OwnInv, Typed, CountType
<1> QED
  BY <1>1, OwnEnds DEF GatewayDies

LEMMA OwnWriteCold == ASSUME OwnInv, NEW r \in req, WriteCold(r) PROVE OwnInv'
<1> DEFINE q == [r EXCEPT !.at = "cold"]
<1>1. r \in Requests /\ r.at = "read" /\ r.row \in Row /\ ReqBinds(r)
  BY DEF WriteCold, OwnInv, Typed, Requests
<1>2. /\ UNCHANGED <<clock, path, hot, local, bound, task, bounds>>
      /\ cold' = [cold EXCEPT ![r.id] = Audit(r.row)] /\ req' = (req \ {r}) \cup {q}
  BY DEF WriteCold
<1>3. /\ q \in Requests /\ q.by = r.by /\ q.row = r.row /\ q.id = r.id /\ q.at = "cold"
      /\ q.kind = r.kind /\ q.n = r.n
  BY <1>1 DEF Requests
<1> HIDE DEF q
<1>4. Audit(r.row) \in [t : 0..MaxT0, proof : Proof]
  BY <1>1 DEF Audit, Row
<1>5. cold' \in [Ids -> [t : 0..MaxT0, proof : Proof]]
  BY <1>2, <1>4 DEF OwnInv, Typed, StoreType
<1>6. ReqBinds(q) /\ Continues(q, r)
  BY <1>1, <1>3 DEF ReqBinds, PostBinds, PatchBinds, Continues
<1> QED
  BY <1>2, <1>3, <1>5, <1>6, OwnAdvance

\* HOT gets a row: a new one, or one of the T0 it is of.
LEMMA OwnWriteHot == ASSUME OwnInv, ServedApart, NEW r \in req, WriteHot(r) PROVE OwnInv'
<1> DEFINE c == r.by
           result == IF r.kind = "POST" THEN "posted" ELSE "done"
<1>1. /\ r \in Requests /\ r.at = "cold" /\ r.row \in Row /\ r.kind \in {"POST", "PATCH"}
      /\ ReqBinds(r) /\ c \in Writers /\ task \in [Writers -> Tasks] /\ r.id \in 0..MaxId
  BY DEF WriteHot, OwnInv, Typed, Requests
<1>2. r.id \in Ids /\ r.row.t # 0
  BY <1>1 DEF ReqBinds, PostBinds, PatchBinds
<1>3. /\ UNCHANGED <<clock, path, cold, local, bound, bounds>> /\ hot' = [hot EXCEPT ![r.id] = r.row]
      /\ req' = req \ {r} /\ Answer(r, result)
  BY DEF WriteHot
<1>4. /\ hot'[r.id] = r.row /\ \A i \in Ids : i # r.id => hot'[i] = hot[i]
      /\ StoreType' /\ CountType' /\ req' \subseteq Requests
  BY <1>1, <1>2, <1>3 DEF OwnInv, Typed, StoreType, CountType, bounds
<1>5. \A i \in Ids : Present(i) => hot'[i].t = hot[i].t
  BY <1>1, <1>4 DEF ReqBinds, PostBinds, PatchBinds, Present
<1>6. BoundOk'
  <2>1. \A t \in T0s : bound[t] # 0 => bound[t] \in Ids /\ t # 0
    BY Sizes DEF OwnInv, Typed, StoreType
  <2> QED
    BY <1>3, <1>5, <2>1 DEF OwnInv, BoundOk, Present
<1>7. ASSUME NEW q \in req' PROVE ReqBinds(q)'
  <2>1. q \in req /\ q # r /\ ReqBinds(q) /\ q \in Requests
    BY <1>3 DEF OwnInv, Typed
  <2>2. CASE q.kind = "POST"
    <3>1. q.at # "sent" => r.kind = "PATCH"
      BY <1>1, <2>1, <2>2 DEF ServedApart
    <3>2. q.at # "sent" => hot[r.id].t # 0 /\ hot[q.id].t = 0 /\ q.id \in Ids
      BY <1>1, <2>1, <2>2, <3>1 DEF ReqBinds, PostBinds, PatchBinds, Present
    <3> QED
      BY <1>4, <2>1, <2>2, <3>2 DEF ReqBinds, PostBinds, Present
  <2>3. CASE q.kind # "POST"
    BY <1>5, <2>1, <2>3 DEF ReqBinds, PatchBinds, Present
  <2> QED
    BY <2>2, <2>3
<1>8. PICK k \in Tasks :
        /\ k = [task[c] EXCEPT !.at = result, !.id = r.id]
        /\ k.at = result /\ k.id = r.id /\ k.t = task[c].t
  <2> DEFINE j == [task[c] EXCEPT !.at = result, !.id = r.id]
  <2>1. result \in {"posted", "done"} /\ task[c] \in Tasks
    BY <1>1
  <2>2. j \in Tasks /\ j.at = result /\ j.id = r.id /\ j.t = task[c].t
    <3> HIDE DEF result, c
    <3> QED
      BY <1>1, <2>1 DEF Tasks
  <2> QED
    BY <2>2
<1>9. IF task[c].at = "wait" /\ task[c].n = r.n THEN task' = [task EXCEPT ![c] = k] ELSE task' = task
  BY <1>1, <1>3, <1>8 DEF Answer
<1>10. task' \in [Writers -> Tasks]
  BY <1>1, <1>8, <1>9
<1>11. ASSUME NEW d \in Writers, NEW j, TaskBinds(d, j) PROVE TaskBinds(d, j)'
  <2>1. j.at = "posted" => hot'[j.id].t = j.t
    BY <1>5, <1>11 DEF TaskBinds, Present
  <2> QED
    BY <1>3, <1>11, <2>1 DEF TaskBinds
<1>12. ASSUME task[c].at = "wait", task[c].n = r.n PROVE TaskBinds(c, k)'
  <2>1. k.at = "posted" => r.row.t = k.t
    BY <1>1, <1>8, <1>12 DEF OwnInv, TaskBinds
  <2>2. k.at \in {"posted", "done"}
    BY <1>8
  <2> HIDE DEF result, c
  <2> QED
    BY <1>2, <1>4, <1>8, <2>1, <2>2 DEF TaskBinds
<1>13. ASSUME NEW d \in Writers PROVE TaskBinds(d, task[d])'
  <2>1. TaskBinds(d, task[d])
    BY DEF OwnInv
  <2>2. CASE task'[d] = task[d]
    BY <1>11, <2>1, <2>2 DEF TaskBinds
  <2>3. CASE task'[d] # task[d]
    <3>1. d = c /\ task'[c] = k /\ task[c].at = "wait" /\ task[c].n = r.n
      BY <1>1, <1>9, <2>3
    <3> QED
      BY <1>12, <3>1 DEF TaskBinds
  <2> QED
    BY <2>2, <2>3
<1> QED
  BY <1>4, <1>6, <1>7, <1>10, <1>13 DEF OwnInv, Typed

LEMMA OwnStep == ASSUME OwnInv, ServedApart, [Next]_vars PROVE OwnInv'
<1>0. "oracle" \in Writers /\ "reconciler" \in Writers
  BY DEF Writers
<1>1. CASE Tick
  <2>1. UNCHANGED <<path, hot, cold, local, bound, req, task>> /\ NoFault /\ clock' = clock + 1
    BY <1>1 DEF Tick, data, NoFault
  <2>2. StoreType' /\ CountType' /\ BoundOk'
    BY <1>1, <2>1, OwnCount DEF Tick, OwnInv, Typed, StoreType, BoundOk, StartTick, MaxTick
  <2>3. /\ req' \subseteq Requests
        /\ \A q \in req' : ReqBinds(q) /\ (q.kind = "POST" => \E r \in req : Continues(q, r))
    BY <2>1 DEF OwnInv, Typed, Continues
  <2> QED
    BY <1>0, <2>1, <2>2, <2>3, OwnTasks, OwnKept
<1>2. CASE PostFailed \/ (\E c \in Writers : EndPass(c) \/ Restart(c))
  BY <1>0, <1>2, OwnTasks, OwnCount, OwnTaskKept, Blank DEF PostFailed, EndPass, Restart
<1>3. CASE VerifyPass
  BY <1>0, <1>3, OwnTasks, OwnCount, OwnTaskKept DEF VerifyPass, Oldest
<1>4. CASE RepairPass
  BY <1>0, <1>4, OwnTasks, OwnCount, OwnTaskKept DEF RepairPass, Oldest
<1>5. CASE SettleSkips
  BY <1>0, <1>5, OwnTasks, OwnCount, OwnTaskKept DEF SettleSkips
<1>6. ASSUME NEW c \in Writers, NoEvidence(c) PROVE OwnInv'
  <2>1. NoFault \/ (Fault /\ UNCHANGED tears)
    BY <1>6 DEF NoEvidence, NoFault, bounds
  <2> QED
    BY <1>6, <2>1, OwnTasks, OwnCount, OwnTaskKept DEF NoEvidence
<1>7. ASSUME NEW c \in Writers, GiveUp(c) PROVE OwnInv'
  BY <1>7, OwnTasks, OwnCount, OwnTaskKept DEF GiveUp
<1>8. ASSUME NEW c \in Writers, Pass(c) PROVE OwnInv'
  BY <1>2, <1>8, OwnReadCandles, OwnPatchAnswered DEF Pass
<1>9. CASE UNCHANGED vars
  <2>1. UNCHANGED <<clock, path, data, req, task>> /\ NoFault
    BY <1>9 DEF vars, NoFault
  <2> QED
    BY <1>0, <2>1, OwnTasks, OwnCount, OwnTaskKept
<1>10. CASE Oracle
  BY <1>0, <1>2, <1>3, <1>5, <1>8, <1>10, OwnPost, OwnOracleLearns, OwnSettleRow DEF Oracle
<1>11. CASE Reconciler
  BY <1>0, <1>4, <1>8, <1>11, OwnRepairRow DEF Reconciler
<1>12. ASSUME NEW c \in Writers, Gateway(c) PROVE OwnInv'
  BY <1>12, OwnReadPost, OwnReadPatch, OwnWriteCold, OwnWriteHot DEF Gateway, AliveOf
<1> QED
  BY <1>1, <1>2, <1>6, <1>7, <1>9, <1>10, <1>11, <1>12, OwnOracleLearns, OwnDies DEF Next

LEMMA OwnInvariant == Spec /\ []ServedApart => []OwnInv
<1>1. Init => OwnInv
  <2>1. ASSUME Init PROVE OwnInv
    <3>1. IInv /\ req = {} /\ task = [c \in Writers |-> Idle]
      BY <2>1, InitIInv DEF Init
    <3> QED
      BY <3>1 DEF IInv, OwnInv, Typed, TaskBinds, Idle
  <2> QED
    BY <2>1
<1>2. OwnInv /\ ServedApart /\ [Next]_vars => OwnInv'
  BY OwnStep
<1> QED
  BY <1>1, <1>2, PTL DEF Spec

\* No two POSTs are alive at the gateway.  PATCHes may be, of both writers.
PostsApart == \A r, q \in req : r.kind = "POST" /\ q.kind = "POST" => r = q

\* No T0 has two rows, and one that is being posted has none.
OneRow ==
    /\ \A i, j \in Ids : Present(i) /\ hot[i].t = hot[j].t => i = j
    /\ \A r \in req : r.kind = "POST" => RowsOf(r.row.t) = {}

\* A step that writes no row posts only T0s that have none.
LEMMA PostsContinue ==
    ASSUME OwnInv, [Next]_vars
    PROVE  \/ \E r \in req : WriteHot(r)
           \/ /\ UNCHANGED hot
              /\ \A q \in req' : q.kind = "POST" =>
                    \/ \E r \in req : r.kind = "POST" /\ r.row.t = q.row.t
                    \/ RowsOf(q.row.t) = {}
<1> DEFINE Good(Q) ==
        \A q \in Q : q.kind = "POST" =>
            (\E r \in req : r.kind = "POST" /\ r.row.t = q.row.t) \/ RowsOf(q.row.t) = {}
<1>1. ASSUME req' \subseteq req PROVE Good(req')
  BY <1>1
<1>2. ASSUME PostT0 PROVE UNCHANGED hot /\ Good(req')
  <2>1. PICK t \in T0s : RowsOf(t) = {} /\ Send("oracle", "POST", 0, "none", [NoRow EXCEPT !.t = t])
    BY <1>2 DEF PostT0
  <2>2. req' = req \cup {NewReq("oracle", "POST", 0, "none", [NoRow EXCEPT !.t = t])}
    BY <2>1 DEF Send, NewReq
  <2>3. NewReq("oracle", "POST", 0, "none", [NoRow EXCEPT !.t = t]).row.t = t
    BY DEF NewReq, NoRow
  <2> QED
    BY <1>2, <2>1, <2>2, <2>3 DEF PostT0, data
<1>3. ASSUME NEW c, NEW i, NEW f, NEW row, Send(c, "PATCH", i, f, row) PROVE Good(req')
  <2>1. req' = req \cup {NewReq(c, "PATCH", i, f, row)} /\ NewReq(c, "PATCH", i, f, row).kind = "PATCH"
    BY <1>3 DEF Send, NewReq
  <2> QED
    BY <2>1
<1>4. ASSUME SettleRow \/ RepairRow PROVE UNCHANGED hot /\ Good(req')
  <2>1. CASE SettleRow
    BY <1>3, <2>1 DEF SettleRow, data
  <2>2. CASE RepairRow
    BY <1>1, <1>3, <2>2 DEF RepairRow, data
  <2> QED
    BY <1>4, <2>1, <2>2
<1>5. ASSUME NEW r \in req, ReadPost(r) \/ ReadPatch(r) \/ WriteCold(r)
      PROVE  UNCHANGED hot /\ Good(req')
  <2>1. r \in Requests
    BY DEF OwnInv, Typed
  <2>2. UNCHANGED hot
    BY <1>5 DEF ReadPost, ReadPatch, WriteCold, data
  <2>3. req' \subseteq req \/ \E q : /\ req' = (req \ {r}) \cup {q}
                                     /\ q.kind = r.kind /\ (r.kind = "POST" => q.row.t = r.row.t)
    <3>1. CASE ReadPost(r)
      <4>1. PICK n : req' = (req \ {r}) \cup {[r EXCEPT !.id = n, !.at = "read"]}
        BY <3>1 DEF ReadPost
      <4>2. [r EXCEPT !.id = n, !.at = "read"].kind = r.kind /\ [r EXCEPT !.id = n, !.at = "read"].row = r.row
        BY <2>1 DEF Requests
      <4> QED
        BY <4>1, <4>2
    <3>2. CASE ReadPatch(r)
      <4>1. r.kind = "PATCH" /\ [r EXCEPT !.row.t = hot[r.id].t, !.at = "read"].kind = r.kind
        BY <2>1, <3>2 DEF ReadPatch, Requests
      <4>2. req' \subseteq req \/ req' = (req \ {r}) \cup {[r EXCEPT !.row.t = hot[r.id].t, !.at = "read"]}
        BY <3>2 DEF ReadPatch
      <4> QED
        BY <4>1, <4>2
    <3>3. CASE WriteCold(r)
      <4>1. [r EXCEPT !.at = "cold"].kind = r.kind /\ [r EXCEPT !.at = "cold"].row = r.row
        BY <2>1 DEF Requests
      <4> QED
        BY <3>3, <4>1 DEF WriteCold
    <3> QED
      BY <1>5, <3>1, <3>2, <3>3
  <2> QED
    BY <2>2, <2>3
<1>6. ASSUME UNCHANGED <<hot, req>> \/ (UNCHANGED hot /\ req' \subseteq req) PROVE UNCHANGED hot /\ Good(req')
  BY <1>1, <1>6
<1> HIDE DEF Good
<1>7. ASSUME NEW c \in Writers, Pass(c) PROVE UNCHANGED hot /\ Good(req')
  BY <1>6, <1>7 DEF Pass, ReadCandles, EndPass, PatchAnswered, data
<1>8. CASE Oracle
  BY <1>2, <1>4, <1>6, <1>7, <1>8
     DEF Oracle, LookupT0, PostAnswered, PostFailed, VerifyPass, SettleSkips, data, Writers, Good
<1>9. CASE Reconciler
  BY <1>4, <1>6, <1>7, <1>9 DEF Reconciler, RepairPass, data, Writers, Good
<1>10. CASE Tick \/ Refresh \/ UNCHANGED vars \/ \E r \in req : GatewayDies(r)
  <2>1. UNCHANGED hot /\ req' \subseteq req
    BY <1>10 DEF Tick, Refresh, vars, GatewayDies, data
  <2> QED
    BY <1>6, <2>1 DEF Good
<1>11. ASSUME NEW c \in Writers, Gateway(c)
       PROVE  (\E r \in req : WriteHot(r)) \/ (UNCHANGED hot /\ Good(req'))
  BY <1>5, <1>11 DEF Gateway, AliveOf, Good
<1>12. ASSUME NEW c \in Writers, NoEvidence(c) \/ GiveUp(c) \/ Restart(c) PROVE UNCHANGED hot /\ Good(req')
  <2>1. UNCHANGED hot /\ req' \subseteq req
    BY <1>12 DEF NoEvidence, GiveUp, Restart, data
  <2> QED
    BY <1>6, <2>1 DEF Good
<1> QED
  BY <1>8, <1>9, <1>10, <1>11, <1>12 DEF Next, Good

LEMMA OneRowStep == ASSUME OwnInv, OneRow, PostsApart, [Next]_vars PROVE OneRow'
<1>1. CASE \E r \in req : WriteHot(r)
  <2>1. PICK r \in req : WriteHot(r)
    BY <1>1
  <2>2. /\ r \in Requests /\ r.at = "cold" /\ ReqBinds(r) /\ req' = req \ {r}
        /\ hot' = [hot EXCEPT ![r.id] = r.row] /\ DOMAIN hot = Ids /\ r.kind \in {"POST", "PATCH"}
    BY <2>1 DEF WriteHot, OwnInv, Typed, StoreType, Requests
  <2>3. r.id \in Ids /\ r.row.t # 0
    BY <2>2 DEF ReqBinds, PostBinds, PatchBinds
  <2>4. hot'[r.id] = r.row /\ \A i \in Ids : i # r.id => hot'[i] = hot[i]
    BY <2>2, <2>3
  <2>5. CASE r.kind = "PATCH"
    <3>1. \A i \in Ids : hot'[i].t = hot[i].t
      BY <2>2, <2>4, <2>5 DEF ReqBinds, PatchBinds
    <3>2. \A t : RowsOf(t)' = RowsOf(t)
      BY <3>1 DEF RowsOf
    <3> QED
      BY <2>2, <3>1, <3>2 DEF OneRow, Present
  <2>6. CASE r.kind = "POST"
    <3>1. \A q \in req' : q.kind # "POST"
      BY <2>2, <2>6 DEF PostsApart
    <3>2. \A i \in Ids : hot[i].t # r.row.t
      BY <2>6 DEF OneRow, RowsOf
    <3> QED
      BY <2>3, <2>4, <3>1, <3>2 DEF OneRow, Present
  <2> QED
    BY <2>2, <2>5, <2>6
<1>2. CASE /\ UNCHANGED hot
           /\ \A q \in req' : q.kind = "POST" =>
                 \/ \E r \in req : r.kind = "POST" /\ r.row.t = q.row.t
                 \/ RowsOf(q.row.t) = {}
  <2>1. \A t : RowsOf(t)' = RowsOf(t)
    BY <1>2 DEF RowsOf
  <2>2. \A q \in req' : q.kind = "POST" => RowsOf(q.row.t) = {}
    BY <1>2 DEF OneRow
  <2>3. \A q \in req' : q.kind = "POST" => RowsOf(q.row.t)' = {}
    BY <2>1, <2>2
  <2>4. \A i, j \in Ids : Present(i)' /\ hot'[i].t = hot'[j].t => i = j
    BY <1>2 DEF OneRow, Present
  <2> QED
    BY <2>3, <2>4 DEF OneRow, RowsOf
<1> QED
  BY <1>1, <1>2, PostsContinue

LEMMA OneRowBinds == BoundOk /\ OneRow => BoundToItsRow
<1> SUFFICES ASSUME BoundOk, OneRow, NEW t \in T0s
             PROVE  Cardinality(RowsOf(t)) <= 1 /\ (bound[t] # 0 => hot[bound[t]].t = t)
  BY DEF BoundToItsRow
<1>1. bound[t] # 0 => hot[bound[t]].t = t
  BY DEF BoundOk
<1>2. \A i, j \in RowsOf(t) : i = j
  BY Sizes DEF OneRow, RowsOf, Present
<1>3. CASE RowsOf(t) = {}
  BY <1>1, <1>3, FS_EmptySet
<1>4. CASE RowsOf(t) # {}
  <2>1. PICK i : RowsOf(t) = {i}
    BY <1>2, <1>4
  <2> QED
    BY <1>1, <2>1, FS_Singleton
<1> QED
  BY <1>3, <1>4

\* With any requests of either writer overlapping, two POSTs of one T0 among them,
\* a receipt stays bound to a row of its own T0, as long as the gateway does not
\* take up a POST (rawPost's read of the greatest id) before the last has written.
THEOREM SettlementKeepsBindings == Spec /\ []ServedApart => []BoundOk
<1>1. OwnInv => BoundOk
  BY DEF OwnInv
<1> QED
  BY <1>1, OwnInvariant, PTL

\* A receipt is bound to its T0's row, of which there is one, through lost and torn
\* POST answers, restarts and the lookup before a T0 is posted again, whatever
\* PATCHes overlap: only two POSTs alive at once can post a T0 twice or misbind it.
THEOREM SettlementBindsExactly == Spec /\ []PostsApart => []BoundToItsRow
<1>1. PostsApart => ServedApart
  BY DEF PostsApart, ServedApart
<1>2. Init => OneRow
  <2>1. ASSUME Init PROVE OneRow
    BY <2>1, InitIInv DEF Init, IInv, HotOk, OneRow
  <2> QED
    BY <2>1
<1>3. OwnInv /\ OneRow /\ PostsApart /\ [Next]_vars => OneRow'
  BY OneRowStep
<1>4. OwnInv /\ OneRow => BoundToItsRow
  BY OneRowBinds DEF OwnInv
<1> QED
  BY <1>1, <1>2, <1>3, <1>4, OwnInvariant, PTL DEF Spec
=============================================================================
