----------------------- MODULE AuthoritySnapshotProofs -----------------------
(***************************************************************************)
(* The monitor's snapshot, for any interval, TTL, latency, rows, faults    *)
(* and number of count requests at a time.  The first invariant (Counting, *)
(* Serving) carries the types and the timing; the second (Enough, Recent)  *)
(* that no count falls short of its cursor, that every call rests on a     *)
(* cursor its process's count has reached, and what a capture covers.      *)
(***************************************************************************)
EXTENDS AuthoritySnapshot, SequenceTheorems, TLAPS

Calls == [at : {"idle", "boot", "scanned", "asked", "answered", "done", "failed"},
          from : 0..MaxRows, got : Nat]

\* A count and a call of n committed rows.
InCount(s, n) == s \in Counts /\ s.cursor <= n
InCall(x, n) ==
    /\ x \in Calls
    /\ x.at \in {"boot", "scanned", "asked", "answered"} => x.from <= n
    /\ x.at \in {"scanned", "answered"} => x.got <= n
    /\ x.at = "answered" => x.from <= x.got

Rows == rows \in Seq(0..Old) /\ Committed <= MaxRows

Counting ==
    /\ count \in [Processes -> Counts] /\ \A p \in Processes : InCount(count[p], Committed)
    /\ InCount(file, Committed) /\ guard \in BOOLEAN
    /\ call \in [Callers -> Calls] /\ \A c \in Callers : InCall(call[c], Committed)

\* A capture takes at most MaxLatency; a success is never older than the sleep,
\* or the Period and the capture, that followed it.
Timed ==
    /\ phase = "start" => pub.gen = 0
    /\ phase = "capture" => since <= MaxLatency
    /\ pub.gen > 0 /\ ~err /\ phase = "sleep" => age <= since
    /\ pub.gen > 0 /\ ~err /\ phase = "capture" => age <= Period + since

Serving ==
    /\ hist \in [at : {"none", "asked", "done", "failed"}, rows : 0..MaxRows]
    /\ phase \in {"start", "capture", "sleep"} /\ first \in BOOLEAN /\ since \in 0..Period
    /\ pub \in [gen : Nat, rows : 0..MaxRows, total : Nat]
    /\ err \in BOOLEAN /\ age \in 0..(Ttl + 1) /\ faults \in 0..MaxFaults
    /\ Timed

IInv == Rows /\ Counting /\ Serving

LEMMA ConstantsTyped ==
    /\ Ttl \in Nat /\ Ttl >= Period + MaxLatency /\ Old \in Nat /\ Old = Ttl + MaxLatency + 1
    /\ Period \in Nat \ {0} /\ MaxLatency \in Nat /\ MaxLatency <= Period
    /\ MaxRows \in Nat \ {0} /\ MaxFaults \in Nat
BY SnapshotAssumption DEF Ttl, Old

LEMMA RefreshApart ==
    /\ "refresh" \in Callers /\ "refresh" \notin Handlers /\ Handlers \subseteq Callers
    /\ \A c \in Callers : ProcessOf(c) \in Processes
    /\ \A c \in Callers : ProcessOf(c) = "writer" <=> c \in Handlers
    /\ \A c \in Callers : ProcessOf(c) = "monitor" <=> c = "refresh"
BY SnapshotAssumption DEF Callers, Processes, ProcessOf

LEMMA InitIInv == Init => IInv
<1> SUFFICES ASSUME Init PROVE IInv
  OBVIOUS
<1>1. Rows /\ Committed \in 0..1 /\ Committed <= MaxRows
  <2>1. rows = <<>> \/ rows = <<0>>
    BY DEF Init
  <2>2. \A S : 0 \in S => <<0>> \in Seq(S) /\ <<>> \in Seq(S)
    OBVIOUS
  <2>3. rows \in Seq(0..Old) /\ (Len(rows) = 0 \/ Len(rows) = 1)
    <3>1. 0 \in 0..Old
      BY ConstantsTyped
    <3>2. rows \in Seq(0..Old)
      BY <2>1, <2>2, <3>1, Zenon
    <3>3. Len(<<0>>) = 1 /\ Len(<<>>) = 0
      OBVIOUS
    <3> QED
      BY <2>1, <3>2, <3>3, Zenon
  <2>4. Len(rows) \in 0..1 /\ Len(rows) <= MaxRows
    BY <2>3, ConstantsTyped
  <2> QED
    BY <2>3, <2>4 DEF Rows, Committed
<1>2. /\ NoCount \in Counts /\ [known |-> TRUE, count |-> Len(rows), cursor |-> Len(rows)] \in Counts
  BY <1>1, ConstantsTyped DEF NoCount, Counts, Committed
<1>3. Quiet \in Calls
  BY ConstantsTyped DEF Quiet, Calls
<1>4. Counting
  <2>1. InCount(NoCount, Committed) /\ InCount([known |-> TRUE, count |-> Len(rows), cursor |-> Len(rows)], Committed)
    BY <1>1, <1>2 DEF InCount, NoCount, Committed
  <2>4. InCount(file, Committed)
    BY <2>1 DEF Init
  <2>2. InCall(Quiet, Committed)
    BY <1>3 DEF InCall, Quiet
  <2>3. count = [p \in Processes |-> NoCount] /\ call = [c \in Callers |-> Quiet] /\ guard = FALSE
    BY DEF Init
  <2> QED
    BY <1>2, <1>3, <2>1, <2>2, <2>3, <2>4 DEF Counting
<1>5. Serving
  <2>1. /\ hist = [at |-> "none", rows |-> 0] /\ pub = [gen |-> 0, rows |-> 0, total |-> 0]
        /\ phase = "start" /\ first = TRUE /\ since = 0 /\ err = FALSE /\ age = 0 /\ faults = 0
    BY DEF Init, NoHistory, NoSnapshot
  <2>2. Timed
    BY <2>1 DEF Timed
  <2>3. 0 \in 0..Period /\ 0 \in 0..(Ttl + 1) /\ 0 \in 0..MaxFaults /\ 0 \in 0..MaxRows
    BY ConstantsTyped
  <2> QED
    BY <2>1, <2>2, <2>3, Zenon DEF Serving
<1> QED
  BY <1>1, <1>4, <1>5 DEF IInv

\* A call and the count of its process, replaced by ones that fit the rows.
LEMMA CountingKept ==
    ASSUME Rows, Counting, UNCHANGED rows, NEW c \in Callers, NEW p \in Processes,
           NEW s, InCount(s, Committed), NEW x, InCall(x, Committed),
           count' = [count EXCEPT ![p] = s], call' = [call EXCEPT ![c] = x],
           InCount(file', Committed), guard' \in BOOLEAN
    PROVE  Counting'
<1>1. Committed' = Committed
  BY DEF Committed
<1>2. s \in Counts /\ x \in Calls
  BY DEF InCount, InCall
<1>3. count' \in [Processes -> Counts] /\ \A q \in Processes : InCount(count'[q], Committed)
  BY <1>2 DEF Counting
<1>4. call' \in [Callers -> Calls] /\ \A d \in Callers : InCall(call'[d], Committed)
  BY <1>2 DEF Counting
<1> QED
  BY <1>1, <1>3, <1>4 DEF Counting, InCount, InCall

\* A call replaced, the counts as they were.
LEMMA CallKept ==
    ASSUME Rows, Counting, UNCHANGED <<rows, count, file>>, NEW c \in Callers,
           NEW x, InCall(x, Committed), call' = [call EXCEPT ![c] = x], guard' \in BOOLEAN
    PROVE  Counting'
<1>1. /\ "writer" \in Processes /\ count' = [count EXCEPT !["writer"] = count["writer"]]
      /\ InCount(count["writer"], Committed) /\ InCount(file', Committed)
  BY DEF Counting, Processes
<1> QED
  BY <1>1, CountingKept

\* However a call ends, it is one of the calls.
LEMMA EndedFits ==
    ASSUME NEW c, NEW value \in Nat, NEW at \in {"done", "failed"}
    PROVE  InCall(Ended(c, at, value), Committed)
BY ConstantsTyped DEF Ended, Quiet, InCall, Calls

LEMMA EnterKeeps ==
    ASSUME Rows, Counting, NEW c \in Callers, Enter(c), UNCHANGED <<rows, file>>
    PROVE  Counting'
<1> DEFINE p == ProcessOf(c)
<1>0. p \in Processes /\ Committed \in Nat /\ Committed <= MaxRows
  BY RefreshApart DEF Rows, Committed
<1>1. CASE /\ Loaded(p).known
           /\ count' = [count EXCEPT ![p] = Loaded(p)]
           /\ call' = [call EXCEPT ![c] = Asked(Loaded(p).cursor)]
           /\ UNCHANGED guard
  <2>1. InCount(Loaded(p), Committed) /\ InCount(file', Committed) /\ guard' \in BOOLEAN
    BY <1>0, <1>1 DEF Loaded, Counting
  <2>2. InCall(Asked(Loaded(p).cursor), Committed)
    BY <1>0, <2>1, ConstantsTyped DEF Asked, InCall, InCount, Calls, Counts
  <2> HIDE DEF p
  <2> QED
    BY <1>0, <1>1, <2>1, <2>2, CountingKept
<1>2. CASE /\ guard' = TRUE /\ UNCHANGED count
           /\ call' = [call EXCEPT ![c] = [at |-> "boot", from |-> Committed, got |-> 0]]
  <2>1. InCall([at |-> "boot", from |-> Committed, got |-> 0], Committed)
    BY <1>0, ConstantsTyped DEF InCall, Calls
  <2> QED
    BY <1>2, <2>1, CallKept
<1>3. CASE call' = [call EXCEPT ![c] = Ended(c, "failed", 0)] /\ UNCHANGED <<count, guard>>
  <2>1. InCall(Ended(c, "failed", 0), Committed) /\ guard' \in BOOLEAN
    BY <1>3, EndedFits DEF Counting
  <2> QED
    BY <1>3, <2>1, CallKept
<1> QED
  BY <1>1, <1>2, <1>3 DEF Enter

LEMMA RaisesKeeps ==
    ASSUME Rows, Counting, NEW c \in Callers, Raises(c), UNCHANGED <<rows, count, file, guard>>
    PROVE  Counting'
<1>1. InCall(Ended(c, "failed", 0), Committed) /\ guard' \in BOOLEAN
  BY EndedFits DEF Counting
<1> QED
  BY <1>1, CallKept DEF Raises

LEMMA BootScanKeeps ==
    ASSUME Rows, Counting, NEW c \in Callers, BootScan(c)
    PROVE  Counting'
<1> DEFINE x == [at |-> "scanned", from |-> call[c].from, got |-> Committed]
<1>1. call' = [call EXCEPT ![c] = x]
  BY DEF BootScan, Counting, Calls
<1>2. InCall(x, Committed)
  BY ConstantsTyped DEF BootScan, Rows, Counting, InCall, Calls, Committed
<1> HIDE DEF x
<1> QED
  BY <1>1, <1>2, CallKept DEF BootScan, Counting

LEMMA ServeKeeps ==
    ASSUME Rows, Counting, NEW c \in Callers, Serve(c)
    PROVE  Counting'
<1> DEFINE x == [at |-> "answered", from |-> call[c].from, got |-> Committed]
<1>1. call' = [call EXCEPT ![c] = x]
  BY DEF Serve, Counting, Calls
<1>2. InCall(x, Committed)
  BY ConstantsTyped DEF Serve, Rows, Counting, InCall, Calls, Committed
<1> HIDE DEF x
<1> QED
  BY <1>1, <1>2, CallKept DEF Serve, Counting

LEMMA BootEndKeeps ==
    ASSUME Rows, Counting, NEW c \in Callers, BootEnd(c)
    PROVE  Counting'
<1> DEFINE total == call[c].got
           s == [known |-> TRUE, count |-> total, cursor |-> total]
<1>1. total \in Nat /\ total <= Committed /\ Committed \in Nat /\ Committed <= MaxRows
  BY DEF BootEnd, Rows, Counting, InCall, Calls, Committed
<1>2. CASE file' = s /\ count' = [count EXCEPT !["writer"] = s]
           /\ call' = [call EXCEPT ![c] = Asked(total)]
  <2>1. InCount(s, Committed) /\ InCall(Asked(total), Committed)
    BY <1>1, ConstantsTyped DEF InCount, InCall, Counts, Calls, Asked
  <2>2. "writer" \in Processes /\ guard' \in BOOLEAN /\ UNCHANGED rows
    BY DEF Processes, BootEnd, Counting
  <2> HIDE DEF s, total
  <2> QED
    BY <1>2, <2>1, <2>2, CountingKept
<1>3. CASE Raises(c) /\ UNCHANGED <<count, file>>
  BY <1>3, RaisesKeeps DEF BootEnd
<1> QED
  BY <1>2, <1>3 DEF BootEnd

LEMMA ApplyKeeps ==
    ASSUME Rows, Counting, NEW c \in Callers, Apply(c)
    PROVE  Counting'
<1> DEFINE p == ProcessOf(c)
           s == Advanced(count[p], c)
<1>0. /\ p \in Processes /\ Committed \in Nat /\ Committed <= MaxRows
      /\ call[c].from \in Nat /\ call[c].got \in Nat
      /\ call[c].from <= call[c].got /\ call[c].got <= Committed
  BY RefreshApart DEF Apply, Rows, Counting, InCall, Calls, Committed
<1>1. InCount(count[p], Committed) /\ count[p] \in Counts
  BY <1>0 DEF Counting
<1>2. s = [known |-> count[p].known, count |-> count[p].count + (call[c].got - call[c].from),
           cursor |-> IF call[c].got > call[c].from THEN call[c].got ELSE count[p].cursor]
  BY <1>1 DEF Advanced, Counts
<1>3. InCount(s, Committed) /\ s.count \in Nat
  <2> HIDE DEF s
  <2> QED
    BY <1>0, <1>1, <1>2, ConstantsTyped DEF InCount, Counts
<1>4. /\ count' = [count EXCEPT ![p] = s] /\ UNCHANGED <<rows, guard>>
      /\ file' = s \/ file' = file
      /\ \/ call' = [call EXCEPT ![c] = Ended(c, "done", s.count)]
         \/ call' = [call EXCEPT ![c] = Quiet]
         \/ call' = [call EXCEPT ![c] = Ended(c, "failed", 0)]
  BY DEF Apply, Raises
<1>5. PICK x : InCall(x, Committed) /\ call' = [call EXCEPT ![c] = x]
  <2>1. InCall(Ended(c, "done", s.count), Committed) /\ InCall(Ended(c, "failed", 0), Committed)
    BY <1>3, EndedFits
  <2>2. InCall(Quiet, Committed)
    BY ConstantsTyped DEF Quiet, InCall, Calls
  <2> QED
    BY <1>4, <2>1, <2>2
<1>6. InCount(file', Committed) /\ guard' \in BOOLEAN
  BY <1>3, <1>4 DEF Counting
<1> HIDE DEF s, p
<1> QED
  BY <1>0, <1>3, <1>4, <1>5, <1>6, CountingKept

\* What a step of a count leaves alone.
LEMMA OthersKept ==
    ASSUME Rows, Serving, UNCHANGED <<rows, loop, store>>, faults' \in 0..MaxFaults
    PROVE  Rows' /\ Serving'
BY DEF Rows, Committed, Serving, Timed, loop, store

LEMMA FaultTyped == Serving /\ (Fault \/ UNCHANGED faults) => faults' \in 0..MaxFaults
BY ConstantsTyped DEF Fault, Serving

LEMMA CountStepKeeps ==
    ASSUME IInv, NEW c \in Callers, CountStep(c) \/ RequestFails(c)
    PROVE  IInv'
<1>1. UNCHANGED <<rows, loop, store>> /\ (Fault \/ UNCHANGED faults)
  BY DEF CountStep, RequestFails, BootScan, BootEnd, Serve, Apply
<1>2. Counting'
  <2>1. CASE RequestFails(c)
    BY <2>1, RaisesKeeps DEF RequestFails, IInv
  <2> QED
    BY <2>1, BootScanKeeps, BootEndKeeps, ServeKeeps, ApplyKeeps DEF CountStep, IInv
<1> QED
  BY <1>1, <1>2, OthersKept, FaultTyped DEF IInv

LEMMA StartCaptureKeeps == IInv /\ StartCapture => IInv'
<1> SUFFICES ASSUME IInv, StartCapture PROVE IInv'
  OBVIOUS
<1>1. Rows' /\ Counting'
  BY EnterKeeps, RefreshApart DEF StartCapture, IInv, Rows, Committed
<1>2. /\ phase' = "capture" /\ since' = 0 /\ first' \in BOOLEAN
      /\ hist' = [at |-> "asked", rows |-> 0] /\ UNCHANGED <<store, faults>>
  BY DEF StartCapture
<1>3. Timed'
  BY <1>2, ConstantsTyped DEF StartCapture, Starts, IInv, Serving, Timed, store
<1>4. /\ hist' \in [at : {"none", "asked", "done", "failed"}, rows : 0..MaxRows]
      /\ since' \in 0..Period
  BY <1>2, ConstantsTyped
<1>5. Serving'
  BY <1>2, <1>3, <1>4 DEF IInv, Serving, store
<1> QED
  BY <1>1, <1>5 DEF IInv

LEMMA HistoryKeeps == IInv /\ (HistoryServed \/ HistoryFails) => IInv'
<1> SUFFICES ASSUME IInv, HistoryServed \/ HistoryFails PROVE IInv'
  OBVIOUS
<1>1. /\ UNCHANGED <<rows, counting, phase, first, since, store>> /\ faults' \in 0..MaxFaults
      /\ \/ hist' = [at |-> "done", rows |-> Committed]
         \/ hist' = [at |-> "failed", rows |-> 0]
  BY FaultTyped DEF HistoryServed, HistoryFails, IInv
<1>2. Rows' /\ Counting'
  BY <1>1 DEF IInv, Rows, Counting, InCount, InCall, Committed, counting
<1>3. Committed \in 0..MaxRows /\ 0 \in 0..MaxRows
  BY ConstantsTyped DEF IInv, Rows, Committed
<1>4. Timed'
  BY <1>1 DEF IInv, Serving, Timed, store
<1>5. Serving'
  BY <1>1, <1>3, <1>4 DEF IInv, Serving, store
<1> QED
  BY <1>2, <1>5 DEF IInv

\* Sleep forgets the call and the history of the capture.
LEMMA SleepKeeps ==
    ASSUME IInv, phase = "capture", Sleep
    PROVE  /\ Rows' /\ Counting' /\ phase' = "sleep" /\ hist' = NoHistory
           /\ UNCHANGED <<rows, first, faults>> /\ since' \in 0..since /\ since' \in 0..Period
           /\ hist' \in [at : {"none", "asked", "done", "failed"}, rows : 0..MaxRows]
<1>1. /\ UNCHANGED <<rows, count, file, guard, first, faults>> /\ hist' = NoHistory
      /\ call' = [call EXCEPT !["refresh"] = Quiet] /\ phase' = "sleep"
      /\ since' = IF first THEN 0 ELSE since
  BY DEF Sleep
<1>2. InCall(Quiet, Committed)
  BY ConstantsTyped DEF Quiet, InCall, Calls
<1>3. Counting'
  BY <1>1, <1>2, CallKept, RefreshApart DEF IInv, Counting
<1>4. Rows'
  BY <1>1 DEF IInv, Rows, Committed
<1>5. since' \in 0..since /\ since' \in 0..Period
  BY <1>1, ConstantsTyped DEF IInv, Serving
<1> QED
  BY <1>1, <1>3, <1>4, <1>5, ConstantsTyped DEF NoHistory

LEMMA PublishKeeps == IInv /\ Publish => IInv'
<1> SUFFICES ASSUME IInv, Publish PROVE IInv'
  OBVIOUS
<1> DEFINE content == [gen |-> pub.gen, rows |-> hist.rows, total |-> call["refresh"].got]
<1>1. phase = "capture" /\ Sleep /\ err' = FALSE /\ age' = 0
  BY DEF Publish
<1>2. pub' = pub \/ pub' = [gen |-> pub.gen + 1, rows |-> hist.rows, total |-> call["refresh"].got]
  <2>1. pub' = IF pub.gen > 0 /\ content = pub THEN pub ELSE [content EXCEPT !.gen = @ + 1]
    BY DEF Publish
  <2> QED
    BY <2>1
<1>3. call["refresh"].got \in Nat /\ hist.rows \in 0..MaxRows /\ pub.gen \in Nat
  BY RefreshApart DEF IInv, Counting, Serving, Calls
<1>4. pub' \in [gen : Nat, rows : 0..MaxRows, total : Nat]
  BY <1>2, <1>3 DEF IInv, Serving
<1>5. Timed'
  BY <1>1, SleepKeeps DEF Timed
<1>6. Serving'
  <2>1. 0 \in 0..(Ttl + 1)
    BY ConstantsTyped
  <2>2. err' \in BOOLEAN /\ age' \in 0..(Ttl + 1)
    BY <1>1, <2>1, Zenon
  <2> QED
    BY <1>1, <1>4, <1>5, <2>2, SleepKeeps DEF IInv, Serving
<1> QED
  BY <1>1, <1>6, SleepKeeps DEF IInv

LEMMA CaptureFailsKeeps == IInv /\ CaptureFails => IInv'
<1> SUFFICES ASSUME IInv, CaptureFails PROVE IInv'
  OBVIOUS
<1>1. phase = "capture" /\ Sleep /\ err' = TRUE /\ UNCHANGED <<pub, age>>
  BY DEF CaptureFails
<1>2. Timed'
  BY <1>1, SleepKeeps DEF Timed
<1>3. Serving'
  BY <1>1, <1>2, SleepKeeps DEF IInv, Serving
<1> QED
  BY <1>1, <1>3, SleepKeeps DEF IInv

LEMMA CommitKeeps == IInv /\ Commit => IInv'
<1> SUFFICES ASSUME IInv, Commit PROVE IInv'
  OBVIOUS
<1>1. /\ rows' = Append(rows, 0) /\ rows \in Seq(0..Old) /\ Committed < MaxRows
      /\ UNCHANGED <<counting, loop, store, faults>> /\ 0 \in 0..Old
  BY ConstantsTyped DEF Commit, IInv, Rows
<1>2. rows' \in Seq(0..Old) /\ Committed' = Committed + 1 /\ Committed \in Nat
  BY <1>1, AppendProperties DEF Committed
<1>3. Rows'
  BY <1>1, <1>2, ConstantsTyped DEF Rows
<1>4. Counting'
  <2>1. \A s : InCount(s, Committed) => InCount(s, Committed + 1)
    BY <1>2, ConstantsTyped DEF InCount, Counts
  <2>2. \A x : InCall(x, Committed) => InCall(x, Committed + 1)
    BY <1>2, ConstantsTyped DEF InCall, Calls
  <2> QED
    BY <1>1, <1>2, <2>1, <2>2 DEF IInv, Counting, counting
<1>5. Serving'
  BY <1>1 DEF IInv, Serving, Timed, loop, store
<1> QED
  BY <1>3, <1>4, <1>5 DEF IInv

LEMMA TickKeeps == IInv /\ Tick => IInv'
<1> SUFFICES ASSUME IInv, Tick PROVE IInv'
  OBVIOUS
<1>1. /\ rows' = [i \in 1..Committed |-> IF rows[i] < Old THEN rows[i] + 1 ELSE Old]
      /\ since' = since + 1 /\ age' = IF age > Ttl THEN age ELSE age + 1
      /\ UNCHANGED <<counting, hist, phase, first, pub, err, faults>>
  BY DEF Tick
<1>2. \A i \in 1..Committed : (IF rows[i] < Old THEN rows[i] + 1 ELSE Old) \in 0..Old
  BY ConstantsTyped DEF IInv, Rows, Committed
<1>3. rows' \in Seq(0..Old) /\ Committed' = Committed
  <2>1. Committed \in Nat
    BY DEF IInv, Rows, Committed
  <2> HIDE DEF Old
  <2>2. rows' \in [1..Committed -> 0..Old]
    BY <1>1, <1>2
  <2>3. rows' \in Seq(0..Old) /\ Len(rows') = Committed
    BY <1>1, <2>1, <2>2
  <2> QED
    BY <2>3 DEF Committed
<1>4. Rows' /\ Counting'
  BY <1>1, <1>3 DEF IInv, Rows, Counting, counting
<1>5. since' \in 0..Period /\ age' \in 0..(Ttl + 1) /\ phase # "start"
  BY <1>1, ConstantsTyped DEF Tick, Starts, IInv, Serving
<1>6. Timed'
  BY <1>1, <1>5, ConstantsTyped DEF Tick, IInv, Serving, Timed
<1>7. Serving'
  BY <1>1, <1>5, <1>6 DEF IInv, Serving
<1> QED
  BY <1>4, <1>7 DEF IInv

LEMMA RestartKeeps == IInv /\ (WriterRestarts \/ MonitorRestarts) => IInv'
<1> SUFFICES ASSUME IInv, WriterRestarts \/ MonitorRestarts PROVE IInv'
  OBVIOUS
<1>0. /\ UNCHANGED <<rows, file, guard>> /\ faults' \in 0..MaxFaults
      /\ InCount(NoCount, Committed) /\ InCall(Quiet, Committed)
      /\ NoCount \in Counts /\ Quiet \in Calls /\ Committed \in Nat
  BY FaultTyped, ConstantsTyped DEF WriterRestarts, MonitorRestarts, IInv, InCount, InCall,
     NoCount, Quiet, Counts, Calls, Rows, Committed
<1>1. Rows' /\ Committed' = Committed
  BY <1>0 DEF IInv, Rows, Committed
<1>2. Counting'
  <2>1. /\ count' \in [Processes -> Counts] /\ \A p \in Processes : InCount(count'[p], Committed)
    BY <1>0 DEF WriterRestarts, MonitorRestarts, IInv, Counting
  <2>2. call' \in [Callers -> Calls] /\ \A c \in Callers : call'[c] = call[c] \/ call'[c] = Quiet
    BY <1>0 DEF WriterRestarts, MonitorRestarts, IInv, Counting
  <2> QED
    BY <1>0, <1>1, <2>1, <2>2 DEF IInv, Counting
<1>3. Serving'
  <2>1. CASE WriterRestarts
    BY <1>0, <2>1, OthersKept DEF WriterRestarts, IInv
  <2>2. CASE MonitorRestarts
    <3>1. /\ hist' = [at |-> "none", rows |-> 0] /\ pub' = [gen |-> 0, rows |-> 0, total |-> 0]
          /\ phase' = "start" /\ first' = TRUE /\ since' = 0 /\ err' = FALSE /\ age' = 0
      BY <2>2 DEF MonitorRestarts, NoHistory, NoSnapshot
    <3>2. Timed'
      BY <3>1 DEF Timed
    <3>3. 0 \in 0..Period /\ 0 \in 0..(Ttl + 1) /\ 0 \in 0..MaxRows
      BY ConstantsTyped
    <3> QED
      BY <1>0, <3>1, <3>2, <3>3, Zenon DEF Serving
  <2> QED
    BY <2>1, <2>2
<1> QED
  BY <1>1, <1>2, <1>3 DEF IInv

LEMMA NextIInv == IInv /\ [Next]_vars => IInv'
<1> SUFFICES ASSUME IInv, [Next]_vars PROVE IInv'
  OBVIOUS
<1>1. ASSUME NEW h \in Handlers, HandlerEnters(h) PROVE IInv'
  <2>1. Counting'
    BY <1>1, EnterKeeps, RefreshApart DEF HandlerEnters, IInv
  <2> QED
    BY <1>1, <2>1, OthersKept, FaultTyped DEF HandlerEnters, IInv
<1>2. ASSUME NEW c \in Callers, CountStep(c) \/ RequestFails(c) PROVE IInv'
  BY <1>2, CountStepKeeps
<1>3. CASE Capture \/ HistoryFails
  BY <1>3, StartCaptureKeeps, HistoryKeeps, PublishKeeps, CaptureFailsKeeps DEF Capture
<1>4. CASE GuardExpires
  <2>1. Counting'
    BY <1>4 DEF GuardExpires, IInv, Counting, Committed
  <2> QED
    BY <1>4, <2>1, OthersKept, FaultTyped DEF GuardExpires, IInv
<1>5. CASE Commit \/ Tick \/ WriterRestarts \/ MonitorRestarts
  BY <1>5, CommitKeeps, TickKeeps, RestartKeeps
<1>6. CASE UNCHANGED vars
  <2>1. Counting'
    BY <1>6 DEF vars, counting, IInv, Counting, Committed
  <2> QED
    BY <1>6, <2>1, OthersKept, FaultTyped DEF vars, IInv
<1> QED
  BY <1>1, <1>2, <1>3, <1>4, <1>5, <1>6 DEF Next

LEMMA SnapshotInvariant == Spec => []IInv
BY InitIInv, NextIInv, PTL DEF Spec

\* The counts, the calls under way and the store keep their types, however many
\* count requests overlap.
THEOREM SnapshotTypeCorrect == Spec => []TypeOK
<1>1. IInv => TypeOK
  BY DEF IInv, Rows, Counting, Serving, InCount, Calls, TypeOK
<1> QED
  BY <1>1, SnapshotInvariant, PTL

\* The TTL AuthoritySnapshotStore computes always covers the refresh loop's gaps.
THEOREM SnapshotNeverStale == Spec => []NeverStaleBetween
<1>1. IInv => NeverStaleBetween
  BY ConstantsTyped DEF IInv, Serving, Timed, NeverStaleBetween
<1> QED
  BY <1>1, SnapshotInvariant, PTL

-----------------------------------------------------------------------------
(* Count requests that overlap. *)

NotShort(s) == s.known => s.count >= s.cursor

\* A call started from a cursor its process's count has reached, if it has not
\* passed it.
Rests(c, x, s) ==
    /\ x.at \in {"boot", "scanned"} => c \in Handlers
    /\ x.at \in {"asked", "answered"} => s.known /\ x.from <= s.count

Enough ==
    /\ NotShort(file) /\ \A p \in Processes : NotShort(count[p])
    /\ \A c \in Callers : Rests(c, call[c], count[ProcessOf(c)])

\* The first n rows are all that are older than t.
Covers(n, t) == \A i \in 1..Committed : rows[i] > t => i <= n

\* What a capture has read of n rows: not less than what is published, and every
\* row older than the capture.
HistoryCovers(h) ==
    h.at = "done" => h.rows <= Committed /\ pub.rows <= h.rows /\ Covers(h.rows, since)
CountCovers(x, s) ==
    /\ x.at \in {"answered", "done"} => Covers(x.got, since)
    /\ x.at = "done" => s.known /\ x.got <= s.count /\ (pub.gen > 0 => pub.total <= x.got)

\* The monitor still counts what it published.
TotalHeld(s) == pub.gen > 0 => s.known /\ pub.total <= s.count

Recent ==
    /\ HistoryCovers(hist) /\ CountCovers(call["refresh"], count["monitor"])
    /\ TotalHeld(count["monitor"]) /\ pub.rows <= Committed
    /\ pub.gen > 0 =>
           Covers(pub.rows, age + MaxLatency) /\ Covers(pub.total, age + MaxLatency)

JInv == Enough /\ Recent

LEMMA InitJInv == Init => JInv
<1> SUFFICES ASSUME Init PROVE JInv
  OBVIOUS
<1>1. Enough
  <2>1. Committed \in Nat
    BY InitIInv DEF IInv, Rows, Committed
  <2>2. NotShort(NoCount) /\ NotShort(file) /\ \A c, s : Rests(c, Quiet, s)
    BY <2>1 DEF Init, NotShort, Rests, NoCount, Quiet, Committed
  <2> QED
    BY <2>2, RefreshApart DEF Init, Enough
<1>2. hist.at = "none" /\ call["refresh"].at = "idle" /\ pub.gen = 0 /\ pub.rows = 0 /\ pub.total = 0
  BY RefreshApart DEF Init, NoHistory, Quiet, NoSnapshot
<1>3. Committed \in Nat
  BY InitIInv DEF IInv, Rows, Committed
<1> QED
  BY <1>1, <1>2, <1>3 DEF JInv, Recent, HistoryCovers, CountCovers, TotalHeld

\* A call and the count of its process replaced: the process's other calls must
\* still rest on the new count.
LEMMA EnoughKept ==
    ASSUME Counting, Enough, NEW c \in Callers, NEW s, NEW x,
           count' = [count EXCEPT ![ProcessOf(c)] = s], call' = [call EXCEPT ![c] = x],
           NotShort(file'), NotShort(s), Rests(c, x, s),
           \A d \in Callers : ProcessOf(d) = ProcessOf(c) => Rests(d, call[d], s) \/ d = c
    PROVE  Enough'
<1>1. /\ ProcessOf(c) \in Processes /\ \A d \in Callers : ProcessOf(d) \in Processes
      /\ DOMAIN count = Processes /\ DOMAIN call = Callers
  BY RefreshApart DEF Counting
<1>2. \A p \in Processes : NotShort(count'[p])
  BY <1>1 DEF Enough
<1>3. ASSUME NEW d \in Callers PROVE Rests(d, call'[d], count'[ProcessOf(d)])
  <2>1. CASE d = c
    BY <1>1, <2>1
  <2>2. CASE d # c /\ ProcessOf(d) = ProcessOf(c)
    BY <1>1, <2>2
  <2>3. CASE ProcessOf(d) # ProcessOf(c)
    <3>1. count'[ProcessOf(d)] = count[ProcessOf(d)] /\ call'[d] = call[d]
      BY <1>1, <2>3
    <3> QED
      BY <3>1 DEF Enough
  <2> QED
    BY <2>1, <2>2, <2>3
<1> QED
  BY <1>2, <1>3 DEF Enough, NotShort, Rests

\* A call replaced, the counts as they were.
LEMMA EnoughCallKept ==
    ASSUME Counting, Enough, NEW c \in Callers, NEW x, UNCHANGED <<count, file>>,
           call' = [call EXCEPT ![c] = x], Rests(c, x, count[ProcessOf(c)])
    PROVE  Enough'
<1>1. /\ count' = [count EXCEPT ![ProcessOf(c)] = count[ProcessOf(c)]]
      /\ NotShort(count[ProcessOf(c)]) /\ NotShort(file')
      /\ \A d \in Callers : ProcessOf(d) = ProcessOf(c) => Rests(d, call[d], count[ProcessOf(c)])
  BY RefreshApart DEF Counting, Enough
<1> QED
  BY <1>1, EnoughKept

\* The capture's count and what it is compared with, as they were or replaced.
LEMMA RecentKept ==
    ASSUME Recent, UNCHANGED <<rows, hist, pub, since, age>>,
           CountCovers(call'["refresh"], count'["monitor"]), TotalHeld(count'["monitor"])
    PROVE  Recent'
<1>1. Committed' = Committed /\ \A n, t : Covers(n, t)' <=> Covers(n, t)
  BY DEF Committed, Covers
<1> QED
  BY <1>1 DEF Recent, HistoryCovers, CountCovers, TotalHeld, Covers, Committed

LEMMA CallIsEnded ==
    ASSUME NEW c, NEW v, NEW s
    PROVE  Rests(c, Ended(c, "failed", v), s) /\ CountCovers(Ended(c, "failed", v), s)
BY DEF Ended, Quiet, Rests, CountCovers

\* What a handler does leaves the monitor's count and call alone.
LEMMA HandlerApart ==
    ASSUME Counting, Recent, NEW c \in Handlers, NEW x, NEW s, call' = [call EXCEPT ![c] = x],
           count' = count \/ count' = [count EXCEPT !["writer"] = s]
    PROVE  CountCovers(call'["refresh"], count'["monitor"]) /\ TotalHeld(count'["monitor"])
<1>1. call'["refresh"] = call["refresh"] /\ count'["monitor"] = count["monitor"]
  BY RefreshApart DEF Counting, Processes
<1> QED
  BY <1>1 DEF Recent

LEMMA EnterEnough ==
    ASSUME Counting, JInv, NEW c \in Callers, Enter(c), UNCHANGED file
    PROVE  /\ Enough' /\ \E x : call' = [call EXCEPT ![c] = x] /\ x.at \notin {"answered", "done"}
           /\ \/ count' = count
              \/ \E s : ~count[ProcessOf(c)].known /\ count' = [count EXCEPT ![ProcessOf(c)] = s]
<1>0. Enough /\ ProcessOf(c) \in Processes /\ DOMAIN call = Callers /\ DOMAIN count = Processes
  BY RefreshApart DEF JInv, Counting
<1> DEFINE p == ProcessOf(c)
<1>1. CASE /\ Loaded(p).known
           /\ count' = [count EXCEPT ![p] = Loaded(p)]
           /\ call' = [call EXCEPT ![c] = Asked(Loaded(p).cursor)]
  <2>1. NotShort(Loaded(p)) /\ NotShort(file')
    BY <1>0 DEF Loaded, Enough
  <2>2. Rests(c, Asked(Loaded(p).cursor), Loaded(p)) /\ Asked(Loaded(p).cursor).at = "asked"
    BY <1>1, <2>1 DEF Rests, Asked, NotShort
  <2>3. ASSUME NEW d \in Callers, ProcessOf(d) = p PROVE Rests(d, call[d], Loaded(p))
    <3>1. Rests(d, call[d], count[p])
      BY <2>3 DEF Enough, JInv
    <3> QED
      BY <3>1 DEF Rests, Loaded
  <2>4. Enough'
    BY <1>0, <1>1, <2>1, <2>2, <2>3, EnoughKept
  <2>5. count' = count \/ ~count[p].known
    BY <1>0, <1>1 DEF Loaded, Counting
  <2> QED
    BY <1>1, <2>2, <2>4, <2>5
<1>2. CASE /\ p = "writer" /\ UNCHANGED count
           /\ call' = [call EXCEPT ![c] = [at |-> "boot", from |-> Committed, got |-> 0]]
  <2> DEFINE x == [at |-> "boot", from |-> Committed, got |-> 0]
  <2>1. Rests(c, x, count[p]) /\ x.at \notin {"answered", "done"} /\ call' = [call EXCEPT ![c] = x]
    BY <1>2, RefreshApart DEF Rests
  <2> HIDE DEF x
  <2>2. Enough'
    BY <1>0, <1>2, <2>1, EnoughCallKept
  <2> QED
    BY <1>2, <2>1, <2>2
<1>3. CASE call' = [call EXCEPT ![c] = Ended(c, "failed", 0)] /\ UNCHANGED <<count, guard>>
  <2>1. Ended(c, "failed", 0).at \in {"idle", "failed"}
    BY DEF Ended, Quiet
  <2> QED
    BY <1>0, <1>3, <2>1, EnoughCallKept, CallIsEnded
<1> QED
  BY <1>1, <1>2, <1>3 DEF Enter

\* A count's steps neither publish nor read the history.
LEMMA CountStepEnough ==
    ASSUME IInv, JInv, NEW c \in Callers, CountStep(c) \/ RequestFails(c)
    PROVE  JInv'
<1> DEFINE p == ProcessOf(c)
<1>0. /\ UNCHANGED <<rows, hist, pub, since, age>> /\ DOMAIN call = Callers /\ DOMAIN count = Processes
      /\ Enough /\ Recent /\ Counting /\ p \in Processes /\ Committed \in Nat
  BY RefreshApart DEF CountStep, RequestFails, BootScan, BootEnd, Serve, Apply, loop, store, JInv,
     IInv, Counting, Rows, Committed
<1>1. ASSUME NEW x, NEW s, call' = [call EXCEPT ![c] = x], Enough',
             count' = count \/ count' = [count EXCEPT ![p] = s],
             c = "refresh" => CountCovers(x, count'["monitor"]) /\ TotalHeld(count'["monitor"])
      PROVE  JInv'
  <2>1. CASE c \in Handlers
    <3>1. p = "writer"
      BY <2>1 DEF ProcessOf
    <3> HIDE DEF p
    <3> QED
      BY <1>0, <1>1, <2>1, <3>1, HandlerApart, RecentKept DEF JInv
  <2>2. CASE c \notin Handlers
    <3>1. c = "refresh" /\ call'["refresh"] = x
      BY <1>0, <1>1, <2>2 DEF Callers
    <3> QED
      BY <1>0, <1>1, <3>1, RecentKept DEF JInv
  <2> QED
    BY <2>1, <2>2
<1>2. ASSUME NEW x, call' = [call EXCEPT ![c] = x], UNCHANGED <<count, file>>, Rests(c, x, count[p]),
             CountCovers(x, count["monitor"])
      PROVE  JInv'
  <2>1. Enough'
    BY <1>0, <1>2, EnoughCallKept
  <2>2. CountCovers(x, count'["monitor"]) /\ TotalHeld(count'["monitor"])
    BY <1>0, <1>2 DEF Recent
  <2> QED
    BY <1>1, <1>2, <2>1, <2>2
<1>3. CASE BootScan(c)
  <2> DEFINE x == [at |-> "scanned", from |-> call[c].from, got |-> Committed]
  <2>1. call' = [call EXCEPT ![c] = x] /\ UNCHANGED <<count, file>>
    BY <1>0, <1>3 DEF BootScan, Counting, Calls
  <2>2. Rests(c, x, count[p]) /\ CountCovers(x, count["monitor"])
    BY <1>0, <1>3 DEF BootScan, Enough, Rests, CountCovers
  <2> HIDE DEF x
  <2> QED
    BY <1>2, <2>1, <2>2
<1>4. CASE Serve(c)
  <2> DEFINE x == [at |-> "answered", from |-> call[c].from, got |-> Committed]
  <2>1. call' = [call EXCEPT ![c] = x] /\ UNCHANGED <<count, file>>
    BY <1>0, <1>4 DEF Serve, Counting, Calls
  <2>2. Rests(c, x, count[p])
    BY <1>0, <1>4 DEF Serve, Enough, Rests
  <2>3. CountCovers(x, count["monitor"])
    BY <1>0 DEF CountCovers, Covers
  <2> HIDE DEF x
  <2> QED
    BY <1>2, <2>1, <2>2, <2>3
<1>5. CASE Raises(c) /\ UNCHANGED <<count, file>>
  BY <1>2, <1>5, CallIsEnded DEF Raises
<1>6. CASE BootEnd(c)
  <2> DEFINE total == call[c].got
             s == [known |-> TRUE, count |-> total, cursor |-> total]
  <2>1. CASE /\ TailUnmoved(c) /\ file' = s /\ count' = [count EXCEPT !["writer"] = s]
             /\ call' = [call EXCEPT ![c] = Asked(total)]
    <3>1. c \in Handlers /\ p = "writer" /\ c # "refresh" /\ total = Committed
      BY <1>0, <1>6, <2>1, RefreshApart DEF BootEnd, Enough, Rests, TailUnmoved
    <3>2. NotShort(s) /\ NotShort(file') /\ Rests(c, Asked(total), s)
      BY <1>0, <2>1, <3>1 DEF NotShort, Rests, Asked
    <3>3. ASSUME NEW d \in Callers, ProcessOf(d) = p PROVE Rests(d, call[d], s)
      <4>1. InCall(call[d], Committed) /\ Rests(d, call[d], count[p])
        BY <1>0, <3>3 DEF Counting, Enough
      <4> QED
        BY <3>1, <4>1 DEF Rests, InCall
    <3> HIDE DEF s, total, p
    <3>4. Enough'
      BY <1>0, <2>1, <3>1, <3>2, <3>3, EnoughKept DEF p
    <3> QED
      BY <1>1, <2>1, <3>1, <3>4
  <2> QED
    BY <1>5, <1>6, <2>1 DEF BootEnd
<1>7. CASE Apply(c)
  <2> DEFINE s == Advanced(count[p], c)
             got == call[c].got
  <2>1. /\ call[c].from \in Nat /\ got \in Nat /\ call[c].from <= got
        /\ call[c].at = "answered" /\ count[p] \in Counts
    BY <1>0, <1>7 DEF Apply, Counting, InCall, Calls
  <2>2. count[p].known /\ call[c].from <= count[p].count /\ NotShort(count[p])
    BY <1>0, <2>1 DEF Enough, Rests
  <2>3. s.known /\ NotShort(s) /\ s.count \in Nat /\ s.count >= got /\ s.count >= count[p].count
    <3>1. /\ s.known = count[p].known /\ s.count = count[p].count + (got - call[c].from)
          /\ s.cursor = IF got > call[c].from THEN got ELSE count[p].cursor
      BY DEF Advanced
    <3> HIDE DEF s, got
    <3> QED
      BY <2>1, <2>2, <3>1 DEF NotShort, Counts
  <2> HIDE DEF s, got
  <2>4. \A d \in Callers : ProcessOf(d) = p => Rests(d, call[d], s)
    <3> SUFFICES ASSUME NEW d \in Callers, ProcessOf(d) = p PROVE Rests(d, call[d], s)
      OBVIOUS
    <3>1. Rests(d, call[d], count[p]) /\ call[d].from \in Nat /\ count[p].count \in Nat
      BY <1>0, <2>1 DEF Enough, Counting, Calls, Counts
    <3> QED
      BY <2>3, <3>1 DEF Rests
  <2>5. c = "refresh" =>
          CountCovers([at |-> "done", from |-> 0, got |-> s.count], s) /\ TotalHeld(s)
    <3> SUFFICES ASSUME c = "refresh"
                 PROVE  CountCovers([at |-> "done", from |-> 0, got |-> s.count], s) /\ TotalHeld(s)
      OBVIOUS
    <3>1. p = "monitor" /\ Covers(got, since) /\ TotalHeld(count[p]) /\ pub.total \in Nat
      BY <1>0, <2>1, RefreshApart DEF Recent, CountCovers, got, IInv, Serving
    <3>2. Covers(s.count, since)
      BY <1>0, <2>1, <2>3, <3>1 DEF Covers
    <3>3. TotalHeld(s)
      <4>1. count[p].count \in Nat
        BY <2>1 DEF Counts
      <4> QED
        BY <2>3, <3>1, <4>1 DEF TotalHeld
    <3> QED
      BY <2>3, <3>2, <3>3 DEF CountCovers, TotalHeld
  <2>6. /\ count' = [count EXCEPT ![p] = s] /\ file' \in {file, s} /\ count'[p] = s
        /\ \/ call' = [call EXCEPT ![c] = Ended(c, "done", s.count)]
           \/ call' = [call EXCEPT ![c] = Quiet] /\ p = "writer"
           \/ call' = [call EXCEPT ![c] = Ended(c, "failed", 0)]
    BY <1>0, <1>7 DEF Apply, Raises, s
  <2>7. PICK x : /\ call' = [call EXCEPT ![c] = x] /\ Rests(c, x, s)
                 /\ c = "refresh" => CountCovers(x, s)
    <3>1. Rests(c, Quiet, s) /\ CountCovers(Quiet, s)
      BY DEF Rests, CountCovers, Quiet
    <3>2. /\ Rests(c, Ended(c, "done", s.count), s)
          /\ c = "refresh" => CountCovers(Ended(c, "done", s.count), s)
      <4>1. CASE c \in Handlers
        BY <3>1, <4>1, RefreshApart DEF Ended
      <4>2. CASE c \notin Handlers
        <5>1. Ended(c, "done", s.count) = [at |-> "done", from |-> 0, got |-> s.count]
          BY <4>2 DEF Ended
        <5> QED
          BY <2>5, <5>1 DEF Rests
      <4> QED
        BY <4>1, <4>2
    <3> QED
      BY <2>6, <3>1, <3>2, CallIsEnded
  <2>8. NotShort(file')
    BY <1>0, <2>3, <2>6 DEF Enough
  <2>9. Enough'
    BY <1>0, <2>3, <2>4, <2>6, <2>7, <2>8, EnoughKept
  <2>10. c = "refresh" => CountCovers(x, count'["monitor"]) /\ TotalHeld(count'["monitor"])
    BY <2>5, <2>6, <2>7, RefreshApart
  <2> QED
    BY <1>1, <2>6, <2>7, <2>9, <2>10
<1>8. CASE RequestFails(c)
  BY <1>5, <1>8 DEF RequestFails
<1> QED
  BY <1>3, <1>4, <1>6, <1>7, <1>8 DEF CountStep

\* A generation is replaced by a later one, of other content, that covers more.
Advances ==
    pub.gen > 0 /\ pub' # pub /\ pub' # NoSnapshot =>
        /\ pub'.gen = pub.gen + 1
        /\ pub'.rows >= pub.rows /\ pub'.total >= pub.total
        /\ <<pub'.rows, pub'.total>> # <<pub.rows, pub.total>>

LEMMA SleepEnough ==
    ASSUME IInv, JInv, Sleep
    PROVE  /\ Enough' /\ hist'.at = "none" /\ call'["refresh"].at = "idle"
           /\ count'["monitor"] = count["monitor"]
<1>1. Rests("refresh", Quiet, count[ProcessOf("refresh")]) /\ "refresh" \in Callers
  BY RefreshApart DEF Rests, Quiet
<1>2. Enough'
  BY <1>1, EnoughCallKept DEF Sleep, IInv, JInv
<1> QED
  BY <1>1, <1>2 DEF Sleep, NoHistory, Quiet, IInv, Counting

LEMMA PublishEnough ==
    ASSUME IInv, JInv, Publish
    PROVE  JInv' /\ Advances
<1> DEFINE total == call["refresh"].got
           content == [gen |-> pub.gen, rows |-> hist.rows, total |-> total]
<1>1. /\ hist.at = "done" /\ call["refresh"].at = "done" /\ phase = "capture" /\ Sleep
      /\ age' = 0 /\ UNCHANGED rows /\ since <= MaxLatency
      /\ pub' = IF pub.gen > 0 /\ content = pub THEN pub ELSE [content EXCEPT !.gen = @ + 1]
  BY DEF Publish, Complete, Sleep, IInv, Serving, Timed
<1>2. /\ hist.rows \in Nat /\ pub \in [gen : Nat, rows : 0..MaxRows, total : Nat] /\ total \in Nat
      /\ since \in Nat /\ Committed \in Nat /\ rows \in Seq(0..Old)
  BY RefreshApart, ConstantsTyped DEF IInv, Serving, Counting, Calls, Rows, Committed
<1>3. /\ hist.rows <= Committed /\ pub.rows <= hist.rows /\ Covers(hist.rows, since)
      /\ pub.gen > 0 => pub.total <= total
      /\ Covers(total, since) /\ count["monitor"].known /\ total <= count["monitor"].count
  BY <1>1 DEF JInv, Recent, HistoryCovers, CountCovers
<1>4. \A n : Covers(n, since) => Covers(n, 0 + MaxLatency)
  <2> SUFFICES ASSUME NEW n, Covers(n, since), NEW i \in 1..Committed, rows[i] > 0 + MaxLatency
               PROVE  i <= n
    BY DEF Covers
  <2>1. rows[i] \in Nat
    BY <1>2, ConstantsTyped DEF Committed
  <2>2. rows[i] > since
    <3>1. \A a, b, d \in Nat : a > 0 + b /\ d <= b => a > d
      OBVIOUS
    <3>2. since \in Nat /\ since <= MaxLatency /\ MaxLatency \in Nat
      BY <1>1, <1>2, ConstantsTyped
    <3> QED
      BY <2>1, <3>1, <3>2
  <2> QED
    BY <2>2 DEF Covers
<1>5. pub'.rows = hist.rows /\ pub'.total = total
  BY <1>1, <1>2
<1>6. Committed' = Committed /\ \A n, t : Covers(n, t)' <=> Covers(n, t)
  BY <1>1 DEF Committed, Covers
<1> HIDE DEF content, total
<1>7. Recent'
  <2>1. hist'.at = "none" /\ call'["refresh"].at = "idle" /\ count'["monitor"] = count["monitor"]
    BY <1>1, SleepEnough
  <2>2. (Covers(pub.rows, age + MaxLatency) /\ Covers(pub.total, age + MaxLatency))'
    BY <1>1, <1>3, <1>4, <1>5, <1>6 DEF Covers
  <2> QED
    BY <1>3, <1>5, <1>6, <2>1, <2>2 DEF Recent, HistoryCovers, CountCovers, TotalHeld
<1>8. Advances
  <2>1. CASE pub' = pub
    BY <2>1 DEF Advances
  <2>2. CASE pub' = [content EXCEPT !.gen = @ + 1] /\ ~(pub.gen > 0 /\ content = pub)
    <3>1. pub'.gen = pub.gen + 1
      BY <2>2 DEF content
    <3>2. pub.gen > 0 => content # pub
      BY <2>2
    <3>3. hist.rows = pub.rows /\ total = pub.total => content = pub
      BY <1>2 DEF content
    <3> QED
      BY <1>2, <1>3, <1>5, <3>1, <3>2, <3>3 DEF Advances
  <2> QED
    BY <1>1, <2>1, <2>2
<1> QED
  BY <1>1, <1>7, <1>8, SleepEnough DEF JInv

LEMMA CaptureStepEnough ==
    ASSUME IInv, JInv, StartCapture \/ HistoryServed \/ HistoryFails \/ CaptureFails
    PROVE  JInv' /\ UNCHANGED pub
<1>1. UNCHANGED <<rows, pub, age, file>>
  BY DEF StartCapture, HistoryServed, HistoryFails, CaptureFails, Sleep, store, counting
<1>2. Committed' = Committed /\ \A n, t : Covers(n, t)' <=> Covers(n, t)
  BY <1>1 DEF Committed, Covers
<1>3. /\ pub.rows <= Committed /\ TotalHeld(count["monitor"])
      /\ pub.gen > 0 => Covers(pub.rows, age + MaxLatency) /\ Covers(pub.total, age + MaxLatency)
  BY DEF JInv, Recent
<1>4. CASE StartCapture
  <2>1. phase \in {"start", "sleep"} /\ Enter("refresh") /\ hist' = [at |-> "asked", rows |-> 0]
    BY <1>4 DEF StartCapture, Starts
  <2>2. /\ Enough' /\ \E x : call' = [call EXCEPT !["refresh"] = x] /\ x.at \notin {"answered", "done"}
        /\ count' = count \/ ~count["monitor"].known
    BY <1>1, <2>1, EnterEnough, RefreshApart DEF IInv
  <2>3. call'["refresh"].at \notin {"answered", "done"}
    BY <2>2, RefreshApart DEF IInv, Counting
  <2>4. TotalHeld(count["monitor"])'
    BY <1>1, <1>3, <2>2 DEF TotalHeld
  <2> QED
    BY <1>1, <1>2, <1>3, <2>1, <2>2, <2>3, <2>4 DEF JInv, Recent, HistoryCovers, CountCovers, Covers
<1>5. CASE HistoryServed
  <2>1. hist' = [at |-> "done", rows |-> Committed] /\ UNCHANGED <<count, file, call, since>>
    BY <1>5 DEF HistoryServed, counting
  <2>2. HistoryCovers(hist)'
    <3>1. Committed \in Nat /\ Covers(Committed, since)
      BY DEF Covers, IInv, Rows, Committed
    <3> QED
      BY <1>1, <1>2, <1>3, <2>1, <3>1 DEF HistoryCovers
  <2>3. CountCovers(call["refresh"], count["monitor"])' /\ TotalHeld(count["monitor"])'
    BY <1>1, <1>2, <2>1 DEF JInv, Recent, CountCovers, TotalHeld
  <2> QED
    BY <1>1, <1>2, <1>3, <2>1, <2>2, <2>3 DEF JInv, Recent, Enough, NotShort, Rests, Covers
<1>6. CASE HistoryFails
  <2>1. hist' = [at |-> "failed", rows |-> 0] /\ UNCHANGED <<count, file, call, since>>
    BY <1>6 DEF HistoryFails, counting
  <2>2. /\ CountCovers(call["refresh"], count["monitor"])' /\ HistoryCovers(hist)'
        /\ TotalHeld(count["monitor"])'
    BY <1>1, <1>2, <2>1 DEF JInv, Recent, CountCovers, HistoryCovers, TotalHeld
  <2> QED
    BY <1>1, <1>2, <1>3, <2>1, <2>2 DEF JInv, Recent, Enough, NotShort, Rests, Covers
<1>7. CASE CaptureFails
  <2>1. /\ Enough' /\ hist'.at = "none" /\ call'["refresh"].at = "idle"
        /\ count'["monitor"] = count["monitor"]
    BY <1>7, SleepEnough DEF CaptureFails
  <2> QED
    BY <1>1, <1>2, <1>3, <2>1 DEF JInv, Recent, HistoryCovers, CountCovers, TotalHeld, Covers
<1> QED
  BY <1>1, <1>4, <1>5, <1>6, <1>7

LEMMA CommitEnough ==
    ASSUME IInv, JInv, Commit
    PROVE  JInv' /\ UNCHANGED pub
<1>1. /\ rows' = Append(rows, 0) /\ UNCHANGED <<count, file, call, hist, since, pub, age>>
      /\ rows \in Seq(0..Old)
  BY DEF Commit, counting, loop, store, IInv, Rows
<1>2. /\ Committed \in Nat /\ Committed' = Committed + 1
      /\ \A i \in 1..Committed : rows'[i] = rows[i]
      /\ rows'[Committed + 1] = 0
  BY <1>1, AppendProperties, ConstantsTyped DEF Committed
<1>3. ASSUME NEW n, NEW t \in Nat, Covers(n, t), NEW i \in 1..(Committed + 1), rows'[i] > t
      PROVE  i <= n
  <2>1. i # Committed + 1
    BY <1>2, <1>3
  <2> QED
    BY <1>2, <1>3, <2>1 DEF Covers
<1>4. since \in Nat /\ age + MaxLatency \in Nat
  BY ConstantsTyped DEF IInv, Serving
<1>7. \A n : Covers(n, since) => Covers(n, since)'
  BY <1>1, <1>2, <1>3, <1>4 DEF Covers
<1>8. \A n : Covers(n, age + MaxLatency) => Covers(n, age + MaxLatency)'
  BY <1>1, <1>2, <1>3, <1>4 DEF Covers
<1>9. hist.rows \in Nat /\ call["refresh"].got \in Nat /\ pub.rows \in Nat /\ pub.total \in Nat
  BY RefreshApart, ConstantsTyped DEF IInv, Serving, Counting, Calls
<1>5. Enough'
  BY <1>1 DEF JInv, Enough, NotShort, Rests
<1>6. Recent'
  BY <1>1, <1>2, <1>7, <1>8, <1>9 DEF JInv, Recent, HistoryCovers, CountCovers, TotalHeld
<1> QED
  BY <1>1, <1>5, <1>6 DEF JInv

LEMMA TickEnough ==
    ASSUME IInv, JInv, Tick
    PROVE  JInv' /\ UNCHANGED pub
<1>1. /\ rows' = [i \in 1..Committed |-> IF rows[i] < Old THEN rows[i] + 1 ELSE Old]
      /\ since' = since + 1 /\ age' = IF age > Ttl THEN age ELSE age + 1
      /\ UNCHANGED <<count, file, call, hist, pub>>
  BY DEF Tick, counting
<1>2. /\ Committed \in Nat /\ \A i \in 1..Committed : rows[i] \in 0..Old
      /\ since \in 0..Period /\ age \in 0..(Ttl + 1) /\ Old \in Nat
  BY ConstantsTyped DEF IInv, Rows, Committed, Serving
<1>3. Committed' = Committed
  <2> HIDE DEF Old
  <2>1. Len(rows') = Committed
    BY <1>1, <1>2
  <2> QED
    BY <2>1 DEF Committed
<1>4. \A n : Covers(n, since) => Covers(n, since)'
  <2> SUFFICES ASSUME NEW n, Covers(n, since), NEW i \in 1..Committed, rows'[i] > since + 1
               PROVE  i <= n
    BY <1>1, <1>3 DEF Covers
  <2>1. rows[i] > since
    BY <1>1, <1>2
  <2> QED
    BY <2>1 DEF Covers
<1>5. \A n : Covers(n, age + MaxLatency) => Covers(n, age + MaxLatency)'
  <2> SUFFICES ASSUME NEW n, Covers(n, age + MaxLatency), NEW i \in 1..Committed,
                      rows'[i] > age' + MaxLatency
               PROVE  i <= n
    BY <1>3 DEF Covers
  <2>1. rows[i] > age + MaxLatency
    BY <1>1, <1>2, ConstantsTyped
  <2> QED
    BY <2>1 DEF Covers
<1>6. Enough'
  BY <1>1 DEF JInv, Enough, NotShort, Rests
<1>7. Recent'
  BY <1>1, <1>3, <1>4, <1>5 DEF JInv, Recent, HistoryCovers, CountCovers, TotalHeld
<1> QED
  BY <1>1, <1>6, <1>7 DEF JInv

LEMMA RestartEnough ==
    ASSUME IInv, JInv, WriterRestarts \/ MonitorRestarts
    PROVE  JInv' /\ (pub' = pub \/ pub' = NoSnapshot)
<1>1. UNCHANGED <<rows, file>> /\ DOMAIN count = Processes /\ Committed \in Nat
  BY DEF WriterRestarts, MonitorRestarts, IInv, Counting, Rows, Committed
<1>2. Committed' = Committed /\ \A n, t : Covers(n, t)' <=> Covers(n, t)
  BY <1>1 DEF Committed, Covers
<1>3. \A p \in Processes : NotShort(count'[p])
  BY <1>1 DEF WriterRestarts, MonitorRestarts, JInv, Enough, NotShort, NoCount
<1>4. CASE WriterRestarts
  <2>1. /\ count' = [count EXCEPT !["writer"] = NoCount] /\ UNCHANGED <<hist, since, pub, age>>
        /\ call' = [c \in Callers |-> IF c \in Handlers THEN Quiet ELSE call[c]]
    BY <1>4 DEF WriterRestarts, loop, store
  <2>2. ASSUME NEW c \in Callers PROVE Rests(c, call'[c], count'[ProcessOf(c)])
    <3>1. CASE c \in Handlers
      BY <2>1, <3>1 DEF Rests, Quiet
    <3>2. CASE c \notin Handlers
      <4>1. call'[c] = call[c] /\ count'[ProcessOf(c)] = count[ProcessOf(c)]
        BY <1>1, <2>1, <3>2, RefreshApart DEF ProcessOf, Processes
      <4> QED
        BY <4>1 DEF JInv, Enough
    <3> QED
      BY <3>1, <3>2
  <2>3. Enough'
    BY <1>1, <1>3, <2>2 DEF JInv, Enough, NotShort, Rests
  <2>4. call'["refresh"] = call["refresh"] /\ count'["monitor"] = count["monitor"]
    BY <1>1, <2>1, RefreshApart DEF Processes
  <2>5. CountCovers(call'["refresh"], count'["monitor"]) /\ TotalHeld(count'["monitor"])
    BY <2>4 DEF JInv, Recent
  <2> QED
    BY <1>1, <2>1, <2>3, <2>5, RecentKept DEF JInv
<1>5. CASE MonitorRestarts
  <2>1. /\ count' = [count EXCEPT !["monitor"] = NoCount] /\ call' = [call EXCEPT !["refresh"] = Quiet]
        /\ hist'.at = "none" /\ pub' = NoSnapshot /\ pub'.gen = 0 /\ pub'.rows = 0 /\ pub'.total = 0
    BY <1>5 DEF MonitorRestarts, NoHistory, NoSnapshot
  <2>2. Rests("refresh", Quiet, NoCount) /\ NotShort(NoCount) /\ ProcessOf("refresh") = "monitor"
    BY RefreshApart DEF Rests, NotShort, Quiet, NoCount
  <2>3. /\ NotShort(file') /\ Counting /\ Enough /\ "refresh" \in Callers
        /\ \A d \in Callers : ProcessOf(d) = ProcessOf("refresh") => d = "refresh"
    BY <1>1, <2>2, RefreshApart DEF IInv, JInv, Enough
  <2>4. count' = [count EXCEPT ![ProcessOf("refresh")] = NoCount]
    BY <2>1, <2>2
  <2>5. Enough'
    BY <2>1, <2>2, <2>3, <2>4, EnoughKept
  <2>6. call'["refresh"].at = "idle"
    BY <2>1, RefreshApart DEF IInv, Counting, Quiet
  <2> QED
    BY <1>1, <1>2, <2>1, <2>5, <2>6 DEF JInv, Recent, HistoryCovers, CountCovers, TotalHeld
<1> QED
  BY <1>4, <1>5

LEMMA NextJInv ==
    IInv /\ JInv /\ [Next]_vars => JInv' /\ [Advances]_vars
<1> SUFFICES ASSUME IInv, JInv, [Next]_vars PROVE JInv' /\ Advances
  OBVIOUS
<1>0. (pub' = pub \/ pub' = NoSnapshot) => Advances
  BY DEF Advances
<1>1. ASSUME NEW h \in Handlers, HandlerEnters(h) PROVE JInv' /\ UNCHANGED pub
  <2>1. Enter(h) /\ UNCHANGED <<rows, file, hist, pub, since, age>> /\ h \in Callers /\ h # "refresh"
    BY <1>1, RefreshApart DEF HandlerEnters, loop, store
  <2>2. /\ Enough' /\ \E x : call' = [call EXCEPT ![h] = x]
        /\ count' = count \/ \E s : count' = [count EXCEPT !["writer"] = s]
    BY <2>1, EnterEnough, RefreshApart DEF IInv
  <2>3. CountCovers(call'["refresh"], count'["monitor"]) /\ TotalHeld(count'["monitor"])
    BY <2>2, HandlerApart DEF IInv, JInv
  <2> QED
    BY <2>1, <2>2, <2>3, RecentKept DEF JInv
<1>2. ASSUME NEW c \in Callers, CountStep(c) \/ RequestFails(c) PROVE JInv' /\ UNCHANGED pub
  BY <1>2, CountStepEnough
     DEF CountStep, RequestFails, BootScan, BootEnd, Serve, Apply, store
<1>3. CASE Publish
  BY <1>3, PublishEnough
<1>4. CASE StartCapture \/ HistoryServed \/ HistoryFails \/ CaptureFails
  BY <1>0, <1>4, CaptureStepEnough
<1>5. CASE GuardExpires \/ UNCHANGED vars
  <2>1. UNCHANGED <<rows, count, file, call, hist, since, pub, age>>
    BY <1>5 DEF GuardExpires, vars, counting, loop, store
  <2> QED
    BY <1>0, <2>1 DEF JInv, Enough, NotShort, Rests, Recent, HistoryCovers, CountCovers,
                      TotalHeld, Covers, Committed
<1>6. CASE Commit \/ Tick
  BY <1>0, <1>6, CommitEnough, TickEnough
<1>7. CASE WriterRestarts \/ MonitorRestarts
  BY <1>0, <1>7, RestartEnough
<1> QED
  BY <1>0, <1>1, <1>2, <1>3, <1>4, <1>5, <1>6, <1>7 DEF Next, Capture

LEMMA CoveringInvariant == Spec => [](IInv /\ JInv)
<1>1. IInv /\ JInv /\ [Next]_vars => IInv' /\ JInv'
  BY NextIInv, NextJInv
<1> QED
  BY <1>1, InitIInv, InitJInv, PTL DEF Spec

\* However many count requests overlap at the awaits of count_predictions_exact,
\* and whatever fails or restarts, no row up to a count's cursor is missed, in
\* either process's memory or in the durable file.
THEOREM SnapshotCountNeverShort == Spec => []CountNeverShort
<1>1. JInv => CountNeverShort
  BY DEF JInv, Enough, NotShort, CountNeverShort
<1> QED
  BY <1>1, CoveringInvariant, PTL

\* What the monitor shows as fresh has every row older than the TTL and a capture,
\* whatever the writer's handlers do to the count it started from.
THEOREM SnapshotFreshMeansRecent == Spec => []FreshMeansRecent
<1>1. ASSUME IInv, JInv PROVE FreshMeansRecent
  <2> SUFFICES ASSUME Fresh, NEW i \in 1..Committed, rows[i] = Old
               PROVE  i <= pub.rows /\ i <= pub.total
    BY DEF FreshMeansRecent
  <2>1. rows[i] > age + MaxLatency
    BY <1>1, ConstantsTyped DEF Fresh, IInv, Serving
  <2> QED
    BY <1>1, <2>1 DEF Fresh, JInv, Recent, Covers
<1>2. IInv /\ JInv => FreshMeansRecent
  BY <1>1
<1> QED
  BY <1>2, CoveringInvariant, PTL

\* refresh() replaces a generation only by a later one that covers as much.
THEOREM SnapshotGenerationsAdvance == Spec => GenerationsAdvance
<1>1. IInv /\ JInv /\ [Next]_vars =>
        [pub.gen > 0 /\ pub' # pub /\ pub' # NoSnapshot =>
            /\ pub'.gen = pub.gen + 1
            /\ pub'.rows >= pub.rows /\ pub'.total >= pub.total
            /\ <<pub'.rows, pub'.total>> # <<pub.rows, pub.total>>]_vars
  BY NextJInv DEF Advances
<1> QED
  BY <1>1, CoveringInvariant, PTL DEF Spec, GenerationsAdvance

=============================================================================
