-------------------------- MODULE AuthoritySnapshot --------------------------
(***************************************************************************)
(* What the public monitor serves as the oracle's record:                  *)
(* authority_snapshot.py publishes generations captured by the refresh     *)
(* loop of main_real.py from two concurrent reads, the authority history   *)
(* and the exact count.  The count is kept by count_predictions_exact      *)
(* (supabase_client.py) in memory, once per process, and in a durable file *)
(* that the writer's health handlers advance and the monitor only reads.   *)
(*                                                                         *)
(* Row i is the i-th the authority committed: ids are allocated in order   *)
(* and rows are never deleted.  The history read is the one AuthorityOver- *)
(* lay models: here it answers with the rows committed when it is served.  *)
(* Time passes in ticks; only ages up to a bound are told apart.           *)
(***************************************************************************)
EXTENDS Naturals, Sequences, FiniteSets

CONSTANTS
    Handlers,       \* count requests the writer's HTTP server serves at a time
    Period,         \* SENEX_AUTHORITY_REFRESH_INTERVAL_SEC, in ticks
    Headroom,       \* the 120 seconds the TTL must leave
    ConfiguredTtl,  \* SENEX_AUTHORITY_SNAPSHOT_TTL_SEC
    MaxLatency,     \* bound: ticks a capture takes, client timeouts included
    MaxRows,        \* bound: rows
    MaxFaults       \* bound: failed requests and saves, restarts

ASSUME SnapshotAssumption ==
    /\ "refresh" \notin Handlers
    /\ Period \in Nat \ {0} /\ Headroom \in Nat /\ ConfiguredTtl \in Nat
    /\ MaxLatency \in Nat \ {0} /\ MaxLatency <= Headroom /\ MaxLatency <= Period
    /\ MaxRows \in Nat \ {0} /\ MaxFaults \in Nat

VARIABLES
    rows,       \* ages of the committed rows
    count,      \* _exact_count_state of each process
    file,       \* the durable count
    guard,      \* a bootstrap was attempted within the cooldown
    call,       \* calls of count_predictions_exact under way
    hist,       \* the history read of the capture
    phase,      \* of the monitor: start, capture, sleep
    first,      \* the capture is the one made at startup
    since,      \* ticks since the loop's last attempt
    pub,        \* the published generation
    err,        \* last_refresh_error
    age,        \* ticks since the last success
    faults

counting == <<count, file, guard, call>>
loop == <<hist, phase, first, since>>
store == <<pub, err, age>>
vars == <<rows, counting, loop, store, faults>>

Callers == Handlers \union {"refresh"}
Processes == {"writer", "monitor"}
ProcessOf(c) == IF c \in Handlers THEN "writer" ELSE "monitor"
Committed == Len(rows)

\* AuthoritySnapshotStore.__init__.
Ttl == IF ConfiguredTtl >= Period + Headroom THEN ConfiguredTtl ELSE Period + Headroom

NoCount == [known |-> FALSE, count |-> 0, cursor |-> 0]
Quiet == [at |-> "idle", from |-> 0, got |-> 0]
Asked(from) == [at |-> "asked", from |-> from, got |-> from]
NoSnapshot == [gen |-> 0, rows |-> 0, total |-> 0]
NoHistory == [at |-> "none", rows |-> 0]

Fault == faults < MaxFaults /\ faults' = faults + 1

Init ==
    /\ rows \in {<<>>, <<0>>} /\ file \in {NoCount, [known |-> TRUE, count |-> Len(rows), cursor |-> Len(rows)]}
    /\ guard = FALSE
    /\ count = [p \in Processes |-> NoCount] /\ call = [c \in Callers |-> Quiet]
    /\ hist = NoHistory /\ phase = "start" /\ first = TRUE /\ since = 0
    /\ pub = NoSnapshot /\ err = FALSE /\ age = 0 /\ faults = 0

-----------------------------------------------------------------------------
(* count_predictions_exact, from one await to the next. *)

\* How a call ends: a handler answers, the refresh keeps the value.
Ended(c, at, value) ==
    IF c \in Handlers THEN Quiet ELSE [at |-> at, from |-> 0, got |-> value]

\* The state in memory, or else the durable one.
Loaded(p) == IF count[p].known THEN count[p] ELSE file

Enter(c) ==
    LET p == ProcessOf(c) IN
    \/ /\ Loaded(p).known
       /\ count' = [count EXCEPT ![p] = Loaded(p)]
       /\ call' = [call EXCEPT ![c] = Asked(Loaded(p).cursor)]
       /\ UNCHANGED guard
    \/ /\ ~Loaded(p).known /\ p = "writer" /\ ~guard
       /\ guard' = TRUE                     \* record_bootstrap_attempt
       /\ call' = [call EXCEPT ![c] = [at |-> "boot", from |-> Committed, got |-> 0]]
       /\ UNCHANGED count
    \/ /\ ~Loaded(p).known /\ (p = "monitor" \/ guard)
       /\ call' = [call EXCEPT ![c] = Ended(c, "failed", 0)]
       /\ UNCHANGED <<count, guard>>

\* GET /api/health and /api/oracle/predictions/db.
HandlerEnters(h) ==
    /\ call[h] = Quiet /\ Enter(h)
    /\ UNCHANGED <<rows, file, loop, store, faults>>

Raises(c) == call' = [call EXCEPT ![c] = Ended(c, "failed", 0)]

\* _bootstrap_exact_count_from_ids: the traversal, between two reads of the tail.
BootScan(c) ==
    /\ call[c].at = "boot"
    /\ call' = [call EXCEPT ![c] = [at |-> "scanned", from |-> @.from, got |-> Committed]]
    /\ UNCHANGED <<rows, count, file, guard, loop, store, faults>>

TailUnmoved(c) == call[c].from = Committed /\ call[c].got = Committed

BootEnd(c) ==
    /\ call[c].at = "scanned"
    /\ LET total == call[c].got
           state == [known |-> TRUE, count |-> total, cursor |-> total] IN
       \/ /\ TailUnmoved(c)
          /\ file' = state /\ count' = [count EXCEPT !["writer"] = state]
          /\ call' = [call EXCEPT ![c] = Asked(total)]
          /\ UNCHANGED faults
       \/ TailUnmoved(c) /\ Fault /\ Raises(c) /\ UNCHANGED <<count, file>>
       \/ ~TailUnmoved(c) /\ Raises(c) /\ UNCHANGED <<count, file, faults>>
    /\ UNCHANGED <<rows, guard, loop, store>>

\* _global_id_delta: the rows past the cursor the call started from.
Serve(c) ==
    /\ call[c].at = "asked"
    /\ call' = [call EXCEPT ![c] = [at |-> "answered", from |-> @.from, got |-> Committed]]
    /\ UNCHANGED <<rows, count, file, guard, loop, store, faults>>

\* A request fails; D1's quota is one of the causes.
RequestFails(c) ==
    /\ call[c].at \in {"boot", "scanned", "asked"} /\ Fault /\ Raises(c)
    /\ UNCHANGED <<rows, count, file, guard, loop, store>>

\* Seeded fault: rows found past an outdated cursor are taken for counted ones.
AdvancedOnce(state, c) ==
    [known |-> state.known,
     count |-> IF call[c].from = state.cursor
               THEN state.count + (call[c].got - call[c].from) ELSE state.count,
     cursor |-> IF call[c].got > call[c].from THEN call[c].got ELSE state.cursor]

\* The delta is added to whatever the state is by now.
Advanced(state, c) ==
    [known |-> state.known, count |-> state.count + (call[c].got - call[c].from),
     cursor |-> IF call[c].got > call[c].from THEN call[c].got ELSE state.cursor]

\* Only the writer saves; if that raises, its memory has advanced.
Apply(c) ==
    /\ call[c].at = "answered"
    /\ LET p == ProcessOf(c)
           state == Advanced(count[p], c) IN
       /\ count' = [count EXCEPT ![p] = state]
       /\ \/ p = "monitor" /\ UNCHANGED <<file, faults>>
             /\ call' = [call EXCEPT ![c] = Ended(c, "done", state.count)]
          \/ p = "writer" /\ file' = state /\ call' = [call EXCEPT ![c] = Quiet]
             /\ UNCHANGED faults
          \/ p = "writer" /\ Fault /\ Raises(c) /\ UNCHANGED file
    /\ UNCHANGED <<rows, guard, loop, store>>

\* Seeded fault: an attempt that failed is held against the next one for good.
GuardStays ==
    /\ guard /\ file.known /\ guard' = FALSE
    /\ UNCHANGED <<rows, count, file, call, loop, store, faults>>

\* The bootstrap cooldown runs out.
GuardExpires ==
    /\ guard /\ guard' = FALSE
    /\ UNCHANGED <<rows, count, file, call, loop, store, faults>>

-----------------------------------------------------------------------------
(* The refresh loop and the store. *)

\* real_lifespan's first capture, then one every Period (_authority_refresh_loop).
Starts == phase = "start" \/ (phase = "sleep" /\ since = Period)

\* get(force=True): both reads of _capture_complete begin.
StartCapture ==
    /\ Starts
    /\ first' = (phase = "start")
    /\ phase' = "capture" /\ since' = 0
    /\ hist' = [at |-> "asked", rows |-> 0]
    /\ Enter("refresh")
    /\ UNCHANGED <<rows, file, store, faults>>

\* fetch_authority_history answers.
HistoryServed ==
    /\ hist.at = "asked" /\ hist' = [at |-> "done", rows |-> Committed]
    /\ UNCHANGED <<rows, counting, phase, first, since, store, faults>>

\* It raises, or the scores or the live gate built from it do.
HistoryFails ==
    /\ hist.at = "asked" /\ Fault /\ hist' = [at |-> "failed", rows |-> 0]
    /\ UNCHANGED <<rows, counting, phase, first, since, store>>

\* Seeded fault: a capture is published once the history is there.
CompleteEnough == hist.at = "done"

Gathered == hist.at \in {"done", "failed"} /\ call["refresh"].at \in {"done", "failed"}
Complete == hist.at = "done" /\ call["refresh"].at = "done"

\* The loop sleeps from the attempt's start, but a whole Period after startup's.
Sleep ==
    /\ phase' = "sleep" /\ since' = IF first THEN 0 ELSE since
    /\ hist' = NoHistory /\ call' = [call EXCEPT !["refresh"] = Quiet]
    /\ UNCHANGED <<rows, count, file, guard, first, faults>>

\* The same content revalidates the generation, another is a new one.
Publish ==
    /\ phase = "capture" /\ Gathered /\ Complete
    /\ LET content == [gen |-> pub.gen, rows |-> hist.rows, total |-> call["refresh"].got] IN
       pub' = IF pub.gen > 0 /\ content = pub THEN pub ELSE [content EXCEPT !.gen = @ + 1]
    /\ err' = FALSE /\ age' = 0
    /\ Sleep

CaptureFails ==
    /\ phase = "capture" /\ Gathered /\ ~Complete
    /\ err' = TRUE /\ UNCHANGED <<pub, age>>
    /\ Sleep

-----------------------------------------------------------------------------
(* The rest of the world. *)

Commit ==
    /\ Committed < MaxRows /\ rows' = Append(rows, 0)
    /\ UNCHANGED <<counting, loop, store, faults>>

\* Rows this old must be in a snapshot served as fresh.
Old == Ttl + MaxLatency + 1

\* A due attempt starts at once, and a capture ends within MaxLatency.
Tick ==
    /\ ~Starts /\ (phase = "capture" => since < MaxLatency)
    /\ rows' = [i \in 1..Committed |-> IF rows[i] < Old THEN rows[i] + 1 ELSE Old]
    /\ since' = since + 1
    /\ age' = IF age > Ttl THEN age ELSE age + 1
    /\ UNCHANGED <<counting, hist, phase, first, pub, err, faults>>

WriterRestarts ==
    /\ Fault /\ count' = [count EXCEPT !["writer"] = NoCount]
    /\ call' = [c \in Callers |-> IF c \in Handlers THEN Quiet ELSE call[c]]
    /\ UNCHANGED <<rows, file, guard, loop, store>>

\* authority_store.clear, and the count read from the file again.
MonitorRestarts ==
    /\ Fault /\ count' = [count EXCEPT !["monitor"] = NoCount]
    /\ call' = [call EXCEPT !["refresh"] = Quiet] /\ hist' = NoHistory
    /\ phase' = "start" /\ first' = TRUE /\ since' = 0
    /\ pub' = NoSnapshot /\ err' = FALSE /\ age' = 0
    /\ UNCHANGED <<rows, file, guard>>

CountStep(c) == BootScan(c) \/ BootEnd(c) \/ Serve(c) \/ Apply(c)
Capture == StartCapture \/ HistoryServed \/ Publish \/ CaptureFails
Next ==
    \/ \E h \in Handlers : HandlerEnters(h)
    \/ \E c \in Callers : CountStep(c) \/ RequestFails(c)
    \/ Capture \/ HistoryFails
    \/ GuardExpires \/ Commit \/ Tick \/ WriterRestarts \/ MonitorRestarts

Spec == Init /\ [][Next]_vars

\* Requests are answered or time out, time passes, the health check is called
\* again and again.
Fairness ==
    /\ \A c \in Callers : WF_vars(CountStep(c))
    /\ WF_vars(\E h \in Handlers : HandlerEnters(h))
    /\ WF_vars(StartCapture) /\ WF_vars(HistoryServed) /\ WF_vars(Publish \/ CaptureFails)
    /\ WF_vars(GuardExpires) /\ WF_vars(Tick)
FairSpec == Spec /\ Fairness

-----------------------------------------------------------------------------
(* Properties. *)

Counts == [known : BOOLEAN, count : Nat, cursor : 0..MaxRows]

\* Every variable has its type.
TypeOK ==
    /\ rows \in Seq(0..Old) /\ Committed <= MaxRows
    /\ count \in [Processes -> Counts] /\ file \in Counts /\ guard \in BOOLEAN
    /\ call \in [Callers -> [at : {"idle", "boot", "scanned", "asked", "answered", "done", "failed"},
                             from : 0..MaxRows, got : Nat]]
    /\ hist \in [at : {"none", "asked", "done", "failed"}, rows : 0..MaxRows]
    /\ phase \in {"start", "capture", "sleep"} /\ first \in BOOLEAN /\ since \in 0..Period
    /\ pub \in [gen : Nat, rows : 0..MaxRows, total : Nat]
    /\ err \in BOOLEAN /\ age \in 0..(Ttl + 1) /\ faults \in 0..MaxFaults

\* The count misses no row up to its cursor, in the file as in both processes'
\* memories: handlers that overlap between a count's read and its save
\* (supabase_client.py:1294) may count a row twice, and a late answer may set the
\* cursor back, but no row is passed over.
CountNeverShort ==
    /\ file.known => file.count >= file.cursor
    /\ \A p \in Processes : count[p].known => count[p].count >= count[p].cursor

\* What the docstring promises (supabase_client.py:1241, "Exact global row count
\* from durable state plus bounded append deltas"): the durable count is the
\* number of rows up to its cursor.
CountExact == file.known => file.count = file.cursor

\* observe() shows the generation as neither stale nor in error.
Fresh == pub.gen > 0 /\ age <= Ttl /\ ~err

\* What is served as fresh misses no row older than the TTL and one capture, in
\* its history or in its total, although the two are read apart and a failed or
\* revalidating refresh keeps the generation.
FreshMeansRecent ==
    Fresh => \A i \in 1..Committed : rows[i] = Old => i <= pub.rows /\ i <= pub.total

\* While refreshes succeed the generation never goes stale, however the captures'
\* latencies fall: the TTL leaves the headroom for it (authority_snapshot.py:129).
NeverStaleBetween == pub.gen > 0 /\ ~err => age <= Ttl

\* Short of a restart a published generation is replaced only by a later one, of
\* another content, that has no fewer rows and counts no fewer.
GenerationsAdvance ==
    [][pub.gen > 0 /\ pub' # pub /\ pub' # NoSnapshot =>
        /\ pub'.gen = pub.gen + 1
        /\ pub'.rows >= pub.rows /\ pub'.total >= pub.total
        /\ <<pub'.rows, pub'.total>> # <<pub.rows, pub.total>>]_vars

\* Once faults stop, the monitor serves a fresh generation for good, even if the
\* durable count is still to be bootstrapped by the writer.
ServesFreshAgain == <>[]Fresh
=============================================================================
