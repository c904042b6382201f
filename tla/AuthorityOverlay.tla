--------------------------- MODULE AuthorityOverlay --------------------------
(***************************************************************************)
(* The local authority of one symbol: supabase_client.py's incremental     *)
(* overlay over the durable seal of authority_seal.py.                     *)
(*                                                                         *)
(* A process keeps the symbol's rows in memory under a (ts, id) cursor and *)
(* a seal over both.  fetch_authority_history extends them by what D1 has  *)
(* past the cursor, refreshes the rows that are not settled yet, and (the  *)
(* writer only) saves the result.  Meanwhile the writer's oracle task      *)
(* binds new T0s and settles old ones, writing each row it has touched     *)
(* through to memory and disk between the awaits of a fetch.  The public   *)
(* monitor is another process: it loads the writer's seal once, then lives *)
(* on deltas alone.                                                        *)
(*                                                                         *)
(* T0 n has timestamp n; its D1 id is the position its row is committed at.*)
(***************************************************************************)
EXTENDS Naturals, Sequences, FiniteSets

CONSTANTS
    MaxT0,          \* bound: T0s of the symbol
    LateBinding,    \* TRUE: a T0 may be POSTed while an older one is unresolved
    SettleNewest,   \* TRUE: the newest local row may reach maturity (a quiet hour)
    WriteMayRaise,  \* TRUE: saving a row written through may raise an I/O error
    MaxFaults       \* bound: failed requests, lost answers, failed saves, restarts

ASSUME OverlayAssumption ==
    /\ MaxT0 \in Nat /\ MaxFaults \in Nat
    /\ LateBinding \in BOOLEAN /\ SettleNewest \in BOOLEAN /\ WriteMayRaise \in BOOLEAN

Ids == 1..MaxT0
Procs == {"writer", "monitor"}

VARIABLES
    d1,         \* rows in id order: timestamp, settled
    bound,      \* ids a receipt is bound to
    op,         \* the write the oracle task awaits the answer of
    mem,        \* per process: rows, cursor and the seal over them, if loaded
    disk,       \* the durable seal: rows and cursor
    call,       \* per process: its fetch_authority_history in progress
    served,     \* per process: what its last successful fetch returned
    ok,         \* per process: the last fetch to end succeeded
    faults      \* faults so far

oracle == <<d1, bound, op>>
vars == <<oracle, mem, disk, call, served, ok, faults>>

-----------------------------------------------------------------------------
\* A POST answers with the timestamp ending in "Z", a GET in "+00:00"; local
\* rows and cursors keep the text, and compare it.
Forms == {"Z", "+"}
Absent == [t |-> 0, form |-> "+", done |-> FALSE, conf |-> FALSE]
NoRows == [i \in Ids |-> Absent]
NoCursor == [t |-> 0, id |-> 0, form |-> "+"]
NoOp == [kind |-> "none", id |-> 0]
Idle == [at |-> "idle", rows |-> NoRows, dirty |-> FALSE, upto |-> 0]
NotLoaded == [loaded |-> FALSE, rows |-> NoRows, cursor |-> NoCursor, sealed |-> TRUE]
NotServed == [ids |-> {}, upto |-> 0, t |-> 0]

Held(rows) == {i \in Ids : rows[i] # Absent}
\* Seeded fault: the cursor names the id expected next.
CursorOfNext(rows, i) == [t |-> rows[i].t, id |-> i + 1, form |-> rows[i].form]

CursorOf(rows, i) == [t |-> rows[i].t, id |-> i, form |-> rows[i].form]

\* _cursor_gt: timestamps of one instant compare by their text, "+" before "Z".
After(a, b) == a.t > b.t \/ (a.t = b.t /\ a.form = "Z" /\ b.form = "+")

\* save_authority_state: the cursor must be the last row's, text included.
LastRow(rows) ==
    IF Held(rows) = {} THEN NoCursor
    ELSE CursorOf(rows, CHOOSE i \in Held(rows) : \A j \in Held(rows) : rows[j].t <= rows[i].t)
Savable(m) == m.cursor = LastRow(m.rows)

\* A seal over the state, renewed by _seal_state; _validate_state_metadata
\* refuses a state that has changed since.
Sealed(m) == [m EXCEPT !.sealed = TRUE]

\* Seeded fault: a restart begins from nothing instead of the saved seal.
LoadedEmpty == [NotLoaded EXCEPT !.loaded = TRUE]

\* load_authority_state.
Loaded == [loaded |-> TRUE, rows |-> disk.rows, cursor |-> disk.cursor, sealed |-> TRUE]

\* A row as an authority request reads it now.
FromD1(i) == [t |-> d1[i].t, form |-> "+", done |-> d1[i].done, conf |-> TRUE]

Fault == faults < MaxFaults /\ faults' = faults + 1
NoFault == UNCHANGED faults

-----------------------------------------------------------------------------
Init ==
    /\ d1 = <<>> /\ bound = {} /\ op = NoOp
    /\ mem = [p \in Procs |-> NotLoaded]
    /\ disk = [rows |-> NoRows, cursor |-> NoCursor]
    /\ call = [p \in Procs |-> Idle] /\ served = [p \in Procs |-> NotServed]
    /\ ok = [p \in Procs |-> TRUE] /\ faults = 0

-----------------------------------------------------------------------------
\* Seeded fault: the cursor is left to the next delta.
WrittenBehind(m, i, row) == Sealed([m EXCEPT !.rows[i] = row])

\* persist_authority_row_local: replace the row, advance the cursor, reseal,
\* save.  A state loaded for the purpose is kept only if the save succeeds; a
\* state in memory has changed either way.
Written(m, i, row) ==
    LET rows == [m.rows EXCEPT ![i] = row]
        key  == CursorOf(rows, i) IN
    Sealed([m EXCEPT !.rows = rows, !.cursor = IF After(key, @) THEN key ELSE @])

WriteThrough(i, row) ==
    LET m == Written(IF mem["writer"].loaded THEN mem["writer"] ELSE Loaded, i, row) IN
    IF Savable(m)
    THEN mem' = [mem EXCEPT !["writer"] = m] /\ disk' = [rows |-> m.rows, cursor |-> m.cursor]
    ELSE /\ mem' = IF mem["writer"].loaded THEN [mem EXCEPT !["writer"] = m] ELSE mem
         /\ UNCHANGED disk

\* The save raises an I/O error: memory has changed, disk has not.
WriteThroughRaises(i, row) ==
    /\ WriteMayRaise /\ Fault /\ UNCHANGED disk
    /\ mem' = IF mem["writer"].loaded
              THEN [mem EXCEPT !["writer"] = Written(@, i, row)] ELSE mem

Committed == {d1[i].t : i \in 1..Len(d1)}
BoundT0s == {d1[i].t : i \in bound}

\* insert_prediction, of the newest T0 or in the retry pass.
Post ==
    /\ op = NoOp
    /\ \E t \in Ids \ Committed :
        /\ LateBinding \/ 1..(t - 1) \subseteq BoundT0s
        /\ d1' = Append(d1, [t |-> t, done |-> FALSE])
    /\ op' = [kind |-> "insert", id |-> Len(d1) + 1]
    /\ NoFault /\ UNCHANGED <<bound, mem, disk, call, served, ok>>

\* The answer's row is written through before the receipt is bound.
Posted(i) == [t |-> d1[i].t, form |-> "Z", done |-> FALSE, conf |-> TRUE]
InsertAnswered ==
    /\ op.kind = "insert" /\ op' = NoOp
    /\ \/ WriteThrough(op.id, Posted(op.id)) /\ bound' = bound \cup {op.id} /\ NoFault
       \/ WriteThroughRaises(op.id, Posted(op.id)) /\ UNCHANGED bound
    /\ UNCHANGED <<d1, call, served, ok>>

\* _lookup_exact_prediction_t0 finds a row whose answer was lost; its select
\* leaves the outcome out.
Found(i) == [FromD1(i) EXCEPT !.done = FALSE]
Lookup ==
    /\ op = NoOp
    /\ \E i \in (1..Len(d1)) \ bound :
        \/ WriteThrough(i, Found(i)) /\ bound' = bound \cup {i} /\ NoFault
        \/ WriteThroughRaises(i, Found(i)) /\ UNCHANGED bound
    /\ UNCHANGED <<d1, op, call, served, ok>>

\* get_local_authority_rows: memory if its seal holds, else the disk.
LocalRows ==
    IF mem["writer"].loaded /\ mem["writer"].sealed THEN mem["writer"].rows ELSE disk.rows

\* update_outcome_dual of a locally pending row: GET, then the PATCH commits.
\* An hour later the row is seldom the newest: SettleNewest lifts this.
Pending(i) ==
    /\ LocalRows[i] # Absent /\ ~LocalRows[i].done
    /\ SettleNewest \/ \E j \in Held(LocalRows) : LocalRows[j].t > LocalRows[i].t
Mature == {i \in 1..Len(d1) : Pending(i) /\ ~d1[i].done}

\* Seeded fault: a compare-and-set that matched no row counts as success.
SettleUnmatched ==
    /\ op = NoOp /\ \E i \in Mature : op' = [kind |-> "settle", id |-> i]
    /\ NoFault /\ UNCHANGED <<d1, bound, mem, disk, call, served, ok>>

Settle ==
    /\ op = NoOp
    /\ \E i \in Mature :
        /\ d1' = [d1 EXCEPT ![i].done = TRUE] /\ op' = [kind |-> "settle", id |-> i]
    /\ NoFault /\ UNCHANGED <<bound, mem, disk, call, served, ok>>

\* The row written through is the GET's short select with the outcome added;
\* the select leaves confidence out.
SettledRow(i) == [t |-> d1[i].t, form |-> "+", done |-> TRUE, conf |-> FALSE]
SettleAnswered ==
    /\ op.kind = "settle" /\ op' = NoOp
    /\ \/ WriteThrough(op.id, SettledRow(op.id)) /\ NoFault
       \/ WriteThroughRaises(op.id, SettledRow(op.id))
    /\ UNCHANGED <<d1, bound, call, served, ok>>

AnswerLost ==
    /\ op # NoOp /\ op' = NoOp /\ Fault
    /\ UNCHANGED <<d1, bound, mem, disk, call, served, ok>>

-----------------------------------------------------------------------------
\* fetch_authority_history, from one await to the next.  The gateway reads D1
\* when a request is made; the answer may take any time.
Answer(p, at, rows, dirty, upto) ==
    call' = [call EXCEPT ![p] = [at |-> at, rows |-> rows, dirty |-> dirty, upto |-> upto]]

\* Load the seal from disk, or take a memory state that matches its seal, and
\* ask for the rows past the cursor: later ones of its instant, later instants.
FetchStart(p) ==
    /\ call[p].at = "idle"
    /\ mem[p].loaded => mem[p].sealed
    /\ LET m == IF mem[p].loaded THEN mem[p] ELSE Loaded
           Past(i) == d1[i].t > m.cursor.t \/ (d1[i].t = m.cursor.t /\ i > m.cursor.id) IN
       /\ mem' = [mem EXCEPT ![p] = m]
       /\ Answer(p, "delta", [i \in Ids |-> IF i <= Len(d1) /\ Past(i) THEN FromD1(i) ELSE Absent],
                 FALSE, Len(d1))
    /\ NoFault /\ UNCHANGED <<oracle, disk, served, ok>>

\* _validate_state_metadata raises.
FetchRefused(p) ==
    /\ call[p].at = "idle" /\ mem[p].loaded /\ ~mem[p].sealed
    /\ ok' = [ok EXCEPT ![p] = FALSE]
    /\ NoFault /\ UNCHANGED <<oracle, mem, disk, call, served>>

\* Seeded fault: only the newest row of a delta is taken.
MergeNewest(old, new) ==
    [i \in Ids |-> IF new[i] # Absent /\ \A j \in Ids : new[j].t <= new[i].t THEN new[i] ELSE old[i]]

Merge(old, new) == [i \in Ids |-> IF new[i] # Absent THEN new[i] ELSE old[i]]

\* The delta changes rows and cursor in place, under a seal not yet renewed;
\* _refresh_mutable_rows then asks for the rows that are not settled.
ApplyDelta(p) ==
    /\ call[p].at = "delta"
    /\ LET delta == call[p].rows
           rows  == Merge(mem[p].rows, delta)
           new   == IF Held(delta) = {} THEN mem[p]
                    ELSE [mem[p] EXCEPT !.rows = rows, !.cursor = LastRow(delta)] IN
       /\ mem' = [mem EXCEPT ![p] = [new EXCEPT !.sealed = @ /\ new = mem[p]]]
       /\ Answer(p, "refresh",
                 [i \in Ids |-> IF rows[i] # Absent /\ ~rows[i].done THEN FromD1(i) ELSE Absent],
                 Held(delta) # {}, call[p].upto)
    /\ NoFault /\ UNCHANGED <<oracle, disk, served, ok>>

\* The timestamp's sealed text is preserved.
Refreshed(p) ==
    [i \in Ids |-> IF call[p].rows[i] = Absent THEN mem[p].rows[i]
                   ELSE [call[p].rows[i] EXCEPT !.form = mem[p].rows[i].form]]

\* The state the fetch ends with, resealed if anything changed.
Verified(p) ==
    LET new == [mem[p] EXCEPT !.rows = Refreshed(p)] IN
    IF call[p].dirty \/ new # mem[p] THEN Sealed(new) ELSE new

\* Validate it and (the writer) save it; either may refuse a state that memory
\* keeps.
FetchEnd(p) ==
    /\ call[p].at = "refresh" /\ call' = [call EXCEPT ![p] = Idle]
    /\ LET m == Verified(p)
           complete == m.sealed /\ (p = "writer" => Savable(m)) IN
       /\ mem' = [mem EXCEPT ![p] = m]
       /\ disk' = IF complete /\ p = "writer" THEN [rows |-> m.rows, cursor |-> m.cursor] ELSE disk
       /\ served' = IF complete
                    THEN [served EXCEPT ![p] = [ids |-> Held(m.rows), upto |-> call[p].upto, t |-> m.cursor.t]]
                    ELSE served
       /\ ok' = [ok EXCEPT ![p] = complete]
    /\ NoFault /\ UNCHANGED oracle

\* The final save raises: memory keeps the verified state.
SaveRaises ==
    /\ call["writer"].at = "refresh" /\ Verified("writer").sealed /\ Fault
    /\ mem' = [mem EXCEPT !["writer"] = Verified("writer")]
    /\ call' = [call EXCEPT !["writer"] = Idle] /\ ok' = [ok EXCEPT !["writer"] = FALSE]
    /\ UNCHANGED <<oracle, disk, served>>

\* A request fails, or a limit is hit, at either await.
FetchRaises(p) ==
    /\ call[p].at # "idle" /\ Fault
    /\ call' = [call EXCEPT ![p] = Idle] /\ ok' = [ok EXCEPT ![p] = FALSE]
    /\ UNCHANGED <<oracle, mem, disk, served>>

-----------------------------------------------------------------------------
\* Receipts and the seal on disk survive; what was served is gone.
Crash(p) ==
    /\ Fault
    /\ mem' = [mem EXCEPT ![p] = NotLoaded] /\ call' = [call EXCEPT ![p] = Idle]
    /\ served' = [served EXCEPT ![p] = NotServed] /\ ok' = [ok EXCEPT ![p] = TRUE]
    /\ op' = IF p = "writer" THEN NoOp ELSE op
    /\ UNCHANGED <<d1, bound, disk>>

Oracle == Post \/ InsertAnswered \/ Lookup \/ Settle \/ SettleAnswered
Fetch(p) ==
    FetchStart(p) \/ FetchRefused(p) \/ ApplyDelta(p) \/ FetchEnd(p)

Next ==
    \/ Oracle \/ AnswerLost \/ SaveRaises
    \/ \E p \in Procs : Fetch(p) \/ FetchRaises(p) \/ Crash(p)

Spec == Init /\ [][Next]_vars

\* Snapshots are refreshed for ever.
FairSpec == Spec /\ \A p \in Procs : WF_vars(Fetch(p))

-----------------------------------------------------------------------------
LocalRow == [t : 0..MaxT0, form : Forms, done : BOOLEAN, conf : BOOLEAN]
Rows == [Ids -> LocalRow]
Cursor == [t : 0..MaxT0, id : 0..MaxT0, form : Forms]

\* Types of D1, the oracle task, both processes and the durable seal.
TypeOK ==
    /\ d1 \in Seq([t : Ids, done : BOOLEAN]) /\ Len(d1) <= MaxT0
    /\ bound \subseteq Ids
    /\ op \in [kind : {"none", "insert", "settle"}, id : 0..MaxT0]
    /\ mem \in [Procs -> [loaded : BOOLEAN, rows : Rows, cursor : Cursor, sealed : BOOLEAN]]
    /\ disk \in [rows : Rows, cursor : Cursor]
    /\ call \in [Procs -> [at : {"idle", "delta", "refresh"}, rows : Rows, dirty : BOOLEAN, upto : 0..MaxT0]]
    /\ served \in [Procs -> [ids : SUBSET Ids, upto : 0..MaxT0, t : 0..MaxT0]]
    /\ ok \in [Procs -> BOOLEAN] /\ faults \in 0..MaxFaults

\* Local rows are D1's: nothing local has no D1 row, another row's timestamp,
\* or a settlement D1 does not have.
OfD1(rows) ==
    \A i \in Held(rows) : i <= Len(d1) /\ rows[i].t = d1[i].t /\ (rows[i].done => d1[i].done)
NeverAhead == OfD1(disk.rows) /\ \A p \in Procs : OfD1(mem[p].rows)

\* A T0 whose receipt is bound is in the durable authority, so that it will
\* be settled and scored: the verifier looks nowhere else.
DurablyBound == \A i \in bound : i \in Held(disk.rows)

\* A history served as complete has every row D1 had when the fetch began, up
\* to the history's own cursor.
HistoryComplete ==
    \A p \in Procs : \A i \in 1..served[p].upto :
        d1[i].t <= served[p].t => i \in served[p].ids

\* The durable authority never loses a row and never moves its cursor back,
\* whichever fetch or write-through saves last.
DiskOnlyGrows ==
    [][Held(disk.rows) \subseteq Held(disk.rows)' /\ disk.cursor.t <= disk.cursor'.t]_vars

\* "Write-through an exact inserted/settled row": local rows keep what D1's
\* row has, confidence included.
RowsExact == \A i \in Held(disk.rows) : disk.rows[i].conf

\* "Stay live and fail closed until a complete snapshot can be captured": a
\* fetch that failed is followed by one that succeeds, once errors stop.
MonitorRecovers == ~ok["monitor"] ~> ok["monitor"]

=============================================================================
