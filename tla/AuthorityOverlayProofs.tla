------------------------ MODULE AuthorityOverlayProofs ------------------------
(***************************************************************************)
(* The local authority of a symbol, for any number of T0s, faults and      *)
(* restarts.  Whatever the writer's oracle task, its fetches and the       *)
(* monitor do to each other, local rows are D1's and the durable authority *)
(* only grows.  That nothing bound is missing from it, and that no served  *)
(* history has a hole, needs T0s to be committed in the order they are     *)
(* bound (~LateBinding) and saves that do not raise (~WriteMayRaise): then *)
(* D1's ids are its timestamps, every set of local rows is a prefix of D1, *)
(* and a cursor stands inside it.                                          *)
(***************************************************************************)
EXTENDS AuthorityOverlay, FiniteSetTheorems, WellFoundedInduction, TLAPS

\* The types by part.
D1Row == [t : Ids, done : BOOLEAN]
Memory == [loaded : BOOLEAN, rows : Rows, cursor : Cursor, sealed : BOOLEAN]
Saved == [rows : Rows, cursor : Cursor]
Calls == [at : {"idle", "delta", "refresh"}, rows : Rows, dirty : BOOLEAN, upto : 0..MaxT0]
Histories == [ids : SUBSET Ids, upto : 0..MaxT0, t : 0..MaxT0]

\* OfD1, of the rows D1 had at some moment.
Of(rows, d) ==
    \A i \in Held(rows) : i <= Len(d) /\ rows[i].t = d[i].t /\ (rows[i].done => d[i].done)

\* What D1 may become: rows are committed at its end and settled in place.
Grows(d, e) ==
    /\ Len(d) <= Len(e)
    /\ \A i \in 1..Len(d) : e[i].t = d[i].t /\ (d[i].done => e[i].done)

\* No two rows of D1 have one timestamp.
Counted == IsFiniteSet(Committed) /\ Cardinality(Committed) = Len(d1)

\* The write in progress is of a row D1 has; a settlement has been committed.
OpKnown ==
    op.kind # "none" => op.id \in 1..Len(d1) /\ (op.kind = "settle" => d1[op.id].done)

\* A fetch works on a loaded memory; it and what it serves are of D1's past.
CallsKnown ==
    \A p \in Procs :
        /\ call[p].at # "idle" => mem[p].loaded
        /\ Of(call[p].rows, d1) /\ call[p].upto <= Len(d1) /\ served[p].upto <= Len(d1)

RowsKnown == Of(disk.rows, d1) /\ \A p \in Procs : Of(mem[p].rows, d1)

\* The writer's memory is ahead of its disk, and the seal's cursor is its last row.
DiskBehind ==
    /\ mem["writer"].loaded => Held(disk.rows) \subseteq Held(mem["writer"].rows)
    /\ disk.cursor = LastRow(disk.rows)

\* A local state with no hole: its rows are D1's first ones, and its cursor is
\* at one of them, in the form of an answered POST only if that row is bound.
Whole(rows, cursor, b) ==
    /\ \A i \in Held(rows) : 1..i \subseteq Held(rows)
    /\ cursor.id = cursor.t /\ cursor.t \in Held(rows) \cup {0}
    /\ cursor.form = "Z" => cursor.t \in b

\* A delta begins where the memory it will be merged into ends.
Fits(c, rows) ==
    /\ c.at = "delta" => \A i \in Held(c.rows) : /\ c.rows[i].form = "+"
                                                /\ 1..i \subseteq Held(c.rows) \cup Held(rows)
    /\ c.at = "refresh" => Held(c.rows) \subseteq Held(rows)

\* Timestamps are committed in order, and only the newest may be unbound.
Ordered ==
    /\ \A i \in 1..Len(d1) : d1[i].t = i
    /\ bound \subseteq 1..Len(d1) /\ 1..(Len(d1) - 1) \subseteq bound
    /\ op.kind = "insert" => op.id = Len(d1) /\ op.id \notin bound

IInv == TypeOK /\ Counted /\ OpKnown /\ CallsKnown /\ RowsKnown /\ DiskBehind

OInv ==
    /\ IInv /\ Ordered /\ DurablyBound /\ Whole(disk.rows, disk.cursor, bound)
    /\ \A p \in Procs : /\ Whole(mem[p].rows, mem[p].cursor, bound) /\ Fits(call[p], mem[p].rows)
                        /\ \A i \in 1..served[p].upto : i <= served[p].t => i \in served[p].ids

-----------------------------------------------------------------------------
(* Rows and cursors. *)

LEMMA LeastNatural ==
    ASSUME NEW S \in SUBSET Nat, S # {}
    PROVE  \E n \in S : \A m \in S : n <= m
<1> DEFINE T == {0..n : n \in S}
<1>1. T \subseteq FiniteSubsetsOf(Nat) /\ T # {}
  <2>1. \A n \in S : IsFiniteSet(0..n) /\ 0..n \in SUBSET Nat
    BY FS_Interval
  <2> QED
    BY <2>1 DEF FiniteSubsetsOf
<1>2. \E x \in T : \A y \in T : ~ (<<y, x>> \in StrictSubsetOrdering(Nat))
  <2> HIDE DEF T
  <2> QED
    BY <1>1, FS_StrictSubsetOrderingWellFounded, WFMin
<1>3. PICK n \in S : \A m \in S : ~ (<<0..m, 0..n>> \in StrictSubsetOrdering(Nat))
  BY <1>2
<1>4. ASSUME NEW m \in S, m < n
      PROVE  <<0..m, 0..n>> \in StrictSubsetOrdering(Nat)
  <2>1. 0..m \subseteq 0..n /\ 0..m # 0..n
    BY <1>4
  <2>2. 0..m \in SUBSET Nat /\ 0..n \in SUBSET Nat
    OBVIOUS
  <2> QED
    BY <1>1, <2>1, <2>2 DEF StrictSubsetOrdering, FiniteSubsetsOf
<1>5. ASSUME NEW m \in S PROVE n <= m
  <2>1. ~ (m < n)
    BY <1>3, <1>4
  <2> QED
    BY <2>1
<1> QED
  BY <1>5

LEMMA TypesByPart ==
    TypeOK <=>
        /\ d1 \in Seq(D1Row) /\ Len(d1) <= MaxT0 /\ bound \subseteq Ids
        /\ op \in [kind : {"none", "insert", "settle"}, id : 0..MaxT0]
        /\ mem \in [Procs -> Memory] /\ disk \in Saved /\ call \in [Procs -> Calls]
        /\ served \in [Procs -> Histories] /\ ok \in [Procs -> BOOLEAN] /\ faults \in 0..MaxFaults
BY DEF TypeOK, D1Row, Memory, Saved, Calls, Histories

LEMMA Basics ==
    /\ Absent \in LocalRow /\ Absent.t = 0 /\ NoRows \in Rows /\ Held(NoRows) = {}
    /\ NoCursor \in Cursor /\ NoCursor.t = 0 /\ NoCursor.id = 0 /\ NoCursor.form = "+"
    /\ Idle \in Calls /\ Idle.at = "idle" /\ Idle.rows = NoRows /\ Idle.upto = 0
    /\ NotLoaded \in Memory /\ ~NotLoaded.loaded /\ NotLoaded.rows = NoRows /\ NotLoaded.cursor = NoCursor
    /\ NotServed \in Histories /\ NotServed.upto = 0
    /\ NoOp \in [kind : {"none", "insert", "settle"}, id : 0..MaxT0] /\ NoOp.kind = "none"
    /\ "writer" \in Procs /\ "monitor" \in Procs
    /\ MaxT0 \in Nat /\ \A i \in Ids : i \in Nat /\ i # 0 /\ i \in 0..MaxT0
<1>1. MaxT0 \in Nat /\ 0 \in 0..MaxT0 /\ \A i \in Ids : i \in Nat /\ i # 0 /\ i \in 0..MaxT0
  BY OverlayAssumption DEF Ids
<1>2. "+" \in Forms /\ "writer" \in Procs /\ "monitor" \in Procs
  BY DEF Forms, Procs
<1>3. Absent \in LocalRow /\ Absent.t = 0 /\ NoRows \in Rows /\ Held(NoRows) = {}
  BY <1>1, <1>2 DEF Absent, LocalRow, NoRows, Rows, Held
<1>4. NoCursor \in Cursor /\ NoCursor.t = 0 /\ NoCursor.id = 0 /\ NoCursor.form = "+"
  BY <1>1, <1>2 DEF NoCursor, Cursor
<1>5. Idle \in Calls /\ Idle.at = "idle" /\ Idle.rows = NoRows /\ Idle.upto = 0
  BY <1>1, <1>3 DEF Idle, Calls
<1>6. NotLoaded \in Memory /\ ~NotLoaded.loaded /\ NotLoaded.rows = NoRows /\ NotLoaded.cursor = NoCursor
  BY <1>3, <1>4 DEF NotLoaded, Memory
<1>7. /\ NotServed \in Histories /\ NotServed.upto = 0
      /\ NoOp \in [kind : {"none", "insert", "settle"}, id : 0..MaxT0] /\ NoOp.kind = "none"
  BY <1>1 DEF NotServed, Histories, NoOp
<1> QED
  BY <1>1, <1>2, <1>3, <1>4, <1>5, <1>6, <1>7

LEMMA RowFacts ==
    ASSUME NEW rows \in Rows
    PROVE  /\ Held(rows) \subseteq Ids
           /\ \A i \in Ids : rows[i] \in LocalRow /\ rows[i].t \in 0..MaxT0 /\ rows[i].t \in Nat
                             /\ rows[i].form \in Forms /\ CursorOf(rows, i) \in Cursor
<1>1. \A i \in Ids : rows[i] \in LocalRow /\ i \in 0..MaxT0
  BY Basics DEF Rows
<1>2. \A r \in LocalRow : r.t \in 0..MaxT0 /\ r.form \in Forms
  BY DEF LocalRow
<1> QED
  BY <1>1, <1>2, Basics DEF Held, CursorOf, Cursor

\* The cursor of the last row is of a row no other held row is later than.
LEMMA LastRowFacts ==
    ASSUME NEW rows \in Rows
    PROVE  /\ LastRow(rows) \in Cursor
           /\ Held(rows) = {} => LastRow(rows) = NoCursor
           /\ Held(rows) # {} =>
                \E i \in Held(rows) : /\ LastRow(rows) = CursorOf(rows, i)
                                      /\ \A j \in Held(rows) : rows[j].t <= rows[i].t
<1>1. CASE Held(rows) = {}
  BY <1>1, Basics DEF LastRow
<1>2. CASE Held(rows) # {}
  <2> DEFINE T == {MaxT0 - rows[i].t : i \in Held(rows)}
  <2>1. T \in SUBSET Nat /\ T # {}
    BY <1>2, RowFacts, Basics
  <2>2. PICK n \in T : \A m \in T : n <= m
    BY <2>1, LeastNatural
  <2>3. PICK i \in Held(rows) : n = MaxT0 - rows[i].t
    BY <2>2
  <2>4. \A j \in Held(rows) : MaxT0 - rows[i].t <= MaxT0 - rows[j].t
    BY <2>2, <2>3
  <2>5. \A j \in Held(rows) : rows[j].t <= rows[i].t
    BY <2>4, RowFacts, Basics
  <2> HIDE DEF T
  <2> DEFINE k == CHOOSE x \in Held(rows) : \A j \in Held(rows) : rows[j].t <= rows[x].t
  <2>6. k \in Held(rows) /\ \A j \in Held(rows) : rows[j].t <= rows[k].t
    BY <2>5
  <2>7. LastRow(rows) = CursorOf(rows, k)
    BY <1>2 DEF LastRow
  <2> HIDE DEF k
  <2> QED
    BY <1>2, <2>6, <2>7, RowFacts
<1> QED
  BY <1>1, <1>2

LEMMA OfFacts ==
    ASSUME NEW rows \in Rows, NEW d \in Seq(D1Row), Of(rows, d)
    PROVE  \A i \in Ids : i \in Held(rows) <=> rows[i].t # 0
<1> SUFFICES ASSUME NEW i \in Ids PROVE i \in Held(rows) <=> rows[i].t # 0
  OBVIOUS
<1>1. i \in Held(rows) => i \in 1..Len(d) /\ rows[i].t = d[i].t
  BY Basics DEF Of
<1>2. \A j \in 1..Len(d) : d[j].t \in Ids
  <2>1. \A x \in D1Row : x.t \in Ids
    BY DEF D1Row
  <2>2. \A j \in 1..Len(d) : d[j] \in D1Row
    OBVIOUS
  <2> QED
    BY <2>1, <2>2
<1> QED
  BY <1>1, <1>2, Basics DEF Held

LEMMA OfGrows ==
  ASSUME NEW rows \in Rows, NEW d, NEW e, Len(d) \in Nat, Len(e) \in Nat, Grows(d, e), Of(rows, d)
  PROVE  Of(rows, e)
<1> SUFFICES ASSUME NEW i \in Held(rows)
             PROVE  i <= Len(e) /\ rows[i].t = e[i].t /\ (rows[i].done => e[i].done)
  BY DEF Of
<1>1. i \in Nat /\ i # 0 /\ i <= Len(d)
  BY RowFacts, Basics DEF Of
<1>2. i \in 1..Len(d) /\ i <= Len(e)
  BY <1>1 DEF Grows
<1> QED
  BY <1>2 DEF Of, Grows
-----------------------------------------------------------------------------
(* Steps. *)

\* A row written through.
LEMMA WrittenFacts ==
    ASSUME NEW m \in Memory, NEW i \in Ids, NEW row \in LocalRow, row.t # 0,
           NEW w, w = Written(m, i, row)
    PROVE  /\ w \in Memory /\ w.loaded = m.loaded /\ w.rows = [m.rows EXCEPT ![i] = row]
           /\ w.cursor = (IF After(CursorOf(w.rows, i), m.cursor) THEN CursorOf(w.rows, i) ELSE m.cursor)
           /\ w.rows[i] = row /\ Held(w.rows) = Held(m.rows) \cup {i}
<1> DEFINE rows == [m.rows EXCEPT ![i] = row]
           key == CursorOf(rows, i)
           cursor == IF After(key, m.cursor) THEN key ELSE m.cursor
<1>1. m.rows \in Rows /\ m.cursor \in Cursor /\ m.loaded \in BOOLEAN
  BY DEF Memory
<1>2. rows \in Rows /\ rows[i] = row /\ \A j \in Ids : j # i => rows[j] = m.rows[j]
  BY <1>1 DEF Rows
<1> HIDE DEF rows
<1>3. key \in Cursor
  BY <1>2, RowFacts
<1> HIDE DEF key
<1>4. cursor \in Cursor
  BY <1>1, <1>3
<1> HIDE DEF cursor
<1>5. w = [loaded |-> m.loaded, rows |-> rows, cursor |-> cursor, sealed |-> TRUE]
  <2>1. w = [[m EXCEPT !.rows = rows, !.cursor = cursor] EXCEPT !.sealed = TRUE]
    BY Zenon DEF Written, Sealed, rows, key, cursor
  <2>2. m = [loaded |-> m.loaded, rows |-> m.rows, cursor |-> m.cursor, sealed |-> m.sealed]
    BY DEF Memory
  <2> QED
    BY <2>1, <2>2
<1>6. w \in Memory /\ w.loaded = m.loaded /\ w.rows = rows /\ w.cursor = cursor
  BY <1>1, <1>2, <1>4, <1>5 DEF Memory
<1>7. Held(rows) = Held(m.rows) \cup {i}
  BY <1>2, Basics DEF Held
<1> QED
  BY <1>2, <1>6, <1>7 DEF rows, key, cursor

LEMMA SavableIsLater ==
    ASSUME IInv, NEW m \in Memory, Of(m.rows, d1), Savable(m), Held(disk.rows) \subseteq Held(m.rows)
    PROVE  disk.cursor.t <= m.cursor.t
<1>1. disk.rows \in Rows /\ m.rows \in Rows /\ disk.cursor = LastRow(disk.rows) /\ m.cursor = LastRow(m.rows)
  BY TypesByPart DEF IInv, DiskBehind, Saved, Memory, Savable
<1>2. LastRow(m.rows) \in Cursor /\ \A c \in Cursor : c.t \in Nat
  BY <1>1, LastRowFacts, Basics DEF Cursor
<1>3. CASE Held(disk.rows) = {}
  BY <1>1, <1>2, <1>3, LastRowFacts, Basics
<1>4. CASE Held(disk.rows) # {}
  <2>1. PICK i \in Held(disk.rows) : disk.cursor = CursorOf(disk.rows, i)
    BY <1>1, <1>4, LastRowFacts
  <2>2. PICK k \in Held(m.rows) :
          m.cursor = CursorOf(m.rows, k) /\ \A j \in Held(m.rows) : m.rows[j].t <= m.rows[k].t
    BY <1>1, <1>4, LastRowFacts
  <2>3. disk.rows[i].t = m.rows[i].t
    BY <2>1 DEF IInv, RowsKnown, Of
  <2>4. m.rows[i].t <= m.rows[k].t
    BY <2>1, <2>2
  <2> QED
    BY <2>1, <2>2, <2>3, <2>4 DEF CursorOf
<1> QED
  BY <1>3, <1>4

\* The steps of one process that leave D1 alone.
ProcStep(p, m, c, s) ==
    /\ mem' = [mem EXCEPT ![p] = m] /\ call' = [call EXCEPT ![p] = c] /\ served' = [served EXCEPT ![p] = s]
    /\ d1' = d1 /\ op' \in {op, NoOp}
    /\ \/ disk' = disk
       \/ p = "writer" /\ Savable(m) /\ disk' = [rows |-> m.rows, cursor |-> m.cursor]
    /\ bound' \subseteq Ids /\ ok' \in [Procs -> BOOLEAN] /\ faults' \in 0..MaxFaults

ProcFits(p, m, c, s) ==
    /\ m \in Memory /\ c \in Calls /\ s \in Histories
    /\ Of(m.rows, d1) /\ Of(c.rows, d1) /\ (c.at # "idle" => m.loaded)
    /\ c.upto <= Len(d1) /\ s.upto <= Len(d1)
    /\ p = "writer" => (m.loaded \/ disk' # disk => Held(disk.rows) \subseteq Held(m.rows))

LEMMA ProcKeeps ==
    ASSUME IInv, NEW p \in Procs, NEW m, NEW c, NEW s, ProcStep(p, m, c, s), ProcFits(p, m, c, s)
    PROVE  /\ IInv'
           /\ Held(disk.rows) \subseteq Held(disk.rows)' /\ disk.cursor.t <= disk.cursor'.t
<1>1. /\ d1 \in Seq(D1Row) /\ Len(d1) <= MaxT0 /\ bound \subseteq Ids
      /\ op \in [kind : {"none", "insert", "settle"}, id : 0..MaxT0]
      /\ mem \in [Procs -> Memory] /\ disk \in Saved /\ call \in [Procs -> Calls]
      /\ served \in [Procs -> Histories] /\ ok \in [Procs -> BOOLEAN] /\ faults \in 0..MaxFaults
  BY TypesByPart DEF IInv
<1>2. /\ mem' \in [Procs -> Memory] /\ call' \in [Procs -> Calls] /\ served' \in [Procs -> Histories]
      /\ mem'[p] = m /\ call'[p] = c /\ served'[p] = s
      /\ \A q \in Procs : q # p => mem'[q] = mem[q] /\ call'[q] = call[q] /\ served'[q] = served[q]
  BY <1>1 DEF ProcStep, ProcFits
<1>3. m.rows \in Rows /\ m.cursor \in Cursor
  BY DEF ProcFits, Memory
<1>6. disk' \in Saved /\ (disk' # disk => p = "writer" /\ disk'.rows = m.rows /\ disk'.cursor = LastRow(m.rows))
  <2>1. CASE disk' = disk
    BY <1>1, <2>1
  <2>2. CASE disk' # disk
    <3>1. p = "writer" /\ Savable(m) /\ disk' = [rows |-> m.rows, cursor |-> m.cursor]
      BY <2>2 DEF ProcStep
    <3> QED
      BY <1>3, <3>1 DEF Saved, Savable
  <2> QED
    BY <2>1, <2>2
<1>7. Held(disk.rows) \subseteq Held(disk.rows)' /\ disk.cursor.t <= disk.cursor'.t
  <2>1. CASE disk' = disk
    <3>1. disk.cursor.t \in Nat
      BY <1>1, Basics DEF Saved, Cursor
    <3> QED
      BY <2>1, <3>1 DEF Held
  <2>2. CASE disk' # disk
    <3>1. Savable(m) /\ m \in Memory /\ Of(m.rows, d1) /\ Held(disk.rows) \subseteq Held(m.rows)
      BY <1>6, <2>2 DEF ProcStep, ProcFits
    <3>2. disk.cursor.t <= m.cursor.t /\ m.cursor = LastRow(m.rows)
      BY <3>1, SavableIsLater DEF Savable
    <3> QED
      BY <1>6, <2>2, <3>1, <3>2 DEF Held
  <2> QED
    BY <2>1, <2>2
<1>8. TypeOK'
  <2>1. op' \in [kind : {"none", "insert", "settle"}, id : 0..MaxT0] /\ d1' = d1
    BY <1>1, Basics DEF ProcStep
  <2> QED
    BY <1>1, <1>2, <1>6, <2>1 DEF TypeOK, ProcStep, D1Row, Memory, Saved, Calls, Histories
<1>9. Counted' /\ OpKnown'
  <2>1. d1' = d1 /\ op' \in {op, NoOp}
    BY DEF ProcStep
  <2>2. Committed' = Committed
    BY <2>1 DEF Committed
  <2> QED
    BY <2>1, <2>2, Basics DEF IInv, Counted, OpKnown
<1>10. CallsKnown'
  <2>1. d1' = d1
    BY DEF ProcStep
  <2> QED
    BY <1>2, <2>1 DEF IInv, CallsKnown, ProcFits, Of, Held
<1>11. RowsKnown'
  <2>1. d1' = d1
    BY DEF ProcStep
  <2>2. Of(disk'.rows, d1')
    BY <1>6, <2>1 DEF IInv, RowsKnown, ProcFits
  <2>3. \A q \in Procs : Of(mem'[q].rows, d1')
    BY <1>2, <2>1 DEF IInv, RowsKnown, ProcFits
  <2> QED
    BY <2>2, <2>3 DEF RowsKnown, Of, Held
<1>12. DiskBehind'
  <2>1. mem'["writer"].loaded => Held(disk'.rows) \subseteq Held(mem'["writer"].rows)
    <3>1. CASE p = "writer"
      BY <1>2, <1>6, <3>1 DEF ProcFits
    <3>2. CASE p # "writer"
      BY <1>2, <1>6, <3>2, Basics DEF IInv, DiskBehind
    <3> QED
      BY <3>1, <3>2
  <2>2. disk'.cursor = LastRow(disk'.rows)
    BY <1>6 DEF IInv, DiskBehind
  <2> QED
    BY <2>1, <2>2 DEF DiskBehind, Held, LastRow, CursorOf
<1> QED
  BY <1>7, <1>8, <1>9, <1>10, <1>11, <1>12 DEF IInv

LEMMA InitIInv == Init => IInv
<1> SUFFICES ASSUME Init PROVE IInv
  OBVIOUS
<1>1. /\ d1 = <<>> /\ bound = {} /\ op = NoOp /\ disk.rows = NoRows /\ disk.cursor = NoCursor /\ disk \in Saved
      /\ mem \in [Procs -> Memory] /\ call \in [Procs -> Calls] /\ served \in [Procs -> Histories]
      /\ \A p \in Procs : mem[p] = NotLoaded /\ call[p] = Idle /\ served[p] = NotServed
  BY Basics DEF Init, Saved
<1>2. TypeOK
  <2>1. ok \in [Procs -> BOOLEAN] /\ faults \in 0..MaxFaults /\ d1 \in Seq(D1Row) /\ Len(d1) <= MaxT0
    BY <1>1, Basics, OverlayAssumption DEF Init
  <2> QED
    BY <1>1, <2>1, TypesByPart, Basics
<1>3. Counted
  <2>1. Committed = {} /\ Len(d1) = 0
    BY <1>1 DEF Committed
  <2> QED
    BY <2>1, FS_EmptySet DEF Counted
<1>4. LastRow(NoRows) = NoCursor
  BY Basics DEF LastRow
<1>5. Of(NoRows, d1)
  BY Basics DEF Of
<1> QED
  BY <1>1, <1>2, <1>3, <1>4, <1>5, Basics DEF IInv, OpKnown, CallsKnown, RowsKnown, DiskBehind

\* A row is written through, saved or not.
Persisting(i, row) ==
    /\ \/ WriteThrough(i, row) /\ faults' = faults
       \/ WriteThroughRaises(i, row)
    /\ d1' = d1 /\ call' = call /\ served' = served /\ ok' = ok
    /\ op' \in {op, NoOp} /\ bound' \subseteq Ids

LEMMA D1Facts ==
    ASSUME IInv
    PROVE  /\ Len(d1) \in 0..MaxT0 /\ 1..Len(d1) \subseteq Ids
           /\ \A i \in 1..Len(d1) : d1[i] \in D1Row /\ d1[i].t \in Ids /\ d1[i].done \in BOOLEAN
<1>1. d1 \in Seq(D1Row) /\ Len(d1) \in 0..MaxT0
  BY TypesByPart, Basics DEF IInv
<1>2. \A x \in D1Row : x.t \in Ids /\ x.done \in BOOLEAN
  BY DEF D1Row
<1>3. \A i \in 1..Len(d1) : d1[i] \in D1Row
  BY <1>1
<1> QED
  BY <1>1, <1>2, <1>3, Basics DEF Ids

\* The state a write-through starts from is of D1 and holds all disk has.
LEMMA WriteBase ==
    ASSUME IInv
    PROVE  LET W == IF mem["writer"].loaded THEN mem["writer"] ELSE Loaded IN
           W \in Memory /\ Of(W.rows, d1) /\ W.loaded /\ Held(disk.rows) \subseteq Held(W.rows)
<1>1. mem["writer"] \in Memory /\ disk \in Saved
  BY TypesByPart, Basics DEF IInv
<1>2. /\ Loaded \in Memory /\ Loaded.rows = disk.rows /\ Loaded.cursor = disk.cursor
      /\ Loaded.loaded
  BY <1>1 DEF Loaded, Memory, Saved
<1> QED
  BY <1>1, <1>2, Basics DEF IInv, RowsKnown, DiskBehind

LEMMA PersistKeeps ==
    ASSUME IInv, NEW i \in 1..Len(d1), NEW row \in LocalRow, row.t = d1[i].t, row.done => d1[i].done,
           Persisting(i, row)
    PROVE  /\ IInv'
           /\ Held(disk.rows) \subseteq Held(disk.rows)' /\ disk.cursor.t <= disk.cursor'.t
<1>w. PICK W : W = IF mem["writer"].loaded THEN mem["writer"] ELSE Loaded
  OBVIOUS
<1>m. PICK m : m = Written(W, i, row)
  OBVIOUS
<1>o. PICK old : old = mem["writer"]
  OBVIOUS
<1>1. W \in Memory /\ Of(W.rows, d1) /\ W.loaded /\ Held(disk.rows) \subseteq Held(W.rows)
  BY <1>w, WriteBase
<1>2. i \in Ids /\ row.t # 0
  BY D1Facts, Basics
<1>3. /\ m \in Memory /\ m.loaded /\ Held(m.rows) = Held(W.rows) \cup {i} /\ m.rows[i] = row
      /\ \A j \in Ids : j # i => m.rows[j] = W.rows[j]
  <2>1. W.rows \in Rows
    BY <1>1 DEF Memory
  <2>2. /\ m \in Memory /\ m.loaded = W.loaded /\ m.rows[i] = row /\ Held(m.rows) = Held(W.rows) \cup {i}
        /\ m.rows = [W.rows EXCEPT ![i] = row]
    <3>1. W \in Memory
      BY <1>1
    <3> QED
      BY <3>1, <1>2, <1>m, WrittenFacts
  <2>4. \A j \in Ids : j # i => m.rows[j] = W.rows[j]
    BY <2>1, <2>2 DEF Rows
  <2> QED
    BY <1>1, <2>2, <2>4
<1>4. Of(m.rows, d1)
  <2>1. Held(W.rows) \subseteq Ids
    BY DEF Held
  <2>2. i <= Len(d1)
    BY D1Facts, Basics
  <2>3. ASSUME NEW j \in Held(m.rows)
        PROVE  j <= Len(d1) /\ m.rows[j].t = d1[j].t /\ (m.rows[j].done => d1[j].done)
    <3>1. CASE j = i
      BY <1>3, <2>2, <3>1
    <3>2. CASE j # i
      <4>1. j \in Held(W.rows) /\ j \in Ids /\ m.rows[j] = W.rows[j]
        BY <1>3, <2>1, <3>2
      <4> QED
        BY <1>1, <4>1 DEF Of
    <3> QED
      BY <3>1, <3>2
  <2> QED
    BY <2>3 DEF Of
<1>5. ProcFits("writer", m, call["writer"], served["writer"])
  <2>1. call["writer"] \in Calls /\ served["writer"] \in Histories
    BY TypesByPart, Basics DEF IInv
  <2> QED
    BY <1>1, <1>3, <1>4, <2>1, Basics DEF ProcFits, IInv, CallsKnown
<1>6. /\ call = [call EXCEPT !["writer"] = call["writer"]]
      /\ served = [served EXCEPT !["writer"] = served["writer"]]
      /\ mem = [mem EXCEPT !["writer"] = mem["writer"]]
  BY TypesByPart, Basics DEF IInv
<1>7. faults' \in 0..MaxFaults
  BY TypesByPart, OverlayAssumption DEF IInv, Persisting, WriteThroughRaises, Fault
<1>8. ok' \in [Procs -> BOOLEAN]
  BY TypesByPart DEF IInv, Persisting
<1>9. CASE /\ mem' = [mem EXCEPT !["writer"] = m]
           /\ \/ disk' = disk
              \/ Savable(m) /\ disk' = [rows |-> m.rows, cursor |-> m.cursor]
  <2>1. ProcStep("writer", m, call["writer"], served["writer"])
    BY <1>6, <1>7, <1>8, <1>9 DEF ProcStep, Persisting
  <2> QED
    BY <1>5, <2>1, ProcKeeps, Basics
<1>10. CASE mem' = mem /\ disk' = disk
  <2>1. ProcStep("writer", old, call["writer"], served["writer"])
    BY <1>6, <1>7, <1>8, <1>10, <1>o DEF ProcStep, Persisting
  <2>2. old \in Memory /\ call["writer"] \in Calls /\ served["writer"] \in Histories
    BY <1>o, TypesByPart, Basics DEF IInv
  <2>3. ProcFits("writer", old, call["writer"], served["writer"])
    BY <1>o, <1>10, <2>2, Basics DEF ProcFits, IInv, CallsKnown, RowsKnown, DiskBehind
  <2> QED
    BY <2>1, <2>3, ProcKeeps, Basics
<1> QED
  <2>1. \/ /\ mem' = [mem EXCEPT !["writer"] = m]
           /\ \/ disk' = disk
              \/ Savable(m) /\ disk' = [rows |-> m.rows, cursor |-> m.cursor]
        \/ mem' = mem /\ disk' = disk
    <3>1. CASE WriteThrough(i, row)
      <4>1. \/ mem' = [mem EXCEPT !["writer"] = m] /\ Savable(m) /\ disk' = [rows |-> m.rows, cursor |-> m.cursor]
            \/ /\ mem' = IF mem["writer"].loaded THEN [mem EXCEPT !["writer"] = m] ELSE mem
               /\ disk' = disk
        BY <3>1, <1>w, <1>m, Zenon DEF WriteThrough
      <4> QED
        BY <4>1
    <3>2. CASE WriteThroughRaises(i, row)
      <4>1. CASE mem["writer"].loaded
        <5>1. mem' = [mem EXCEPT !["writer"] = Written(mem["writer"], i, row)] /\ disk' = disk
          BY <3>2, <4>1 DEF WriteThroughRaises
        <5>2. W = mem["writer"]
          BY <4>1, <1>w
        <5> QED
          BY <5>1, <5>2, <1>m
      <4>2. CASE ~mem["writer"].loaded
        BY <3>2, <4>2 DEF WriteThroughRaises
      <4> QED
        BY <4>1, <4>2
    <3> QED
      BY <3>1, <3>2 DEF Persisting
  <2> QED
    BY <2>1, <1>9, <1>10

LEMMA D1Keeps ==
    ASSUME IInv, Grows(d1, d1'), d1' \in Seq(D1Row), Len(d1') <= MaxT0,
           mem' = mem, disk' = disk, call' = call, served' = served
    PROVE  CallsKnown' /\ RowsKnown' /\ DiskBehind'
<1>1. /\ d1 \in Seq(D1Row) /\ mem \in [Procs -> Memory] /\ disk \in Saved /\ call \in [Procs -> Calls]
      /\ served \in [Procs -> Histories]
  BY TypesByPart DEF IInv
<1>2. Len(d1) \in Nat /\ Len(d1') \in Nat /\ Len(d1) <= Len(d1')
  BY <1>1 DEF Grows
<1>3. \A rows \in Rows : Of(rows, d1) => Of(rows, d1')
  BY <1>2, OfGrows
<1>4. disk.rows \in Rows /\ \A p \in Procs : mem[p].rows \in Rows /\ call[p].rows \in Rows
                                           /\ call[p].upto \in Nat /\ served[p].upto \in Nat
  BY <1>1, Basics DEF Saved, Memory, Calls, Histories
<1>5. CallsKnown'
  <2>1. \A p \in Procs : /\ call[p].at # "idle" => mem[p].loaded
                         /\ Of(call[p].rows, d1') /\ call[p].upto <= Len(d1') /\ served[p].upto <= Len(d1')
    BY <1>2, <1>3, <1>4 DEF IInv, CallsKnown
  <2> QED
    BY <2>1 DEF CallsKnown, Of, Held
<1>6. RowsKnown'
  <2>1. Of(disk.rows, d1') /\ \A p \in Procs : Of(mem[p].rows, d1')
    BY <1>3, <1>4 DEF IInv, RowsKnown
  <2> QED
    BY <2>1 DEF RowsKnown, Of, Held
<1>7. DiskBehind'
  BY DEF IInv, DiskBehind, LastRow, Held, CursorOf
<1> QED
  BY <1>5, <1>6, <1>7

LEMMA RoomLeft == ASSUME IInv, NEW t \in Ids \ Committed PROVE Len(d1) < MaxT0
<1>1. IsFiniteSet(Committed) /\ Cardinality(Committed) = Len(d1) /\ Len(d1) \in Nat
  BY D1Facts, Basics DEF IInv, Counted
<1>2. Committed \cup {t} \subseteq Ids
  BY D1Facts DEF Committed
<1>3. IsFiniteSet(Ids) /\ Cardinality(Ids) = MaxT0
  <2>1. /\ IsFiniteSet(1..MaxT0)
        /\ Cardinality(1..MaxT0) = IF 1 > MaxT0 THEN 0 ELSE MaxT0 - 1 + 1
    BY FS_Interval, Basics
  <2> QED
    BY <2>1, Basics DEF Ids
<1>4. Cardinality(Committed \cup {t}) = Len(d1) + 1
  BY <1>1, FS_AddElement
<1>5. Cardinality(Committed \cup {t}) <= MaxT0
  BY <1>2, <1>3, FS_Subset
<1> QED
  BY <1>1, <1>4, <1>5, Basics

LEMMA PostKeeps == ASSUME IInv, Post PROVE IInv'
<1>1. PICK t \in Ids \ Committed : d1' = Append(d1, [t |-> t, done |-> FALSE])
  BY DEF Post
<1>2. /\ op' = [kind |-> "insert", id |-> Len(d1) + 1] /\ bound' = bound /\ mem' = mem /\ disk' = disk
      /\ call' = call /\ served' = served /\ ok' = ok /\ faults' = faults
  BY DEF Post, NoFault
<1>3. d1 \in Seq(D1Row) /\ Len(d1) \in Nat /\ Len(d1) < MaxT0
  BY TypesByPart, RoomLeft, D1Facts, Basics DEF IInv
<1>4. d1' \in Seq(D1Row) /\ Len(d1') = Len(d1) + 1 /\ d1'[Len(d1) + 1].t = t
      /\ \A i \in 1..Len(d1) : d1'[i] = d1[i]
  <2>1. [t |-> t, done |-> FALSE] \in D1Row
    BY DEF D1Row
  <2> QED
    BY <1>1, <1>3, <2>1
<1>5. Grows(d1, d1') /\ Len(d1') <= MaxT0
  BY <1>3, <1>4, Basics DEF Grows
<1>6. CallsKnown' /\ RowsKnown' /\ DiskBehind'
  BY <1>2, <1>4, <1>5, D1Keeps
<1>7. TypeOK'
  <2>1. op' \in [kind : {"none", "insert", "settle"}, id : 0..MaxT0]
    BY <1>2, <1>3, Basics
  <2>2. /\ bound \subseteq Ids /\ mem \in [Procs -> Memory] /\ disk \in Saved /\ call \in [Procs -> Calls]
        /\ served \in [Procs -> Histories] /\ ok \in [Procs -> BOOLEAN] /\ faults \in 0..MaxFaults
    BY TypesByPart DEF IInv
  <2> QED
    BY <1>2, <1>4, <1>5, <2>1, <2>2 DEF TypeOK, D1Row, Memory, Saved, Calls, Histories
<1>8. Counted'
  <2>1. Committed' = {d1'[i].t : i \in 1..Len(d1')}
    BY DEF Committed
  <2>2. 1..Len(d1') = 1..Len(d1) \cup {Len(d1) + 1}
    BY <1>3, <1>4
  <2>3. Committed' = Committed \cup {t}
    BY <1>4, <2>1, <2>2 DEF Committed
  <2>4. IsFiniteSet(Committed \cup {t}) /\ Cardinality(Committed \cup {t}) = Len(d1) + 1
    BY <1>3, FS_AddElement DEF IInv, Counted
  <2> QED
    BY <1>4, <2>3, <2>4 DEF Counted
<1>9. OpKnown'
  BY <1>2, <1>3, <1>4 DEF OpKnown
<1> QED
  BY <1>6, <1>7, <1>8, <1>9 DEF IInv

LEMMA SettleKeeps == ASSUME IInv, Settle PROVE IInv'
<1>1. PICK k \in 1..Len(d1) : d1' = [d1 EXCEPT ![k].done = TRUE] /\ op' = [kind |-> "settle", id |-> k]
  BY DEF Settle, Mature
<1>2. /\ bound' = bound /\ mem' = mem /\ disk' = disk
      /\ call' = call /\ served' = served /\ ok' = ok /\ faults' = faults
  BY DEF Settle, NoFault
<1>3. d1 \in Seq(D1Row) /\ Len(d1) \in Nat /\ Len(d1) <= MaxT0 /\ k \in Ids
  BY TypesByPart, D1Facts, Basics DEF IInv
<1>4. /\ d1' \in Seq(D1Row) /\ Len(d1') = Len(d1)
      /\ \A i \in 1..Len(d1) : d1'[i].t = d1[i].t /\ (d1[i].done => d1'[i].done)
      /\ d1'[k].done
  <2>1. \A r \in D1Row : [r EXCEPT !.done = TRUE] \in D1Row /\ [r EXCEPT !.done = TRUE].t = r.t
                         /\ [r EXCEPT !.done = TRUE].done
    BY DEF D1Row
  <2>2. d1' = [d1 EXCEPT ![k] = [d1[k] EXCEPT !.done = TRUE]] /\ d1[k] \in D1Row
    BY <1>1, <1>3
  <2>3. PICK x \in D1Row : x = [d1[k] EXCEPT !.done = TRUE] /\ x.t = d1[k].t /\ x.done
    BY <2>1, <2>2
  <2>4. d1' = [d1 EXCEPT ![k] = x]
    BY <2>2, <2>3
  <2>5. d1' \in Seq(D1Row) /\ Len(d1') = Len(d1) /\ d1'[k] = x
        /\ \A i \in 1..Len(d1) : i # k => d1'[i] = d1[i]
    BY <1>3, <2>4
  <2> QED
    BY <2>3, <2>5
<1>5. Grows(d1, d1') /\ Len(d1') <= MaxT0
  BY <1>3, <1>4 DEF Grows
<1>6. CallsKnown' /\ RowsKnown' /\ DiskBehind'
  BY <1>2, <1>4, <1>5, D1Keeps
<1>7. TypeOK'
  <2>1. op' \in [kind : {"none", "insert", "settle"}, id : 0..MaxT0]
    BY <1>1, <1>3, Basics
  <2>2. /\ bound \subseteq Ids /\ mem \in [Procs -> Memory] /\ disk \in Saved /\ call \in [Procs -> Calls]
        /\ served \in [Procs -> Histories] /\ ok \in [Procs -> BOOLEAN] /\ faults \in 0..MaxFaults
    BY TypesByPart DEF IInv
  <2> QED
    BY <1>2, <1>4, <1>5, <2>1, <2>2 DEF TypeOK, D1Row, Memory, Saved, Calls, Histories
<1>8. Counted'
  <2>1. Committed' = {d1'[i].t : i \in 1..Len(d1')}
    BY DEF Committed
  <2>2. Committed' = Committed
    BY <1>4, <2>1 DEF Committed
  <2> QED
    BY <1>4, <2>2 DEF IInv, Counted
<1>9. OpKnown'
  BY <1>1, <1>4 DEF OpKnown
<1> QED
  BY <1>6, <1>7, <1>8, <1>9 DEF IInv

\* Disk neither loses a row nor goes back.
DiskLater == Held(disk.rows) \subseteq Held(disk.rows)' /\ disk.cursor.t <= disk.cursor'.t

LEMMA DiskUnchanged == ASSUME IInv, disk' = disk PROVE DiskLater
<1>1. disk.cursor.t \in Nat
  BY TypesByPart, Basics DEF IInv, Saved, Cursor
<1> QED
  BY <1>1 DEF DiskLater, Held

\* The rows the oracle task writes through.
LEMMA WrittenRows ==
    ASSUME IInv, NEW i \in 1..Len(d1)
    PROVE  /\ \A row \in {Posted(i), Found(i), SettledRow(i), FromD1(i)} : row \in LocalRow /\ row.t = d1[i].t
           /\ ~Posted(i).done /\ ~Found(i).done /\ SettledRow(i).done /\ FromD1(i).done = d1[i].done
           /\ Posted(i).form = "Z" /\ Found(i).form = "+" /\ SettledRow(i).form = "+" /\ FromD1(i).form = "+"
<1>1. d1[i].t \in 0..MaxT0 /\ d1[i].done \in BOOLEAN /\ "Z" \in Forms /\ "+" \in Forms
  BY D1Facts, Basics DEF Forms
<1>2. FromD1(i) \in LocalRow /\ FromD1(i).t = d1[i].t /\ FromD1(i).done = d1[i].done /\ FromD1(i).form = "+"
  BY <1>1 DEF FromD1, LocalRow
<1>3. \A r \in LocalRow : /\ [r EXCEPT !.done = FALSE] \in LocalRow /\ [r EXCEPT !.done = FALSE].t = r.t
                          /\ [r EXCEPT !.done = FALSE].form = r.form /\ ~[r EXCEPT !.done = FALSE].done
  BY DEF LocalRow
<1>4. Found(i) \in LocalRow /\ Found(i).t = d1[i].t /\ Found(i).form = "+" /\ ~Found(i).done
  BY <1>2, <1>3 DEF Found
<1>5. /\ Posted(i) \in LocalRow /\ Posted(i).t = d1[i].t /\ Posted(i).form = "Z" /\ ~Posted(i).done
      /\ SettledRow(i) \in LocalRow /\ SettledRow(i).t = d1[i].t /\ SettledRow(i).form = "+" /\ SettledRow(i).done
  BY <1>1 DEF Posted, SettledRow, LocalRow
<1> QED
  BY <1>2, <1>4, <1>5

LEMMA InsertAnsweredKeeps == ASSUME IInv, InsertAnswered PROVE IInv' /\ DiskLater
<1>1. op.id \in 1..Len(d1) /\ op.id \in Ids /\ bound \subseteq Ids
  BY D1Facts, TypesByPart DEF IInv, OpKnown, InsertAnswered
<1>2. PICK row \in LocalRow : row = Posted(op.id) /\ row.t = d1[op.id].t /\ ~row.done
  BY <1>1, WrittenRows
<1>3. Persisting(op.id, row)
  BY <1>1, <1>2 DEF InsertAnswered, Persisting, NoFault
<1> QED
  BY <1>1, <1>2, <1>3, PersistKeeps DEF DiskLater

LEMMA LookupKeeps == ASSUME IInv, Lookup PROVE IInv' /\ DiskLater
<1>1. PICK i \in 1..Len(d1) : /\ \/ WriteThrough(i, Found(i)) /\ bound' = bound \cup {i} /\ NoFault
                                 \/ WriteThroughRaises(i, Found(i)) /\ UNCHANGED bound
                              /\ UNCHANGED <<d1, op, call, served, ok>>
  BY DEF Lookup
<1>2. i \in Ids /\ bound \subseteq Ids
  BY D1Facts, TypesByPart DEF IInv
<1>3. PICK row \in LocalRow : row = Found(i) /\ row.t = d1[i].t /\ ~row.done
  BY WrittenRows
<1>4. Persisting(i, row)
  BY <1>1, <1>2, <1>3 DEF Persisting, NoFault
<1> QED
  BY <1>3, <1>4, PersistKeeps DEF DiskLater

LEMMA SettleAnsweredKeeps == ASSUME IInv, SettleAnswered PROVE IInv' /\ DiskLater
<1>1. op.id \in 1..Len(d1) /\ d1[op.id].done /\ bound \subseteq Ids
  BY TypesByPart DEF IInv, OpKnown, SettleAnswered
<1>2. PICK row \in LocalRow : row = SettledRow(op.id) /\ row.t = d1[op.id].t
  BY <1>1, WrittenRows
<1>3. Persisting(op.id, row)
  BY <1>1, <1>2 DEF SettleAnswered, Persisting, NoFault
<1> QED
  BY <1>1, <1>2, <1>3, PersistKeeps DEF DiskLater

\* One process moves, and disk stays or becomes its memory.
LEMMA MoveKeeps ==
    ASSUME IInv, NEW p \in Procs, NEW m, NEW c, NEW s, ProcFits(p, m, c, s),
           mem' = [mem EXCEPT ![p] = m], call' = [call EXCEPT ![p] = c], served' = [served EXCEPT ![p] = s],
           d1' = d1, bound' = bound, op' \in {op, NoOp}, ok' \in [Procs -> BOOLEAN],
           faults' = faults \/ Fault,
           \/ disk' = disk
           \/ p = "writer" /\ Savable(m) /\ disk' = [rows |-> m.rows, cursor |-> m.cursor]
    PROVE  IInv' /\ DiskLater
<1>1. bound \subseteq Ids /\ faults \in 0..MaxFaults
  BY TypesByPart DEF IInv
<1>2. faults' \in 0..MaxFaults
  BY <1>1, OverlayAssumption DEF Fault
<1>3. ProcStep(p, m, c, s)
  BY <1>1, <1>2 DEF ProcStep
<1> QED
  BY <1>3, ProcKeeps DEF DiskLater

LEMMA PartsOf ==
    ASSUME IInv, NEW p \in Procs
    PROVE  /\ mem[p] \in Memory /\ call[p] \in Calls /\ served[p] \in Histories /\ ok[p] \in BOOLEAN
           /\ mem[p].rows \in Rows /\ call[p].rows \in Rows /\ call[p].upto \in 0..MaxT0
           /\ mem[p].cursor \in Cursor /\ disk.rows \in Rows /\ disk.cursor \in Cursor
           /\ Of(mem[p].rows, d1) /\ Of(call[p].rows, d1) /\ Of(disk.rows, d1)
           /\ call[p].upto <= Len(d1) /\ served[p].upto <= Len(d1)
           /\ call[p].at # "idle" => mem[p].loaded
           /\ mem = [mem EXCEPT ![p] = mem[p]] /\ call = [call EXCEPT ![p] = call[p]]
           /\ served = [served EXCEPT ![p] = served[p]]
           /\ \A b \in BOOLEAN : ok \in [Procs -> BOOLEAN] /\ [ok EXCEPT ![p] = b] \in [Procs -> BOOLEAN]
<1>1. /\ mem \in [Procs -> Memory] /\ disk \in Saved /\ call \in [Procs -> Calls]
      /\ served \in [Procs -> Histories] /\ ok \in [Procs -> BOOLEAN]
  BY TypesByPart DEF IInv
<1>2. mem[p] \in Memory /\ call[p] \in Calls /\ served[p] \in Histories
  BY <1>1
<1>3. /\ mem[p].rows \in Rows /\ call[p].rows \in Rows /\ call[p].upto \in 0..MaxT0
      /\ mem[p].cursor \in Cursor /\ disk.rows \in Rows /\ disk.cursor \in Cursor
  BY <1>1, <1>2 DEF Memory, Calls, Saved
<1> QED
  BY <1>1, <1>2, <1>3 DEF IInv, CallsKnown, RowsKnown

\* The seal holds nothing the writer's memory, loaded or about to be, has not.
LEMMA FetchBase ==
    ASSUME IInv, NEW p \in Procs
    PROVE  LET W == IF mem[p].loaded THEN mem[p] ELSE Loaded IN
           /\ W \in Memory /\ Of(W.rows, d1) /\ W.loaded
           /\ p = "writer" => Held(disk.rows) \subseteq Held(W.rows)
<1>1. /\ Loaded \in Memory /\ Loaded.rows = disk.rows /\ Loaded.loaded
  BY PartsOf DEF Loaded, Memory
<1> QED
  BY <1>1, PartsOf DEF IInv, DiskBehind

LEMMA FetchStartKeeps == ASSUME IInv, NEW p \in Procs, FetchStart(p) PROVE IInv' /\ DiskLater
<1>1. PICK m : m = IF mem[p].loaded THEN mem[p] ELSE Loaded
  OBVIOUS
<1>2. m \in Memory /\ Of(m.rows, d1) /\ m.loaded /\ (p = "writer" => Held(disk.rows) \subseteq Held(m.rows))
  BY <1>1, FetchBase
<1>3. PICK rows : rows = [i \in Ids |-> IF i <= Len(d1) /\ (\/ d1[i].t > m.cursor.t
                                                            \/ (d1[i].t = m.cursor.t /\ i > m.cursor.id))
                                        THEN FromD1(i) ELSE Absent]
  OBVIOUS
<1>4. PICK c : c = [at |-> "delta", rows |-> rows, dirty |-> FALSE, upto |-> Len(d1)]
  OBVIOUS
<1>5. mem' = [mem EXCEPT ![p] = m] /\ call' = [call EXCEPT ![p] = c] /\ disk' = disk /\ served' = served
      /\ d1' = d1 /\ bound' = bound /\ op' = op /\ ok' = ok /\ faults' = faults
  BY <1>1, <1>3, <1>4 DEF FetchStart, Answer, oracle, NoFault
<1>6. \A i \in Ids : rows[i] = Absent \/ (i \in 1..Len(d1) /\ rows[i] = FromD1(i))
  BY <1>3, D1Facts, Basics
<1>7. rows \in Rows /\ Of(rows, d1)
  <2>1. \A i \in Ids : rows[i] \in LocalRow
    BY <1>6, WrittenRows, Basics
  <2>2. rows = [i \in Ids |-> rows[i]]
    BY <1>3
  <2>3. rows \in Rows
    BY <2>1, <2>2 DEF Rows
  <2>4. \A i \in Held(rows) : i \in 1..Len(d1) /\ rows[i] = FromD1(i)
    BY <1>6 DEF Held
  <2>5. \A i \in Held(rows) : i <= Len(d1) /\ rows[i].t = d1[i].t /\ (rows[i].done => d1[i].done)
    BY <2>4, WrittenRows, D1Facts, Basics
  <2> QED
    BY <2>3, <2>5 DEF Of
<1>8. c \in Calls /\ c.rows = rows /\ c.upto = Len(d1)
  BY <1>4, <1>7, D1Facts DEF Calls
<1>9. Len(d1) <= Len(d1)
  BY D1Facts, Basics
<1>10. ProcFits(p, m, c, served[p])
  BY <1>2, <1>7, <1>8, <1>9, PartsOf DEF ProcFits
<1> QED
  BY <1>5, <1>10, PartsOf, MoveKeeps

LEMMA ApplyDeltaKeeps == ASSUME IInv, NEW p \in Procs, ApplyDelta(p) PROVE IInv' /\ DiskLater
<1>1. PICK delta : delta = call[p].rows
  OBVIOUS
<1>2. PICK rows : rows = Merge(mem[p].rows, delta)
  OBVIOUS
<1>3. PICK new : new = IF Held(delta) = {} THEN mem[p]
                       ELSE [mem[p] EXCEPT !.rows = rows, !.cursor = LastRow(delta)]
  OBVIOUS
<1>4. PICK m : m = [new EXCEPT !.sealed = @ /\ new = mem[p]]
  OBVIOUS
<1>5. PICK asked : asked = [i \in Ids |-> IF rows[i] # Absent /\ ~rows[i].done THEN FromD1(i) ELSE Absent]
  OBVIOUS
<1>6. PICK c : c = [at |-> "refresh", rows |-> asked, dirty |-> Held(delta) # {}, upto |-> call[p].upto]
  OBVIOUS
<1>7. mem' = [mem EXCEPT ![p] = m] /\ call' = [call EXCEPT ![p] = c] /\ disk' = disk /\ served' = served
      /\ d1' = d1 /\ bound' = bound /\ op' = op /\ ok' = ok /\ faults' = faults
  BY <1>1, <1>2, <1>3, <1>4, <1>5, <1>6 DEF ApplyDelta, Answer, oracle, NoFault
<1>8. mem[p].loaded /\ delta \in Rows /\ Of(delta, d1)
  BY <1>1, PartsOf DEF ApplyDelta
<1>9. /\ rows \in Rows /\ Held(rows) = Held(mem[p].rows) \cup Held(delta)
      /\ \A i \in Ids : (rows[i] = delta[i] /\ i \in Held(delta)) \/ rows[i] = mem[p].rows[i]
  BY <1>2, <1>8, PartsOf DEF Merge, Rows, Held
<1>10. Of(rows, d1)
  <2>1. ASSUME NEW i \in Held(rows)
        PROVE  i <= Len(d1) /\ rows[i].t = d1[i].t /\ (rows[i].done => d1[i].done)
    <3>1. i \in Ids /\ rows[i] # Absent
      BY DEF Held
    <3>2. CASE rows[i] = delta[i] /\ i \in Held(delta)
      BY <1>8, <3>2 DEF Of
    <3>3. CASE rows[i] = mem[p].rows[i]
      BY <3>1, <3>3, PartsOf DEF Of, Held
    <3> QED
      BY <1>9, <3>1, <3>2, <3>3
  <2> QED
    BY <2>1 DEF Of
<1>11. /\ new \in Memory /\ new.loaded /\ Of(new.rows, d1) /\ Held(mem[p].rows) \subseteq Held(new.rows)
  <2>1. CASE Held(delta) = {}
    BY <1>3, <1>8, <2>1, PartsOf
  <2>2. CASE Held(delta) # {}
    <3>1. LastRow(delta) \in Cursor
      BY <1>8, LastRowFacts
    <3>2. PICK cursor \in Cursor : cursor = LastRow(delta)
      BY <3>1
    <3>3. new = [mem[p] EXCEPT !.rows = rows, !.cursor = cursor]
      BY <1>3, <2>2, <3>2
    <3>4. new \in Memory /\ new.loaded = mem[p].loaded /\ new.rows = rows
      BY <1>9, <3>3, PartsOf DEF Memory
    <3> QED
      BY <1>8, <1>9, <1>10, <3>4
  <2> QED
    BY <2>1, <2>2
<1>12. m \in Memory /\ m.loaded /\ m.rows = new.rows
  BY <1>4, <1>11 DEF Memory
<1>13. asked \in Rows /\ Of(asked, d1)
  <2>1. \A i \in Ids : asked[i] = Absent \/ (i \in Held(rows) /\ asked[i] = FromD1(i))
    BY <1>5 DEF Held
  <2>2. \A i \in Held(rows) : i \in 1..Len(d1)
    BY <1>10, D1Facts, Basics DEF Held, Of, Ids
  <2>3. \A i \in Ids : asked[i] \in LocalRow
    BY <2>1, <2>2, WrittenRows, Basics
  <2>4. asked = [i \in Ids |-> asked[i]]
    BY <1>5
  <2>5. asked \in Rows
    BY <2>3, <2>4 DEF Rows
  <2>6. \A i \in Held(asked) : i \in 1..Len(d1) /\ asked[i] = FromD1(i)
    BY <2>1, <2>2 DEF Held
  <2>7. \A i \in Held(asked) : i <= Len(d1) /\ asked[i].t = d1[i].t /\ (asked[i].done => d1[i].done)
    BY <2>6, WrittenRows, D1Facts, Basics
  <2> QED
    BY <2>5, <2>7 DEF Of
<1>14. c \in Calls /\ c.rows = asked /\ c.upto = call[p].upto
  BY <1>6, <1>13, PartsOf DEF Calls
<1>15. ProcFits(p, m, c, served[p])
  <2>1. p = "writer" => Held(disk.rows) \subseteq Held(mem[p].rows)
    BY <1>8 DEF IInv, DiskBehind
  <2> QED
    BY <1>11, <1>12, <1>13, <1>14, <2>1, PartsOf DEF ProcFits
<1> QED
  BY <1>7, <1>15, PartsOf, MoveKeeps

\* The state a fetch ends with.
LEMMA VerifiedFacts ==
    ASSUME IInv, NEW p \in Procs, mem[p].loaded, NEW m, m = Verified(p)
    PROVE  /\ m \in Memory /\ m.loaded /\ Of(m.rows, d1) /\ m.cursor = mem[p].cursor
           /\ m.rows = Refreshed(p) /\ Held(m.rows) = Held(mem[p].rows) \cup Held(call[p].rows)
           /\ \A i \in Ids : m.rows[i].form = mem[p].rows[i].form \/ i \notin Held(mem[p].rows)
<1>1. PICK rows : rows = Refreshed(p)
  OBVIOUS
<1>2. PICK old : old = mem[p].rows
  OBVIOUS
<1>3. PICK new : new = call[p].rows
  OBVIOUS
<1>4. old \in Rows /\ new \in Rows /\ Of(old, d1) /\ Of(new, d1)
  BY <1>2, <1>3, PartsOf
<1>5. rows = [i \in Ids |-> IF new[i] = Absent THEN old[i] ELSE [new[i] EXCEPT !.form = old[i].form]]
  BY <1>1, <1>2, <1>3 DEF Refreshed
<1>6. \A r \in LocalRow, f \in Forms :
        /\ [r EXCEPT !.form = f] \in LocalRow /\ [r EXCEPT !.form = f].t = r.t
        /\ [r EXCEPT !.form = f].done = r.done /\ [r EXCEPT !.form = f].form = f
  BY DEF LocalRow
<1>7. ASSUME NEW i \in Ids
      PROVE  /\ rows[i] \in LocalRow /\ rows[i].form = old[i].form
             /\ IF i \in Held(new) THEN rows[i].t = new[i].t /\ rows[i].done = new[i].done ELSE rows[i] = old[i]
  <2>1. new[i] \in LocalRow /\ old[i] \in LocalRow /\ old[i].form \in Forms
    BY <1>4, RowFacts
  <2>2. CASE i \in Held(new)
    <3>1. rows[i] = [new[i] EXCEPT !.form = old[i].form]
      BY <1>5, <2>2 DEF Held
    <3> QED
      BY <1>6, <2>1, <2>2, <3>1
  <2>3. CASE i \notin Held(new)
    BY <1>5, <2>1, <2>3 DEF Held
  <2> QED
    BY <2>2, <2>3
<1>8. rows \in Rows
  <2>1. rows = [i \in Ids |-> rows[i]]
    BY <1>5
  <2> QED
    BY <1>7, <2>1 DEF Rows
<1>9. \A i \in Ids : i \in Held(rows) <=> i \in Held(old) \cup Held(new)
  <2> TAKE i \in Ids
  <2>1. CASE i \in Held(new)
    <3>1. rows[i].t # 0
      BY <1>4, <1>7, <2>1, OfFacts, TypesByPart DEF IInv
    <3>2. i \in Held(rows)
      BY <3>1, Basics DEF Held
    <3> QED
      BY <2>1, <3>2
  <2>2. CASE i \notin Held(new)
    <3>1. rows[i] = old[i]
      BY <1>7, <2>2
    <3> QED
      BY <2>2, <3>1 DEF Held
  <2> QED
    BY <2>1, <2>2
<1>10. Held(rows) = Held(old) \cup Held(new)
  BY <1>9 DEF Held
<1>11. Of(rows, d1)
  <2>1. ASSUME NEW i \in Held(rows)
        PROVE  i <= Len(d1) /\ rows[i].t = d1[i].t /\ (rows[i].done => d1[i].done)
    <3>1. i \in Ids
      BY DEF Held
    <3>2. CASE i \in Held(new)
      BY <1>4, <1>7, <3>1, <3>2 DEF Of
    <3>3. CASE i \notin Held(new)
      <4>1. i \in Held(old) /\ rows[i] = old[i]
        BY <1>7, <1>10, <3>1, <3>3
      <4> QED
        BY <1>4, <4>1 DEF Of
    <3> QED
      BY <3>2, <3>3
  <2> QED
    BY <2>1 DEF Of
<1>12. PICK ver : ver = [mem[p] EXCEPT !.rows = rows]
  OBVIOUS
<1>13. ver \in Memory /\ ver.loaded = mem[p].loaded /\ ver.rows = rows /\ ver.cursor = mem[p].cursor
  BY <1>8, <1>12, PartsOf DEF Memory
<1>14. m = IF call[p].dirty \/ ver # mem[p] THEN [ver EXCEPT !.sealed = TRUE] ELSE ver
  BY <1>1, <1>12 DEF Verified, Sealed
<1>15. m \in Memory /\ m.loaded = ver.loaded /\ m.rows = ver.rows /\ m.cursor = ver.cursor
  BY <1>13, <1>14 DEF Memory
<1> QED
  BY <1>1, <1>2, <1>3, <1>7, <1>10, <1>11, <1>13, <1>15

LEMMA FetchEndKeeps == ASSUME IInv, NEW p \in Procs, FetchEnd(p) PROVE IInv' /\ DiskLater
<1>1. PICK m : m = Verified(p)
  OBVIOUS
<1>2. PICK complete : complete = (m.sealed /\ (p = "writer" => Savable(m)))
  OBVIOUS
<1>3. PICK s : s = IF complete THEN [ids |-> Held(m.rows), upto |-> call[p].upto, t |-> m.cursor.t] ELSE served[p]
  OBVIOUS
<1>4. mem[p].loaded
  BY PartsOf DEF FetchEnd
<1>5. /\ m \in Memory /\ m.loaded /\ Of(m.rows, d1) /\ Held(m.rows) = Held(mem[p].rows) \cup Held(call[p].rows)
      /\ m.sealed \in BOOLEAN
  BY <1>1, <1>4, VerifiedFacts DEF Memory
<1>6. complete \in BOOLEAN
  BY <1>2
<1>7. /\ mem' = [mem EXCEPT ![p] = m] /\ call' = [call EXCEPT ![p] = Idle]
      /\ disk' = IF complete /\ p = "writer" THEN [rows |-> m.rows, cursor |-> m.cursor] ELSE disk
      /\ served' = IF complete
                   THEN [served EXCEPT ![p] = [ids |-> Held(m.rows), upto |-> call[p].upto, t |-> m.cursor.t]]
                   ELSE served
      /\ ok' = [ok EXCEPT ![p] = complete]
      /\ d1' = d1 /\ bound' = bound /\ op' = op /\ faults' = faults
  BY <1>1, <1>2 DEF FetchEnd, oracle, NoFault
<1>8. served' = [served EXCEPT ![p] = s]
  BY <1>3, <1>7, PartsOf
<1>9. \/ disk' = disk
      \/ p = "writer" /\ Savable(m) /\ disk' = [rows |-> m.rows, cursor |-> m.cursor]
  BY <1>2, <1>7
<1>10. s \in Histories /\ s.upto <= Len(d1)
  <2>1. CASE ~complete
    BY <1>3, <2>1, PartsOf
  <2>2. CASE complete
    <3>1. m.cursor.t \in 0..MaxT0
      BY <1>5 DEF Memory, Cursor
    <3>2. Held(m.rows) \in SUBSET Ids
      BY DEF Held
    <3>3. s = [ids |-> Held(m.rows), upto |-> call[p].upto, t |-> m.cursor.t]
      BY <1>3, <2>2
    <3> QED
      BY <3>1, <3>2, <3>3, PartsOf DEF Histories
  <2> QED
    BY <1>6, <2>1, <2>2
<1>11. ProcFits(p, m, Idle, s)
  <2>1. p = "writer" => Held(disk.rows) \subseteq Held(m.rows)
    BY <1>4, <1>5 DEF IInv, DiskBehind
  <2>2. Of(NoRows, d1) /\ 0 <= Len(d1)
    BY D1Facts, Basics DEF Of
  <2> QED
    BY <1>5, <1>10, <2>1, <2>2, Basics DEF ProcFits
<1> QED
  BY <1>6, <1>7, <1>8, <1>9, <1>11, PartsOf, MoveKeeps

\* A process falls idle, its memory as it was or as its fetch left it.
LEMMA IdleKeeps ==
    ASSUME IInv, NEW p \in Procs, NEW m,
           m = mem[p] \/ m = NotLoaded \/ (mem[p].loaded /\ m = Verified(p)), 
           NEW s, s = served[p] \/ s = NotServed,
           mem' = [mem EXCEPT ![p] = m], call' = [call EXCEPT ![p] = Idle], served' = [served EXCEPT ![p] = s],
           d1' = d1, bound' = bound, op' \in {op, NoOp}, ok' \in [Procs -> BOOLEAN], Fault, disk' = disk
    PROVE  IInv' /\ DiskLater
<1>1. /\ m \in Memory /\ Of(m.rows, d1)
      /\ m.loaded => mem[p].loaded /\ Held(mem[p].rows) \subseteq Held(m.rows)
  <2>1. CASE m = mem[p]
    BY <2>1, PartsOf
  <2>2. CASE m = NotLoaded
    BY <2>2, Basics DEF Of
  <2>3. CASE mem[p].loaded /\ m = Verified(p)
    <3>1. m \in Memory /\ Of(m.rows, d1) /\ Held(m.rows) = Held(mem[p].rows) \cup Held(call[p].rows)
      BY <2>3, VerifiedFacts
    <3> QED
      BY <2>3, <3>1
  <2> QED
    BY <2>1, <2>2, <2>3
<1>2. ProcFits(p, m, Idle, s)
  <2>1. p = "writer" => (m.loaded => Held(disk.rows) \subseteq Held(m.rows))
    BY <1>1 DEF IInv, DiskBehind
  <2>2. Of(NoRows, d1) /\ 0 <= Len(d1)
    BY D1Facts, Basics DEF Of
  <2>3. s \in Histories /\ s.upto <= Len(d1)
    BY <2>2, PartsOf, Basics
  <2> QED
    BY <1>1, <2>1, <2>2, <2>3, Basics DEF ProcFits
<1> QED
  BY <1>2, MoveKeeps

LEMMA SaveRaisesKeeps == ASSUME IInv, SaveRaises PROVE IInv' /\ DiskLater
<1>1. PICK m : m = Verified("writer")
  OBVIOUS
<1>2. mem["writer"].loaded
  BY PartsOf, Basics DEF SaveRaises
<1>3. /\ mem' = [mem EXCEPT !["writer"] = m] /\ call' = [call EXCEPT !["writer"] = Idle]
      /\ ok' = [ok EXCEPT !["writer"] = FALSE] /\ Fault
      /\ d1' = d1 /\ bound' = bound /\ op' = op /\ disk' = disk /\ served' = served
  BY <1>1 DEF SaveRaises, oracle
<1>4. PICK s : s = served["writer"] /\ served' = [served EXCEPT !["writer"] = s]
  BY <1>3, PartsOf, Basics
<1>5. [ok EXCEPT !["writer"] = FALSE] \in [Procs -> BOOLEAN]
  BY PartsOf, Basics
<1> QED
  BY <1>1, <1>2, <1>3, <1>4, <1>5, IdleKeeps, Basics

LEMMA FetchRaisesKeeps == ASSUME IInv, NEW p \in Procs, FetchRaises(p) PROVE IInv' /\ DiskLater
<1>1. /\ call' = [call EXCEPT ![p] = Idle] /\ ok' = [ok EXCEPT ![p] = FALSE] /\ Fault
      /\ d1' = d1 /\ bound' = bound /\ op' = op /\ mem' = mem /\ disk' = disk /\ served' = served
  BY DEF FetchRaises, oracle
<1>2. PICK s : s = served[p] /\ served' = [served EXCEPT ![p] = s]
  BY <1>1, PartsOf
<1>3. PICK m : m = mem[p] /\ mem' = [mem EXCEPT ![p] = m]
  BY <1>1, PartsOf
<1>4. [ok EXCEPT ![p] = FALSE] \in [Procs -> BOOLEAN]
  BY PartsOf
<1> QED
  BY <1>1, <1>2, <1>3, <1>4, IdleKeeps

LEMMA CrashKeeps == ASSUME IInv, NEW p \in Procs, Crash(p) PROVE IInv' /\ DiskLater
<1>1. /\ mem' = [mem EXCEPT ![p] = NotLoaded] /\ call' = [call EXCEPT ![p] = Idle]
      /\ served' = [served EXCEPT ![p] = NotServed] /\ ok' = [ok EXCEPT ![p] = TRUE] /\ Fault
      /\ op' \in {op, NoOp} /\ d1' = d1 /\ bound' = bound /\ disk' = disk
  BY DEF Crash
<1> QED
  BY <1>1, IdleKeeps, PartsOf

\* A step that changes neither rows nor fetches.
LEMMA QuietKeeps ==
    ASSUME IInv, d1' = d1, bound' = bound, mem' = mem, disk' = disk, call' = call, served' = served,
           op' \in {op, NoOp}, ok' \in [Procs -> BOOLEAN], faults' = faults \/ Fault
    PROVE  IInv' /\ DiskLater
<1>1. PICK p \in Procs : p = "writer"
  BY Basics
<1>2. ProcFits(p, mem[p], call[p], served[p])
  BY <1>1, PartsOf DEF ProcFits, IInv, DiskBehind
<1> QED
  BY <1>2, PartsOf, MoveKeeps

LEMMA NextKeeps == ASSUME IInv, [Next]_vars PROVE IInv' /\ DiskLater
<1>1. CASE Post \/ Settle
  <2>1. disk' = disk
    BY <1>1 DEF Post, Settle
  <2> QED
    BY <1>1, <2>1, PostKeeps, SettleKeeps, DiskUnchanged
<1>2. CASE InsertAnswered \/ Lookup \/ SettleAnswered
  BY <1>2, InsertAnsweredKeeps, LookupKeeps, SettleAnsweredKeeps
<1>3. CASE AnswerLost
  <2>1. ok' \in [Procs -> BOOLEAN]
    BY <1>3, TypesByPart DEF AnswerLost, IInv
  <2> QED
    BY <1>3, <2>1, QuietKeeps DEF AnswerLost
<1>4. CASE SaveRaises
  BY <1>4, SaveRaisesKeeps
<1>5. ASSUME NEW p \in Procs, FetchRefused(p)
      PROVE  IInv' /\ DiskLater
  <2>1. ok' \in [Procs -> BOOLEAN]
    BY <1>5, PartsOf DEF FetchRefused
  <2> QED
    BY <1>5, <2>1, QuietKeeps DEF FetchRefused, oracle, NoFault
<1>6. ASSUME NEW p \in Procs, Fetch(p) \/ FetchRaises(p) \/ Crash(p)
      PROVE  IInv' /\ DiskLater
  BY <1>5, <1>6, FetchStartKeeps, ApplyDeltaKeeps, FetchEndKeeps, FetchRaisesKeeps, CrashKeeps DEF Fetch
<1>7. CASE UNCHANGED vars
  <2>1. ok' \in [Procs -> BOOLEAN]
    BY <1>7, TypesByPart DEF vars, IInv
  <2> QED
    BY <1>7, <2>1, QuietKeeps DEF vars, oracle
<1> QED
  BY <1>1, <1>2, <1>3, <1>4, <1>6, <1>7 DEF Next, Oracle

-----------------------------------------------------------------------------
(* For every run of the writer and the monitor. *)

LEMMA SpecIInv == Spec => []IInv
<1>1. IInv /\ [Next]_vars => IInv'
  BY NextKeeps
<1> QED
  BY InitIInv, <1>1, PTL DEF Spec

\* D1, both processes and the seal keep their types: in particular a fetch and
\* a write-through leave memory and disk a well-formed seal, whatever failed.
THEOREM OverlayTypeCorrect == Spec => []TypeOK
<1>1. IInv => TypeOK
  BY DEF IInv
<1> QED
  BY SpecIInv, <1>1, PTL

\* No local row is ahead of D1: merging deltas, refreshing in place and writing
\* answers through, from any mixture of fetches, leaves rows D1 has.
THEOREM OverlayNeverAhead == Spec => []NeverAhead
<1>1. IInv => NeverAhead
  BY DEF IInv, RowsKnown, NeverAhead, OfD1, Of
<1> QED
  BY SpecIInv, <1>1, PTL

\* The durable authority never loses a row and never moves its cursor back.
THEOREM OverlayDiskOnlyGrows == Spec => DiskOnlyGrows
<1>1. IInv /\ [Next]_vars => [Held(disk.rows) \subseteq Held(disk.rows)' /\ disk.cursor.t <= disk.cursor'.t]_vars
  BY NextKeeps DEF DiskLater
<1> QED
  BY SpecIInv, <1>1, PTL DEF Spec, DiskOnlyGrows

-----------------------------------------------------------------------------
(* Nothing bound is missing, and no history has a hole, when T0s are        *)
(* committed in the order they are bound and saves do not raise.            *)

LEMMA WholeMore ==
    ASSUME NEW rows, NEW cursor, NEW b, NEW c, Whole(rows, cursor, b), b \subseteq c
    PROVE  Whole(rows, cursor, c)
BY DEF Whole

LEMMA FitsMore ==
    ASSUME NEW c, NEW rows, NEW more, Fits(c, rows), Held(rows) \subseteq Held(more)
    PROVE  Fits(c, more)
<1>1. CASE c.at = "delta"
  <2>1. \A i \in Held(c.rows) : c.rows[i].form = "+" /\ 1..i \subseteq Held(c.rows) \cup Held(more)
    BY <1>1 DEF Fits
  <2> QED
    BY <1>1, <2>1 DEF Fits
<1>2. CASE c.at # "delta"
  BY <1>2 DEF Fits
<1> QED
  BY <1>1, <1>2

LEMMA OrderedRows ==
    ASSUME OInv, NEW i \in 1..Len(d1)
    PROVE  d1[i].t = i /\ i \in Ids /\ i \in Nat /\ i # 0 /\ (i # Len(d1) => i \in bound)
           /\ \A j \in 1..i : j # i => j \in bound
<1>1. Len(d1) \in Nat /\ i \in Ids /\ i \in Nat /\ i # 0
  BY D1Facts, Basics DEF OInv
<1>2. /\ \A j \in 1..i : j # Len(d1) => j \in 1..(Len(d1) - 1)
      /\ \A j \in 1..i : j # i => j # Len(d1)
  <2>1. \A n \in Nat, j \in 1..i :
            i <= n => (j # n => j \in 1..(n - 1)) /\ (j # i => j # n)
    BY <1>1
  <2>2. i <= Len(d1)
    BY <1>1
  <2> QED
    BY <1>1, <2>1, <2>2
<1>3. d1[i].t = i /\ 1..(Len(d1) - 1) \subseteq bound /\ i \in 1..i
  BY <1>1 DEF OInv, Ordered
<1> QED
  BY <1>1, <1>2, <1>3

\* The steps of one process.
LEMMA MoveOrder ==
    ASSUME OInv, IInv', NEW p \in Procs, NEW m, NEW c, NEW s,
           mem' = [mem EXCEPT ![p] = m], call' = [call EXCEPT ![p] = c], served' = [served EXCEPT ![p] = s],
           bound \subseteq bound', Ordered', bound' \subseteq Held(disk'.rows),
           \/ disk' = disk
           \/ disk' = [rows |-> m.rows, cursor |-> m.cursor],
           Whole(m.rows, m.cursor, bound'), Fits(c, m.rows),
           \A i \in 1..s.upto : i <= s.t => i \in s.ids
    PROVE  OInv'
<1>1. /\ mem' \in [Procs -> Memory] /\ mem \in [Procs -> Memory]
      /\ call \in [Procs -> Calls] /\ served \in [Procs -> Histories]
  BY TypesByPart DEF OInv, IInv, TypeOK, Memory
<1>2. /\ mem'[p] = m /\ call'[p] = c /\ served'[p] = s
      /\ \A q \in Procs : q # p => mem'[q] = mem[q] /\ call'[q] = call[q] /\ served'[q] = served[q]
  BY <1>1
<1>3. DurablyBound'
  BY DEF DurablyBound, Held
<1>4. Whole(disk.rows, disk.cursor, bound)'
  <2>1. Whole(disk.rows, disk.cursor, bound')
    BY WholeMore DEF OInv
  <2>2. Whole(disk'.rows, disk'.cursor, bound')
    BY <2>1
  <2> QED
    BY <2>2 DEF Whole, Held
<1>5. \A q \in Procs : /\ Whole(mem'[q].rows, mem'[q].cursor, bound') /\ Fits(call'[q], mem'[q].rows)
                       /\ \A i \in 1..served'[q].upto : i <= served'[q].t => i \in served'[q].ids
  <2> TAKE q \in Procs
  <2>1. CASE q = p
    BY <1>2, <2>1
  <2>2. CASE q # p
    <3>1. Whole(mem[q].rows, mem[q].cursor, bound) /\ Fits(call[q], mem[q].rows)
          /\ \A i \in 1..served[q].upto : i <= served[q].t => i \in served[q].ids
      BY DEF OInv
    <3>2. Whole(mem[q].rows, mem[q].cursor, bound')
      BY <3>1, WholeMore
    <3> QED
      BY <1>2, <2>2, <3>1, <3>2
  <2> QED
    BY <2>1, <2>2
<1> QED
  BY <1>3, <1>4, <1>5 DEF OInv, Whole, Fits, Held

\* What a write-through leaves.
LEMMA WrittenWhole ==
    ASSUME OInv, NEW i \in 1..Len(d1), NEW row \in LocalRow, row.t = d1[i].t,
           NEW b, bound \subseteq b, row.form = "Z" => i \in b,
           NEW W, W = IF mem["writer"].loaded THEN mem["writer"] ELSE Loaded,
           NEW m, m = Written(W, i, row)
    PROVE  /\ m \in Memory /\ Whole(m.rows, m.cursor, b) /\ Held(m.rows) = Held(W.rows) \cup {i}
           /\ Fits(call["writer"], m.rows)
           /\ m.rows[i] = row /\ Of(W.rows, d1)
           /\ m.cursor = (IF After(CursorOf(m.rows, i), W.cursor) THEN CursorOf(m.rows, i) ELSE W.cursor)
           /\ \A j \in Ids : j # i => m.rows[j] = W.rows[j]
<1>1. W \in Memory /\ Of(W.rows, d1) /\ W.loaded /\ Held(disk.rows) \subseteq Held(W.rows)
  BY WriteBase DEF OInv
<1>2. i \in Ids /\ i \in Nat /\ i # 0 /\ row.t = i /\ (\A j \in 1..i : j # i => j \in bound)
  BY OrderedRows
<1>3. /\ m \in Memory /\ m.loaded = W.loaded /\ m.rows[i] = row /\ Held(m.rows) = Held(W.rows) \cup {i}
      /\ m.cursor = (IF After(CursorOf(m.rows, i), W.cursor) THEN CursorOf(m.rows, i) ELSE W.cursor)
      /\ m.rows = [W.rows EXCEPT ![i] = row]
  <2>1. row.t # 0
    BY <1>2
  <2> QED
    BY <1>1, <1>2, <2>1, WrittenFacts
<1>4. Whole(W.rows, W.cursor, bound)
  BY <1>1, Basics DEF OInv, Loaded
<1>5. \A j \in Held(m.rows) : 1..j \subseteq Held(m.rows)
  <2>1. \A j \in 1..i : j \in Held(m.rows)
    BY <1>1, <1>2, <1>3 DEF OInv, DurablyBound
  <2>2. \A j \in Held(W.rows) : 1..j \subseteq Held(W.rows)
    BY <1>4 DEF Whole
  <2> QED
    BY <1>3, <2>1, <2>2
<1>6. CursorOf(m.rows, i).t = i /\ CursorOf(m.rows, i).id = i /\ CursorOf(m.rows, i).form = row.form
  BY <1>2, <1>3 DEF CursorOf
<1>7. m.cursor.id = m.cursor.t /\ m.cursor.t \in Held(m.rows) \cup {0} /\ (m.cursor.form = "Z" => m.cursor.t \in b)
  BY <1>3, <1>4, <1>6 DEF Whole
<1>8. Whole(m.rows, m.cursor, b)
  BY <1>5, <1>7 DEF Whole
<1>9. Fits(call["writer"], m.rows)
  <2>1. CASE mem["writer"].loaded
    BY <1>3, <2>1, FitsMore, Basics DEF OInv
  <2>2. CASE ~mem["writer"].loaded
    <3>1. call["writer"].at = "idle"
      BY <2>2, PartsOf, Basics DEF OInv
    <3> QED
      BY <3>1 DEF Fits
  <2> QED
    BY <2>1, <2>2
<1>10. \A j \in Ids : j # i => m.rows[j] = W.rows[j]
  BY <1>1, <1>3 DEF Memory, Rows
<1> QED
  BY <1>1, <1>3, <1>8, <1>9, <1>10

\* A newest row not bound yet is saved: the cursor moves to it, and no row is later.
LEMMA NewestSaved ==
    ASSUME OInv, NEW i \in 1..Len(d1), i \notin bound, NEW row \in LocalRow, row.t = d1[i].t,
           NEW W, W = IF mem["writer"].loaded THEN mem["writer"] ELSE Loaded,
           NEW m, m = Written(W, i, row)
    PROVE  Savable(m)
<1>1. /\ m \in Memory /\ Held(m.rows) = Held(W.rows) \cup {i} /\ m.rows[i] = row /\ Of(W.rows, d1)
      /\ m.cursor = (IF After(CursorOf(m.rows, i), W.cursor) THEN CursorOf(m.rows, i) ELSE W.cursor)
      /\ \A j \in Ids : j # i => m.rows[j] = W.rows[j]
  <2>1. PICK b : b = bound \cup {i}
    OBVIOUS
  <2> QED
    BY <2>1, WrittenWhole
<1>2. i = Len(d1) /\ i \in Ids /\ i \in Nat /\ i # 0 /\ row.t = i
  BY OrderedRows
<1>3. \A j \in Held(W.rows) : j \in 1..Len(d1) /\ W.rows[j].t = j
  <2>1. \A j \in Held(W.rows) : j \in Ids /\ j <= Len(d1) /\ W.rows[j].t = d1[j].t
    BY <1>1 DEF Of, Held
  <2>2. \A j \in Held(W.rows) : j \in 1..Len(d1)
    <3>1. Len(d1) \in Nat /\ MaxT0 \in Nat
      BY D1Facts, Basics DEF OInv
    <3> QED
      BY <2>1, <3>1 DEF Ids
  <2> QED
    BY <2>1, <2>2, OrderedRows
<1>4. \A j \in Held(m.rows) : j \in Nat /\ j <= i /\ m.rows[j].t = j
  <2> TAKE j \in Held(m.rows)
  <2>1. CASE j = i
    BY <1>1, <1>2, <2>1
  <2>2. CASE j # i
    <3>1. j \in Held(W.rows) /\ j \in Ids
      BY <1>1, <2>2 DEF Held
    <3> QED
      BY <1>1, <1>2, <1>3, <2>2, <3>1
  <2> QED
    BY <2>1, <2>2
<1>5. LastRow(m.rows) = CursorOf(m.rows, i)
  <2>1. i \in Held(m.rows) /\ m.rows \in Rows
    BY <1>1 DEF Memory
  <2>2. PICK k \in Held(m.rows) : /\ LastRow(m.rows) = CursorOf(m.rows, k)
                                  /\ \A j \in Held(m.rows) : m.rows[j].t <= m.rows[k].t
    BY <2>1, LastRowFacts
  <2>3. i <= k /\ k <= i /\ k \in Nat
    BY <1>4, <2>1, <2>2
  <2>4. k = i
    BY <1>2, <2>3
  <2> QED
    BY <2>2, <2>4
<1>6. CursorOf(m.rows, i) = [t |-> i, id |-> i, form |-> row.form]
  BY <1>1, <1>2 DEF CursorOf
<1>7. W.cursor \in Cursor /\ Whole(W.rows, W.cursor, bound)
  <2>1. W \in Memory
    BY WriteBase DEF OInv
  <2> QED
    BY <2>1, Basics DEF OInv, Loaded, Memory
<1>8. W.cursor.t \in Nat /\ W.cursor.form \in Forms /\ W.cursor.t <= i /\ W.cursor.id = W.cursor.t
  <2>1. \A j \in 1..Len(d1) : j <= i
    BY <1>2
  <2> QED
    BY <1>2, <1>3, <1>7, <2>1 DEF Whole, Cursor
<1>9. CASE W.cursor.t # i
  <2>1. After(CursorOf(m.rows, i), W.cursor)
    BY <1>2, <1>6, <1>8, <1>9 DEF After
  <2> QED
    BY <1>1, <1>5, <2>1 DEF Savable
<1>10. CASE W.cursor.t = i
  <2>1. W.cursor.form = "+"
    BY <1>7, <1>8, <1>10 DEF Whole, Forms
  <2>2. row.form \in {"+", "Z"}
    BY DEF LocalRow, Forms
  <2>3. CASE row.form = "Z"
    <3>1. After(CursorOf(m.rows, i), W.cursor)
      BY <1>6, <1>10, <2>1, <2>3 DEF After
    <3> QED
      BY <1>1, <1>5, <3>1 DEF Savable
  <2>4. CASE row.form = "+"
    <3>1. W.cursor = CursorOf(m.rows, i)
      BY <1>6, <1>7, <1>8, <1>10, <2>1, <2>4 DEF Cursor
    <3> QED
      BY <1>1, <1>5, <3>1 DEF Savable
  <2> QED
    BY <2>2, <2>3, <2>4
<1> QED
  BY <1>9, <1>10

LEMMA InitOInv == Init => OInv
<1> SUFFICES ASSUME Init PROVE OInv
  OBVIOUS
<1>1. IInv
  BY InitIInv
<1>2. /\ d1 = <<>> /\ bound = {} /\ op = NoOp /\ disk.rows = NoRows /\ disk.cursor = NoCursor
      /\ \A p \in Procs : mem[p] = NotLoaded /\ call[p] = Idle /\ served[p] = NotServed
  BY Basics DEF Init
<1>3. Whole(NoRows, NoCursor, {}) /\ Fits(Idle, NoRows)
  BY Basics DEF Whole, Fits
<1>4. Ordered
  BY <1>2, Basics DEF Ordered
<1>5. \A i \in 1..0 : FALSE
  OBVIOUS
<1> QED
  BY <1>1, <1>2, <1>3, <1>4, <1>5, Basics DEF OInv, DurablyBound

LEMMA SameOrder ==
    ASSUME OInv, IInv', Ordered', mem' = mem, disk' = disk, call' = call, served' = served, bound' = bound
    PROVE  OInv'
<1>1. PICK p \in Procs : p = "writer"
  BY Basics
<1>2. PICK m, c, s : m = mem[p] /\ c = call[p] /\ s = served[p]
  OBVIOUS
<1>3. mem' = [mem EXCEPT ![p] = m] /\ call' = [call EXCEPT ![p] = c] /\ served' = [served EXCEPT ![p] = s]
  BY <1>2, PartsOf DEF OInv
<1>4. bound' \subseteq Held(disk'.rows)
  BY DEF OInv, DurablyBound
<1>5. /\ Whole(m.rows, m.cursor, bound') /\ Fits(c, m.rows) /\ bound \subseteq bound'
      /\ \A i \in 1..s.upto : i <= s.t => i \in s.ids
  BY <1>2 DEF OInv
<1> QED
  BY <1>3, <1>4, <1>5, MoveOrder

LEMMA SameOrdered == ASSUME OInv, d1' = d1, bound' = bound, op' \in {op, NoOp} PROVE Ordered'
BY Basics DEF OInv, Ordered

LEMMA PostOrder == ASSUME OInv, ~LateBinding, Post PROVE OInv'
<1>1. PICK t \in Ids \ Committed : 1..(t - 1) \subseteq BoundT0s /\ d1' = Append(d1, [t |-> t, done |-> FALSE])
  BY DEF Post
<1>2. /\ op' = [kind |-> "insert", id |-> Len(d1) + 1]
      /\ bound' = bound /\ mem' = mem /\ disk' = disk /\ call' = call /\ served' = served
  BY DEF Post
<1>3. PICK n \in Nat : n = Len(d1)
  BY D1Facts, Basics DEF OInv
<1>4. bound \subseteq 1..n /\ \A i \in 1..n : d1[i].t = i
  BY <1>3 DEF OInv, Ordered
<1>5. Committed = 1..n /\ BoundT0s = bound
  <2>1. Committed = 1..n
    BY <1>3, <1>4 DEF Committed
  <2>2. \A i \in bound : d1[i].t = i
    BY <1>4
  <2>3. BoundT0s = bound
    BY <2>2 DEF BoundT0s
  <2> QED
    BY <2>1, <2>3
<1>6. t = n + 1 /\ 1..n \subseteq bound
  <2>1. t \in Nat /\ t # 0 /\ t \notin 1..n
    BY <1>5, Basics
  <2>2. t > n
    BY <1>3, <2>1
  <2>3. CASE t > n + 1
    <3>1. n + 1 \in 1..(t - 1)
      BY <2>1, <2>3
    <3>2. n + 1 \in 1..n
      BY <1>1, <1>4, <1>5, <3>1
    <3> QED
      BY <3>2
  <2>4. t = n + 1
    BY <2>1, <2>2, <2>3
  <2> QED
    BY <1>1, <1>5, <2>4
<1>7. /\ Len(d1') = n + 1 /\ d1'[n + 1].t = n + 1 /\ \A i \in 1..n : d1'[i] = d1[i]
  BY <1>1, <1>3, <1>6, TypesByPart DEF OInv, IInv
<1>8. Ordered'
  <2>1. \A i \in 1..(n + 1) : d1'[i].t = i
    BY <1>4, <1>7
  <2>2. bound \subseteq 1..(n + 1) /\ 1..((n + 1) - 1) \subseteq bound /\ n + 1 \notin bound
    BY <1>4, <1>6
  <2> QED
    BY <1>2, <1>3, <1>7, <2>1, <2>2 DEF Ordered
<1> QED
  BY <1>2, <1>8, PostKeeps, SameOrder DEF OInv

LEMMA SettleOrder == ASSUME OInv, Settle PROVE OInv'
<1>1. PICK k \in 1..Len(d1) : d1' = [d1 EXCEPT ![k].done = TRUE] /\ op' = [kind |-> "settle", id |-> k]
  BY DEF Settle, Mature
<1>2. /\ bound' = bound /\ mem' = mem /\ disk' = disk /\ call' = call /\ served' = served
  BY DEF Settle
<1>3. Len(d1') = Len(d1) /\ \A i \in 1..Len(d1) : d1'[i].t = d1[i].t
  <2>1. d1 \in Seq(D1Row)
    BY TypesByPart DEF OInv, IInv
  <2>2. \A r \in D1Row : [r EXCEPT !.done = TRUE].t = r.t
    BY DEF D1Row
  <2>3. d1[k] \in D1Row
    BY <2>1
  <2> QED
    BY <1>1, <2>1, <2>2, <2>3
<1>4. Ordered'
  BY <1>1, <1>2, <1>3 DEF OInv, Ordered
<1> QED
  BY <1>2, <1>4, SettleKeeps, SameOrder DEF OInv

\* A receipt is bound only once its row is saved: the row is the newest, so the
\* save never refuses it.
LEMMA BindingOrder ==
    ASSUME OInv, IInv', NEW i \in 1..Len(d1), i \notin bound, NEW row \in LocalRow, row.t = d1[i].t,
           WriteThrough(i, row), bound' = bound \cup {i}, Ordered', call' = call, served' = served
    PROVE  OInv'
<1>1. PICK W : W = IF mem["writer"].loaded THEN mem["writer"] ELSE Loaded
  OBVIOUS
<1>2. PICK m : m = Written(W, i, row)
  OBVIOUS
<1>3. Savable(m)
  BY <1>1, <1>2, NewestSaved
<1>4. mem' = [mem EXCEPT !["writer"] = m] /\ disk' = [rows |-> m.rows, cursor |-> m.cursor]
  BY <1>1, <1>2, <1>3, Zenon DEF WriteThrough
<1>5. PICK b : b = bound \cup {i}
  OBVIOUS
<1>6. Whole(m.rows, m.cursor, bound') /\ Held(m.rows) = Held(W.rows) \cup {i} /\ Fits(call["writer"], m.rows)
  BY <1>1, <1>2, <1>5, WrittenWhole
<1>7. bound' \subseteq Held(disk'.rows)
  <2>1. Held(disk.rows) \subseteq Held(W.rows)
    BY <1>1, WriteBase DEF OInv
  <2>2. bound \subseteq Held(disk.rows)
    BY DEF OInv, DurablyBound
  <2> QED
    BY <1>4, <1>6, <2>1, <2>2
<1>8. PICK c, s : c = call["writer"] /\ s = served["writer"]
  OBVIOUS
<1>9. /\ call' = [call EXCEPT !["writer"] = c] /\ served' = [served EXCEPT !["writer"] = s]
      /\ \A j \in 1..s.upto : j <= s.t => j \in s.ids
  BY <1>8, PartsOf, Basics DEF OInv
<1> QED
  BY <1>4, <1>6, <1>7, <1>8, <1>9, MoveOrder, Basics

LEMMA InsertAnsweredOrder == ASSUME OInv, ~WriteMayRaise, InsertAnswered PROVE OInv'
<1>1. /\ op.id \in 1..Len(d1) /\ op.id \notin bound /\ op.id = Len(d1) /\ op.id \in Nat
  BY DEF OInv, IInv, OpKnown, Ordered, InsertAnswered
<1>2. PICK row \in LocalRow : row = Posted(op.id) /\ row.t = d1[op.id].t
  BY <1>1, WrittenRows DEF OInv
<1>3. /\ WriteThrough(op.id, row) /\ bound' = bound \cup {op.id}
      /\ d1' = d1 /\ op' = NoOp /\ call' = call /\ served' = served
  BY <1>2 DEF InsertAnswered, WriteThroughRaises
<1>4. Ordered'
  BY <1>1, <1>3, Basics DEF OInv, Ordered
<1> QED
  BY <1>1, <1>2, <1>3, <1>4, InsertAnsweredKeeps, BindingOrder DEF OInv

LEMMA LookupOrder == ASSUME OInv, ~WriteMayRaise, Lookup PROVE OInv'
<1>1. PICK i \in (1..Len(d1)) \ bound : WriteThrough(i, Found(i)) /\ bound' = bound \cup {i}
  BY DEF Lookup, WriteThroughRaises
<1>2. d1' = d1 /\ op' = op /\ op = NoOp /\ call' = call /\ served' = served
  BY DEF Lookup
<1>3. PICK row \in LocalRow : row = Found(i) /\ row.t = d1[i].t
  BY WrittenRows DEF OInv
<1>4. Ordered'
  BY <1>1, <1>2, Basics DEF OInv, Ordered
<1> QED
  BY <1>1, <1>2, <1>3, <1>4, LookupKeeps, BindingOrder DEF OInv

LEMMA SettleAnsweredOrder == ASSUME OInv, ~WriteMayRaise, SettleAnswered PROVE OInv'
<1>1. op.id \in 1..Len(d1)
  BY DEF OInv, IInv, OpKnown, SettleAnswered
<1>2. PICK i \in 1..Len(d1) : i = op.id
  BY <1>1
<1>3. PICK row \in LocalRow : row = SettledRow(i) /\ row.t = d1[i].t /\ row.form = "+"
  BY WrittenRows DEF OInv
<1>4. WriteThrough(i, row) /\ bound' = bound /\ d1' = d1 /\ op' = NoOp /\ call' = call /\ served' = served
  BY <1>2, <1>3 DEF SettleAnswered, WriteThroughRaises
<1>5. Ordered'
  BY <1>4, SameOrdered
<1>6. PICK W : W = IF mem["writer"].loaded THEN mem["writer"] ELSE Loaded
  OBVIOUS
<1>7. PICK m : m = Written(W, i, row)
  OBVIOUS
<1>8. Whole(m.rows, m.cursor, bound') /\ Held(m.rows) = Held(W.rows) \cup {i} /\ Fits(call["writer"], m.rows)
  <2>1. PICK b : b = bound
    OBVIOUS
  <2>2. row.form # "Z"
    BY <1>3
  <2>3. bound \subseteq b /\ (row.form = "Z" => i \in b) /\ row.t = d1[i].t
    BY <1>3, <2>1, <2>2
  <2>4. \A x, y : x = W /\ y = m =>
          /\ Whole(y.rows, y.cursor, b) /\ Held(y.rows) = Held(x.rows) \cup {i} /\ Fits(call["writer"], y.rows)
    BY <1>6, <1>7, <2>3, WrittenWhole
  <2> QED
    BY <1>4, <2>1, <2>4
<1>9. \/ mem' = [mem EXCEPT !["writer"] = m] /\ disk' = [rows |-> m.rows, cursor |-> m.cursor]
      \/ mem' = [mem EXCEPT !["writer"] = m] /\ disk' = disk
      \/ mem' = mem /\ disk' = disk
  BY <1>4, <1>6, <1>7, Zenon DEF WriteThrough
<1>10. bound' \subseteq Held(disk'.rows)
  <2>1. Held(disk.rows) \subseteq Held(disk.rows)'
    BY SettleAnsweredKeeps DEF OInv, DiskLater
  <2> QED
    BY <1>4, <2>1 DEF OInv, DurablyBound, Held
<1>11. IInv'
  BY SettleAnsweredKeeps DEF OInv
<1>12. CASE mem' = mem /\ disk' = disk
  BY <1>4, <1>5, <1>11, <1>12, SameOrder
<1>13. CASE /\ mem' = [mem EXCEPT !["writer"] = m]
            /\ \/ disk' = disk
               \/ disk' = [rows |-> m.rows, cursor |-> m.cursor]
  <2>1. PICK c, s : c = call["writer"] /\ s = served["writer"]
    OBVIOUS
  <2>2. /\ call' = [call EXCEPT !["writer"] = c] /\ served' = [served EXCEPT !["writer"] = s]
        /\ \A j \in 1..s.upto : j <= s.t => j \in s.ids
    BY <1>4, <2>1, PartsOf, Basics DEF OInv
  <2> QED
    BY <1>4, <1>5, <1>8, <1>10, <1>11, <1>13, <2>1, <2>2, MoveOrder, Basics
<1> QED
  BY <1>9, <1>12, <1>13

\* A fetch begins from a state with no hole, and asks for all past its cursor.
LEMMA FetchStartOrder == ASSUME OInv, NEW p \in Procs, FetchStart(p) PROVE OInv'
<1>1. PICK m : m = IF mem[p].loaded THEN mem[p] ELSE Loaded
  OBVIOUS
<1>2. m \in Memory /\ Whole(m.rows, m.cursor, bound)
  BY <1>1, FetchBase DEF OInv, Loaded
<1>3. PICK rows : rows = [i \in Ids |-> IF i <= Len(d1) /\ (\/ d1[i].t > m.cursor.t
                                                            \/ (d1[i].t = m.cursor.t /\ i > m.cursor.id))
                                        THEN FromD1(i) ELSE Absent]
  OBVIOUS
<1>4. PICK c : c = [at |-> "delta", rows |-> rows, dirty |-> FALSE, upto |-> Len(d1)]
  OBVIOUS
<1>5. mem' = [mem EXCEPT ![p] = m] /\ call' = [call EXCEPT ![p] = c] /\ disk' = disk /\ served' = served
      /\ d1' = d1 /\ bound' = bound /\ op' = op
  BY <1>1, <1>3, <1>4 DEF FetchStart, Answer, oracle
<1>6. PICK k \in 0..MaxT0 : k = m.cursor.t /\ m.cursor.id = k
  BY <1>2 DEF Memory, Cursor, Whole
<1>7. \A i \in Ids : IF i \in 1..Len(d1) /\ i > k THEN rows[i] = FromD1(i) ELSE rows[i] = Absent
  <2> TAKE i \in Ids
  <2>1. i \in Nat /\ i # 0 /\ Len(d1) \in Nat /\ k \in Nat
    BY D1Facts, Basics DEF OInv
  <2>2. CASE i \in 1..Len(d1)
    <3>1. d1[i].t = i /\ i <= Len(d1)
      BY <2>1, <2>2, OrderedRows
    <3> QED
      BY <1>3, <1>6, <2>1, <2>2, <3>1
  <2>3. CASE i \notin 1..Len(d1)
    <3>1. ~ (i <= Len(d1))
      BY <2>1, <2>3
    <3> QED
      BY <1>3, <2>3, <3>1
  <2> QED
    BY <2>2, <2>3
<1>8. Held(rows) = {i \in 1..Len(d1) : i > k}
  <2>1. \A i \in 1..Len(d1) : i \in Ids /\ FromD1(i) # Absent
    <3>1. \A i \in 1..Len(d1) : i \in Ids /\ FromD1(i).t = d1[i].t /\ d1[i].t # 0
      BY OrderedRows, WrittenRows DEF OInv
    <3> QED
      BY <3>1, Basics
  <2> QED
    BY <1>7, <2>1 DEF Held
<1>9. \A j \in 1..k : j \in Held(m.rows)
  BY <1>2, <1>6 DEF Whole
<1>10. Fits(c, m.rows)
  <2>1. ASSUME NEW i \in Held(rows)
        PROVE  rows[i].form = "+" /\ 1..i \subseteq Held(rows) \cup Held(m.rows)
    <3>1. i \in 1..Len(d1) /\ i > k /\ rows[i] = FromD1(i)
      BY <1>7, <1>8, D1Facts DEF OInv
    <3>2. \A j \in 1..i : j \in 1..k \/ j \in {x \in 1..Len(d1) : x > k}
      <4>1. \A n \in Nat : i <= n => \A j \in 1..i : j \in 1..k \/ (j \in 1..n /\ j > k)
        BY <3>1, <1>6, Basics
      <4>2. Len(d1) \in Nat /\ i <= Len(d1)
        BY <3>1, D1Facts, Basics DEF OInv
      <4> QED
        BY <4>1, <4>2
    <3>3. rows[i].form = "+"
      BY <3>1, WrittenRows DEF OInv
    <3> QED
      BY <1>8, <1>9, <3>2, <3>3
  <2>2. c.at = "delta" /\ c.rows = rows
    BY <1>4
  <2> QED
    BY <2>1, <2>2 DEF Fits
<1>11. PICK s : s = served[p] /\ served' = [served EXCEPT ![p] = s]
  BY <1>5, PartsOf DEF OInv
<1>12. IInv' /\ Ordered' /\ bound' \subseteq Held(disk'.rows)
  BY <1>5, FetchStartKeeps, SameOrdered DEF OInv, DurablyBound
<1> QED
  BY <1>2, <1>5, <1>10, <1>11, <1>12, MoveOrder DEF OInv

\* The delta continues memory, and the cursor moves to a row of it.
LEMMA ApplyDeltaOrder == ASSUME OInv, NEW p \in Procs, ApplyDelta(p) PROVE OInv'
<1>1. PICK delta : delta = call[p].rows
  OBVIOUS
<1>2. PICK rows : rows = Merge(mem[p].rows, delta)
  OBVIOUS
<1>3. PICK new : new = IF Held(delta) = {} THEN mem[p]
                       ELSE [mem[p] EXCEPT !.rows = rows, !.cursor = LastRow(delta)]
  OBVIOUS
<1>4. PICK m : m = [new EXCEPT !.sealed = @ /\ new = mem[p]]
  OBVIOUS
<1>5. PICK asked : asked = [i \in Ids |-> IF rows[i] # Absent /\ ~rows[i].done THEN FromD1(i) ELSE Absent]
  OBVIOUS
<1>6. PICK c : c = [at |-> "refresh", rows |-> asked, dirty |-> Held(delta) # {}, upto |-> call[p].upto]
  OBVIOUS
<1>7. mem' = [mem EXCEPT ![p] = m] /\ call' = [call EXCEPT ![p] = c] /\ disk' = disk /\ served' = served
      /\ d1' = d1 /\ bound' = bound /\ op' = op
  BY <1>1, <1>2, <1>3, <1>4, <1>5, <1>6 DEF ApplyDelta, Answer, oracle
<1>8. delta \in Rows /\ Of(delta, d1) /\ call[p].at = "delta" /\ mem[p].rows \in Rows
  BY <1>1, PartsOf DEF ApplyDelta, OInv
<1>9. Held(rows) = Held(mem[p].rows) \cup Held(delta)
  BY <1>2, <1>8 DEF Merge, Rows, Held
<1>10. Whole(mem[p].rows, mem[p].cursor, bound) /\ Fits(call[p], mem[p].rows)
  BY DEF OInv
<1>11. /\ new \in Memory /\ Whole(new.rows, new.cursor, bound)
       /\ Held(new.rows) = Held(mem[p].rows) \cup Held(delta)
  <2>1. CASE Held(delta) = {}
    BY <1>3, <1>10, <2>1, PartsOf DEF OInv
  <2>2. CASE Held(delta) # {}
    <3>1. LastRow(delta) \in Cursor
      BY <1>8, LastRowFacts
    <3>2. PICK k \in Held(delta) : LastRow(delta) = CursorOf(delta, k)
      BY <1>8, <2>2, LastRowFacts
    <3>3. delta[k].form = "+" /\ \A i \in Held(delta) : 1..i \subseteq Held(delta) \cup Held(mem[p].rows)
      BY <1>1, <1>8, <1>10, <3>2 DEF Fits
    <3>4. delta[k].t = k
      <4>1. k \in Ids /\ k <= Len(d1) /\ delta[k].t = d1[k].t
        BY <1>8, <3>2 DEF Of, Held
      <4>2. k \in 1..Len(d1)
        BY <4>1, D1Facts, Basics DEF OInv
      <4> QED
        BY <4>1, <4>2, OrderedRows
    <3>5. PICK cursor \in Cursor : /\ cursor = LastRow(delta) /\ cursor.t = k /\ cursor.id = k /\ cursor.form = "+"
      BY <3>1, <3>2, <3>3, <3>4 DEF CursorOf
    <3>6. new = [mem[p] EXCEPT !.rows = rows, !.cursor = cursor]
      BY <1>3, <2>2, <3>5
    <3>7. rows \in Rows
      BY <1>2, <1>8 DEF Merge, Rows
    <3>8. new \in Memory /\ new.rows = rows /\ new.cursor = cursor
      BY <3>6, <3>7, PartsOf DEF Memory, OInv
    <3>9. \A i \in Held(rows) : 1..i \subseteq Held(rows)
      BY <1>9, <1>10, <3>3 DEF Whole
    <3> QED
      BY <1>9, <3>2, <3>5, <3>8, <3>9 DEF Whole
  <2> QED
    BY <2>1, <2>2
<1>12. m \in Memory /\ m.rows = new.rows /\ m.cursor = new.cursor
  BY <1>4, <1>11 DEF Memory
<1>13. Fits(c, m.rows)
  <2>1. \A i \in Held(asked) : i \in Held(rows)
    BY <1>5 DEF Held
  <2>2. c.at = "refresh" /\ c.rows = asked
    BY <1>6
  <2> QED
    BY <1>9, <1>11, <1>12, <2>1, <2>2 DEF Fits
<1>14. PICK s : s = served[p] /\ served' = [served EXCEPT ![p] = s]
  BY <1>7, PartsOf DEF OInv
<1>15. IInv' /\ Ordered' /\ bound' \subseteq Held(disk'.rows)
  BY <1>7, ApplyDeltaKeeps, SameOrdered DEF OInv, DurablyBound
<1> QED
  BY <1>7, <1>11, <1>12, <1>13, <1>14, <1>15, MoveOrder DEF OInv

\* A process falls idle, with a state that has no hole.
LEMMA VerifiedWhole ==
    ASSUME OInv, NEW p \in Procs, call[p].at = "refresh", NEW m, m = Verified(p)
    PROVE  /\ m \in Memory /\ Whole(m.rows, m.cursor, bound)
           /\ Held(m.rows) = Held(mem[p].rows)
<1>1. /\ m \in Memory /\ m.cursor = mem[p].cursor
      /\ Held(m.rows) = Held(mem[p].rows) \cup Held(call[p].rows)
  <2>1. mem[p].loaded
    BY PartsOf DEF OInv
  <2> QED
    BY <2>1, VerifiedFacts DEF OInv
<1>2. Held(call[p].rows) \subseteq Held(mem[p].rows)
  BY DEF OInv, Fits
<1> QED
  BY <1>1, <1>2 DEF OInv, Whole

LEMMA FetchEndOrder == ASSUME OInv, NEW p \in Procs, FetchEnd(p) PROVE OInv'
<1>1. PICK m : m = Verified(p)
  OBVIOUS
<1>2. PICK complete : complete = (m.sealed /\ (p = "writer" => Savable(m)))
  OBVIOUS
<1>3. PICK s : s = IF complete THEN [ids |-> Held(m.rows), upto |-> call[p].upto, t |-> m.cursor.t] ELSE served[p]
  OBVIOUS
<1>4. m \in Memory /\ Whole(m.rows, m.cursor, bound) /\ Held(m.rows) = Held(mem[p].rows)
  BY <1>1, VerifiedWhole DEF FetchEnd
<1>5. complete \in BOOLEAN
  BY <1>2
<1>6. /\ mem' = [mem EXCEPT ![p] = m] /\ call' = [call EXCEPT ![p] = Idle]
      /\ disk' = IF complete /\ p = "writer" THEN [rows |-> m.rows, cursor |-> m.cursor] ELSE disk
      /\ served' = IF complete
                   THEN [served EXCEPT ![p] = [ids |-> Held(m.rows), upto |-> call[p].upto, t |-> m.cursor.t]]
                   ELSE served
      /\ d1' = d1 /\ bound' = bound /\ op' = op
  BY <1>1, <1>2 DEF FetchEnd, oracle
<1>7. served' = [served EXCEPT ![p] = s]
  BY <1>3, <1>6, PartsOf DEF OInv
<1>8. \/ disk' = disk
      \/ disk' = [rows |-> m.rows, cursor |-> m.cursor]
  BY <1>6
<1>9. \A i \in 1..s.upto : i <= s.t => i \in s.ids
  <2>1. CASE ~complete
    BY <1>3, <2>1 DEF OInv
  <2>2. CASE complete
    <3>1. s.ids = Held(m.rows) /\ s.upto = call[p].upto /\ s.t = m.cursor.t
      BY <1>3, <2>2
    <3>2. m.cursor.t \in Nat /\ s.upto \in Nat
      BY <1>4, <3>1, PartsOf, Basics DEF Memory, Cursor, OInv
    <3>3. \A i \in 1..m.cursor.t : i \in Held(m.rows)
      BY <1>4 DEF Whole
    <3> QED
      BY <3>1, <3>2, <3>3
  <2> QED
    BY <1>5, <2>1, <2>2
<1>10. IInv' /\ Ordered'
  BY <1>6, FetchEndKeeps, SameOrdered DEF OInv
<1>11. bound' \subseteq Held(disk'.rows)
  <2>1. Held(disk.rows) \subseteq Held(disk.rows)'
    BY FetchEndKeeps DEF OInv, DiskLater
  <2> QED
    BY <1>6, <2>1 DEF OInv, DurablyBound, Held
<1>12. Fits(Idle, m.rows)
  BY Basics DEF Fits
<1> QED
  BY <1>4, <1>6, <1>7, <1>8, <1>9, <1>10, <1>11, <1>12, MoveOrder

LEMMA IdleOrder ==
    ASSUME OInv, IInv', NEW p \in Procs, NEW m,
           m = mem[p] \/ m = NotLoaded \/ (call[p].at = "refresh" /\ m = Verified(p)),
           NEW s, s = served[p] \/ s = NotServed,
           mem' = [mem EXCEPT ![p] = m], call' = [call EXCEPT ![p] = Idle], served' = [served EXCEPT ![p] = s],
           d1' = d1, bound' = bound, op' \in {op, NoOp}, disk' = disk
    PROVE  OInv'
<1>1. Whole(m.rows, m.cursor, bound)
  <2>1. CASE m = NotLoaded
    BY <2>1, Basics DEF Whole
  <2> QED
    BY <2>1, VerifiedWhole DEF OInv
<1>2. \A i \in 1..s.upto : i <= s.t => i \in s.ids
  <2>1. CASE s = NotServed
    <3>1. 1..s.upto = {}
      BY <2>1, Basics
    <3> QED
      BY <3>1
  <2> QED
    BY <2>1 DEF OInv
<1>3. Ordered' /\ bound' \subseteq Held(disk'.rows)
  BY SameOrdered DEF OInv, DurablyBound
<1>4. Fits(Idle, m.rows)
  BY Basics DEF Fits
<1> QED
  BY <1>1, <1>2, <1>3, <1>4, MoveOrder

LEMMA SaveRaisesOrder == ASSUME OInv, SaveRaises PROVE OInv'
<1>1. PICK m : m = Verified("writer")
  OBVIOUS
<1>2. /\ mem' = [mem EXCEPT !["writer"] = m] /\ call' = [call EXCEPT !["writer"] = Idle]
       /\ d1' = d1 /\ bound' = bound /\ op' = op /\ disk' = disk /\ served' = served
       /\ call["writer"].at = "refresh"
  BY <1>1 DEF SaveRaises, oracle
<1>3. PICK s : s = served["writer"] /\ served' = [served EXCEPT !["writer"] = s]
  BY <1>2, PartsOf, Basics DEF OInv
<1> QED
  BY <1>1, <1>2, <1>3, IdleOrder, SaveRaisesKeeps, Basics DEF OInv

LEMMA FetchRaisesOrder == ASSUME OInv, NEW p \in Procs, FetchRaises(p) PROVE OInv'
<1>1. /\ call' = [call EXCEPT ![p] = Idle]
      /\ d1' = d1 /\ bound' = bound /\ op' = op /\ mem' = mem /\ disk' = disk /\ served' = served
  BY DEF FetchRaises, oracle
<1>2. PICK s : s = served[p] /\ served' = [served EXCEPT ![p] = s]
  BY <1>1, PartsOf DEF OInv
<1>3. PICK m : m = mem[p] /\ mem' = [mem EXCEPT ![p] = m]
  BY <1>1, PartsOf DEF OInv
<1> QED
  BY <1>1, <1>2, <1>3, IdleOrder, FetchRaisesKeeps DEF OInv

LEMMA CrashOrder == ASSUME OInv, NEW p \in Procs, Crash(p) PROVE OInv'
<1>1. /\ mem' = [mem EXCEPT ![p] = NotLoaded] /\ call' = [call EXCEPT ![p] = Idle]
      /\ served' = [served EXCEPT ![p] = NotServed]
      /\ op' \in {op, NoOp} /\ d1' = d1 /\ bound' = bound /\ disk' = disk
  BY DEF Crash
<1> QED
  BY <1>1, IdleOrder, CrashKeeps DEF OInv

LEMMA NextOrder == ASSUME OInv, ~LateBinding, ~WriteMayRaise, [Next]_vars PROVE OInv'
<1>1. IInv'
  BY NextKeeps DEF OInv
<1>2. CASE Post \/ Settle
  BY <1>2, PostOrder, SettleOrder
<1>3. CASE InsertAnswered \/ Lookup \/ SettleAnswered
  BY <1>3, InsertAnsweredOrder, LookupOrder, SettleAnsweredOrder
<1>4. CASE AnswerLost
  <2>1. d1' = d1 /\ bound' = bound /\ op' \in {op, NoOp}
    BY <1>4 DEF AnswerLost
  <2> QED
    BY <1>1, <1>4, <2>1, SameOrdered, SameOrder DEF AnswerLost
<1>5. CASE SaveRaises
  BY <1>5, SaveRaisesOrder
<1>6. ASSUME NEW p \in Procs, FetchRefused(p)
      PROVE  OInv'
  <2>1. d1' = d1 /\ bound' = bound /\ op' \in {op, NoOp}
    BY <1>6 DEF FetchRefused, oracle
  <2> QED
    BY <1>1, <1>6, <2>1, SameOrdered, SameOrder DEF FetchRefused
<1>7. ASSUME NEW p \in Procs, Fetch(p) \/ FetchRaises(p) \/ Crash(p)
      PROVE  OInv'
  BY <1>6, <1>7, FetchStartOrder, ApplyDeltaOrder, FetchEndOrder, FetchRaisesOrder, CrashOrder DEF Fetch
<1>8. CASE UNCHANGED vars
  <2>1. d1' = d1 /\ bound' = bound /\ op' \in {op, NoOp}
    BY <1>8 DEF vars, oracle
  <2> QED
    BY <1>1, <1>8, <2>1, SameOrdered, SameOrder DEF vars
<1> QED
  BY <1>2, <1>3, <1>4, <1>5, <1>7, <1>8 DEF Next, Oracle

LEMMA SpecOInv == ASSUME ~LateBinding, ~WriteMayRaise PROVE Spec => []OInv
<1>1. OInv /\ [Next]_vars => OInv'
  BY NextOrder
<1> QED
  BY InitOInv, <1>1, PTL DEF Spec

\* A T0 whose receipt is bound is in the durable authority, if T0s are
\* committed in the order they are bound and saving a row does not raise: the
\* row written through before the binding is then always the last one, so the
\* seal takes it, whatever fetches are under way.
THEOREM OverlayDurablyBound ==
    ASSUME ~LateBinding, ~WriteMayRaise
    PROVE  Spec => []DurablyBound
<1>1. OInv => DurablyBound
  BY DEF OInv
<1> QED
  BY SpecOInv, <1>1, PTL

\* Under the same conditions a history served as complete has no hole below
\* its own cursor, in the writer and in the monitor, which lives on deltas.
THEOREM OverlayHistoryComplete ==
    ASSUME ~LateBinding, ~WriteMayRaise
    PROVE  Spec => []HistoryComplete
<1>1. ASSUME OInv PROVE HistoryComplete
  <2>1. ASSUME NEW p \in Procs, NEW i \in 1..served[p].upto, d1[i].t <= served[p].t
        PROVE  i \in served[p].ids
    <3>1. served[p].upto \in Nat /\ served[p].upto <= Len(d1) /\ Len(d1) \in Nat
      BY <1>1, PartsOf, D1Facts, Basics DEF OInv, Histories
    <3>2. i \in 1..Len(d1)
      BY <3>1
    <3>3. d1[i].t = i
      BY <1>1, <3>2, OrderedRows
    <3> QED
      BY <1>1, <2>1, <3>3 DEF OInv
  <2> QED
    BY <2>1 DEF HistoryComplete
<1> QED
  BY SpecOInv, <1>1, PTL
=============================================================================
