------------------------- MODULE ReceiptLedgerProofs -------------------------
(***************************************************************************)
(* The receipt ledger, for any receipts, rows and interruptions.  What a   *)
(* replay has read is never lost, whatever an interrupted append or repair *)
(* leaves behind: an append finds the file ending with a newline or with a *)
(* marker that lost its own, so it can only spoil that marker.  That every *)
(* restart can replay needs more, that a repair leaves no half of a marker *)
(* (MarkersWhole): the run LedgerMarkerCrash shows what one does.          *)
(*                                                                         *)
(* The last section proves T0Lineage, the promise the receipts serve.      *)
(***************************************************************************)
EXTENDS ReceiptLedger, TLAPS

MarkersWhole == MarkTears \subseteq {"lost"}

\* Only a PERSISTED event names a row.
EventLine(e) == e.id \in Receipts /\ (e.n # 0 <=> e.kind = "PERSISTED")

\* The call in progress: it appends only what the replay still wants, after a
\* line that is complete or is not an event.
CallInv ==
    /\ cur.kind \in EventKinds \cup {"READ"} /\ (cur.kind \in EventKinds => EventLine(cur))
    /\ pc = "append" => Wanted /\ (ended \/ lines[Len(lines)].kind = "MARKER")
    /\ ended \/ Len(lines) > 0

HasLast(S) == \E i \in S : \A j \in S : j <= i

\* A receipt with events has a last one, and a PERSISTED event is it.
EventsInv ==
    /\ \A i \in 1..Len(lines) : lines[i].kind \in EventKinds => EventLine(lines[i])
    /\ \A r \in Receipts : EventsOf(r) # {} => HasLast(EventsOf(r))
    /\ \A i, j \in 1..Len(lines) :
        lines[i].kind = "PERSISTED" /\ lines[j].kind \in EventKinds /\ lines[j].id = lines[i].id => j <= i

IInv == TypeOK /\ CallInv /\ EventsInv

\* No event appears, changes or goes.
Quiet ==
    /\ \A i : i \in 1..Len(lines') /\ lines'[i].kind \in EventKinds
                <=> i \in 1..Len(lines) /\ lines[i].kind \in EventKinds
    /\ \A i \in 1..Len(lines) : lines[i].kind \in EventKinds => lines'[i] = lines[i]

\* The wanted event is appended.
Recorded == pc = "append" /\ lines' = Append(lines, cur)

LEMMA KindsDiffer ==
    /\ \A i : Marker(i).kind = "MARKER" /\ Marker(i) # Junk /\ Marker(i).kind \notin EventKinds
    /\ Junk.kind = "JUNK" /\ Junk.kind \notin EventKinds
    /\ Reading.kind = "READ" /\ Reading.kind \notin EventKinds
BY DEF Marker, Junk, Reading, EventKinds

LEMMA LinesTyped == Junk \in Line /\ Reading \in Line /\ \A i \in Nat : Marker(i) \in Line
BY DEF Junk, Reading, Marker, Line, EventKinds

LEMMA AppendFacts ==
    ASSUME TypeOK, NEW x \in Line
    PROVE  /\ Append(lines, x) \in Seq(Line) /\ Len(lines) \in Nat
           /\ Len(Append(lines, x)) = Len(lines) + 1 /\ Append(lines, x)[Len(lines) + 1] = x
           /\ \A i \in 1..Len(lines) : Append(lines, x)[i] = lines[i]
BY DEF TypeOK

LEMMA GlueTyped ==
    ASSUME TypeOK, NEW x \in Line, ended \/ Len(lines) > 0
    PROVE  Glue(lines, ended, x) \in Seq(Line) /\ Len(Glue(lines, ended, x)) > 0
<1>1. lines \in Seq(Line) /\ Len(lines) \in Nat /\ Junk \in Line
  BY LinesTyped DEF TypeOK
<1>2. CASE ended
  BY <1>1, <1>2, AppendFacts DEF Glue
<1>3. CASE ~ended
  <2>1. Len(lines) > 0 /\ Glue(lines, ended, x) = [lines EXCEPT ![Len(lines)] = Junk]
    BY <1>3 DEF Glue
  <2> QED
    BY <1>1, <2>1
<1> QED
  BY <1>2, <1>3

\* Where a line may be appended to, or glued to, no event is lost.
LEMMA AppendQuiet ==
    ASSUME TypeOK, NEW x \in Line, x.kind \notin EventKinds, lines' = Append(lines, x)
    PROVE  Quiet
<1>1. /\ Len(lines) \in Nat /\ Len(lines') = Len(lines) + 1 /\ lines'[Len(lines) + 1] = x
      /\ \A i \in 1..Len(lines) : lines'[i] = lines[i]
  BY AppendFacts
<1>2. \A i : i \in 1..Len(lines') <=> i \in 1..Len(lines) \/ i = Len(lines) + 1
  BY <1>1
<1>3. ~(Len(lines) + 1 \in 1..Len(lines))
  BY <1>1
<1> QED
  BY <1>1, <1>2, <1>3 DEF Quiet

LEMMA GlueQuiet ==
    ASSUME TypeOK, Len(lines) > 0, lines[Len(lines)].kind = "MARKER",
           lines' = [lines EXCEPT ![Len(lines)] = Junk]
    PROVE  Quiet
<1>1. /\ Len(lines) \in Nat /\ Len(lines') = Len(lines) /\ lines'[Len(lines)] = Junk
      /\ \A i \in 1..Len(lines) : i # Len(lines) => lines'[i] = lines[i]
  BY DEF TypeOK
<1>2. lines[Len(lines)].kind \notin EventKinds /\ Junk.kind \notin EventKinds
  BY KindsDiffer DEF EventKinds
<1> QED
  BY <1>1, <1>2 DEF Quiet

LEMMA SameQuiet == ASSUME lines' = lines PROVE Quiet
BY DEF Quiet

-----------------------------------------------------------------------------
(* What a replay reads. *)

LEMMA LastIs ==
    ASSUME NEW S \in SUBSET Nat, NEW i \in S, \A j \in S : j <= i
    PROVE  LastOf(S) = i
<1>1. LastOf(S) \in S /\ \A j \in S : j <= LastOf(S)
  BY DEF LastOf
<1>2. LastOf(S) <= i /\ i <= LastOf(S) /\ i \in Nat /\ LastOf(S) \in Nat
  BY <1>1
<1> QED
  BY <1>2

LEMMA EventsTyped ==
    ASSUME TypeOK, NEW r
    PROVE  EventsOf(r) \subseteq 1..Len(lines) /\ EventsOf(r) \in SUBSET Nat
BY DEF EventsOf, TypeOK

\* A receipt's row is named by its PERSISTED event, if it has one.
LEMMA RowIs ==
    ASSUME TypeOK, EventsInv, NEW r \in Receipts
    PROVE  /\ \A i \in EventsOf(r) : lines[i].kind = "PERSISTED" => RowOf(r) = lines[i].n
           /\ (\A i \in EventsOf(r) : lines[i].kind # "PERSISTED") => RowOf(r) = 0
<1> DEFINE named == {i \in EventsOf(r) : lines[i].n # 0}
<1>1. \A i \in EventsOf(r) : lines[i].n # 0 <=> lines[i].kind = "PERSISTED"
  BY EventsTyped DEF EventsInv, EventLine, EventsOf
<1>2. ASSUME NEW i \in EventsOf(r), lines[i].kind = "PERSISTED" PROVE RowOf(r) = lines[i].n
  <2>1. i \in named /\ named \in SUBSET Nat
    BY <1>1, <1>2, EventsTyped
  <2>2. \A j \in named : j <= i
    BY <1>2 DEF EventsInv, EventsOf
  <2> HIDE DEF named
  <2>3. LastOf(named) = i /\ named # {}
    BY <2>1, <2>2, LastIs
  <2> QED
    BY <2>3 DEF RowOf, named
<1>3. ASSUME \A i \in EventsOf(r) : lines[i].kind # "PERSISTED" PROVE RowOf(r) = 0
  BY <1>1, <1>3 DEF RowOf
<1> QED
  BY <1>2, <1>3

LEMMA StatusIs ==
    ASSUME TypeOK, EventsInv, NEW r \in Receipts
    PROVE  /\ EventsOf(r) = {} => Status(r) = "NONE"
           /\ \A i \in EventsOf(r) : (\A j \in EventsOf(r) : j <= i) => Status(r) = lines[i].kind
           /\ Status(r) \in EventKinds \cup {"NONE"}
           /\ \A i \in EventsOf(r) : lines[i].kind = "PERSISTED" => Status(r) = "PERSISTED"
<1>1. EventsOf(r) = {} => Status(r) = "NONE"
  BY DEF Status
<1>2. ASSUME NEW i \in EventsOf(r), \A j \in EventsOf(r) : j <= i PROVE Status(r) = lines[i].kind
  BY <1>2, EventsTyped, LastIs DEF Status
<1>3. EventsOf(r) # {} => \E i \in EventsOf(r) : Status(r) = lines[i].kind
  BY <1>2 DEF EventsInv, HasLast
<1>4. \A i \in EventsOf(r) : lines[i].kind \in EventKinds
  BY DEF EventsOf
<1>5. ASSUME NEW i \in EventsOf(r), lines[i].kind = "PERSISTED" PROVE Status(r) = "PERSISTED"
  BY <1>2, <1>5 DEF EventsInv, EventsOf
<1> QED
  BY <1>1, <1>2, <1>3, <1>4, <1>5

LEMMA SameEvents ==
    ASSUME TypeOK, EventsInv, NEW r \in Receipts,
           EventsOf(r)' = EventsOf(r), \A i \in EventsOf(r) : lines'[i] = lines[i]
    PROVE  Status(r)' = Status(r) /\ RowOf(r)' = RowOf(r)
<1>1. EventsOf(r)' = EventsOf(r) /\ \A i \in EventsOf(r) : lines'[i] = lines[i]
  OBVIOUS
<1>2. Status(r)' = Status(r)
  <2>1. EventsOf(r) # {} => LastOf(EventsOf(r)) \in EventsOf(r)
    BY EventsTyped, LastIs DEF EventsInv, HasLast
  <2> QED
    BY <1>1, <2>1 DEF Status
<1>3. RowOf(r)' = RowOf(r)
  <2> DEFINE named == {i \in EventsOf(r) : lines[i].n # 0}
  <2>1. {i \in EventsOf(r)' : lines'[i].n # 0} = named
    BY <1>1
  <2>2. \A i \in named : lines[i].kind = "PERSISTED" /\ i \in EventsOf(r)
    BY EventsTyped DEF EventsInv, EventLine, EventsOf
  <2>3. \A i, j \in named : j <= i
    BY <2>2 DEF EventsInv, EventsOf
  <2>4. named # {} => LastOf(named) \in named
    <3>1. named \in SUBSET Nat
      BY EventsTyped
    <3> HIDE DEF named
    <3> QED
      BY <2>3, <3>1, LastIs
  <2>5. RowOf(r) = IF named = {} THEN 0 ELSE lines[LastOf(named)].n
    BY DEF RowOf
  <2>6. RowOf(r)' = IF named = {} THEN 0 ELSE lines'[LastOf(named)].n
    BY <2>1 DEF RowOf
  <2> HIDE DEF named
  <2>7. named # {} => lines'[LastOf(named)] = lines[LastOf(named)]
    BY <1>1, <2>2, <2>4
  <2> QED
    BY <2>5, <2>6, <2>7
<1> QED
  BY <1>2, <1>3

LEMMA QuietReplay ==
    ASSUME TypeOK, EventsInv, Quiet, NEW r \in Receipts
    PROVE  EventsOf(r)' = EventsOf(r) /\ Status(r)' = Status(r) /\ RowOf(r)' = RowOf(r)
<1>1. EventsOf(r)' = EventsOf(r) /\ \A i \in EventsOf(r) : lines'[i] = lines[i]
  BY DEF Quiet, EventsOf
<1> QED
  BY <1>1, SameEvents

LEMMA QuietKeepsEvents == ASSUME TypeOK, EventsInv, Quiet PROVE EventsInv'
<1>1. ASSUME NEW i, i \in 1..Len(lines'), lines'[i].kind \in EventKinds
      PROVE  i \in 1..Len(lines) /\ lines[i].kind \in EventKinds /\ lines'[i] = lines[i]
  BY <1>1 DEF Quiet
<1>2. \A i \in 1..Len(lines') : lines'[i].kind \in EventKinds => EventLine(lines'[i])
  BY <1>1 DEF EventsInv
<1>3. \A r \in Receipts : EventsOf(r)' # {} => HasLast(EventsOf(r)')
  BY QuietReplay DEF EventsInv
<1>4. \A i, j \in 1..Len(lines') :
        lines'[i].kind = "PERSISTED" /\ lines'[j].kind \in EventKinds /\ lines'[j].id = lines'[i].id => j <= i
  BY <1>1 DEF EventsInv, EventKinds
<1> QED
  BY <1>2, <1>3, <1>4 DEF EventsInv, EventLine, HasLast

\* The wanted event becomes the last of its receipt, and touches no other's.
LEMMA RecordedReplay ==
    ASSUME TypeOK, CallInv, EventsInv, Recorded
    PROVE  /\ cur.kind \in EventKinds /\ EventLine(cur)
           /\ Status(cur.id) \in {"NONE", "ENQUEUED", "FAILED"}
           /\ cur.kind \in {"FAILED", "PERSISTED"} => Status(cur.id) # "NONE"
           /\ EventsInv'
           /\ \A r \in Receipts : r # cur.id => Status(r)' = Status(r) /\ RowOf(r)' = RowOf(r)
           /\ \A r \in Receipts : r = cur.id => Status(r)' = cur.kind /\ RowOf(r) = 0
<1>1. /\ cur.kind \in EventKinds /\ EventLine(cur) /\ Wanted /\ cur \in Line /\ cur.id \in Receipts
      /\ lines' = Append(lines, cur)
  BY DEF Recorded, CallInv, Wanted, EventKinds, EventLine, TypeOK
<1>2. /\ Status(cur.id) \in {"NONE", "ENQUEUED", "FAILED"}
      /\ cur.kind \in {"FAILED", "PERSISTED"} => Status(cur.id) # "NONE"
  BY <1>1 DEF Wanted
<1>3. /\ Len(lines) \in Nat /\ Len(lines') = Len(lines) + 1 /\ lines'[Len(lines) + 1] = cur
      /\ \A i \in 1..Len(lines) : lines'[i] = lines[i] /\ i <= Len(lines) + 1 /\ i # Len(lines) + 1
      /\ \A i : i \in 1..Len(lines') <=> i \in 1..Len(lines) \/ i = Len(lines) + 1
  BY <1>1, AppendFacts
<1>4. \A i \in EventsOf(cur.id) : lines[i].kind # "PERSISTED"
  BY <1>1, <1>2, StatusIs
<1>5. ASSUME NEW r \in Receipts
      PROVE  EventsOf(r)' = IF r = cur.id THEN EventsOf(r) \cup {Len(lines) + 1} ELSE EventsOf(r)
  BY <1>1, <1>3 DEF EventsOf
<1>6. ASSUME NEW r \in Receipts, r = cur.id PROVE HasLast(EventsOf(r)')
  BY <1>3, <1>5, <1>6, EventsTyped DEF HasLast
<1>7. EventsInv'
  <2>1. \A i \in 1..Len(lines') : lines'[i].kind \in EventKinds => EventLine(lines'[i])
    BY <1>1, <1>3 DEF EventsInv
  <2>2. \A r \in Receipts : EventsOf(r)' # {} => HasLast(EventsOf(r)')
    BY <1>5, <1>6 DEF EventsInv
  <2>3. ASSUME NEW i \in 1..Len(lines'), NEW j \in 1..Len(lines'), lines'[i].kind = "PERSISTED",
               lines'[j].kind \in EventKinds, lines'[j].id = lines'[i].id
        PROVE  j <= i
    <3>1. CASE i = Len(lines) + 1
      BY <1>3, <3>1
    <3>2. CASE i \in 1..Len(lines) /\ j = Len(lines) + 1
      <4>1. i \in EventsOf(cur.id) /\ lines[i].kind = "PERSISTED"
        BY <1>3, <2>3, <3>2 DEF EventsOf, EventKinds
      <4> QED
        BY <1>4, <4>1
    <3>3. CASE i \in 1..Len(lines) /\ j \in 1..Len(lines)
      BY <1>3, <2>3, <3>3 DEF EventsInv
    <3> QED
      BY <1>3, <3>1, <3>2, <3>3
  <2> QED
    BY <2>1, <2>2, <2>3 DEF EventsInv, EventLine, HasLast
<1>8. ASSUME NEW r \in Receipts, r = cur.id PROVE Status(r)' = cur.kind /\ RowOf(r) = 0
  <2>1. /\ Len(lines) + 1 \in EventsOf(r)' /\ EventsOf(r)' \in SUBSET Nat
        /\ \A j \in EventsOf(r)' : j <= Len(lines) + 1
    BY <1>3, <1>5, <1>8, EventsTyped
  <2>2. LastOf(EventsOf(r)') = Len(lines) + 1
    BY <2>1, LastIs
  <2>3. Status(r)' = lines'[Len(lines) + 1].kind
    BY <2>1, <2>2 DEF Status
  <2> QED
    BY <1>3, <1>4, <1>8, <2>3, RowIs
<1>9. ASSUME NEW r \in Receipts, r # cur.id PROVE Status(r)' = Status(r) /\ RowOf(r)' = RowOf(r)
  <2>1. EventsOf(r)' = EventsOf(r) /\ \A i \in EventsOf(r) : lines'[i] = lines[i]
    BY <1>3, <1>5, <1>9, EventsTyped
  <2> QED
    BY <2>1, SameEvents
<1> QED
  BY <1>1, <1>2, <1>7, <1>8, <1>9
-----------------------------------------------------------------------------
(* The steps. *)

LEMMA InitIInv == Init => IInv
<1> SUFFICES ASSUME Init PROVE IInv
  OBVIOUS
<1>1. TypeOK
  BY LinesTyped, LedgerAssumption DEF Init, TypeOK
<1>2. CallInv
  BY KindsDiffer DEF Init, CallInv
<1>3. EventsInv
  <2>1. \A i : ~(i \in 1..Len(lines))
    BY DEF Init
  <2> QED
    BY <2>1 DEF EventsInv, EventsOf
<1> QED
  BY <1>1, <1>2, <1>3 DEF IInv

\* What any step does to the file.
LEMMA FileSteps == ASSUME IInv, [Next]_vars PROVE Quiet \/ (Recorded /\ pc' = "idle")
<1> USE DEF IInv
<1>1. CASE lines' = lines
  BY <1>1, SameQuiet
<1>2. ASSUME NEW x \in Line, x.kind \notin EventKinds, lines' = Append(lines, x) PROVE Quiet
  BY <1>2, AppendQuiet
<1>3. ASSUME NEW x \in {cur, Junk}, pc = "append", pc' = "idle", lines' = Glue(lines, ended, x)
      PROVE  Quiet \/ (Recorded /\ pc' = "idle")
  <2>1. CASE ended
    BY <1>2, <1>3, <2>1, KindsDiffer, LinesTyped DEF Glue, Recorded
  <2>2. CASE ~ended
    BY <1>3, <2>2, GlueQuiet DEF Glue, CallInv
  <2> QED
    BY <2>1, <2>2
<1>4. Len(lines) \in Nat
  BY AppendFacts, LinesTyped
<1>5. CASE Read
  BY <1>1, <1>2, <1>4, <1>5, KindsDiffer, LinesTyped DEF Read
<1>6. CASE AppendEvent
  BY <1>3, <1>6 DEF AppendEvent, Finish
<1>7. CASE InterruptRepair
  <2>1. \/ lines' = lines \/ lines' = Append(lines, Junk) \/ lines' = Append(lines, Marker(Len(lines)))
    BY <1>7, LedgerAssumption DEF InterruptRepair
  <2> QED
    BY <1>1, <1>2, <1>4, <2>1, KindsDiffer, LinesTyped
<1>8. CASE InterruptAppend
  <2>1. /\ pc = "append" /\ pc' = "idle"
        /\ lines' = lines \/ lines' = Glue(lines, ended, Junk) \/ lines' = Glue(lines, ended, cur)
    BY <1>8, LedgerAssumption DEF InterruptAppend, Interrupted, Finish
  <2> QED
    BY <1>1, <1>3, <2>1
<1> QED
  BY <1>1, <1>5, <1>6, <1>7, <1>8
     DEF Next, CallEnqueue, CallMarkFailed, CallMarkPersisted, CallRead, Begin, vars

LEMMA NextTyped == TypeOK /\ CallInv /\ [Next]_vars => TypeOK'
<1> SUFFICES ASSUME TypeOK, CallInv, [Next]_vars PROVE TypeOK'
  OBVIOUS
<1>1. /\ lines \in Seq(Line) /\ Len(lines) \in Nat /\ cur \in Line /\ Reading \in Line
      /\ \A x \in Line : Append(lines, x) \in Seq(Line)
  BY LinesTyped, AppendFacts DEF TypeOK
<1>2. \A x \in {cur, Junk} : Glue(lines, ended, x) \in Seq(Line)
  BY <1>1, LinesTyped, GlueTyped DEF CallInv
<1>3. CASE UNCHANGED vars
  BY <1>3 DEF vars, TypeOK
<1>4. ASSUME NEW e \in Line, Begin(e) PROVE TypeOK'
  BY <1>4 DEF Begin, TypeOK
<1>5. \A r \in Receipts : /\ Event(r, "ENQUEUED", 0) \in Line /\ Event(r, "FAILED", 0) \in Line
                          /\ \A n \in Rows : Event(r, "PERSISTED", n) \in Line
  BY LedgerAssumption DEF Event, Line, EventKinds
<1>6. CASE \/ \E r \in Receipts : \/ CallEnqueue(r) \/ CallMarkFailed(r)
                                  \/ \E n \in Rows : CallMarkPersisted(r, n)
           \/ CallRead
  BY <1>1, <1>4, <1>5, <1>6 DEF CallEnqueue, CallMarkFailed, CallMarkPersisted, CallRead
<1>7. CASE Read
  <2>1. lines' \in Seq(Line)
    BY <1>1, <1>7, LinesTyped DEF Read
  <2>2. ended' \in BOOLEAN /\ pc' \in {"idle", "append"} /\ cur' \in Line /\ crashes' = crashes
    BY <1>1, <1>7 DEF Read, Finish, NeedsRepair, TypeOK
  <2> QED
    BY <2>1, <2>2 DEF TypeOK
<1>8. CASE AppendEvent
  BY <1>1, <1>2, <1>8 DEF AppendEvent, Finish, TypeOK
<1>9. ASSUME Interrupted PROVE pc' = "idle" /\ cur' \in Line /\ crashes' \in 0..MaxCrashes
  BY <1>1, <1>9, LedgerAssumption DEF Interrupted, Finish, TypeOK
<1>10. CASE InterruptRepair
  <2>1. \/ lines' = lines \/ lines' = Append(lines, Junk) \/ lines' = Append(lines, Marker(Len(lines)))
    BY <1>10, LedgerAssumption DEF InterruptRepair
  <2>2. lines' \in Seq(Line) /\ ended' \in BOOLEAN
    BY <1>1, <1>10, <2>1, LinesTyped DEF InterruptRepair
  <2> QED
    BY <1>9, <1>10, <2>2 DEF InterruptRepair, TypeOK
<1>11. CASE InterruptAppend
  <2>1. lines' \in {lines, Glue(lines, ended, Junk), Glue(lines, ended, cur)}
    BY <1>11, LedgerAssumption DEF InterruptAppend
  <2>2. lines' \in Seq(Line) /\ ended' \in BOOLEAN
    BY <1>1, <1>2, <1>11, <2>1 DEF InterruptAppend, TypeOK
  <2> QED
    BY <1>9, <1>11, <2>2 DEF InterruptAppend, TypeOK
<1> QED
  BY <1>3, <1>6, <1>7, <1>8, <1>10, <1>11 DEF Next

LEMMA NextCall == IInv /\ [Next]_vars => CallInv'
<1> SUFFICES ASSUME IInv, [Next]_vars PROVE CallInv'
  OBVIOUS
<1>1. /\ TypeOK /\ CallInv /\ EventsInv /\ Len(lines) \in Nat
      /\ \A x \in Line : Len(Append(lines, x)) = Len(lines) + 1
  BY AppendFacts, LinesTyped DEF IInv
<1>2. Reading.kind \in EventKinds \cup {"READ"} /\ Reading.kind \notin EventKinds
  BY KindsDiffer
<1>3. CASE UNCHANGED vars
  BY <1>1, <1>3 DEF vars, CallInv, Wanted, Status, EventsOf, EventLine
<1>4. ASSUME NEW e, Begin(e), e.kind \in EventKinds \cup {"READ"}, e.kind \in EventKinds => EventLine(e)
      PROVE  CallInv'
  BY <1>1, <1>4 DEF Begin, CallInv, EventLine
<1>5. CASE \/ \E r \in Receipts : \/ CallEnqueue(r) \/ CallMarkFailed(r)
                                  \/ \E n \in Rows : CallMarkPersisted(r, n)
           \/ CallRead
  <2>1. ASSUME NEW r \in Receipts
        PROVE  /\ EventLine(Event(r, "ENQUEUED", 0)) /\ EventLine(Event(r, "FAILED", 0))
               /\ Event(r, "ENQUEUED", 0).kind = "ENQUEUED" /\ Event(r, "FAILED", 0).kind = "FAILED"
               /\ \A n \in Rows : EventLine(Event(r, "PERSISTED", n)) /\ Event(r, "PERSISTED", n).kind = "PERSISTED"
    BY LedgerAssumption DEF Event, EventLine
  <2> QED
    BY <1>2, <1>4, <1>5, <2>1 DEF CallEnqueue, CallMarkFailed, CallMarkPersisted, CallRead, EventKinds
<1>6. ASSUME Finish, ended' \/ Len(lines') > 0 PROVE CallInv'
  BY <1>2, <1>6 DEF Finish, CallInv, EventLine
<1>7. Glue(lines, ended, cur) \in Seq(Line) /\ Glue(lines, ended, Junk) \in Seq(Line)
      /\ Len(Glue(lines, ended, cur)) > 0 /\ Len(Glue(lines, ended, Junk)) > 0
  BY <1>1, LinesTyped, GlueTyped DEF CallInv, TypeOK
<1>8. CASE Read
  <2>1. Quiet /\ (ended' \/ Len(lines') > 0)
    <3>1. Quiet
      BY <1>8, FileSteps DEF Read, Recorded, TypeOK
    <3>2. ended' \/ Len(lines') > 0
      BY <1>1, <1>8 DEF Read, CallInv
    <3> QED
      BY <3>1, <3>2
  <2>2. CASE ~Wanted
    BY <1>6, <1>8, <2>1, <2>2 DEF Read
  <2>3. CASE Wanted
    <3>1. pc' = "append" /\ cur' = cur /\ cur.kind \in EventKinds /\ EventLine(cur)
      BY <1>1, <1>8, <2>3 DEF Read, Wanted, EventKinds, CallInv
    <3>2. \A r \in Receipts : Status(r)' = Status(r)
      BY <1>1, <2>1, QuietReplay
    <3>3. Status(cur.id)' = Status(cur.id)
      BY <3>1, <3>2 DEF EventLine, Status, EventsOf
    <3>4. Wanted'
      BY <2>3, <3>1, <3>3 DEF Wanted
    <3>5. ended' \/ lines'[Len(lines')].kind = "MARKER"
      <4>1. CASE ended \/ NeedsRepair
        BY <1>8, <4>1 DEF Read
      <4>2. CASE ~ended /\ ~NeedsRepair
        BY <1>1, <1>8, <4>2 DEF Read, NeedsRepair, CallInv
      <4> QED
        BY <4>1, <4>2
    <3> QED
      BY <2>1, <3>1, <3>4, <3>5 DEF CallInv, EventLine
  <2> QED
    BY <2>2, <2>3
<1>9. CASE AppendEvent
  BY <1>6, <1>9 DEF AppendEvent
<1>10. CASE InterruptRepair
  <2>1. Len(lines) > 0 /\ Finish /\ lines' \in {lines, Append(lines, Junk), Append(lines, Marker(Len(lines)))}
    BY <1>10, LedgerAssumption DEF InterruptRepair, NeedsRepair, Interrupted
  <2> QED
    BY <1>1, <1>6, <2>1, LinesTyped
<1>11. CASE InterruptAppend
  <2>1. PICK tear \in AppendTears :
          /\ lines' = CASE tear = "lost" -> lines
                        [] tear = "torn" -> Glue(lines, ended, Junk)
                        [] tear = "unterminated" -> Glue(lines, ended, cur)
          /\ ended' = (tear = "lost" /\ ended)
    BY <1>11 DEF InterruptAppend
  <2>2. tear \in {"lost", "torn", "unterminated"} /\ Finish
    BY <1>11, LedgerAssumption DEF InterruptAppend, Interrupted
  <2>3. CASE tear = "lost"
    BY <1>1, <1>6, <2>1, <2>2, <2>3 DEF CallInv
  <2>4. CASE tear # "lost"
    <3>1. lines' \in {Glue(lines, ended, Junk), Glue(lines, ended, cur)}
      BY <2>1, <2>2, <2>4
    <3>2. Len(lines') > 0
      BY <1>7, <3>1
    <3> QED
      BY <1>6, <2>2, <3>2
  <2> QED
    BY <2>3, <2>4
<1> QED
  BY <1>3, <1>5, <1>8, <1>9, <1>10, <1>11 DEF Next

LEMMA NextIInv == IInv /\ [Next]_vars => IInv'
<1> SUFFICES ASSUME IInv, [Next]_vars PROVE IInv'
  OBVIOUS
<1>1. TypeOK' /\ CallInv'
  BY NextTyped, NextCall DEF IInv
<1>2. EventsInv'
  BY FileSteps, QuietKeepsEvents, RecordedReplay DEF IInv
<1> QED
  BY <1>1, <1>2 DEF IInv

LEMMA LedgerInvariant == Spec => []IInv
BY InitIInv, NextIInv, PTL DEF Spec

\* The file's lines and the call in progress keep their types.
THEOREM LedgerTypeCorrect == Spec => []TypeOK
<1>1. IInv => TypeOK
  BY DEF IInv
<1> QED
  BY <1>1, LedgerInvariant, PTL

\* enqueue, mark_failed and mark_persisted only ever take a receipt forward, and
\* neither a torn append nor a torn repair takes one back: replaying the file
\* after any step finds each receipt as far as before, bound to the same row.
THEOREM LedgerNeverForgets == Spec => NeverForgets
<1>1. ASSUME IInv, [Next]_vars, NEW r \in Receipts
      PROVE  Rank[Status(r)] <= Rank[Status(r)'] /\ (RowOf(r) # 0 => RowOf(r)' = RowOf(r))
  <2>1. TypeOK /\ CallInv /\ EventsInv /\ Status(r) \in EventKinds \cup {"NONE"}
    BY <1>1, StatusIs DEF IInv
  <2>2. \A s \in EventKinds \cup {"NONE"} : Rank[s] <= Rank[s]
    BY DEF EventKinds, Rank
  <2>3. CASE Quiet
    BY <2>1, <2>2, <2>3, QuietReplay
  <2>4. CASE Recorded /\ r # cur.id
    BY <2>1, <2>2, <2>4, RecordedReplay
  <2>5. CASE Recorded /\ r = cur.id
    <3>1. /\ Status(r)' = cur.kind /\ RowOf(r) = 0 /\ cur.kind \in EventKinds
          /\ Status(r) \in {"NONE", "ENQUEUED", "FAILED"}
      BY <2>1, <2>5, RecordedReplay
    <3>2. Rank[Status(r)] <= Rank[Status(r)']
      BY <3>1 DEF Rank, EventKinds
    <3> QED
      BY <3>1, <3>2
  <2> QED
    BY <1>1, <2>3, <2>4, <2>5, FileSteps
<1>2. IInv /\ [Next]_vars =>
        [\A r \in Receipts :
            /\ Rank[Status(r)] <= Rank[Status(r)']
            /\ RowOf(r) # 0 => RowOf(r)' = RowOf(r)]_vars
  BY <1>1
<1> QED
  BY <1>2, LedgerInvariant, PTL DEF Spec, NeverForgets
-----------------------------------------------------------------------------
(* Replay, where no repair leaves half a marker. *)

ReplayInv == Replayable /\ (~ended => lines[Len(lines)].kind # "MARKER")

LEMMA ReplayAppend ==
    ASSUME TypeOK, Replayable, ended, NEW x \in Line, x.kind # "MARKER",
           lines' = Append(lines, x), x = Junk => ~ended'
    PROVE  Replayable' /\ lines'[Len(lines')] = x
<1>1. /\ Len(lines) \in Nat /\ Len(lines') = Len(lines) + 1 /\ lines'[Len(lines) + 1] = x
      /\ \A i \in 1..Len(lines) : lines'[i] = lines[i]
  BY AppendFacts
<1>2. \A i \in 1..Len(lines) : lines[i] = Junk => i + 1 \in 1..Len(lines) /\ lines[i + 1] = Marker(i)
  BY <1>1 DEF Replayable, Recovered
<1>3. ASSUME NEW i \in 1..Len(lines)
      PROVE  /\ lines'[i] = Junk => Recovered(i)'
             /\ lines'[i].kind = "MARKER" => i > 1 /\ lines'[i - 1] = Junk /\ Recovered(i - 1)'
  <2>1. lines'[i] = Junk => Recovered(i)'
    BY <1>1, <1>2 DEF Recovered
  <2>2. ASSUME lines'[i].kind = "MARKER"
        PROVE  i > 1 /\ lines'[i - 1] = Junk /\ Recovered(i - 1)'
    <3>1. i > 1 /\ i - 1 \in 1..Len(lines) /\ lines[i - 1] = Junk
      BY <1>1, <2>2 DEF Replayable
    <3> QED
      BY <1>1, <1>2, <3>1 DEF Recovered
  <2> QED
    BY <2>1, <2>2
<1>4. \A i \in 1..Len(lines') : i \in 1..Len(lines) \/ i = Len(lines')
  BY <1>1
<1> QED
  BY <1>1, <1>3, <1>4 DEF Replayable

\* The reader's repair of a torn last line.
LEMMA ReplayRepair ==
    ASSUME TypeOK, Replayable, Len(lines) > 0, ~ended, lines[Len(lines)] = Junk,
           lines' = Append(lines, Marker(Len(lines))), ended'
    PROVE  Replayable'
<1>1. Len(lines) \in Nat /\ Marker(Len(lines)) \in Line
  BY AppendFacts, LinesTyped
<1>2. /\ Len(lines') = Len(lines) + 1 /\ lines'[Len(lines) + 1] = Marker(Len(lines))
      /\ \A i \in 1..Len(lines) : lines'[i] = lines[i]
  BY <1>1, AppendFacts
<1>3. \A i \in 1..Len(lines) : lines[i] = Junk => lines'[i + 1] = Marker(i)
  <2> SUFFICES ASSUME NEW i \in 1..Len(lines), lines[i] = Junk PROVE lines'[i + 1] = Marker(i)
    OBVIOUS
  <2>1. CASE i = Len(lines)
    BY <1>2, <2>1
  <2>2. CASE i # Len(lines)
    BY <1>1, <1>2, <2>2 DEF Replayable, Recovered
  <2> QED
    BY <2>1, <2>2
<1>4. ASSUME NEW i \in 1..Len(lines') PROVE lines'[i] = Junk => Recovered(i)'
  <2>1. CASE i = Len(lines) + 1
    BY <1>2, <2>1, KindsDiffer
  <2>2. CASE i \in 1..Len(lines)
    BY <1>1, <1>2, <1>3, <2>2 DEF Recovered
  <2> QED
    BY <1>1, <1>2, <2>1, <2>2
<1>5. ASSUME NEW i \in 1..Len(lines'), lines'[i].kind = "MARKER"
      PROVE  i > 1 /\ lines'[i - 1] = Junk /\ Recovered(i - 1)'
  <2>1. CASE i = Len(lines) + 1
    BY <1>1, <1>2, <2>1 DEF Recovered
  <2>2. CASE i \in 1..Len(lines)
    <3>1. i > 1 /\ lines[i - 1] = Junk /\ i - 1 \in 1..Len(lines)
      BY <1>1, <1>2, <1>5, <2>2 DEF Replayable
    <3> QED
      BY <1>1, <1>2, <1>3, <3>1 DEF Recovered
  <2> QED
    BY <1>1, <1>2, <2>1, <2>2
<1> QED
  BY <1>4, <1>5 DEF Replayable

\* Closing a last line that only lost its newline.
LEMMA ReplayClosed ==
    ASSUME TypeOK, Replayable, lines' = lines, ended' => ended \/ ~(Len(lines) > 0) \/ lines[Len(lines)] # Junk
    PROVE  Replayable'
<1>1. Len(lines) \in Nat
  BY AppendFacts, LinesTyped
<1>2. ASSUME NEW i \in 1..Len(lines), lines[i] = Junk PROVE Recovered(i)' \/ (i = Len(lines') /\ ~ended')
  BY <1>1, <1>2 DEF Replayable, Recovered
<1> QED
  BY <1>2 DEF Replayable, Recovered

LEMMA InitReplay == Init => ReplayInv
<1> SUFFICES ASSUME Init PROVE ReplayInv
  OBVIOUS
<1>1. ended /\ \A i : ~(i \in 1..Len(lines))
  BY DEF Init
<1> QED
  BY <1>1 DEF ReplayInv, Replayable

LEMMA NextReplay == ASSUME MarkersWhole PROVE IInv /\ ReplayInv /\ [Next]_vars => ReplayInv'
<1> SUFFICES ASSUME IInv, ReplayInv, [Next]_vars PROVE ReplayInv'
  OBVIOUS
<1>1. TypeOK /\ CallInv /\ Replayable /\ (pc = "append" => ended /\ cur \in Line /\ cur.kind \in EventKinds)
  BY DEF IInv, ReplayInv, CallInv, Wanted, EventKinds, TypeOK
<1>2. CASE lines' = lines /\ ended' = ended
  BY <1>1, <1>2 DEF ReplayInv, Replayable, Recovered
<1>3. \A e \in EventKinds : e # "MARKER" /\ e # "JUNK"
  BY DEF EventKinds
<1>4. ASSUME NEW x \in {cur, Junk}, pc = "append", lines' = Append(lines, x), ended' => x = cur
      PROVE  ReplayInv'
  <2>1. x \in Line /\ x.kind # "MARKER" /\ (x = Junk => ~ended')
    BY <1>1, <1>3, <1>4, KindsDiffer, LinesTyped
  <2> QED
    BY <1>1, <1>4, <2>1, ReplayAppend DEF ReplayInv
<1>5. CASE Read
  <2>1. CASE NeedsRepair /\ lines[Len(lines)] = Junk
    BY <1>1, <1>5, <2>1, ReplayRepair DEF Read, NeedsRepair, ReplayInv
  <2>2. CASE ~(NeedsRepair /\ lines[Len(lines)] = Junk)
    <3>1. lines' = lines /\ ended'
      BY <1>1, <1>5, <2>2 DEF Read, NeedsRepair, ReplayInv, CallInv
    <3>2. ended \/ ~(Len(lines) > 0) \/ lines[Len(lines)] # Junk
      BY <2>2, KindsDiffer DEF NeedsRepair
    <3> QED
      BY <1>1, <3>1, <3>2, ReplayClosed DEF ReplayInv
  <2> QED
    BY <2>1, <2>2
<1>6. CASE AppendEvent
  BY <1>1, <1>4, <1>6 DEF AppendEvent, Glue
<1>7. CASE InterruptRepair
  <2>1. lines' = lines /\ ~ended' /\ ~ended
    BY <1>7 DEF InterruptRepair, MarkersWhole, NeedsRepair
  <2> QED
    BY <1>2, <2>1 DEF ReplayInv, Replayable, Recovered
<1>8. CASE InterruptAppend
  <2>1. PICK tear \in AppendTears :
          /\ lines' = CASE tear = "lost" -> lines
                        [] tear = "torn" -> Glue(lines, ended, Junk)
                        [] tear = "unterminated" -> Glue(lines, ended, cur)
          /\ ended' = (tear = "lost" /\ ended)
    BY <1>8 DEF InterruptAppend
  <2>2. tear \in {"lost", "torn", "unterminated"} /\ pc = "append" /\ ended
    BY <1>1, <1>8, LedgerAssumption DEF InterruptAppend
  <2>3. CASE tear = "lost"
    BY <1>2, <2>1, <2>2, <2>3
  <2>4. CASE tear \in {"torn", "unterminated"}
    <3>1. \E x \in {cur, Junk} : lines' = Append(lines, x) /\ ~ended'
      BY <2>1, <2>2, <2>4 DEF Glue
    <3> QED
      BY <1>4, <2>2, <3>1
  <2> QED
    BY <2>2, <2>3, <2>4
<1> QED
  BY <1>2, <1>5, <1>6, <1>7, <1>8
     DEF Next, CallEnqueue, CallMarkFailed, CallMarkPersisted, CallRead, Begin, vars

\* A restart always finds a ledger that _read can replay, if an interrupted repair
\* leaves its marker whole or not at all.
THEOREM LedgerReplayable == ASSUME MarkersWhole PROVE Spec => []AlwaysReplayable
<1>1. Spec => []ReplayInv
  BY InitReplay, NextReplay, LedgerInvariant, PTL DEF Spec
<1>2. ReplayInv => AlwaysReplayable
  BY DEF ReplayInv, AlwaysReplayable
<1> QED
  BY <1>1, <1>2, PTL
-----------------------------------------------------------------------------
(* What receipts are for: the lineage that T0Lineage promises.  Its steps    *)
(* alone give exact, unique lineage and at most one treated T0 per known     *)
(* candle, for any T0s, lanes and observations; whatever implements          *)
(* T0Lineage!Spec inherits both.                                             *)

CONSTANTS T0, Lanes, Obs, NoObs, Unknown, None
VARIABLES obs, current, authority, bound, treated

Promise == INSTANCE T0Lineage

\* A row is of an observed T0, so observing never touches a treated one.
RowsObserved == \A i \in 1..Len(authority) : obs[authority[i]] # NoObs

PromiseInv == Promise!TypeOK /\ Promise!LineageSound /\ Promise!TreatedOnce /\ RowsObserved

LEMMA PromiseInit == Promise!Init => PromiseInv
BY DEF Promise!Init, PromiseInv, Promise!TypeOK, Promise!LineageSound, Promise!TreatedOnce, RowsObserved

LEMMA PromiseStep == Promise!LineageAssumption /\ PromiseInv /\ [Promise!Next]_(Promise!vars) => PromiseInv'
<1> SUFFICES ASSUME Promise!LineageAssumption, PromiseInv, [Promise!Next]_(Promise!vars) PROVE PromiseInv'
  OBVIOUS
<1>t. Promise!TypeOK /\ Promise!LineageSound /\ Promise!TreatedOnce /\ RowsObserved
  BY DEF PromiseInv
<1>l. authority \in Seq(T0) /\ Len(authority) \in Nat
  BY <1>t DEF Promise!TypeOK
<1>1. ASSUME NEW t \in T0, NEW o \in Obs, Promise!Observe(t, o) PROVE PromiseInv'
  <2>1. treated[t] = {}
    BY <1>t, <1>1 DEF Promise!Observe, Promise!LineageSound, RowsObserved
  <2>2. Promise!TypeOK'
    BY <1>t, <1>1 DEF Promise!Observe, Promise!TypeOK
  <2>3. Promise!LineageSound'
    BY <1>t, <1>1 DEF Promise!Observe, Promise!LineageSound
  <2>4. Promise!TreatedOnce'
    BY <1>t, <1>1, <2>1 DEF Promise!Observe, Promise!TypeOK, Promise!TreatedOnce
  <2>5. RowsObserved'
    BY <1>t, <1>l, <1>1 DEF Promise!LineageAssumption, Promise!Observe, Promise!TypeOK, RowsObserved
  <2> QED
    BY <2>2, <2>3, <2>4, <2>5 DEF PromiseInv
<1>2. ASSUME NEW t \in T0, Promise!Accept(t) PROVE PromiseInv'
  <2>1. /\ authority' = Append(authority, t) /\ authority' \in Seq(T0)
        /\ Len(authority') = Len(authority) + 1 /\ authority'[Len(authority) + 1] = t
        /\ \A i \in 1..Len(authority) : authority'[i] = authority[i]
    BY <1>l, <1>2 DEF Promise!Accept
  <2>2. Promise!TypeOK'
    BY <1>t, <1>2, <2>1 DEF Promise!Accept, Promise!TypeOK
  <2>3. Promise!LineageSound'
    BY <1>t, <1>l, <1>2, <2>1 DEF Promise!Accept, Promise!TypeOK, Promise!LineageSound
  <2>4. Promise!TreatedOnce'
    BY <1>t, <1>2 DEF Promise!Accept, Promise!TreatedOnce
  <2>5. RowsObserved'
    BY <1>t, <1>l, <1>2, <2>1 DEF Promise!Accept, RowsObserved
  <2> QED
    BY <2>2, <2>3, <2>4, <2>5 DEF PromiseInv
<1>3. ASSUME NEW t \in T0, NEW i \in 1..Len(authority), Promise!Bind(t, i) PROVE PromiseInv'
  <2>1. Promise!TypeOK'
    BY <1>t, <1>l, <1>3 DEF Promise!Bind, Promise!MayClose, Promise!TypeOK
  <2>2. Promise!LineageSound'
    BY <1>t, <1>l, <1>3 DEF Promise!Bind, Promise!TypeOK, Promise!LineageSound
  <2>3. Promise!TreatedOnce' /\ RowsObserved'
    BY <1>t, <1>3 DEF Promise!Bind, Promise!TreatedOnce, RowsObserved
  <2> QED
    BY <2>1, <2>2, <2>3 DEF PromiseInv
<1>4. ASSUME NEW t \in T0, NEW lane \in Lanes, Promise!Treat(t, lane) PROVE PromiseInv'
  <2>1. Promise!TypeOK'
    BY <1>t, <1>4 DEF Promise!Treat, Promise!MayClose, Promise!TypeOK
  <2>2. Promise!LineageSound' /\ RowsObserved'
    BY <1>t, <1>4 DEF Promise!Treat, Promise!TypeOK, Promise!LineageSound, RowsObserved
  <2>3. Promise!TreatedOnce'
    BY <1>t, <1>4 DEF Promise!Treat, Promise!TypeOK, Promise!TreatedOnce
  <2> QED
    BY <2>1, <2>2, <2>3 DEF PromiseInv
<1>5. ASSUME Promise!Close \/ UNCHANGED Promise!vars PROVE PromiseInv'
   BY <1>t, <1>5
   DEF Promise!Close, Promise!vars, PromiseInv, Promise!TypeOK, Promise!LineageSound, Promise!TreatedOnce, RowsObserved
<1> QED
  BY <1>1, <1>2, <1>3, <1>4, <1>5 DEF Promise!Next

LEMMA LineageInvariant == Promise!LineageAssumption => (Promise!Spec => []PromiseInv)
<1> SUFFICES ASSUME Promise!LineageAssumption PROVE Promise!Spec => []PromiseInv
  OBVIOUS
<1>1. PromiseInv /\ [Promise!Next]_(Promise!vars) => PromiseInv'
  BY PromiseStep
<1> QED
  BY <1>1, PromiseInit, PTL DEF Promise!Spec

\* Observations, rows, bindings and treatments always have their types.
THEOREM LineageTypeCorrect == Promise!LineageAssumption => (Promise!Spec => []Promise!TypeOK)
<1>1. PromiseInv => Promise!TypeOK
  BY DEF PromiseInv
<1> QED
  BY <1>1, LineageInvariant, PTL

\* ensure_prediction_persisted's promise: a treated T0 is bound, to the one
\* row of its own.
THEOREM LineageIsSound == Promise!LineageAssumption => (Promise!Spec => []Promise!LineageSound)
<1>1. PromiseInv => Promise!LineageSound
  BY DEF PromiseInv
<1> QED
  BY <1>1, LineageInvariant, PTL

\* check_candle_duplicate's promise: one treated T0 per symbol and candle.
THEOREM CandleTreatedOnce == Promise!LineageAssumption => (Promise!Spec => []Promise!TreatedOnce)
<1>1. PromiseInv => Promise!TreatedOnce
  BY DEF PromiseInv
<1> QED
  BY <1>1, LineageInvariant, PTL
=============================================================================
