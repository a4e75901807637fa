--------------------------- MODULE RecorderProofs ---------------------------
(***************************************************************************)
(* Proofs about Recorder, for every set of outcomes and every bound.       *)
(***************************************************************************)
EXTENDS Recorder, TLAPS

\* Every row of the chain that exists anywhere.
All == Sent \cup Range(Unsaved)

\* Where the next row of Unsaved hangs from, or the next row to be added.
Root == IF Unsaved = <<>> THEN prev ELSE Unsaved[1].prev

Received == Hashes(cp) \cup {Genesis}

\* A dead process has nothing in memory; the pusher holds rows while it pushes.
Quiet ==
  /\ ~alive => push = "wait" /\ pending = <<>> /\ sampled = {}
  /\ push \in {"posting", "answered"} <=> batch # <<>>

\* A hash is the time at which its row was made.
Stamped ==
  /\ prev <= clock /\ chain.prev <= clock
  /\ \A r \in All : 0 < r.hash /\ r.hash <= clock /\ r.prev <= clock
  /\ \A r, s \in All : r.hash = s.hash => r = s

\* No two rows share a predecessor, and none has the one the next row will get.
Linear ==
  /\ Unforked(All)
  /\ alive => \A r \in All : r.prev # prev

\* Whatever the control plane holds, may yet receive or will be sent hangs
\* from what it holds by then.
Rooted ==
  /\ Gapless(cp)
  /\ alive => Root \in Received
  /\ push = "answered" => Range(batch) \subseteq cp
  /\ chain.prev \in Received
  /\ \A rows \in late : \A r \in rows : r.prev \in Received \cup Hashes(rows)

\* Linear needs that no position of the chain was re-used, Rooted does not.
Intact == refused = {} /\ ~forked

IInv ==
  /\ TypeOK /\ Quiet /\ QueueLinked /\ Stamped
  /\ Intact => Linear
  /\ refused = {} => Rooted

-----------------------------------------------------------------------------
(* Lemmas about queues of rows.                                            *)

\* The rows of two queues put together are the rows of both.
LEMMA RangeConcat ==
  ASSUME NEW S, NEW p \in Seq(S), NEW q \in Seq(S)
  PROVE  Range(p \o q) = Range(p) \cup Range(q)
<1>1. Range(p \o q) \subseteq Range(p) \cup Range(q)
  <2>1. SUFFICES ASSUME NEW i \in 1 .. Len(p \o q)
                 PROVE  (p \o q)[i] \in Range(p) \cup Range(q)
    BY DEF Range
  <2>2. CASE i <= Len(p)
    BY <2>2 DEF Range
  <2>3. CASE i > Len(p)
    <3>1. i - Len(p) \in 1 .. Len(q) /\ (p \o q)[i] = q[i - Len(p)]
      BY <2>3
    <3> QED BY <3>1 DEF Range
  <2> QED BY <2>2, <2>3
<1>2. Range(p) \subseteq Range(p \o q)
  <2>1. \A i \in 1 .. Len(p) : i \in 1 .. Len(p \o q) /\ (p \o q)[i] = p[i]
    OBVIOUS
  <2> QED BY <2>1 DEF Range
<1>3. Range(q) \subseteq Range(p \o q)
  <2>1. SUFFICES ASSUME NEW i \in 1 .. Len(q)
                 PROVE  q[i] \in Range(p \o q)
    BY DEF Range
  <2>2. Len(p) + i \in DOMAIN (p \o q) /\ (p \o q)[Len(p) + i] = q[i]
    OBVIOUS
  <2> QED BY <2>2 DEF Range
<1> QED BY <1>1, <1>2, <1>3

\* Adding a row to a queue adds it to the queue's rows.
LEMMA RangeAppend ==
  ASSUME NEW S, NEW p \in Seq(S), NEW r \in S
  PROVE  Range(Append(p, r)) = Range(p) \cup {r}
<1>1. \A i \in 1 .. Len(p) : Append(p, r)[i] = p[i]
  OBVIOUS
<1>2. Append(p, r)[Len(p) + 1] = r /\ DOMAIN Append(p, r) = 1 .. Len(p) + 1
  OBVIOUS
<1> QED BY <1>1, <1>2 DEF Range

\* In a queue in chain order every row hangs from where the first one does or
\* from a row of the queue.
LEMMA ContiguousRooted ==
  ASSUME NEW q \in Seq(Row), Contiguous(q), NEW r \in Range(q)
  PROVE  r.prev = q[1].prev \/ r.prev \in Hashes(Range(q))
<1>1. PICK i \in 1 .. Len(q) : r = q[i]
  BY DEF Range
<1>2. CASE i = 1
  BY <1>1, <1>2
<1>3. CASE i # 1
  <2>1. i - 1 \in 1 .. Len(q) - 1 /\ i - 1 \in DOMAIN q /\ (i - 1) + 1 = i
    BY <1>3
  <2>2. q[i].prev = q[i - 1].hash
    BY <2>1 DEF Contiguous, Follows
  <2> QED BY <1>1, <2>1, <2>2 DEF Range, Hashes
<1> QED BY <1>2, <1>3

-----------------------------------------------------------------------------
(* Type correctness.                                                       *)

Base == TypeOK /\ Quiet

LEMMA RangeType ==
  ASSUME NEW S, NEW q \in Seq(S)
  PROVE  Range(q) \subseteq S
BY DEF Range

LEMMA NewRowType ==
  ASSUME TypeOK, NEW o \in Outcomes
  PROVE  NewRow(o) \in Row /\ o.sig \in Sigs
<1>1. clock \in Nat
  BY BoundsAssumption DEF TypeOK
<1>2. o \in Outcome
  BY OutcomesAssumption
<1> QED BY <1>1, <1>2 DEF NewRow, Row, TypeOK, Outcome, Genesis

LEMMA BaseStep == Base /\ [Next]_vars => Base'
<1> SUFFICES ASSUME Base, [Next]_vars PROVE Base'
  OBVIOUS
<1> USE BoundsAssumption
<1> USE DEF Base, memory, process, pusher, remote, history
<1>1. CASE Start
  BY <1>1 DEF Start, TypeOK, Quiet, Resume, Cursor
<1>2. CASE Cancel
  BY <1>2 DEF Cancel, TypeOK, Quiet
<1>3. CASE Die
  <2>1. Range(batch) \subseteq Row
    BY RangeType DEF TypeOK
  <2>2. late' \subseteq SUBSET Row
    BY <1>3, <2>1 DEF Die, TypeOK
  <2>3. NoCursor \in Cursor
    BY DEF NoCursor, Cursor, Genesis
  <2>4. chain' \in Cursor
    BY <1>3, <2>3 DEF Die, TypeOK
  <2>5. <<>> \in Seq(Row)
    OBVIOUS
  <2>6. TypeOK'
    <3>1. 0 \in 0 .. MaxErrors
      OBVIOUS
    <3>2. /\ pending' = <<>> /\ batch' = <<>> /\ sampled' = {}
          /\ seq' = 0 /\ prev' = 0 /\ total' = 0 /\ denies' = 0 /\ errors' = 0
          /\ alive' = FALSE /\ ctxDone' = FALSE /\ push' = "wait" /\ final' = FALSE
          /\ UNCHANGED <<starts, cp, clock, refused, forked>>
      BY <1>3 DEF Die, Genesis
    <3> QED BY <2>2, <2>4, <2>5, <3>1, <3>2 DEF TypeOK
  <2>7. Quiet'
    BY <1>3 DEF Die, Quiet
  <2> QED BY <2>6, <2>7
<1>4. ASSUME NEW o \in Outcomes, Add(o) PROVE Base'
  <2>1. CASE Enqueue(o)
    <3>1. pending' \in Seq(Row) /\ prev' \in Nat
      BY <2>1, NewRowType DEF Enqueue, TypeOK, Row
    <3>2. sampled' \subseteq Sigs
      BY <2>1, NewRowType DEF Enqueue, Sampled, TypeOK
    <3> QED BY <1>4, <2>1, <3>1, <3>2 DEF Add, Enqueue, TypeOK, Quiet
  <2>2. CASE Collapse(o)
    BY <1>4, <2>2 DEF Add, Collapse, TypeOK, Quiet
  <2> QED BY <1>4, <2>1, <2>2 DEF Add
<1>5. ASSUME NEW f \in BOOLEAN, Flush(f) PROVE Base'
  BY <1>5 DEF Flush, NewWindow, TypeOK, Quiet
<1>6. CASE Stored
  <2>1. cp' \subseteq Row
    BY <1>6, RangeType DEF Stored, TypeOK
  <2> QED BY <1>6, <2>1 DEF Stored, Answerable, TypeOK, Quiet
<1>7. CASE Refused
  <2>1. refused' \subseteq Row
    BY <1>7, RangeType DEF Refused, TypeOK
  <2> QED BY <1>7, <2>1 DEF Refused, Answerable, TypeOK, Quiet
<1>8. CASE Failed
  <2>1. late' \subseteq SUBSET Row
    BY <1>8, RangeType DEF Failed, TypeOK
  <2>2. pending' \in Seq(Row) /\ batch' \in Seq(Row)
    BY <1>8 DEF Failed, Requeue, TypeOK
  <2> QED BY <1>8, <2>1, <2>2 DEF Failed, Returned, TypeOK, Quiet
<1>9. CASE Save
  <2>1. batch # <<>>
    BY <1>9 DEF Save, Quiet
  <2>2. batch[Len(batch)] \in Row
    BY <2>1 DEF TypeOK
  <2>3. SavedCursor \in Cursor /\ NoCursor \in Cursor
    BY <2>2 DEF SavedCursor, CursorOf, Cursor, NoCursor, Row, Genesis
  <2>4. chain' \in Cursor
    BY <1>9, <2>3 DEF Save, TypeOK
  <2> QED BY <1>9, <2>4 DEF Save, Returned, TypeOK, Quiet
<1>10. ASSUME NEW rows \in late, Arrive(rows) PROVE Base'
  BY <1>10 DEF Arrive, TypeOK, Quiet
<1>11. CASE UNCHANGED vars
  BY <1>11 DEF vars, TypeOK, Quiet
<1> QED
  BY <1>1, <1>2, <1>3, <1>4, <1>5, <1>6, <1>7, <1>8, <1>9, <1>10, <1>11
  DEF Next, Tick, LastFlush

-----------------------------------------------------------------------------
(* What a step does to the unsaved rows, to the end of the chain and to the *)
(* rows that exist.                                                        *)

\* The rows stay, whatever moves between the queue, the push and the wire.
Keeps ==
  /\ Unsaved' = Unsaved /\ All' \subseteq All
  /\ UNCHANGED <<alive, seq, prev>> /\ clock' \in Nat /\ clock <= clock'

\* Add puts a row at the end.
Extends(o) ==
  /\ alive /\ alive'
  /\ Unsaved' = Append(Unsaved, NewRow(o)) /\ All' = All \cup {NewRow(o)}
  /\ seq' = seq + 1 /\ prev' = clock + 1 /\ clock' = clock + 1

\* Save drops the rows of the push.
Drops ==
  /\ push = "answered" /\ batch # <<>>
  /\ Unsaved' = pending /\ All' \subseteq All
  /\ UNCHANGED <<alive, seq, prev, clock>>

\* A life of the process begins or ends.
Turns ==
  /\ Unsaved' = <<>> /\ All' \subseteq All
  /\ alive' => Start
  /\ ~alive' => prev' = Genesis
  /\ UNCHANGED clock

LEMMA UnsavedType ==
  ASSUME Base
  PROVE  /\ batch \in Seq(Row) /\ pending \in Seq(Row) /\ Unsaved \in Seq(Row)
         /\ Range(Unsaved) = Range(batch) \cup Range(pending)
         /\ clock \in Nat /\ prev \in Nat /\ seq \in Nat
<1>1. batch \in Seq(Row) /\ pending \in Seq(Row)
  BY DEF Base, TypeOK
<1>2. Unsaved \in Seq(Row)
  BY <1>1 DEF Unsaved
<1>3. Range(Unsaved) = Range(batch) \cup Range(pending)
  BY <1>1, RangeConcat DEF Unsaved
<1> QED BY <1>1, <1>2, <1>3, BoundsAssumption DEF Base, TypeOK

LEMMA Shapes ==
  ASSUME Base, Base', [Next]_vars
  PROVE  Keeps \/ (\E o \in Outcomes : Extends(o)) \/ Drops \/ Turns
<1> USE DEF memory, process, pusher, remote, history
<1>0. /\ batch \in Seq(Row) /\ pending \in Seq(Row) /\ Unsaved \in Seq(Row)
      /\ Range(Unsaved) = Range(batch) \cup Range(pending)
      /\ clock \in Nat
  BY UnsavedType
<1> USE <1>0
<1> DEFINE empty == <<>>
<1>a. \A q \in Seq(Row) : q \o empty = q /\ empty \o q = q
  OBVIOUS
<1>b. Range(empty) = {}
  BY DEF Range
<1>1. CASE Start
  <2>1. batch = <<>> /\ pending = <<>> /\ batch' = batch /\ pending' = pending
    BY <1>1 DEF Start, Base, Quiet
  <2>2. Unsaved' = <<>> /\ Unsaved = <<>>
    BY <2>1, <1>a DEF Unsaved
  <2>3. All' \subseteq All
    BY <1>1, <2>2 DEF Start, All, Sent
  <2> QED BY <1>1, <2>2, <2>3 DEF Turns, Start
<1>2. CASE Cancel
  BY <1>2 DEF Cancel, Keeps, Unsaved, All, Sent
<1>3. CASE Die
  <2>1. Unsaved' = <<>>
    BY <1>3, <1>a DEF Die, Unsaved
  <2>2. (late' = late \/ late' = late \cup {Range(batch)}) /\ cp' = cp
    BY <1>3 DEF Die
  <2>3. All' \subseteq All
    BY <2>1, <2>2, <1>b DEF All, Sent
  <2> QED BY <1>3, <2>1, <2>3 DEF Turns, Die
<1>4. ASSUME NEW o \in Outcomes, Add(o) PROVE Keeps \/ Extends(o)
  <2>1. CASE Enqueue(o)
    <3>1. batch' = batch /\ pending' = Append(pending, NewRow(o)) /\ NewRow(o) \in Row
      BY <1>4, <2>1, NewRowType DEF Add, Enqueue, Base
    <3>2. Unsaved' = Append(Unsaved, NewRow(o))
      BY <3>1 DEF Unsaved
    <3>3. Range(Unsaved)' = Range(Unsaved) \cup {NewRow(o)}
      BY <3>1, <3>2, RangeAppend
    <3>4. cp' = cp /\ late' = late
      BY <1>4 DEF Add
    <3>5. All' = All \cup {NewRow(o)}
      BY <3>3, <3>4 DEF All, Sent
    <3> QED BY <1>4, <2>1, <3>2, <3>5 DEF Add, Enqueue, NewRow, Extends
  <2>2. CASE Collapse(o)
    BY <1>4, <2>2 DEF Add, Collapse, Keeps, Unsaved, All, Sent
  <2> QED BY <1>4, <2>1, <2>2 DEF Add
<1>5. ASSUME NEW f \in BOOLEAN, Flush(f) PROVE Keeps
  <2>1. batch = <<>>
    BY <1>5 DEF Flush, Base, Quiet
  <2>2. Unsaved' = Unsaved
    BY <1>5, <2>1, <1>a DEF Flush, Unsaved
  <2> QED BY <1>5, <2>2 DEF Flush, Keeps, All, Sent
<1>6. CASE Stored
  <2>1. Unsaved' = Unsaved
    BY <1>6 DEF Stored, Unsaved
  <2>2. All' \subseteq All
    BY <1>6, <2>1 DEF Stored, All, Sent
  <2> QED BY <1>6, <2>1, <2>2 DEF Stored, Keeps
<1>7. CASE Refused
  BY <1>7 DEF Refused, Keeps, Unsaved, All, Sent
<1>8. CASE Failed
  <2>1. pending' = batch \o pending /\ batch' = <<>>
    BY <1>8 DEF Failed, Requeue
  <2>2. Unsaved' = Unsaved
    BY <2>1, <1>a DEF Unsaved
  <2>3. (late' = late \/ late' = late \cup {Range(batch)}) /\ cp' = cp
    BY <1>8 DEF Failed
  <2>4. All' \subseteq All
    BY <2>2, <2>3 DEF All, Sent
  <2> QED BY <1>8, <2>2, <2>4 DEF Failed, Keeps
<1>9. CASE Save
  <2>1. batch' = <<>> /\ pending' = pending /\ cp' = cp /\ late' = late
    BY <1>9 DEF Save
  <2>2. Unsaved' = pending
    BY <2>1, <1>a DEF Unsaved
  <2>3. All' \subseteq All
    BY <2>1, <2>2 DEF All, Sent
  <2> QED BY <1>9, <2>2, <2>3 DEF Save, Drops, Base, Quiet
<1>10. ASSUME NEW rows \in late, Arrive(rows) PROVE Keeps
  <2>1. Unsaved' = Unsaved
    BY <1>10 DEF Arrive, Unsaved
  <2>2. UNION late' \subseteq UNION late /\ rows \subseteq UNION late
    BY <1>10 DEF Arrive
  <2>3. All' \subseteq All
    BY <1>10, <2>1, <2>2 DEF Arrive, All, Sent
  <2> QED BY <1>10, <2>1, <2>3 DEF Arrive, Keeps
<1>11. CASE UNCHANGED vars
  BY <1>11 DEF vars, Keeps, Unsaved, All, Sent
<1> QED
  BY <1>1, <1>2, <1>3, <1>4, <1>5, <1>6, <1>7, <1>8, <1>9, <1>10, <1>11
  DEF Next, Tick, LastFlush

-----------------------------------------------------------------------------
(* The queue is linked.                                                    *)

\* A row that follows the last one extends a queue in chain order.
LEMMA ContiguousAppend ==
  ASSUME NEW q \in Seq(Row), Contiguous(q), NEW r \in Row,
         q # <<>> => Follows(r, q[Len(q)])
  PROVE  Contiguous(Append(q, r))
<1> DEFINE a == Append(q, r)
<1>1. Len(a) = Len(q) + 1 /\ a[Len(q) + 1] = r /\ \A i \in 1 .. Len(q) : a[i] = q[i]
  OBVIOUS
<1>2. SUFFICES ASSUME NEW i \in 1 .. Len(q) PROVE Follows(a[i + 1], a[i])
  BY <1>1 DEF Contiguous
<1>3. CASE i < Len(q)
  <2>1. i \in 1 .. Len(q) - 1 /\ i + 1 \in 1 .. Len(q)
    BY <1>3
  <2>2. Follows(q[i + 1], q[i])
    BY <2>1 DEF Contiguous
  <2> QED BY <1>1, <2>1, <2>2
<1>4. CASE i = Len(q)
  <2>1. q # <<>> /\ a[i + 1] = r /\ a[i] = q[Len(q)]
    BY <1>1, <1>4
  <2> QED BY <2>1
<1> QED BY <1>3, <1>4

\* The two parts of a queue in chain order are in chain order, and the second
\* hangs from the last row of the first.
LEMMA ContiguousSplit ==
  ASSUME NEW p \in Seq(Row), NEW q \in Seq(Row), Contiguous(p \o q)
  PROVE  /\ Contiguous(p) /\ Contiguous(q)
         /\ p # <<>> /\ q # <<>> => Follows(q[1], p[Len(p)])
<1> DEFINE c == p \o q
<1>1. /\ Len(c) = Len(p) + Len(q)
      /\ \A i \in 1 .. Len(p) : c[i] = p[i]
      /\ \A i \in 1 .. Len(q) : c[Len(p) + i] = q[i]
  OBVIOUS
<1>2. \A i \in 1 .. Len(c) - 1 : Follows(c[i + 1], c[i])
  BY DEF Contiguous
<1>3. Contiguous(p)
  <2>1. SUFFICES ASSUME NEW i \in 1 .. Len(p) - 1 PROVE Follows(p[i + 1], p[i])
    BY DEF Contiguous
  <2>2. i \in 1 .. Len(c) - 1 /\ i \in 1 .. Len(p) /\ i + 1 \in 1 .. Len(p)
    BY <1>1
  <2>3. c[i + 1] = p[i + 1] /\ c[i] = p[i]
    BY <1>1, <2>2
  <2> HIDE DEF c
  <2> QED BY <1>2, <2>2, <2>3
<1>4. Contiguous(q)
  <2>1. SUFFICES ASSUME NEW i \in 1 .. Len(q) - 1 PROVE Follows(q[i + 1], q[i])
    BY DEF Contiguous
  <2>2. Len(p) + i \in 1 .. Len(c) - 1 /\ i \in 1 .. Len(q) /\ i + 1 \in 1 .. Len(q)
    BY <1>1
  <2>3. c[Len(p) + i + 1] = q[i + 1] /\ c[Len(p) + i] = q[i]
    <3>1. Len(p) + i + 1 = Len(p) + (i + 1)
      OBVIOUS
    <3> HIDE DEF c
    <3> QED BY <1>1, <2>2, <3>1
  <2> HIDE DEF c
  <2> QED BY <1>2, <2>2, <2>3
<1>5. ASSUME p # <<>>, q # <<>> PROVE Follows(q[1], p[Len(p)])
  <2>1. Len(p) \in 1 .. Len(c) - 1 /\ Len(p) \in 1 .. Len(p) /\ 1 \in 1 .. Len(q)
    BY <1>1, <1>5
  <2>2. c[Len(p) + 1] = q[1] /\ c[Len(p)] = p[Len(p)]
    BY <1>1, <2>1
  <2> HIDE DEF c
  <2> QED BY <1>2, <2>1, <2>2
<1> QED BY <1>3, <1>4, <1>5

LEMMA LinkedStep ==
  ASSUME Base, Base', QueueLinked, [Next]_vars
  PROVE  QueueLinked'
<1>1. CASE Keeps
  BY <1>1 DEF Keeps, QueueLinked
<1>2. ASSUME NEW o \in Outcomes, Extends(o) PROVE QueueLinked'
  <2>1. Unsaved \in Seq(Row) /\ NewRow(o) \in Row /\ seq \in Nat
    BY UnsavedType, NewRowType DEF Base
  <2>2. Unsaved # <<>> => Follows(NewRow(o), Unsaved[Len(Unsaved)])
    BY <1>2, <2>1 DEF Extends, QueueLinked, CursorOf, Follows, NewRow
  <2>3. Contiguous(Append(Unsaved, NewRow(o)))
    BY <2>1, <2>2, ContiguousAppend DEF QueueLinked
  <2>4. Unsaved'[Len(Unsaved')] = NewRow(o)
    BY <1>2, <2>1 DEF Extends
  <2>5. CursorOf(NewRow(o)) = [seq |-> seq', prev |-> prev']
    BY <1>2 DEF Extends, CursorOf, NewRow
  <2> QED BY <1>2, <2>3, <2>4, <2>5 DEF Extends, QueueLinked
<1>3. CASE Drops
  <2>1. batch \in Seq(Row) /\ pending \in Seq(Row) /\ Unsaved = batch \o pending
    BY UnsavedType DEF Unsaved
  <2>2. Contiguous(Unsaved')
    BY <1>3, <2>1, ContiguousSplit DEF Drops, QueueLinked
  <2>3. pending # <<>> => Unsaved # <<>> /\ pending[Len(pending)] = Unsaved[Len(Unsaved)]
    BY <2>1
  <2> QED BY <1>3, <2>2, <2>3 DEF Drops, QueueLinked, CursorOf
<1>4. CASE Turns
  BY <1>4 DEF Turns, QueueLinked, Contiguous
<1> QED BY <1>1, <1>2, <1>3, <1>4, Shapes

-----------------------------------------------------------------------------
(* Hashes are fresh, and the chain does not fork.                          *)

LEMMA AllType == Base => All \subseteq Row
BY UnsavedType, RangeType DEF Base, TypeOK, All, Sent

\* The cursor of a push is that of its last row.
LEMMA LastSent ==
  ASSUME Base, push = "answered"
  PROVE  batch[Len(batch)] \in Range(batch) /\ SavedCursor.prev = batch[Len(batch)].hash
<1>1. batch \in Seq(Row) /\ batch # <<>>
  BY DEF Base, TypeOK, Quiet
<1> QED BY <1>1 DEF Range, SavedCursor, CursorOf

\* chain.json keeps its cursor, loses it, or gets that of the answered push.
LEMMA CursorStep ==
  ASSUME Base, [Next]_vars
  PROVE  \/ chain'.prev \in {chain.prev, Genesis}
         \/ push = "answered" /\ chain'.prev = SavedCursor.prev
BY DEF Next, vars, Start, Cancel, Die, Add, Tick, LastFlush, Flush, Stored, Refused,
       Failed, Save, Arrive, NoCursor

LEMMA StampedStep ==
  ASSUME Base, Base', Stamped, [Next]_vars
  PROVE  Stamped'
<1> USE DEF Genesis
<1>0. clock \in Nat /\ prev \in Nat /\ All \subseteq Row /\ chain \in Cursor
  BY UnsavedType, AllType DEF Base, TypeOK
<1>1. chain'.prev <= clock
  <2>1. push = "answered" => SavedCursor.prev <= clock
    <3>1. Range(batch) \subseteq All
      BY UnsavedType DEF All
    <3> QED BY <3>1, LastSent DEF Stamped
  <2> QED BY <1>0, <2>1, CursorStep DEF Stamped
<1>2. \A r \in All : r.hash \in Nat /\ r.prev \in Nat
  BY <1>0 DEF Row
<1>3. chain'.prev \in Nat
  BY DEF Base, TypeOK, Cursor
<1>4. CASE Keeps
  BY <1>0, <1>1, <1>2, <1>3, <1>4 DEF Keeps, Stamped
<1>5. ASSUME NEW o \in Outcomes, Extends(o) PROVE Stamped'
  <2> DEFINE n == NewRow(o)
  <2>1. n.hash = clock + 1 /\ n.prev = prev
    BY DEF NewRow
  <2>2. All' = All \cup {n} /\ prev' = clock + 1 /\ clock' = clock + 1
    BY <1>5 DEF Extends
  <2> HIDE DEF n
  <2> QED BY <1>0, <1>1, <1>2, <1>3, <2>1, <2>2 DEF Stamped
<1>6. CASE Drops
  BY <1>0, <1>1, <1>2, <1>3, <1>6 DEF Drops, Stamped
<1>7. CASE Turns
  <2>1. prev' <= clock
    BY <1>0, <1>7 DEF Turns, Start, Resume, Stamped, Base, TypeOK
  <2> QED BY <1>0, <1>1, <1>2, <1>3, <1>7, <2>1 DEF Turns, Stamped
<1> QED BY <1>4, <1>5, <1>6, <1>7, Shapes

\* What is broken stays broken.
LEMMA HistoryStep ==
  ASSUME [Next]_vars
  PROVE  /\ UNCHANGED forked \/ Start
         /\ UNCHANGED refused \/ Refused
BY DEF Next, vars, history, Cancel, Die, Add, Tick, LastFlush, Flush, Stored,
       Failed, Save, Arrive, Start, Refused

LEMMA IntactStep == [Next]_vars /\ Intact' => Intact
BY HistoryStep DEF Intact, Start, Refused

LEMMA LinearStep ==
  ASSUME Base, Base', Stamped, Linear, Intact', [Next]_vars
  PROVE  Linear'
<1>0. clock \in Nat /\ prev \in Nat /\ \A r \in All : r.prev \in Nat
  BY UnsavedType, AllType DEF Row
<1>1. CASE Keeps
  BY <1>1 DEF Keeps, Linear, Unforked
<1>2. ASSUME NEW o \in Outcomes, Extends(o) PROVE Linear'
  <2> DEFINE n == NewRow(o)
  <2>1. n.prev = prev
    BY DEF NewRow
  <2>2. alive /\ All' = All \cup {n} /\ prev' = clock + 1
    BY <1>2 DEF Extends
  <2> HIDE DEF n
  <2>3. Unforked(All')
    BY <2>1, <2>2 DEF Linear, Unforked
  <2>4. \A r \in All' : r.prev # prev'
    BY <1>0, <2>1, <2>2 DEF Stamped
  <2> QED BY <2>3, <2>4 DEF Linear
<1>3. CASE Drops
  BY <1>3 DEF Drops, Linear, Unforked
<1>4. CASE Turns
  <2>1. Unforked(All')
    BY <1>4 DEF Turns, Linear, Unforked
  <2>2. ASSUME alive' PROVE \A r \in All' : r.prev # prev'
    <3>1. Start /\ Unsaved' = <<>>
      BY <1>4, <2>2 DEF Turns
    <3>2. prev' = chain.prev /\ \A r \in Sent : r.prev # chain.prev
      BY <3>1 DEF Start, Resume, Intact
    <3>3. All' = Sent
      BY <3>1 DEF Start, All, Sent, remote, Range
    <3> QED BY <3>2, <3>3
  <2> QED BY <2>1, <2>2 DEF Linear
<1> QED BY <1>1, <1>2, <1>3, <1>4, Shapes

-----------------------------------------------------------------------------
(* What the control plane holds hangs together.                            *)

LEMMA RemoteStep ==
  ASSUME Base, [Next]_vars
  PROVE  /\ UNCHANGED cp \/ Stored \/ (\E rows \in late : cp' = cp \cup rows)
         /\ UNCHANGED late \/ late' \subseteq late
            \/ (push = "posting" /\ late' \subseteq late \cup {Range(batch)})
         /\ push' = "answered" => Stored \/ Refused \/ UNCHANGED <<push, batch>>
<1>1. UNCHANGED cp \/ Stored \/ (\E rows \in late : cp' = cp \cup rows)
  BY DEF Next, vars, remote, Start, Cancel, Die, Add, Tick, LastFlush, Flush, Refused,
         Failed, Save, Arrive
<1>2. UNCHANGED late \/ late' \subseteq late
      \/ (push = "posting" /\ late' \subseteq late \cup {Range(batch)})
  BY DEF Next, vars, remote, Start, Cancel, Die, Add, Tick, LastFlush, Flush, Stored, Refused,
         Failed, Save, Arrive
<1>3. push' = "answered" => Stored \/ Refused \/ UNCHANGED <<push, batch>>
  BY DEF Next, vars, pusher, Start, Cancel, Die, Add, Tick, LastFlush, Flush, Returned,
         Failed, Save, Arrive
<1> QED BY <1>1, <1>2, <1>3

\* While a push is under way, its rows hang from what the control plane holds.
LEMMA BatchRooted ==
  ASSUME Base, QueueLinked, Rooted, push = "posting"
  PROVE  \A r \in Range(batch) : r.prev \in Received \cup Hashes(Range(batch))
<1>1. alive /\ batch # <<>> /\ batch \in Seq(Row) /\ pending \in Seq(Row)
  BY DEF Base, TypeOK, Quiet
<1>2. Contiguous(batch)
  BY <1>1, ContiguousSplit DEF QueueLinked, Unsaved
<1>3. Unsaved # <<>> /\ Unsaved[1] = batch[1]
  BY <1>1 DEF Unsaved
<1>4. batch[1].prev \in Received
  BY <1>1, <1>3 DEF Rooted, Root
<1> QED BY <1>1, <1>2, <1>4, ContiguousRooted

\* The control plane receives rows that hang from what it holds by then.
LEMMA GaplessUnion ==
  ASSUME NEW held, Gapless(held), NEW rows,
         \A r \in rows : r.prev \in (Hashes(held) \cup {Genesis}) \cup Hashes(rows)
  PROVE  Gapless(held \cup rows)
BY DEF Gapless, Hashes

LEMMA RootedStep ==
  ASSUME Base, Base', QueueLinked, QueueLinked', Rooted, refused' = {}, [Next]_vars
  PROVE  Rooted'
<1>1. cp \subseteq cp' /\ Gapless(cp')
  <2>1. CASE UNCHANGED cp
    BY <2>1 DEF Rooted
  <2>2. CASE Stored
    <3>1. push = "posting" /\ cp' = cp \cup Range(batch)
      BY <2>2 DEF Stored, Answerable
    <3> QED BY <3>1, BatchRooted, GaplessUnion DEF Rooted, Received
  <2>3. ASSUME NEW rows \in late, cp' = cp \cup rows PROVE cp \subseteq cp' /\ Gapless(cp')
    BY <2>3, GaplessUnion DEF Rooted, Received
  <2> QED BY <2>1, <2>2, <2>3, RemoteStep
<1>2. Received \subseteq Received'
  BY <1>1 DEF Received, Hashes
<1>3. push' = "answered" => Range(batch)' \subseteq cp'
  <2>1. CASE Stored
    BY <2>1 DEF Stored
  <2>2. CASE Refused
    <3>1. batch \in Seq(Row) /\ batch # <<>>
      BY <2>2 DEF Refused, Answerable, Base, TypeOK, Quiet
    <3>2. batch[1] \in Range(batch)
      BY <3>1 DEF Range
    <3> QED BY <2>2, <3>2 DEF Refused
  <2>3. CASE UNCHANGED <<push, batch>>
    BY <1>1, <2>3 DEF Rooted
  <2> QED BY <2>1, <2>2, <2>3, RemoteStep
<1>4. push = "answered" => SavedCursor.prev \in Received
  BY LastSent DEF Rooted, Received, Hashes
<1>5. chain'.prev \in Received'
  BY <1>2, <1>4, CursorStep DEF Rooted, Received
<1>6. \A rows \in late' : \A r \in rows : r.prev \in Received' \cup Hashes(rows)
  BY <1>2, BatchRooted, RemoteStep DEF Rooted
<1>7. ASSUME alive' PROVE Root' \in Received'
  <2>1. CASE Keeps
    BY <1>2, <1>7, <2>1 DEF Keeps, Root, Rooted
  <2>2. ASSUME NEW o \in Outcomes, Extends(o) PROVE Root' \in Received'
    <3>1. Unsaved \in Seq(Row) /\ NewRow(o) \in Row /\ NewRow(o).prev = prev
      BY UnsavedType, NewRowType DEF Base, NewRow
    <3>2. Root' = Root
      BY <2>2, <3>1 DEF Extends, Root
    <3> QED BY <1>2, <2>2, <3>2 DEF Extends, Rooted
  <2>3. CASE Drops
    <3>1. /\ batch \in Seq(Row) /\ pending \in Seq(Row) /\ batch # <<>>
          /\ Unsaved = batch \o pending /\ Unsaved' = pending /\ prev' = prev /\ alive
      BY <1>7, <2>3, UnsavedType DEF Drops, Unsaved
    <3>2. batch[Len(batch)].hash \in Received
      BY <1>4, <2>3, LastSent DEF Drops
    <3>3. CASE pending = <<>>
      <4>1. Unsaved = batch
        BY <3>1, <3>3
      <4> QED BY <1>2, <3>1, <3>2, <3>3, <4>1 DEF QueueLinked, CursorOf, Root
    <3>4. CASE pending # <<>>
      <4>1. pending[1].prev = batch[Len(batch)].hash
        BY <3>1, <3>4, ContiguousSplit DEF QueueLinked, Follows
      <4> QED BY <1>2, <3>1, <3>2, <3>4, <4>1 DEF Root
    <3> QED BY <3>3, <3>4
  <2>4. CASE Turns
    BY <1>2, <1>7, <2>4 DEF Turns, Start, Resume, Root, Rooted
  <2> QED BY <2>1, <2>2, <2>3, <2>4, Shapes
<1> QED BY <1>1, <1>3, <1>5, <1>6, <1>7 DEF Rooted

-----------------------------------------------------------------------------
(* The invariant.                                                          *)

LEMMA Inductive == IInv /\ [Next]_vars => IInv'
<1> SUFFICES ASSUME IInv, [Next]_vars PROVE IInv'
  OBVIOUS
<1>1. Base /\ Base'
  BY BaseStep DEF IInv, Base
<1>2. QueueLinked'
  BY <1>1, LinkedStep DEF IInv
<1>3. Stamped'
  BY <1>1, StampedStep DEF IInv
<1>4. Intact' => Linear'
  BY <1>1, IntactStep, LinearStep DEF IInv
<1>5. refused' = {} => refused = {}
  BY HistoryStep DEF Refused
<1>6. refused' = {} => Rooted'
  BY <1>1, <1>2, <1>5, RootedStep DEF IInv
<1> QED BY <1>1, <1>2, <1>3, <1>4, <1>6 DEF IInv, Base

LEMMA Initial == Init => IInv
<1> SUFFICES ASSUME Init PROVE IInv
  OBVIOUS
<1>1. Unsaved = <<>>
  BY DEF Init, Unsaved
<1>2. All = {}
  BY <1>1 DEF Init, All, Sent, Range
<1>3. NoCursor \in Cursor /\ NoCursor.prev = 0
  BY DEF NoCursor, Cursor, Genesis
<1>4. TypeOK
  <2>1. <<>> \in Seq(Row) /\ 0 \in 0 .. MaxStarts /\ 0 \in 0 .. MaxErrors /\ 0 \in 0 .. MaxDecisions
    BY BoundsAssumption
  <2> QED BY <1>3, <2>1 DEF Init, TypeOK, Genesis
<1>5. Quiet /\ QueueLinked
  BY <1>1 DEF Init, Quiet, QueueLinked, Contiguous
<1>6. Stamped
  BY <1>2, <1>3 DEF Init, Stamped, Genesis
<1>7. Linear /\ Rooted
  BY <1>2, <1>3 DEF Init, Linear, Rooted, Unforked, Gapless, Received, Genesis
<1> QED BY <1>4, <1>5, <1>6, <1>7 DEF IInv

LEMMA AlwaysIInv == Spec => []IInv
BY Initial, Inductive, PTL DEF Spec

\* Every variable of the recorder has its type.
THEOREM TypeCorrect == Spec => []TypeOK
<1>1. IInv => TypeOK
  BY DEF IInv
<1> QED BY <1>1, AlwaysIInv, PTL

\* No failed push and no interleaving of Add with a push unlinks, doubles or
\* reorders the rows that wait to be received (decisions.go:239-245).
THEOREM QueueStaysLinked == Spec => []QueueLinked
<1>1. IInv => QueueLinked
  BY DEF IInv
<1> QED BY <1>1, AlwaysIInv, PTL

\* The rows the control plane holds verify as one chain as long as no push was
\* refused and no life of the process re-used a position (decisions.go:40-44).
THEOREM ChainStaysVerified == Spec => []ChainVerifies
<1>1. IInv => ChainVerifies
  BY DEF IInv, Intact, Linear, Rooted, All, Sent, Unforked, Verifies, ChainVerifies
<1> QED BY <1>1, AlwaysIInv, PTL

\* As long as no push was refused, the cursor in chain.json names a row the
\* control plane received (decisions.go:125-126): in every life of the process,
\* those after a crash or a lost save included.
THEOREM CursorNamesReceivedRow == Spec => [](refused = {} => CursorReceived)
<1>1. IInv => (refused = {} => CursorReceived)
  BY DEF IInv, Rooted, Received, CursorReceived
<1> QED BY <1>1, AlwaysIInv, PTL

\* An allow is collapsed only while a row with an allow of the same method, host
\* and path waits in the queue (decisions.go:149-156).
THEOREM CollapseIsBacked == Spec => []CollapsedIsQueued
<1>1. Init => CollapsedIsQueued
  BY DEF Init, CollapsedIsQueued
<1>2. Base /\ CollapsedIsQueued /\ [Next]_vars => CollapsedIsQueued'
  <2> SUFFICES ASSUME Base, CollapsedIsQueued, [Next]_vars, NEW s \in sampled'
               PROVE  \E i \in DOMAIN pending' :
                        pending'[i].what.sig = s /\ pending'[i].what.decision = "allow"
    BY DEF CollapsedIsQueued
  <2>0. batch \in Seq(Row) /\ pending \in Seq(Row)
    BY DEF Base, TypeOK
  <2>1. CASE UNCHANGED <<sampled, pending>>
    BY <2>1 DEF CollapsedIsQueued
  <2>2. CASE sampled' = {}
    BY <2>2
  <2>3. ASSUME NEW o \in Outcomes, Enqueue(o)
        PROVE  \E i \in DOMAIN pending' :
                 pending'[i].what.sig = s /\ pending'[i].what.decision = "allow"
    <3>1. NewRow(o) \in Row /\ pending' = Append(pending, NewRow(o))
      BY <2>3, NewRowType DEF Enqueue, Base
    <3>2. CASE s \in sampled
      <4>1. PICK i \in DOMAIN pending :
              pending[i].what.sig = s /\ pending[i].what.decision = "allow"
        BY <3>2 DEF CollapsedIsQueued
      <4>2. i \in DOMAIN pending' /\ pending'[i] = pending[i]
        BY <2>0, <3>1
      <4> QED BY <4>1, <4>2
    <3>3. CASE s \notin sampled
      <4>1. o.sig = s /\ o.decision = "allow"
        BY <2>3, <3>3 DEF Enqueue, Sampled
      <4>2. Len(pending) + 1 \in DOMAIN pending' /\ pending'[Len(pending) + 1] = NewRow(o)
        BY <2>0, <3>1
      <4>3. NewRow(o).what = o
        BY DEF NewRow
      <4> QED BY <4>1, <4>2, <4>3
    <3> QED BY <3>2, <3>3
  <2>4. CASE Failed
    <3>1. sampled' = sampled /\ pending' = batch \o pending
      BY <2>4 DEF Failed, Requeue
    <3>2. PICK i \in DOMAIN pending :
            pending[i].what.sig = s /\ pending[i].what.decision = "allow"
      BY <3>1 DEF CollapsedIsQueued
    <3>3. Len(batch) + i \in DOMAIN pending' /\ pending'[Len(batch) + i] = pending[i]
      BY <2>0, <3>1
    <3> QED BY <3>2, <3>3
  <2>5. UNCHANGED <<sampled, pending>> \/ sampled' = {} \/ (\E o \in Outcomes : Enqueue(o)) \/ Failed
    BY DEF Next, vars, memory, Start, Cancel, Die, Add, Collapse, Tick, LastFlush, Flush, NewWindow,
           Stored, Refused, Save, Arrive
  <2> QED BY <2>1, <2>2, <2>3, <2>4, <2>5
<1>3. IInv => Base
  BY DEF IInv, Base
<1> QED BY <1>1, <1>2, <1>3, AlwaysIInv, PTL DEF Spec

\* The recorder implements AuditChain: what the control plane holds only grows,
\* and verifies until the writer breaks its chain.
THEOREM RecorderImplementsAuditChain == Spec => ImplementsAuditChain
<1>1. Init => Audit!Init
  BY DEF Init, Audit!Init
<1>2. IInv /\ IInv' /\ [Next]_vars => [Audit!Next]_<<cp, refused # {} \/ forked>>
  <2> SUFFICES ASSUME IInv, IInv', [Next]_vars
               PROVE  Audit!Next \/ UNCHANGED <<cp, refused # {} \/ forked>>
    OBVIOUS
  <2> DEFINE broken == refused # {} \/ forked
  <2>1. cp \subseteq cp'
    BY RemoteStep DEF IInv, Base, Stored
  <2>2. CASE UNCHANGED cp /\ broken'
    BY <2>2 DEF Audit!Next, Audit!Break
  <2>3. CASE UNCHANGED broken
    <3>1. broken \/ Verifies(cp')
      BY <2>3 DEF IInv, Intact, Linear, Rooted, All, Sent, Unforked, Verifies
    <3> QED BY <2>1, <2>3, <3>1 DEF Audit!Next, Audit!Receive, Audit!Verifies, Verifies,
               Audit!Gapless, Gapless, Audit!Unforked, Unforked, Audit!Hashes, Hashes,
               Audit!Genesis, Genesis
  <2>4. CASE Start
    <3>1. UNCHANGED <<cp, refused>> /\ (forked => forked')
      BY <2>4 DEF Start, remote
    <3>2. CASE forked'
      BY <2>2, <3>1, <3>2
    <3>3. CASE ~forked'
      BY <2>3, <3>1, <3>3
    <3> QED BY <3>2, <3>3
  <2>5. CASE Refused
    <3>1. batch \in Seq(Row) /\ batch # <<>>
      BY <2>5 DEF Refused, Answerable, IInv, TypeOK, Quiet
    <3>2. batch[1] \in Range(batch)
      BY <3>1 DEF Range
    <3> QED BY <2>2, <2>5, <3>2 DEF Refused, remote
  <2>6. CASE UNCHANGED <<refused, forked>>
    BY <2>3, <2>6
  <2> QED BY <2>4, <2>5, <2>6, HistoryStep
<1> QED BY <1>1, <1>2, AlwaysIInv, PTL DEF Spec, ImplementsAuditChain, Audit!Spec

-----------------------------------------------------------------------------
(* What one step may do to the rows, and to the cursor.                    *)

\* The rows of an answered push are with the control plane, or refused.
AnsweredInv == push = "answered" => Range(batch) \subseteq cp \cup refused

\* The rows not yet received are numbered up to seq without a gap, and the
\* cursor is behind them.
NumberedInv ==
  alive => /\ chain.seq + Len(Unsaved) <= seq
           /\ \A i \in 1 .. Len(Unsaved) : Unsaved[i].seq = seq - Len(Unsaved) + i

LEMMA AnsweredStep == AnsweredInv /\ [Next]_vars => AnsweredInv'
<1> SUFFICES ASSUME AnsweredInv, [Next]_vars PROVE AnsweredInv'
  OBVIOUS
<1>1. CASE Stored \/ Refused
  BY <1>1 DEF Stored, Refused, AnsweredInv, remote
<1>2. CASE push' # "answered"
  BY <1>2 DEF AnsweredInv
<1>3. CASE UNCHANGED <<push, batch>> /\ cp \subseteq cp' /\ refused \subseteq refused'
  BY <1>3 DEF AnsweredInv
<1>4. Stored \/ Refused \/ push' # "answered"
      \/ (UNCHANGED <<push, batch>> /\ cp \subseteq cp' /\ refused \subseteq refused')
  BY DEF Next, vars, pusher, remote, history, Start, Cancel, Die, Add, Tick, LastFlush, Flush,
         Failed, Save, Returned, Arrive
<1> QED BY <1>1, <1>2, <1>3, <1>4

\* Saving is the only step that moves the cursor on.
LEMMA ChainStep ==
  ASSUME [Next]_vars
  PROVE  chain' \in {chain, NoCursor} \/ (Save /\ chain' = SavedCursor)
BY DEF Next, vars, Start, Cancel, Die, Add, Tick, LastFlush, Flush, Stored, Refused,
       Failed, Save, Arrive

\* The last row of an answered push is numbered as far as the queue behind it
\* allows.
LEMMA SavedSeq ==
  ASSUME Base, NumberedInv, alive, push = "answered"
  PROVE  /\ SavedCursor.seq = seq - Len(pending) /\ Len(batch) > 0
         /\ Len(Unsaved) = Len(batch) + Len(pending)
<1>1. batch \in Seq(Row) /\ pending \in Seq(Row) /\ batch # <<>> /\ seq \in Nat
  BY UnsavedType DEF Base, Quiet
<1>2. Len(Unsaved) = Len(batch) + Len(pending) /\ Len(batch) > 0
      /\ Len(batch) \in 1 .. Len(Unsaved) /\ Unsaved[Len(batch)] = batch[Len(batch)]
  BY <1>1 DEF Unsaved
<1>3. batch[Len(batch)].seq = seq - Len(Unsaved) + Len(batch)
  BY <1>2 DEF NumberedInv
<1>4. Len(batch) \in Nat /\ Len(pending) \in Nat
  BY <1>1
<1> QED BY <1>1, <1>2, <1>3, <1>4 DEF SavedCursor, CursorOf

LEMMA NumberedStep == Base /\ Base' /\ NumberedInv /\ [Next]_vars => NumberedInv'
<1> SUFFICES ASSUME Base, Base', NumberedInv, [Next]_vars, alive' PROVE NumberedInv'
  BY DEF NumberedInv
<1>0. /\ Unsaved \in Seq(Row) /\ batch \in Seq(Row) /\ pending \in Seq(Row)
      /\ seq \in Nat /\ chain.seq \in Nat
  BY UnsavedType DEF Base, TypeOK, Cursor
<1>1. chain' # SavedCursor \/ ~Save => chain'.seq <= chain.seq
  BY <1>0, ChainStep DEF NoCursor
<1>2. CASE Keeps
  <2>1. push = "answered" /\ Save => Unsaved' = pending
    BY DEF Save, Unsaved, memory, Base, TypeOK
  <2>2. alive /\ UNCHANGED seq /\ Unsaved' = Unsaved
    BY <1>2 DEF Keeps
  <2>3. ~Save
    <3> SUFFICES ASSUME Save PROVE FALSE
      OBVIOUS
    <3>1. push = "answered"
      BY DEF Save
    <3>2. Len(Unsaved) = Len(batch) + Len(pending) /\ Len(batch) > 0 /\ Unsaved = pending
      BY <2>1, <2>2, <3>1, SavedSeq
    <3> QED BY <1>0, <3>2
  <2>4. chain'.seq \in Nat /\ Len(Unsaved) \in Nat
    BY <1>0 DEF Base, TypeOK, Cursor
  <2>5. chain'.seq <= chain.seq /\ chain.seq + Len(Unsaved) <= seq
    BY <1>1, <2>2, <2>3 DEF NumberedInv
  <2>6. chain'.seq + Len(Unsaved) <= seq
    BY <1>0, <2>4, <2>5
  <2> QED BY <2>2, <2>6 DEF NumberedInv
<1>3. ASSUME NEW o \in Outcomes, Extends(o) PROVE NumberedInv'
  <2>1. NewRow(o).seq = seq + 1 /\ Unsaved' = Append(Unsaved, NewRow(o)) /\ seq' = seq + 1 /\ alive
    BY <1>3 DEF Extends, NewRow
  <2>2. Len(Unsaved') = Len(Unsaved) + 1 /\ Unsaved'[Len(Unsaved) + 1] = NewRow(o)
        /\ \A i \in 1 .. Len(Unsaved) : Unsaved'[i] = Unsaved[i]
    BY <1>0, <2>1
  <2>3. ~Save
    BY <2>1 DEF Save, memory
  <2>4. chain.seq + Len(Unsaved) <= seq
        /\ \A i \in 1 .. Len(Unsaved) : Unsaved[i].seq = seq - Len(Unsaved) + i
    BY <2>1 DEF NumberedInv
  <2>5. chain'.seq + Len(Unsaved') <= seq'
    <3>1. chain'.seq \in Nat /\ Len(Unsaved) \in Nat
      BY <1>0 DEF Base, TypeOK, Cursor
    <3> QED BY <1>0, <1>1, <2>1, <2>2, <2>3, <2>4, <3>1
  <2>6. ASSUME NEW i \in 1 .. Len(Unsaved') PROVE Unsaved'[i].seq = seq' - Len(Unsaved') + i
    <3>1. CASE i \in 1 .. Len(Unsaved)
      <4>1. Unsaved'[i].seq = seq - Len(Unsaved) + i
        BY <2>2, <2>4, <3>1
      <4> QED BY <1>0, <2>1, <2>2, <3>1, <4>1
    <3>2. CASE i = Len(Unsaved) + 1
      BY <1>0, <2>1, <2>2, <3>2
    <3> QED BY <1>0, <2>2, <3>1, <3>2
  <2> QED BY <2>5, <2>6 DEF NumberedInv
<1>4. CASE Drops
  <2>1. alive /\ push = "answered" /\ UNCHANGED seq /\ Unsaved' = pending
    BY <1>4 DEF Drops
  <2>2. SavedCursor.seq = seq - Len(pending) /\ Len(Unsaved) = Len(batch) + Len(pending)
    BY <2>1, SavedSeq
  <2>3. chain'.seq + Len(pending) <= seq
    <3>1. chain.seq + Len(Unsaved) <= seq
      BY <2>1 DEF NumberedInv
    <3>2. Len(batch) \in Nat /\ Len(pending) \in Nat
      BY <1>0
    <3>3. chain'.seq \in Nat
      BY DEF Base, TypeOK, Cursor
    <3>4. chain' = SavedCursor \/ chain'.seq <= chain.seq
      BY <1>1
    <3> QED BY <1>0, <2>2, <3>1, <3>2, <3>3, <3>4
  <2>4. ASSUME NEW i \in 1 .. Len(pending) PROVE pending[i].seq = seq - Len(pending) + i
    <3>1. Len(batch) + i \in 1 .. Len(Unsaved) /\ Unsaved[Len(batch) + i] = pending[i]
      BY <1>0 DEF Unsaved
    <3>2. Unsaved[Len(batch) + i].seq = seq - Len(Unsaved) + (Len(batch) + i)
      BY <2>1, <3>1 DEF NumberedInv
    <3>3. seq - Len(Unsaved) + (Len(batch) + i) = seq - Len(pending) + i
      BY <1>0, <2>2
    <3> QED BY <3>1, <3>2, <3>3
  <2> QED BY <2>1, <2>3, <2>4 DEF NumberedInv
<1>5. CASE Turns
  <2>1. Start /\ Unsaved' = <<>>
    BY <1>5 DEF Turns
  <2>2. seq' = chain.seq /\ chain' = chain
    BY <2>1 DEF Start, Resume
  <2> QED BY <1>0, <2>1, <2>2 DEF NumberedInv
<1> QED BY <1>2, <1>3, <1>4, <1>5, Shapes

\* All that is used of a step.
Held == Base /\ AnsweredInv /\ NumberedInv

LEMMA AlwaysHeld == Spec => []Held
<1>1. Init => Held
  BY Initial DEF Init, IInv, Held, Base, AnsweredInv, NumberedInv
<1>2. Held /\ [Next]_vars => Held'
  BY BaseStep, AnsweredStep, NumberedStep DEF Held
<1> QED BY <1>1, <1>2, PTL DEF Spec

\* No row is lost between the queue, the push and the control plane while the
\* process lives (decisions.go:223-224, 239-245).
THEOREM NothingIsDropped == Spec => NothingDropped
<1>1. Held /\ Held' /\ [Next]_vars =>
        [alive' => Range(Unsaved) \subseteq Range(Unsaved') \cup cp' \cup refused']_vars
  <2> SUFFICES ASSUME Held, Held', [Next]_vars, alive'
               PROVE  Range(Unsaved) \subseteq Range(Unsaved') \cup cp' \cup refused'
    OBVIOUS
  <2>0. Base /\ Base' /\ Unsaved \in Seq(Row) /\ batch \in Seq(Row) /\ pending \in Seq(Row)
        /\ Range(Unsaved) = Range(batch) \cup Range(pending)
    BY UnsavedType DEF Held
  <2>1. CASE Keeps
    BY <2>1 DEF Keeps
  <2>2. ASSUME NEW o \in Outcomes, Extends(o) PROVE Range(Unsaved) \subseteq Range(Unsaved')
    <3>1. NewRow(o) \in Row
      BY <2>0, NewRowType DEF Base
    <3> QED BY <2>0, <2>2, <3>1, RangeAppend DEF Extends
  <2>3. CASE Drops
    <3>1. Range(batch) \subseteq cp \cup refused /\ Unsaved' = pending
      BY <2>3 DEF Drops, Held, AnsweredInv
    <3>2. cp \subseteq cp' /\ refused \subseteq refused'
      BY <2>0, RemoteStep, HistoryStep DEF Stored, Refused
    <3> QED BY <2>0, <3>1, <3>2
  <2>4. CASE Turns
    <3>1. ~alive
      BY <2>4 DEF Turns, Start
    <3>2. batch = <<>> /\ pending = <<>>
      BY <2>0, <3>1 DEF Base, Quiet
    <3>3. Range(batch) = {} /\ Range(pending) = {}
      BY <3>2 DEF Range
    <3> QED BY <2>0, <3>3
  <2> QED BY <2>0, <2>1, <2>2, <2>3, <2>4, Shapes
<1> QED BY <1>1, AlwaysHeld, PTL DEF Spec, NothingDropped

\* A restart never continues from an older row than one saved before, unless a
\* save was cut short (decisions.go:248-249).
THEOREM CursorNeverReturns == Spec => CursorAdvances
<1>1. Held /\ [Next]_vars => [chain' \in {chain, NoCursor} \/ chain'.seq > chain.seq]_vars
  <2> SUFFICES ASSUME Held, Save, chain' = SavedCursor PROVE chain'.seq > chain.seq
    BY ChainStep
  <2>1. Base /\ NumberedInv /\ alive /\ push = "answered"
    BY DEF Held, Save
  <2>2. SavedCursor.seq = seq - Len(pending) /\ Len(batch) > 0
        /\ Len(Unsaved) = Len(batch) + Len(pending)
    BY <2>1, SavedSeq
  <2>3. chain.seq + Len(Unsaved) <= seq
    BY <2>1 DEF NumberedInv
  <2>4. seq \in Nat /\ chain.seq \in Nat /\ Len(batch) \in Nat /\ Len(pending) \in Nat
    BY <2>1, UnsavedType DEF Base, TypeOK, Cursor
  <2> QED BY <2>2, <2>3, <2>4
<1> QED BY <1>1, AlwaysHeld, PTL DEF Spec, CursorAdvances
=============================================================================
