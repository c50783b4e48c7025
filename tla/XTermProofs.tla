----------------------------- MODULE XTermProofs -----------------------------
(***************************************************************************)
(* The terminal emulator: its selection, its write queue, its screen and   *)
(* the parser of its output, for any number of lines and chunks, any sizes *)
(* of the window, any scrollback, and any stream, cut anywhere.            *)
(***************************************************************************)
EXTENDS MCXTerm, SequenceTheorems, WellFoundedInduction, TLAPS

\* A number is found in every non-empty set of numbers that no other is below.
LEMMA Lowest ==
  ASSUME NEW S, S \subseteq Nat, S # {} PROVE \E n \in S : \A m \in S : n <= m
<1> DEFINE Below == {ss \in Nat \X Nat : ss[1] < ss[2]}
<1>1. IsWellFoundedOn(Below, Nat)
  BY NatLessThanWellFounded DEF OpToRel
<1> HIDE DEF Below
<1>2. PICK n \in S : \A m \in S : ~(<<m, n>> \in Below)
  BY <1>1, WFMin
<1>3. \A m \in S : ~(m < n)
  BY <1>2 DEF Below
<1> QED BY <1>3

\* A part of a sequence: the m elements behind the first a.
IsPart(t, s, S, a, m) ==
  /\ t \in Seq(S) /\ Len(t) = m
  /\ \A j \in 1 .. m : t[j] = s[a + j]

\* A part is what SubSeq takes out.
LEMMA Part ==
  ASSUME NEW S, NEW s \in Seq(S), NEW a \in Nat, NEW m \in Nat, a + m <= Len(s)
  PROVE  IsPart(SubSeq(s, a + 1, a + m), s, S, a, m)
<1>1. PICK e, f, l : e = a + m /\ f = a + 1 /\ l = Len(s)
  OBVIOUS
<1>2. l \in Nat
  BY <1>1
<1>3. f \in 1 .. l + 1 /\ e \in 0 .. l /\ f \in Int /\ e \in Int /\ e - f + 1 = m
  BY <1>1, <1>2
<1>4. \A j \in 1 .. m : f + j - 1 = a + j
  BY <1>1
<1>5. PICK t : t = SubSeq(s, f, e)
  OBVIOUS
<1>6. \A j \in f .. e : s[j] \in S
  <2>1. \A j \in f .. e : j \in 1 .. l
    BY <1>2, <1>3
  <2> QED BY <1>1, <2>1
<1>7. /\ t \in Seq(S) /\ Len(t) = IF f <= e THEN e - f + 1 ELSE 0
      /\ \A j \in 1 .. e - f + 1 : t[j] = s[f + j - 1]
  BY <1>3, <1>5, <1>6, SubSeqProperties
<1>8. Len(t) = m
  BY <1>1, <1>3, <1>7
<1>9. \A j \in 1 .. m : t[j] = s[a + j]
  BY <1>3, <1>4, <1>7
<1> QED BY <1>1, <1>5, <1>7, <1>8, <1>9 DEF IsPart

\* The first m elements, and what is behind the first n.
LEMMA FrontPart ==
  ASSUME NEW S, NEW s \in Seq(S), NEW m \in Nat, m <= Len(s)
  PROVE  IsPart(SubSeq(s, 1, m), s, S, 0, m)
<1>1. 0 + 1 = 1 /\ 0 + m = m /\ 0 \in Nat
  OBVIOUS
<1> QED BY <1>1, Part

\* See above.
LEMMA BackPart ==
  ASSUME NEW S, NEW s \in Seq(S), NEW n \in Nat, NEW l \in Nat, l = Len(s), n <= l
  PROVE  IsPart(SubSeq(s, n + 1, l), s, S, n, l - n)
<1>1. n + (l - n) = l /\ l - n \in Nat
  OBVIOUS
<1>2. n + (l - n) <= Len(s)
  BY <1>1
<1>3. IsPart(SubSeq(s, n + 1, n + (l - n)), s, S, n, l - n)
  BY <1>1, <1>2, Part
<1> QED BY <1>1, <1>3
-----------------------------------------------------------------------------
\* The selection.
Row == Nat \cup {-1}

\* Unless lines were moved: the start is on the line the gesture began on, or in
\* the first row when that has been trimmed, and the end on the one it ended on.
SelectionInv ==
  /\ first \in Nat /\ length \in Nat /\ maxLength \in Nat
  /\ from \in Nat /\ to \in Nat /\ below \in Nat
  /\ selectionStart \in Row /\ selectionEnd \in Row
  /\ ~moved /\ selectionStart # -1 =>
       /\ first + selectionStart >= from
       /\ selectionStart > 0 => first + selectionStart = from
  /\ ~moved /\ selectionEnd # -1 => first + selectionEnd = to
  /\ dragging /\ dragScroll # 0 /\ selectionEnd = -1 => selectionStart = -1

\* It begins so.
LEMMA SelectionInit == Selection!Init => SelectionInv
BY ListAssumption DEF Selection!Init, Selection!None, SelectionInv, Row

\* A selection that is made anew.
LEMMA Selects ==
  ASSUME SelectionInv, NEW start \in Row, NEW end \in Row, start # -1 \/ end = -1,
         Selection!Select(start, end), length' \in Nat, maxLength' \in Nat, first' = first,
         dragScroll' = 0 \/ dragging' = FALSE
  PROVE  SelectionInv'
<1>1. /\ first \in Nat
      /\ selectionStart' = start /\ selectionEnd' = end /\ below' = 0
      /\ from' = (IF start = -1 THEN 0 ELSE first + start)
      /\ to' = (IF end = -1 THEN from' ELSE first + end)
  BY DEF SelectionInv, Selection!Select, Selection!None
<1>2. from' \in Nat /\ to' \in Nat
  BY <1>1 DEF Row
<1>3. start # -1 => first + start >= from' /\ first + start = from'
  BY <1>1 DEF Row
<1> QED BY <1>1, <1>2, <1>3 DEF SelectionInv

\* The end of a selection moves to a row.
LEMMA EndMoves ==
  ASSUME SelectionInv, NEW row \in 0 .. length - 1, Selection!EndTo(row),
         UNCHANGED <<first, length, maxLength, selectionStart, below, from, moved>>
  PROVE  SelectionInv'
<1>1. row \in Nat /\ first \in Nat /\ selectionEnd' = row /\ to' = first + row
  BY DEF SelectionInv, Selection!EndTo
<1>2. first + row \in Nat /\ row # -1
  BY <1>1
<1> QED BY <1>1, <1>2 DEF SelectionInv, Row

\* Lines are trimmed, and onTrim counts the rows again.
LEMMA Trims ==
  ASSUME SelectionInv, NEW amount \in Nat, Selection!Trim(amount),
         length' \in Nat, maxLength' \in Nat, moved => moved',
         UNCHANGED <<dragging, dragScroll>>
  PROVE  SelectionInv'
<1>1. /\ first \in Nat /\ from \in Nat /\ to \in Nat /\ below \in Nat
      /\ selectionStart \in Row /\ selectionEnd \in Row
  BY DEF SelectionInv
<1>2. first' = first + amount /\ UNCHANGED <<from, to>>
  BY DEF Selection!Trim
<1>3. CASE selectionEnd # -1 /\ selectionEnd < amount
  <2>1. selectionStart' = -1 /\ selectionEnd' = -1 /\ below' = 0
    BY <1>3 DEF Selection!Trim, Selection!Trimmed, Selection!None
  <2> QED BY <1>1, <1>2, <2>1 DEF SelectionInv, Row
<1>4. CASE ~(selectionEnd # -1 /\ selectionEnd < amount)
  <2>1. /\ selectionStart' = IF selectionStart = -1 THEN -1
                             ELSE IF selectionStart < amount THEN 0 ELSE selectionStart - amount
        /\ selectionEnd' = IF selectionEnd = -1 THEN -1 ELSE selectionEnd - amount
        /\ below' = below
    BY <1>4 DEF Selection!Trim, Selection!Trimmed, Selection!None
  <2>2. selectionStart' \in Row /\ selectionEnd' \in Row /\ first' \in Nat
    BY <1>1, <1>2, <1>4, <2>1 DEF Row
  <2>3. ~moved' /\ selectionStart' # -1 =>
          /\ first' + selectionStart' >= from'
          /\ selectionStart' > 0 => first' + selectionStart' = from'
    BY <1>1, <1>2, <2>1 DEF SelectionInv, Row
  <2>4. ~moved' /\ selectionEnd' # -1 => first' + selectionEnd' = to'
    BY <1>1, <1>2, <2>1 DEF SelectionInv, Row
  <2>5. dragging' /\ dragScroll' # 0 /\ selectionEnd' = -1 => selectionStart' = -1
    BY <1>1, <1>4, <2>1 DEF SelectionInv, Row
  <2> QED BY <1>1, <1>2, <2>1, <2>2, <2>3, <2>4, <2>5 DEF SelectionInv
<1> QED BY <1>3, <1>4

\* Lines are added, or nothing is selected any more than moves.
LEMMA Keeps ==
  ASSUME SelectionInv, length' \in Nat, maxLength' \in Nat, moved => moved',
         UNCHANGED <<first, selectionStart, selectionEnd, below, from, to, dragging, dragScroll>>
  PROVE  SelectionInv'
BY DEF SelectionInv

\* What output and the window do to the lines.
LEMMA LinesChange ==
  ASSUME SelectionInv,
         \/ Selection!NewLine \/ Selection!MoveLines \/ Selection!EraseScrollback
         \/ Selection!Grow \/ Selection!Shrink
  PROVE  SelectionInv'
<1>1. length \in Nat /\ maxLength \in Nat /\ LongestList \in Nat
  BY ListAssumption DEF SelectionInv
<1>2. CASE Selection!NewLine
  <2>1. CASE length < maxLength /\ length' = length + 1
    BY <1>1, <1>2, <2>1, Keeps DEF Selection!NewLine, Selection!Pushed
  <2>2. CASE ~(length < maxLength /\ length' = length + 1)
    <3>1. Selection!Trim(1) /\ length' = length
      BY <1>2, <2>2 DEF Selection!NewLine, Selection!Pushed
    <3> QED BY <1>1, <1>2, <3>1, Trims DEF Selection!NewLine
  <2> QED BY <2>1, <2>2
<1>3. CASE Selection!MoveLines
  <2>1. UNCHANGED <<maxLength, dragging, dragScroll>> /\ (moved => moved')
    BY <1>3 DEF Selection!MoveLines
  <2>2. CASE Selection!Trim(1) /\ length' = length
    BY <1>1, <2>1, <2>2, Trims
  <2>3. CASE ~(Selection!Trim(1) /\ length' = length)
    <3>1. /\ length' = length + 1 \/ length' = length
          /\ UNCHANGED <<first, selectionStart, selectionEnd, below, from, to>>
      BY <1>3, <2>3 DEF Selection!MoveLines, Selection!Pushed
    <3> QED BY <1>1, <2>1, <3>1, Keeps
  <2> QED BY <2>2, <2>3
<1>4. CASE Selection!EraseScrollback
  <2>1. PICK amount \in 1 .. length - 1 : Selection!Trim(amount) /\ length' = length - amount
    BY <1>4 DEF Selection!EraseScrollback
  <2>2. amount \in Nat /\ length' \in Nat
    BY <1>1, <2>1
  <2> QED BY <1>1, <1>4, <2>1, <2>2, Trims DEF Selection!EraseScrollback
<1>5. CASE Selection!Grow
  <2>1. PICK max \in maxLength + 1 .. LongestList : maxLength' = max /\ length' \in length .. max
    BY <1>5 DEF Selection!Grow
  <2>2. maxLength' \in Nat /\ length' \in Nat
    BY <1>1, <2>1
  <2> QED BY <1>5, <2>2, Keeps DEF Selection!Grow, Selection!selection
<1>6. CASE Selection!Shrink
  <2>1. PICK max \in 1 .. maxLength - 1, kept \in 1 .. length :
          /\ maxLength' = max
          /\ Selection!Trim(IF kept > max THEN kept - max ELSE 0)
          /\ length' = (IF kept > max THEN max ELSE kept)
          /\ moved' = (moved \/ selectionStart + below >= kept \/ selectionEnd >= kept)
    BY <1>6 DEF Selection!Shrink
  <2>2. PICK amount : amount = IF kept > max THEN kept - max ELSE 0
    OBVIOUS
  <2>3. amount \in Nat /\ maxLength' \in Nat /\ length' \in Nat
    BY <1>1, <2>1, <2>2
  <2>4. Selection!Trim(amount) /\ (moved => moved')
    BY <2>1, <2>2
  <2> QED BY <1>6, <2>3, <2>4, Trims DEF Selection!Shrink
<1> QED BY <1>2, <1>3, <1>4, <1>5, <1>6

\* The listeners of the mouse and the timer of a drag.
LEMMA SelectionStepInv == SelectionInv /\ [Selection!Next]_(Selection!vars) => SelectionInv'
<1> SUFFICES ASSUME SelectionInv, [Selection!Next]_(Selection!vars) PROVE SelectionInv'
  OBVIOUS
<1> USE DEF Selection!RowsOf, Selection!None, Selection!lines
<1>1. /\ 0 .. length - 1 \subseteq Row /\ \A row \in 0 .. length - 1 : row # -1
      /\ length \in Nat /\ maxLength \in Nat /\ -1 \in Row
  BY DEF SelectionInv, Row
<1>2. CASE Selection!_onSingleClick
  <2>1. PICK row \in 0 .. length - 1 : Selection!Select(row, -1)
    BY <1>2 DEF Selection!_onSingleClick
  <2> QED BY <1>1, <1>2, <2>1, Selects DEF Selection!_onSingleClick, Selection!Press
<1>3. CASE Selection!_onDoubleClick
  <2>1. /\ dragScroll' = 0
        /\ UNCHANGED <<first, length, maxLength, selectionEnd, to, moved>>
    BY <1>3 DEF Selection!_onDoubleClick, Selection!Press
  <2>2. CASE UNCHANGED <<selectionStart, from, below>>
    BY <2>1, <2>2 DEF SelectionInv
  <2>3. CASE ~UNCHANGED <<selectionStart, from, below>>
    <3>1. PICK row \in 0 .. length - 1 :
            selectionStart' = row /\ from' = first + row /\ below' \in {0, 1}
      BY <1>3, <2>3 DEF Selection!_onDoubleClick
    <3>2. row \in Nat /\ first \in Nat
      BY <1>1, <3>1 DEF SelectionInv
    <3>3. from' \in Nat /\ selectionStart' \in Row /\ below' \in Nat
      BY <3>1, <3>2 DEF Row
    <3> QED BY <2>1, <3>1, <3>2, <3>3 DEF SelectionInv
  <2> QED BY <2>2, <2>3
<1>4. CASE Selection!_onTripleClick
  <2>1. PICK top \in 0 .. length - 1, bottom \in 0 .. length - 1 : Selection!Select(top, bottom)
    BY <1>4 DEF Selection!_onTripleClick
  <2> QED BY <1>1, <1>4, <2>1, Selects DEF Selection!_onTripleClick, Selection!Press
<1>5. CASE Selection!_onIncrementalClick
  <2>1. CASE selectionStart = -1
    BY <1>5, <2>1
    DEF Selection!_onIncrementalClick, Selection!Press, Selection!selection, SelectionInv
  <2>2. CASE selectionStart # -1
    BY <1>5, <2>2, EndMoves DEF Selection!_onIncrementalClick
  <2> QED BY <2>1, <2>2
<1>6. CASE Selection!_onMouseMove
  BY <1>6, EndMoves DEF Selection!_onMouseMove
<1>7. CASE Selection!_dragScroll
  <2>1. CASE selectionEnd = -1
    BY <1>7, <2>1 DEF Selection!_dragScroll, Selection!selection, SelectionInv
  <2>2. CASE selectionEnd # -1
    BY <1>7, <2>2, EndMoves DEF Selection!_dragScroll
  <2> QED BY <2>1, <2>2
<1>8. CASE Selection!_onMouseUp
  BY <1>8 DEF Selection!_onMouseUp, Selection!selection, SelectionInv
<1>9. CASE Selection!clearSelection
  BY <1>1, <1>9, Selects DEF Selection!clearSelection
<1>10. CASE Selection!_onBufferActivate
  <2>1. maxLength' \in Nat /\ length' \in Nat
    BY <1>10, ListAssumption DEF Selection!_onBufferActivate
  <2> QED BY <1>1, <1>10, <2>1, Selects DEF Selection!_onBufferActivate
<1>11. CASE \/ Selection!NewLine \/ Selection!MoveLines \/ Selection!EraseScrollback
            \/ Selection!Grow \/ Selection!Shrink
  BY <1>11, LinesChange
<1>12. CASE UNCHANGED Selection!vars
  BY <1>12 DEF Selection!vars, Selection!selection, SelectionInv
<1> QED
  BY <1>2, <1>3, <1>4, <1>5, <1>6, <1>7, <1>8, <1>9, <1>10, <1>11, <1>12 DEF Selection!Next

\* Every state of a selection.
LEMMA SelectionInvariant == Selection!Spec => []SelectionInv
BY SelectionInit, SelectionStepInv, PTL DEF Selection!Spec

(***************************************************************************)
(* However many lines are trimmed while the mouse is dragged, and as long  *)
(* as none were moved or popped under it: what is selected lies between    *)
(* the lines the gesture began and ended on (SelectionModel.onTrim).       *)
(***************************************************************************)
THEOREM SelectionOnItsLines == Selection!Spec => []OnItsLines
<1>1. SelectionInv => OnItsLines
  <2> SUFFICES ASSUME SelectionInv, ~moved, selectionStart # -1, selectionEnd # -1
               PROVE  /\ first + Selection!FinalStart >= (IF from < to THEN from ELSE to)
                      /\ first + Selection!FinalEnd <= (IF from < to THEN to ELSE from + below)
    BY DEF OnItsLines, Selection!OnItsLines, Selection!None
  <2>1. /\ first \in Nat /\ from \in Nat /\ to \in Nat /\ below \in Nat
        /\ selectionStart \in Nat /\ selectionEnd \in Nat
        /\ first + selectionStart >= from /\ first + selectionEnd = to
        /\ selectionStart > 0 => first + selectionStart = from
    BY DEF SelectionInv, Row
  <2> QED BY <2>1 DEF Selection!FinalStart, Selection!FinalEnd, Selection!Reversed, Selection!None
<1> QED BY <1>1, SelectionInvariant, PTL

(***************************************************************************)
(* A mouse listener raises a TypeError only where no selection was begun   *)
(* or a resize has taken a selected row: the timer of a drag never         *)
(* outlives the end it moves (_onMouseMove, _dragScroll and selectionText  *)
(* of SelectionManager).                                                   *)
(***************************************************************************)
THEOREM ListenersFailWithoutRows == Selection!Spec => FailsWithoutRows
<1>1. SelectionInv /\ [Selection!Next]_(Selection!vars)
        => [failures' # failures =>
              selectionStart = Selection!None \/ Selection!RowMissing']_(Selection!vars)
  <2> SUFFICES ASSUME SelectionInv, Selection!Next, failures' # failures, ~Selection!RowMissing'
               PROVE  selectionStart = -1
    BY DEF Selection!vars, Selection!None
  <2>1. ~(UNCHANGED failures) /\ ~Selection!ReadText
    BY DEF Selection!ReadText
  <2>2. Selection!_onMouseMove \/ Selection!_dragScroll
    BY <2>1
    DEF Selection!Next, Selection!NewLine, Selection!MoveLines, Selection!EraseScrollback,
        Selection!Grow, Selection!Shrink, Selection!_onSingleClick, Selection!_onDoubleClick,
        Selection!_onTripleClick, Selection!_onIncrementalClick, Selection!_onMouseUp,
        Selection!clearSelection, Selection!_onBufferActivate
  <2> QED
    BY <2>1, <2>2
    DEF Selection!_onMouseMove, Selection!_dragScroll, Selection!None, SelectionInv
<1> QED
  BY <1>1, SelectionInvariant, PTL
     DEF FailsWithoutRows, Selection!FailsWithoutRows, Selection!Spec
-----------------------------------------------------------------------------
\* The write queue.
Chunk == [n : Nat, kind : Write!Kinds]

\* The numbers of the chunks from place a to place z of a queue.
NumbersOf(q, a, z) == {q[j].n : j \in a .. z}

\* The numbers rise through what was handled and what waits.
Rising ==
  /\ \A i, j \in 1 .. Len(writeBuffer) : i < j => writeBuffer[i].n < writeBuffer[j].n
  /\ \A i \in 1 .. Len(handled), j \in 1 .. Len(writeBuffer) : handled[i] < writeBuffer[j].n
  /\ \A i, j \in 1 .. Len(handled) : i < j => handled[i] < handled[j]

\* A terminal is frozen by a chunk that was lost.
WriteInv ==
  /\ writes \in Nat /\ writeBuffer \in Seq(Chunk) /\ handled \in Seq(Nat)
  /\ writeInProgress \in BOOLEAN /\ timer \in BOOLEAN
  /\ Rising
  /\ 1 .. writes = ToSet(handled) \cup Write!Numbers(writeBuffer) \cup lost
  /\ lost \cap (ToSet(handled) \cup Write!Numbers(writeBuffer)) = {}
  /\ writeBuffer # <<>> => timer \/ Write!Frozen
  /\ Write!Frozen => lost # {}

\* A piece of a queue: the m chunks behind the first a.
IsPiece(s, q, a, m) ==
  /\ s \in Seq(Chunk) /\ Len(s) = m /\ DOMAIN s = 1 .. m
  /\ \A j \in 1 .. m : s[j] = q[a + j]
  /\ Write!Numbers(s) = NumbersOf(q, a + 1, a + m)

\* A piece is what SubSeq takes out.
LEMMA Piece ==
  ASSUME NEW q \in Seq(Chunk), NEW a \in Nat, NEW m \in Nat, a + m <= Len(q)
  PROVE  IsPiece(SubSeq(q, a + 1, a + m), q, a, m)
<1>1. PICK z, f, l : z = a + m /\ f = a + 1 /\ l = Len(q)
  OBVIOUS
<1>2. l \in Nat
  BY <1>1
<1>3. f \in Nat \ {0} /\ z \in 0 .. l /\ z \in Nat /\ z - f + 1 = m
  BY <1>1, <1>2
<1>4. \A j \in 1 .. m : f + j - 1 = a + j /\ a + j \in f .. z
  BY <1>1
<1>5. \A j \in f .. z : j - a \in 1 .. m /\ a + (j - a) = j
  BY <1>1
<1>s. PICK s : s = SubSeq(q, f, z)
  OBVIOUS
<1>r. f \in 1 .. l + 1 /\ z \in f - 1 .. l
  BY <1>1, <1>2
<1>t. /\ s \in Seq(Chunk) /\ Len(s) = m /\ DOMAIN s = 1 .. m
      /\ \A j \in 1 .. m : s[j] = q[f + j - 1]
  <2>1. f \in 1 .. Len(q) + 1 /\ z \in f - 1 .. Len(q)
    BY <1>1, <1>r
  <2>2. /\ SubSeq(q, f, z) \in Seq(Chunk) /\ Len(SubSeq(q, f, z)) = z - f + 1
        /\ \A j \in 1 .. z - f + 1 : SubSeq(q, f, z)[j] = q[f + j - 1]
    BY <2>1
  <2>3. /\ s \in Seq(Chunk) /\ Len(s) = m
        /\ \A j \in 1 .. m : s[j] = q[f + j - 1]
    BY <1>3, <1>s, <2>2
  <2> QED BY <2>3
<1>6. \A j \in 1 .. m : s[j] = q[a + j]
  BY <1>t, <1>4
<1>7. Write!Numbers(s) \subseteq NumbersOf(q, f, z)
  <2> SUFFICES ASSUME NEW x \in Write!Numbers(s) PROVE x \in NumbersOf(q, f, z)
    OBVIOUS
  <2>1. PICK j \in 1 .. m : x = s[j].n
    BY <1>t DEF Write!Numbers
  <2>2. x = q[a + j].n /\ a + j \in f .. z
    BY <1>4, <1>6, <2>1
  <2> QED BY <2>2 DEF NumbersOf
<1>8. ASSUME NEW j \in f .. z PROVE q[j].n \in Write!Numbers(s)
  <2>1. j - a \in 1 .. m /\ s[j - a] = q[j]
    BY <1>5, <1>6
  <2> QED BY <1>t, <2>1 DEF Write!Numbers
<1>9. Write!Numbers(s) = NumbersOf(q, f, z)
  BY <1>7, <1>8 DEF NumbersOf
<1> QED BY <1>1, <1>s, <1>t, <1>6, <1>9 DEF IsPiece

\* Splitting a queue in two splits its numbers.
LEMMA Split ==
  ASSUME NEW q, NEW a \in Nat, NEW z \in Nat, NEW c \in Nat, a <= z + 1, z <= c
  PROVE  NumbersOf(q, a, c) = NumbersOf(q, a, z) \cup NumbersOf(q, z + 1, c)
<1>1. \A j : j \in a .. c <=> j \in a .. z \/ j \in z + 1 .. c
  OBVIOUS
<1> QED BY <1>1 DEF NumbersOf

\* A chunk is written.
LEMMA WriteStepInv == ASSUME WriteInv, Write!write PROVE WriteInv'
<1>1. /\ writes \in Nat /\ writeBuffer \in Seq(Chunk) /\ handled \in Seq(Nat)
      /\ writeInProgress \in BOOLEAN /\ timer \in BOOLEAN
      /\ Rising
      /\ 1 .. writes = ToSet(handled) \cup Write!Numbers(writeBuffer) \cup lost
      /\ lost \cap (ToSet(handled) \cup Write!Numbers(writeBuffer)) = {}
  BY DEF WriteInv
<1>2. PICK kind \in Write!Kinds :
        writeBuffer' = Append(writeBuffer, [n |-> writes + 1, kind |-> kind])
  BY DEF Write!write
<1>3. PICK c, m, k : c = [n |-> writes + 1, kind |-> kind] /\ m = writes + 1
                     /\ k = Len(writeBuffer)
  OBVIOUS
<1>4. m \in Nat /\ c \in Chunk /\ c.n = m /\ k \in Nat /\ writes' = m
  BY <1>1, <1>3 DEF Chunk, Write!write
<1>5. /\ writeBuffer' \in Seq(Chunk) /\ Len(writeBuffer') = k + 1
      /\ DOMAIN writeBuffer' = 1 .. k + 1 /\ DOMAIN writeBuffer = 1 .. k
      /\ writeBuffer'[k + 1] = c
      /\ \A j \in 1 .. k : writeBuffer'[j] = writeBuffer[j]
  BY <1>1, <1>2, <1>3, <1>4
<1>6. \A j \in 1 .. k + 1 : j \in 1 .. k \/ j = k + 1
  BY <1>4
<1>7. Write!Numbers(writeBuffer') = Write!Numbers(writeBuffer) \cup {m}
  <2>1. \A j \in 1 .. k : j \in 1 .. k + 1
    BY <1>4
  <2>2. k + 1 \in 1 .. k + 1
    BY <1>4
  <2> QED BY <1>4, <1>5, <1>6, <2>1, <2>2 DEF Write!Numbers
<1>8. \A n \in 1 .. writes : n \in Nat /\ n < m
  BY <1>1, <1>3
<1>9. UNCHANGED <<handled, lost>>
  BY DEF Write!write
<1>10. \A j \in 1 .. Len(handled) : handled[j] \in Nat /\ handled[j] < m
  <2>1. \A j \in 1 .. Len(handled) : handled[j] \in ToSet(handled)
    BY <1>1 DEF ToSet
  <2> QED BY <1>1, <1>8, <2>1
<1>11. \A j \in 1 .. k : writeBuffer[j].n \in Nat /\ writeBuffer[j].n < m
  <2>1. \A j \in 1 .. k : writeBuffer[j].n \in Write!Numbers(writeBuffer)
    BY <1>5 DEF Write!Numbers
  <2> QED BY <1>1, <1>8, <2>1
<1>12. Rising'
  <2>1. \A i, j \in 1 .. k + 1 : i < j => writeBuffer'[i].n < writeBuffer'[j].n
    <3> SUFFICES ASSUME NEW i \in 1 .. k + 1, NEW j \in 1 .. k + 1, i < j
                 PROVE  writeBuffer'[i].n < writeBuffer'[j].n
      OBVIOUS
    <3>1. i \in 1 .. k
      BY <1>4
    <3>2. CASE j \in 1 .. k
      BY <1>1, <1>3, <1>5, <3>1, <3>2 DEF Rising
    <3>3. CASE j = k + 1
      BY <1>4, <1>5, <1>11, <3>1, <3>3
    <3> QED BY <1>6, <3>2, <3>3
  <2>2. \A i \in 1 .. Len(handled'), j \in 1 .. k + 1 : handled'[i] < writeBuffer'[j].n
    <3>1. Len(handled') = Len(handled) /\ handled' = handled
      BY <1>9
    <3>2. \A i \in 1 .. Len(handled), j \in 1 .. k : handled[i] < writeBuffer[j].n
      BY <1>1, <1>3 DEF Rising
    <3>3. \A i \in 1 .. Len(handled), j \in 1 .. k : handled[i] < writeBuffer'[j].n
      BY <1>5, <3>2
    <3>4. \A i \in 1 .. Len(handled) : handled[i] < writeBuffer'[k + 1].n
      BY <1>4, <1>5, <1>10
    <3>5. \A i \in 1 .. Len(handled), j \in 1 .. k + 1 : handled[i] < writeBuffer'[j].n
      BY <1>6, <3>3, <3>4
    <3> QED BY <3>1, <3>5
  <2> QED BY <1>1, <1>5, <1>9, <2>1, <2>2 DEF Rising
<1>13. 1 .. writes' = ToSet(handled)' \cup Write!Numbers(writeBuffer)' \cup lost'
  <2>1. 1 .. m = 1 .. writes \cup {m}
    BY <1>1, <1>3
  <2> QED BY <1>1, <1>4, <1>7, <1>9, <2>1
<1>14. lost' \cap (ToSet(handled)' \cup Write!Numbers(writeBuffer)') = {}
  <2>1. m \notin lost
    BY <1>1, <1>4, <1>8
  <2> QED BY <1>1, <1>7, <1>9, <2>1
<1>15. writeInProgress' = TRUE /\ timer' = (timer \/ ~writeInProgress)
  BY DEF Write!write
<1>16. timer' \in BOOLEAN /\ writeInProgress' \in BOOLEAN
  BY <1>15
<1>17. /\ timer' \/ Write!Frozen'
       /\ Write!Frozen' => lost' # {}
  BY <1>9, <1>15 DEF WriteInv, Write!Frozen
<1> QED BY <1>1, <1>4, <1>5, <1>9, <1>12, <1>13, <1>14, <1>16, <1>17 DEF WriteInv

\* The chunks of a batch that throw, the place of the first (or the one behind the
\* batch), and whether a reset is among chunks.
Throws(batch) == {i \in DOMAIN batch : batch[i].kind = "throws"}
EndOf(batch) ==
  IF Throws(batch) = {} THEN Len(batch) + 1
  ELSE CHOOSE i \in Throws(batch) : \A j \in Throws(batch) : i <= j
HasReset(chunks) == \E i \in DOMAIN chunks : chunks[i].kind = "reset"

\* A batch of sz chunks, the first that throws (or the place behind it), and the rest.
IsBatch(q, batch, bad, end, rest, sz) ==
  /\ sz \in 0 .. Len(q) /\ end \in 1 .. sz + 1
  /\ IsPiece(batch, q, 0, sz)
  /\ bad # {} => end <= sz
  /\ IsPiece(rest, q, sz, Len(q) - sz)

\* What _innerWrite takes from the queue is a batch.
LEMMA BatchParts ==
  ASSUME NEW q \in Seq(Chunk), NEW batch, batch = Write!Batch(q),
         NEW bad, bad = Throws(batch), NEW end, end = EndOf(batch)
  PROVE  \E sz \in Nat : IsBatch(q, batch, bad, end, Write!Rest(q), sz)
<1>1. PICK l, w : l = Len(q) /\ w = WRITE_BATCH_SIZE
  OBVIOUS
<1>2. l \in Nat /\ w \in Nat \ {0}
  BY <1>1, BatchAssumption
<1>3. PICK sz : sz = IF l < w THEN l ELSE w
  OBVIOUS
<1>4. sz \in 0 .. l /\ sz \in Nat /\ l - sz \in Nat
  BY <1>2, <1>3
<1>5. batch = SubSeq(q, 1, sz)
  BY <1>1, <1>3 DEF Write!Batch, Write!Size
<1>6. IsPiece(batch, q, 0, sz)
  <2>1. 0 + 1 = 1 /\ 0 + sz = sz /\ 0 + sz <= Len(q) /\ 0 \in Nat
    BY <1>1, <1>2, <1>4
  <2>2. IsPiece(SubSeq(q, 0 + 1, 0 + sz), q, 0, sz)
    BY <1>4, <2>1, Piece
  <2> QED BY <1>5, <2>1, <2>2
<1>7. bad \subseteq 1 .. sz /\ Len(batch) = sz
  BY <1>6 DEF IsPiece, Throws
<1>8. bad # {} => end \in bad
  <2> SUFFICES ASSUME bad # {} PROVE end \in bad
    OBVIOUS
  <2>1. bad \subseteq Nat
    BY <1>4, <1>7
  <2>2. \E j \in bad : \A k \in bad : j <= k
    BY <2>1, Lowest
  <2> QED BY <2>2 DEF EndOf
<1>9. end \in 1 .. sz + 1 /\ (bad # {} => end <= sz)
  <2>1. CASE bad = {}
    BY <1>2, <1>4, <1>7, <2>1 DEF EndOf
  <2>2. CASE bad # {}
    BY <1>2, <1>4, <1>7, <1>8, <2>2
  <2> QED BY <2>1, <2>2
<1>10. PICK rest : rest = SubSeq(q, w + 1, l)
  OBVIOUS
<1>11. IsPiece(rest, q, sz, l - sz)
  <2>1. CASE l < w
    <3>1. rest = <<>>
      BY <1>1, <1>2, <1>10, <2>1
    <3>2. l - sz = 0 /\ sz + 1 .. sz + (l - sz) = {} /\ 1 .. l - sz = {}
      BY <1>2, <1>3, <2>1
    <3>3. rest \in Seq(Chunk) /\ Len(rest) = 0 /\ DOMAIN rest = {}
      BY <3>1
    <3>4. Write!Numbers(rest) = {} /\ NumbersOf(q, sz + 1, sz + (l - sz)) = {}
      BY <3>2, <3>3 DEF Write!Numbers, NumbersOf
    <3> QED BY <3>2, <3>3, <3>4 DEF IsPiece
  <2>2. CASE ~(l < w)
    <3>1. sz = w /\ sz + (l - sz) = l /\ sz + (l - sz) <= Len(q)
      BY <1>1, <1>2, <1>3, <2>2
    <3>2. IsPiece(SubSeq(q, sz + 1, sz + (l - sz)), q, sz, l - sz)
      BY <1>4, <3>1, Piece
    <3> QED BY <1>10, <3>1, <3>2
  <2> QED BY <2>1, <2>2
<1>12. Write!Rest(q) = rest
  BY <1>1, <1>10 DEF Write!Rest
<1> QED BY <1>1, <1>4, <1>6, <1>9, <1>11, <1>12 DEF IsBatch

\* The chunks of a batch that are handled, and those that an exception loses.
Done(q) == SubSeq(Write!Batch(q), 1, EndOf(Write!Batch(q)) - 1)
Skipped(q) == SubSeq(Write!Batch(q), EndOf(Write!Batch(q)), Len(Write!Batch(q)))
Waits(q) == IF HasReset(Done(q)) THEN <<>> ELSE Write!Rest(q)

\* What _innerWrite does, in these terms.
LEMMA InnerWriteDoes ==
  ASSUME Write!_innerWrite
  PROVE  /\ writeBuffer' = Waits(writeBuffer)
         /\ handled' = handled \o [i \in DOMAIN Done(writeBuffer) |-> Done(writeBuffer)[i].n]
         /\ lost' = lost \cup Write!Numbers(Skipped(writeBuffer))
                         \cup (IF HasReset(Done(writeBuffer))
                               THEN Write!Numbers(Write!Rest(writeBuffer)) ELSE {})
         /\ timer' = (Throws(Write!Batch(writeBuffer)) = {} /\ Waits(writeBuffer) # <<>>)
         /\ writeInProgress' = IF Throws(Write!Batch(writeBuffer)) = {}
                               THEN Waits(writeBuffer) # <<>>
                               ELSE ~HasReset(Done(writeBuffer))
         /\ writes' = writes
  BY ZenonT(30) DEF Write!_innerWrite, Waits, Done, Skipped, HasReset, EndOf, Throws

\* A batch is handled.
LEMMA InnerWriteStepInv == ASSUME WriteInv, Write!_innerWrite PROVE WriteInv'
<1>1. /\ writes \in Nat /\ writeBuffer \in Seq(Chunk) /\ handled \in Seq(Nat)
      /\ Rising
      /\ 1 .. writes = ToSet(handled) \cup Write!Numbers(writeBuffer) \cup lost
      /\ lost \cap (ToSet(handled) \cup Write!Numbers(writeBuffer)) = {}
  BY DEF WriteInv
<1>2. PICK q, batch : q = writeBuffer /\ batch = Write!Batch(q)
  OBVIOUS
<1>3. PICK bad : bad = Throws(batch)
  OBVIOUS
<1>4. PICK end : end = EndOf(batch)
  OBVIOUS
<1>5. PICK done, skipped, rest :
        /\ done = SubSeq(batch, 1, end - 1)
        /\ skipped = SubSeq(batch, end, Len(batch))
        /\ rest = Write!Rest(q)
  OBVIOUS
<1>7. PICK queue : queue = IF HasReset(done) THEN <<>> ELSE rest
  OBVIOUS
<1>8. /\ writeBuffer' = queue
      /\ handled' = handled \o [j \in DOMAIN done |-> done[j].n]
      /\ lost' = lost \cup Write!Numbers(skipped)
                      \cup (IF HasReset(done) THEN Write!Numbers(rest) ELSE {})
      /\ timer' = (bad = {} /\ queue # <<>>)
      /\ writeInProgress' = IF bad = {} THEN queue # <<>> ELSE ~HasReset(done)
      /\ writes' = writes
  <2>1. /\ Done(writeBuffer) = done /\ Skipped(writeBuffer) = skipped
        /\ Waits(writeBuffer) = queue /\ Write!Rest(writeBuffer) = rest
        /\ Throws(Write!Batch(writeBuffer)) = bad
    BY <1>2, <1>3, <1>4, <1>5, <1>7 DEF Done, Skipped, Waits
  <2>2. writeBuffer' = queue /\ writes' = writes
    BY <2>1, InnerWriteDoes
  <2>3. handled' = handled \o [j \in DOMAIN done |-> done[j].n]
    BY <2>1, InnerWriteDoes
  <2>4. lost' = lost \cup Write!Numbers(skipped)
                     \cup (IF HasReset(done) THEN Write!Numbers(rest) ELSE {})
    BY <2>1, InnerWriteDoes
  <2>5. timer' = (bad = {} /\ queue # <<>>)
    BY <2>1, InnerWriteDoes
  <2>6. writeInProgress' = IF bad = {} THEN queue # <<>> ELSE ~HasReset(done)
    BY <2>1, InnerWriteDoes
  <2> QED BY <2>2, <2>3, <2>4, <2>5, <2>6
<1>9. PICK l : l = Len(q)
  OBVIOUS
<1>10. q \in Seq(Chunk) /\ l \in Nat
  BY <1>1, <1>2, <1>9
<1>11. PICK sz \in Nat : IsBatch(q, batch, bad, end, rest, sz)
  <2>1. \E sz \in Nat : IsBatch(q, batch, bad, end, Write!Rest(q), sz)
    BY <1>2, <1>3, <1>4, <1>10, BatchParts
  <2> QED BY <1>5, <2>1
<1>12. /\ sz \in 0 .. l /\ end \in 1 .. sz + 1 /\ (bad # {} => end <= sz)
       /\ IsPiece(batch, q, 0, sz) /\ IsPiece(rest, q, sz, l - sz)
  BY <1>9, <1>11 DEF IsBatch
<1>13. PICK k : k = end - 1
  OBVIOUS
<1>14. k \in 0 .. sz /\ k \in Nat /\ end = k + 1 /\ sz - k \in Nat /\ l - sz \in Nat
       /\ k + (sz - k) = sz /\ sz + (l - sz) = l
  BY <1>10, <1>12, <1>13
<1>15. /\ rest \in Seq(Chunk) /\ Len(rest) = l - sz
       /\ \A j \in 1 .. l - sz : rest[j] = q[sz + j]
       /\ Write!Numbers(rest) = NumbersOf(q, sz + 1, l)
  BY <1>12, <1>14 DEF IsPiece
<1>b. /\ batch \in Seq(Chunk) /\ Len(batch) = sz
      /\ \A j \in 1 .. sz : batch[j] = q[j]
  <2>1. \A j \in 1 .. sz : 0 + j = j
    OBVIOUS
  <2> QED BY <1>12, <2>1 DEF IsPiece
<1>d. /\ DOMAIN done = 1 .. k
      /\ \A j \in 1 .. k : done[j] = q[j]
  <2>1. 0 + 1 = 1 /\ 0 + k = k /\ 0 + k <= Len(batch) /\ 0 \in Nat
    BY <1>14, <1>b
  <2>2. IsPiece(SubSeq(batch, 0 + 1, 0 + k), batch, 0, k)
    BY <1>14, <1>b, <2>1, Piece
  <2>3. IsPiece(done, batch, 0, k)
    BY <1>5, <1>13, <2>1, <2>2
  <2>4. \A j \in 1 .. k : 0 + j = j /\ j \in 1 .. sz
    BY <1>14
  <2> QED BY <1>b, <2>3, <2>4 DEF IsPiece
<1>s. Write!Numbers(skipped) = NumbersOf(q, k + 1, sz)
  <2>1. k + (sz - k) <= Len(batch)
    BY <1>14, <1>b
  <2>2. IsPiece(SubSeq(batch, k + 1, k + (sz - k)), batch, k, sz - k)
    BY <1>14, <1>b, <2>1, Piece
  <2>3. Write!Numbers(skipped) = NumbersOf(batch, k + 1, sz)
    BY <1>5, <1>14, <1>b, <2>2 DEF IsPiece
  <2>4. \A j \in k + 1 .. sz : j \in 1 .. sz
    BY <1>14
  <2> QED BY <1>b, <2>3, <2>4 DEF NumbersOf
<1>16. PICK new : new = [j \in 1 .. k |-> q[j].n]
  OBVIOUS
<1>17. \A j \in 1 .. l : q[j] \in Chunk /\ q[j].n \in Nat
  <2>1. \A j \in 1 .. l : q[j] \in Chunk
    BY <1>9, <1>10
  <2> QED BY <2>1 DEF Chunk
<1>18. \A j \in 1 .. k : j \in 1 .. l
  BY <1>10, <1>12, <1>14
<1>19. new \in Seq(Nat) /\ Len(new) = k /\ \A j \in 1 .. k : new[j] = q[j].n
  BY <1>14, <1>16, <1>17, <1>18
<1>20. handled' = handled \o new
  BY <1>8, <1>16, <1>d
<1>21. PICK h : h = Len(handled)
  OBVIOUS
<1>22. /\ h \in Nat /\ handled' \in Seq(Nat) /\ Len(handled') = h + k
       /\ \A j \in 1 .. h + k : handled'[j] = IF j <= h THEN handled[j] ELSE new[j - h]
  <2>1. /\ handled \o new \in Seq(Nat) /\ Len(handled \o new) = Len(handled) + Len(new)
        /\ \A j \in 1 .. Len(handled) + Len(new) :
             (handled \o new)[j] = IF j <= Len(handled) THEN handled[j]
                                   ELSE new[j - Len(handled)]
    <3>1. handled \in Seq(Nat) /\ new \in Seq(Nat)
      BY <1>1, <1>19
    <3> QED BY <3>1, ConcatProperties
  <2> QED BY <1>1, <1>19, <1>20, <1>21, <2>1
<1>23. ToSet(handled') = ToSet(handled) \cup NumbersOf(q, 1, k)
  <2>1. DOMAIN handled' = 1 .. h + k /\ DOMAIN handled = 1 .. h
    BY <1>1, <1>21, <1>22
  <2>2. ASSUME NEW j \in 1 .. h + k PROVE handled'[j] \in ToSet(handled) \cup NumbersOf(q, 1, k)
    <3>1. CASE j <= h
      <4>1. j \in 1 .. h /\ handled'[j] = handled[j]
        BY <1>22, <2>2, <3>1
      <4> QED BY <2>1, <4>1 DEF ToSet
    <3>2. CASE ~(j <= h)
      <4>1. j - h \in 1 .. k
        BY <1>14, <1>22, <2>2, <3>2
      <4> QED BY <1>19, <1>22, <2>2, <3>2, <4>1 DEF NumbersOf
    <3> QED BY <3>1, <3>2
  <2>3. ASSUME NEW j \in 1 .. h PROVE handled[j] \in ToSet(handled')
    <3>1. j \in 1 .. h + k /\ handled'[j] = handled[j]
      BY <1>14, <1>22
    <3> QED BY <2>1, <3>1 DEF ToSet
  <2>4. ASSUME NEW j \in 1 .. k PROVE q[j].n \in ToSet(handled')
    <3>1. h + j \in 1 .. h + k /\ ~(h + j <= h) /\ (h + j) - h = j
      BY <1>14, <1>22
    <3>2. handled'[h + j] = q[j].n
      BY <1>19, <1>22, <3>1
    <3> QED BY <2>1, <3>1, <3>2 DEF ToSet
  <2>5. ToSet(handled') \subseteq ToSet(handled) \cup NumbersOf(q, 1, k)
    BY <2>1, <2>2 DEF ToSet
  <2>6. ToSet(handled) \subseteq ToSet(handled')
    BY <2>1, <2>3 DEF ToSet
  <2>7. NumbersOf(q, 1, k) \subseteq ToSet(handled')
    BY <2>4 DEF NumbersOf
  <2> QED BY <2>5, <2>6, <2>7
<1>24. PICK A, B, C : /\ A = NumbersOf(q, 1, k) /\ B = NumbersOf(q, k + 1, sz)
                      /\ C = NumbersOf(q, sz + 1, l)
  OBVIOUS
<1>25. Write!Numbers(writeBuffer) = A \cup B \cup C
  <2>1. Write!Numbers(writeBuffer) = NumbersOf(q, 1, l)
    <3>1. DOMAIN q = 1 .. l
      BY <1>9, <1>10
    <3> QED BY <1>2, <3>1 DEF Write!Numbers, NumbersOf
  <2>2. NumbersOf(q, 1, l) = NumbersOf(q, 1, sz) \cup C
    BY <1>10, <1>12, <1>14, <1>24, Split
  <2>3. NumbersOf(q, 1, sz) = A \cup B
    BY <1>14, <1>24, Split
  <2> QED BY <2>1, <2>2, <2>3
<1>26. ASSUME NEW j \in 1 .. l, NEW m \in 1 .. l, q[j].n = q[m].n PROVE j = m
  <2>1. \A x, y \in 1 .. l : x < y => q[x].n < q[y].n
    BY <1>1, <1>2, <1>9 DEF Rising
  <2>2. ~(j < m) /\ ~(m < j)
    BY <1>17, <1>26, <2>1
  <2> QED BY <2>2
<1>27. A \cap B = {} /\ A \cap C = {} /\ B \cap C = {}
  <2>1. /\ \A j \in 1 .. k : j \in 1 .. l
        /\ \A j \in k + 1 .. sz : j \in 1 .. l
        /\ \A j \in sz + 1 .. l : j \in 1 .. l
    BY <1>10, <1>12, <1>14
  <2>2. /\ \A j \in 1 .. k, m \in k + 1 .. sz : j # m
        /\ \A j \in 1 .. k, m \in sz + 1 .. l : j # m
        /\ \A j \in k + 1 .. sz, m \in sz + 1 .. l : j # m
    BY <1>10, <1>12, <1>14
  <2> QED BY <1>24, <1>26, <2>1, <2>2 DEF NumbersOf
<1>28. /\ ToSet(handled)' = ToSet(handled) \cup A
       /\ Write!Numbers(writeBuffer)' = IF HasReset(done) THEN {} ELSE C
       /\ lost' = lost \cup B \cup (IF HasReset(done) THEN C ELSE {})
  <2>1. HasReset(done) => Write!Numbers(<<>>) = {}
    BY DEF Write!Numbers
  <2>2. Write!Numbers(queue) = IF HasReset(done) THEN {} ELSE C
    BY <1>7, <1>15, <1>24, <2>1
  <2>3. ToSet(handled)' = ToSet(handled')
    BY DEF ToSet
  <2>4. Write!Numbers(writeBuffer)' = Write!Numbers(queue)
    BY <1>8 DEF Write!Numbers
  <2> QED BY <1>8, <1>15, <1>s, <1>23, <1>24, <2>2, <2>3, <2>4
<1>29. ToSet(handled) \cap (A \cup B \cup C) = {}
  <2>1. \A j \in 1 .. h, m \in 1 .. l : handled[j] < q[m].n /\ handled[j] \in Nat
    BY <1>1, <1>2, <1>9, <1>21 DEF Rising
  <2>2. ToSet(handled) \cap Write!Numbers(writeBuffer) = {}
    <3>1. DOMAIN q = 1 .. l /\ DOMAIN handled = 1 .. h
      BY <1>1, <1>9, <1>10, <1>21
    <3>2. \A j \in 1 .. h, m \in 1 .. l : handled[j] # q[m].n
      BY <1>17, <2>1
    <3> QED BY <1>2, <3>1, <3>2 DEF Write!Numbers, ToSet
  <2> QED BY <1>25, <2>2
<1>30. 1 .. writes' = ToSet(handled)' \cup Write!Numbers(writeBuffer)' \cup lost'
  BY <1>1, <1>8, <1>25, <1>28
<1>31. lost' \cap (ToSet(handled)' \cup Write!Numbers(writeBuffer)') = {}
  BY <1>1, <1>25, <1>27, <1>28, <1>29
<1>32. queue \in Seq(Chunk)
  BY <1>7, <1>15
<1>33. Rising'
  <2>1. \A x, y \in 1 .. l : x < y => q[x].n < q[y].n
    BY <1>1, <1>2, <1>9 DEF Rising
  <2>2. \A j \in 1 .. h, m \in 1 .. l : handled[j] < q[m].n
    BY <1>1, <1>2, <1>9, <1>21 DEF Rising
  <2>3. \A x, y \in 1 .. h : x < y => handled[x] < handled[y]
    BY <1>1, <1>21 DEF Rising
  <2>4. \A j \in 1 .. h : handled[j] \in Nat
    BY <1>1, <1>21
  <2>5. \A j \in 1 .. Len(queue) :
          j \in 1 .. l - sz /\ queue[j] = q[sz + j] /\ sz + j \in k + 1 .. l
    <3>1. Len(queue) = 0 \/ (queue = rest /\ Len(queue) = l - sz)
      BY <1>7, <1>15
    <3>2. \A j \in 1 .. l - sz : sz + j \in k + 1 .. l
      BY <1>10, <1>12, <1>14
    <3> QED BY <1>15, <3>1, <3>2
  <2>6. \A j \in k + 1 .. l : j \in 1 .. l /\ \A x \in 1 .. k : x \in 1 .. l /\ x < j
    BY <1>10, <1>12, <1>14
  <2>7. \A x, y \in 1 .. Len(queue) : x < y => queue[x].n < queue[y].n
    <3>1. \A x, y \in 1 .. Len(queue) : x < y => sz + x < sz + y
      BY <1>14
    <3> QED BY <2>1, <2>5, <2>6, <3>1
  <2>8. ASSUME NEW j \in 1 .. h + k
        PROVE  \/ j \in 1 .. h /\ handled'[j] = handled[j]
               \/ j - h \in 1 .. k /\ handled'[j] = q[j - h].n /\ j > h
    <3>1. j <= h \/ (j > h /\ j - h \in 1 .. k)
      <4>1. h \in Nat /\ k \in Nat
        BY <1>14, <1>22
      <4> QED BY <4>1
    <3>2. j <= h => j \in 1 .. h
      BY <1>22
    <3> QED BY <1>19, <1>22, <3>1, <3>2
  <2>9. \A j \in 1 .. h + k, m \in 1 .. Len(queue) : handled'[j] < queue[m].n
    BY <2>1, <2>2, <2>5, <2>6, <2>8
  <2>10. ASSUME NEW x \in 1 .. h + k, NEW y \in 1 .. h + k, x < y
         PROVE  handled'[x] < handled'[y]
    <3>1. CASE y \in 1 .. h /\ handled'[y] = handled[y]
      <4>1. x \in 1 .. h /\ ~(x > h)
        BY <1>22, <2>10, <3>1
      <4> QED BY <2>3, <2>8, <2>10, <3>1, <4>1
    <3>2. CASE y - h \in 1 .. k /\ handled'[y] = q[y - h].n /\ y > h
      <4>1. CASE x \in 1 .. h /\ handled'[x] = handled[x]
        BY <1>18, <2>2, <3>2, <4>1
      <4>2. CASE x - h \in 1 .. k /\ handled'[x] = q[x - h].n
        <5>1. x - h < y - h
          BY <1>22, <2>10
        <5> QED BY <1>18, <2>1, <3>2, <4>2, <5>1
      <4> QED BY <2>8, <4>1, <4>2
    <3> QED BY <2>8, <3>1, <3>2
  <2> QED BY <1>8, <1>22, <2>7, <2>9, <2>10 DEF Rising
<1>34. timer' \in BOOLEAN /\ writeInProgress' \in BOOLEAN
  <2>1. /\ (bad = {} /\ queue # <<>>) \in BOOLEAN /\ (queue # <<>>) \in BOOLEAN
        /\ (~HasReset(done)) \in BOOLEAN
    OBVIOUS
  <2> QED BY <1>8, <2>1
<1>35. writeBuffer' # <<>> => timer' \/ Write!Frozen'
  BY <1>7, <1>8 DEF Write!Frozen
<1>36. Write!Frozen' => lost' # {}
  <2>1. ASSUME Write!Frozen' PROVE bad # {}
    BY <1>8, <2>1 DEF Write!Frozen
  <2>2. ASSUME bad # {} PROVE B # {}
    <3>1. end \in k + 1 .. sz
      BY <1>12, <1>14, <2>2
    <3> QED BY <1>24, <3>1 DEF NumbersOf
  <2> QED BY <1>28, <2>1, <2>2
<1> QED
  BY <1>1, <1>8, <1>22, <1>30, <1>31, <1>32, <1>33, <1>34, <1>35, <1>36 DEF WriteInv

\* Every state of the queue.
LEMMA WriteInvariant == Write!Spec => []WriteInv
<1>1. Write!Init => WriteInv
  <2> SUFFICES ASSUME Write!Init PROVE WriteInv
    OBVIOUS
  <2>1. /\ writeBuffer = <<>> /\ handled = <<>> /\ lost = {}
        /\ writeInProgress = FALSE /\ timer = FALSE /\ writes = 0
    BY DEF Write!Init
  <2>2. /\ writeBuffer \in Seq(Chunk) /\ handled \in Seq(Nat)
        /\ Len(writeBuffer) = 0 /\ Len(handled) = 0
        /\ DOMAIN writeBuffer = {} /\ DOMAIN handled = {}
    BY <2>1
  <2>3. Write!Numbers(writeBuffer) = {} /\ ToSet(handled) = {}
    BY <2>2 DEF Write!Numbers, ToSet
  <2>4. 1 .. writes = {}
    BY <2>1
  <2> QED BY <2>1, <2>2, <2>3, <2>4 DEF WriteInv, Rising, Write!Frozen
<1>2. WriteInv /\ [Write!Next]_(Write!vars) => WriteInv'
  <2>1. WriteInv /\ UNCHANGED Write!vars => WriteInv'
    BY DEF Write!vars, WriteInv, Rising, Write!Frozen, Write!Numbers, ToSet
  <2> QED BY <2>1, WriteStepInv, InnerWriteStepInv DEF Write!Next
<1> QED BY <1>1, <1>2, PTL DEF Write!Spec

(***************************************************************************)
(* However chunks arrive while batches are handled: each is handled once,  *)
(* in the order of writing, or waits, or is lost by a reset or an          *)
(* exception; and what waits has its timer, but for a terminal that an     *)
(* exception has frozen (Terminal.write and _innerWrite).                  *)
(***************************************************************************)
THEOREM ChunksAccounted == Write!Spec => []Accounted
<1>1. WriteInv => Accounted
  <2> SUFFICES ASSUME WriteInv PROVE Accounted
    OBVIOUS
  <2>1. /\ Rising
        /\ 1 .. writes = ToSet(handled) \cup Write!Numbers(writeBuffer) \cup lost
        /\ lost \cap (ToSet(handled) \cup Write!Numbers(writeBuffer)) = {}
        /\ writeBuffer # <<>> => timer \/ Write!Frozen
        /\ handled \in Seq(Nat) /\ writeBuffer \in Seq(Chunk)
    BY DEF WriteInv
  <2>3. writeBuffer # <<>> => timer \/ (Write!Frozen /\ lost # {})
    BY DEF WriteInv
  <2>2. \A i, j \in DOMAIN handled : i < j => handled[i] < handled[j]
    BY <2>1 DEF Rising
  <2>4. Write!Accounted
    BY <2>1, <2>2, <2>3 DEF Write!Accounted, Write!ToSet, ToSet
  <2> QED BY <2>4 DEF Accounted
<1> QED BY <1>1, WriteInvariant, PTL
-----------------------------------------------------------------------------
\* The screen.
Line == Chars \cup {"blank"}

\* A list after a line went in behind its first i, and one went out when it was full.
IsInserted(t, s, i, max) ==
  \E n \in {0, 1} :
    /\ n = (IF Len(s) = max THEN 1 ELSE 0)
    /\ t \in Seq(Line) /\ Len(t) = Len(s) + 1 - n
    /\ \A j \in 1 .. i - n : t[j] = s[n + j]

\* CircularList.splice with a line to insert, for a list that fits.
LEMMA InsertedIs ==
  ASSUME NEW s \in Seq(Line), NEW i \in Nat, NEW line \in Line, NEW max \in Nat,
         i <= Len(s), Len(s) <= max
  PROVE  IsInserted(Inserted(s, i, line, max), s, i, max)
<1>1. PICK l : l = Len(s)
  OBVIOUS
<1>2. l \in Nat /\ i <= l /\ l <= max
  BY <1>1
<1>3. PICK p, r : p = SubSeq(s, 1, i) /\ r = SubSeq(s, i + 1, Len(s))
  OBVIOUS
<1>4. p \in Seq(Line) /\ Len(p) = i /\ \A j \in 1 .. i : p[j] = s[j]
  <2>1. IsPart(p, s, Line, 0, i)
    BY <1>3, FrontPart
  <2>2. \A j \in 1 .. i : 0 + j = j
    OBVIOUS
  <2> QED BY <2>1, <2>2 DEF IsPart
<1>5. r \in Seq(Line) /\ Len(r) = l - i
  <2>1. IsPart(r, s, Line, i, l - i)
    BY <1>1, <1>2, <1>3, BackPart
  <2> QED BY <2>1 DEF IsPart
<1>6. PICK q : q = <<line>>
  OBVIOUS
<1>7. q \in Seq(Line) /\ Len(q) = 1
  BY <1>6
<1>8. PICK h : h = p \o q
  OBVIOUS
<1>9. h \in Seq(Line) /\ Len(h) = i + 1 /\ \A j \in 1 .. i : h[j] = s[j]
  <2>1. /\ h \in Seq(Line) /\ Len(h) = Len(p) + Len(q)
        /\ \A j \in 1 .. Len(p) + Len(q) : h[j] = IF j <= Len(p) THEN p[j] ELSE q[j - Len(p)]
    BY <1>4, <1>7, <1>8, ConcatProperties
  <2>2. \A j \in 1 .. i : j \in 1 .. i + 1 /\ j <= i
    OBVIOUS
  <2> QED BY <1>4, <1>7, <2>1, <2>2
<1>10. PICK long : long = h \o r
  OBVIOUS
<1>11. long \in Seq(Line) /\ Len(long) = l + 1 /\ \A j \in 1 .. i : long[j] = s[j]
  <2>1. /\ long \in Seq(Line) /\ Len(long) = Len(h) + Len(r)
        /\ \A j \in 1 .. Len(h) + Len(r) : long[j] = IF j <= Len(h) THEN h[j] ELSE r[j - Len(h)]
    BY <1>5, <1>9, <1>10, ConcatProperties
  <2>2. (i + 1) + (l - i) = l + 1
    BY <1>2
  <2>3. \A j \in 1 .. i : j \in 1 .. l + 1 /\ j <= i + 1
    BY <1>2
  <2> QED BY <1>5, <1>9, <2>1, <2>2, <2>3
<1>12. PICK n : n = Most(Len(long) - max, 0)
  OBVIOUS
<1>13. n \in {0, 1} /\ n = (IF l = max THEN 1 ELSE 0)
  BY <1>2, <1>11, <1>12 DEF Most
<1>14. PICK t : t = SubSeq(long, n + 1, Len(long))
  OBVIOUS
<1>15. PICK k : k = (l + 1) - n
  OBVIOUS
<1>16. IsPart(t, long, Line, n, k)
  <2>1. n \in Nat /\ n <= l + 1 /\ l + 1 \in Nat
    BY <1>2, <1>13
  <2> QED BY <1>11, <1>14, <1>15, <2>1, BackPart
<1>17. t \in Seq(Line) /\ Len(t) = k /\ \A j \in 1 .. i - n : t[j] = s[n + j]
  <2>1. \A j \in 1 .. i - n : j \in 1 .. k /\ n + j \in 1 .. i
    BY <1>2, <1>13, <1>15
  <2>2. t \in Seq(Line) /\ Len(t) = k /\ \A j \in 1 .. k : t[j] = long[n + j]
    BY <1>16 DEF IsPart
  <2>3. \A j \in 1 .. i - n : t[j] = s[n + j]
    BY <1>11, <2>1, <2>2
  <2> QED BY <2>2, <2>3
<1>18. Inserted(s, i, line, max) = t
  BY <1>3, <1>6, <1>8, <1>10, <1>12, <1>14 DEF Inserted
<1> QED BY <1>1, <1>13, <1>15, <1>17, <1>18 DEF IsInserted

\* A list after the line behind its first i went out.
IsDeleted(t, s, i) ==
  /\ t \in Seq(Line) /\ Len(t) = Len(s) - 1
  /\ \A j \in 1 .. i : t[j] = s[j]

\* CircularList.splice without a line to insert.
LEMMA DeletedIs ==
  ASSUME NEW s \in Seq(Line), NEW i \in Nat, i < Len(s)
  PROVE  IsDeleted(Deleted(s, i), s, i)
<1>1. PICK l, k : l = Len(s) /\ k = i + 1
  OBVIOUS
<1>2. l \in Nat /\ i < l /\ k \in Nat /\ k <= l /\ i + 2 = k + 1
  BY <1>1
<1>3. PICK p, r : p = SubSeq(s, 1, i) /\ r = SubSeq(s, i + 2, Len(s))
  OBVIOUS
<1>4. p \in Seq(Line) /\ Len(p) = i /\ \A j \in 1 .. i : p[j] = s[j]
  <2>1. IsPart(p, s, Line, 0, i)
    BY <1>3, FrontPart
  <2>2. \A j \in 1 .. i : 0 + j = j
    OBVIOUS
  <2> QED BY <2>1, <2>2 DEF IsPart
<1>5. r \in Seq(Line) /\ Len(r) = l - k
  <2>1. IsPart(r, s, Line, k, l - k)
    BY <1>1, <1>2, <1>3, BackPart
  <2> QED BY <2>1 DEF IsPart
<1>6. PICK t : t = p \o r
  OBVIOUS
<1>7. t \in Seq(Line) /\ Len(t) = l - 1 /\ \A j \in 1 .. i : t[j] = s[j]
  <2>1. /\ t \in Seq(Line) /\ Len(t) = Len(p) + Len(r)
        /\ \A j \in 1 .. Len(p) + Len(r) : t[j] = IF j <= Len(p) THEN p[j] ELSE r[j - Len(p)]
    BY <1>4, <1>5, <1>6, ConcatProperties
  <2>2. i + (l - k) = l - 1
    BY <1>1, <1>2
  <2>3. \A j \in 1 .. i : j \in 1 .. l - 1 /\ j <= i
    BY <1>2
  <2> QED BY <1>4, <1>5, <2>1, <2>2, <2>3
<1>8. Deleted(s, i) = t
  BY <1>3, <1>6 DEF Deleted
<1> QED BY <1>1, <1>7, <1>8 DEF IsDeleted

\* The buffers, by their parts.
Buffer == [x : Int, y : Int, ybase : Nat, ydisp : Nat, scrollTop : Nat, scrollBottom : Nat,
           lines : Seq(Line), maxLength : Nat, savedY : Int]

\* A buffer for r rows, and one that is shown: every row has its line.
Sized(v, r) ==
  /\ v \in Buffer
  /\ v.ydisp <= v.ybase
  /\ v.scrollTop < r /\ v.scrollBottom < r
  /\ r <= v.maxLength
Window(v, r) ==
  /\ Sized(v, r)
  /\ Len(v.lines) = v.ybase + r /\ Len(v.lines) <= v.maxLength

\* The size of the window.
Size == cols \in Nat \ {0} /\ rows \in Nat \ {0}

\* The cursor, and the saved one, not below the window.
Above(v, r) == v.y < r /\ v.savedY < r

\* A user who reads above the window goes on reading the same line.
Still(v, w) ==
  userScrolling /\ v.ydisp < v.ybase /\ v.y \in 0 .. rows - 1 =>
    \/ w.lines = v.lines /\ w.ydisp = v.ydisp
    \/ Len(w.lines) < Len(v.lines)
    \/ v.ydisp = 0 /\ Len(v.lines) = v.maxLength
    \/ w.lines[w.ydisp + 1] = v.lines[v.ydisp + 1]

\* What every handler keeps.
Kept(v, w) ==
  /\ Window(w, rows) /\ w.maxLength = v.maxLength
  /\ Above(v, rows) => Above(w, rows)
  /\ ~userScrolling /\ v.ydisp = v.ybase => w.ydisp = w.ybase
  /\ Still(v, w)

\* What a handler keeps that moves the cursor and changes no line.
CursorMoved(v, w) ==
  /\ Window(w, rows) /\ w.maxLength = v.maxLength
  /\ Above(v, rows) => Above(w, rows)
  /\ w.lines = v.lines /\ w.ybase = v.ybase /\ w.ydisp = v.ydisp

\* Moving the cursor keeps all of it, also after another handler.
LEMMA CursorMovedKept == ASSUME NEW v, NEW w, CursorMoved(v, w) PROVE Kept(v, w)
  BY DEF CursorMoved, Kept, Still

\* See above.
LEMMA KeptThenMoved ==
  ASSUME NEW v, NEW w, NEW u, Kept(v, w), CursorMoved(w, u) PROVE Kept(v, u)
<1>1. /\ Window(u, rows) /\ u.maxLength = v.maxLength
      /\ Above(v, rows) => Above(u, rows)
  BY DEF CursorMoved, Kept
<1>2. ~userScrolling /\ v.ydisp = v.ybase => u.ydisp = u.ybase
  BY DEF CursorMoved, Kept
<1>3. Still(v, u)
  BY DEF CursorMoved, Kept, Still
<1> QED BY <1>1, <1>2, <1>3 DEF Kept

\* A new place for the cursor.
LEMMA PlaceMoved ==
  ASSUME Size, NEW v, Window(v, rows), NEW x \in Int, NEW y \in Int,
         y < rows \/ y <= v.y \/ y <= v.savedY
  PROVE  CursorMoved(v, [v EXCEPT !.x = x, !.y = y])
<1>1. PICK w : w = [v EXCEPT !.x = x, !.y = y]
  OBVIOUS
<1>2. v \in Buffer
  BY DEF Window, Sized
<1>3. /\ w \in Buffer /\ w.y = y /\ w.savedY = v.savedY
      /\ w.lines = v.lines /\ w.ybase = v.ybase /\ w.ydisp = v.ydisp
      /\ w.maxLength = v.maxLength /\ w.scrollTop = v.scrollTop
      /\ w.scrollBottom = v.scrollBottom
  BY <1>1, <1>2 DEF Buffer
<1>4. Window(w, rows)
  BY <1>3 DEF Window, Sized
<1>5. Above(v, rows) => Above(w, rows)
  <2>1. v.y \in Int /\ v.savedY \in Int
    BY <1>2 DEF Buffer
  <2> QED BY <1>3, <2>1 DEF Above, Size
<1> QED BY <1>1, <1>3, <1>4, <1>5 DEF CursorMoved

\* New lines, as many, and the same above the window.
LEMMA LinesKept ==
  ASSUME NEW v, Window(v, rows), NEW l \in Seq(Line), Len(l) = Len(v.lines),
         v.y \in 0 .. rows - 1 => \A j \in 1 .. v.ybase : l[j] = v.lines[j]
  PROVE  Kept(v, [v EXCEPT !.lines = l])
<1>1. PICK w : w = [v EXCEPT !.lines = l]
  OBVIOUS
<1>2. v \in Buffer
  BY DEF Window, Sized
<1>3. /\ w \in Buffer /\ w.y = v.y /\ w.savedY = v.savedY
      /\ w.lines = l /\ w.ybase = v.ybase /\ w.ydisp = v.ydisp
      /\ w.maxLength = v.maxLength /\ w.scrollTop = v.scrollTop
      /\ w.scrollBottom = v.scrollBottom
  BY <1>1, <1>2 DEF Buffer
<1>4. Window(w, rows)
  BY <1>3 DEF Window, Sized
<1>5. Still(v, w)
  <2>1. v.ydisp \in Nat /\ v.ybase \in Nat
    BY <1>2 DEF Buffer
  <2>2. v.ydisp < v.ybase => v.ydisp + 1 \in 1 .. v.ybase
    BY <2>1
  <2> QED BY <1>3, <2>2 DEF Still
<1> QED BY <1>1, <1>3, <1>4, <1>5 DEF Kept, Above

\* A buffer changed through its lines, one by one.
LEMMA EachLineKept ==
  ASSUME NEW v, Window(v, rows), NEW l, DOMAIN l = DOMAIN v.lines,
         l = [j \in DOMAIN v.lines |-> l[j]],
         \A j \in DOMAIN v.lines : l[j] \in Line,
         v.y \in 0 .. rows - 1 => \A j \in 1 .. v.ybase : l[j] = v.lines[j]
  PROVE  Kept(v, [v EXCEPT !.lines = l])
<1>1. PICK n : n = Len(v.lines)
  OBVIOUS
<1>2. v.lines \in Seq(Line)
  BY DEF Window, Sized, Buffer
<1>3. n \in Nat /\ DOMAIN v.lines = 1 .. n
  BY <1>1, <1>2
<1>4. l \in [1 .. n -> Line]
  BY <1>3
<1>5. l \in Seq(Line) /\ Len(l) = n
  BY <1>3, <1>4
<1> QED BY <1>1, <1>5, LinesKept

\* The parts of a buffer.
LEMMA PartsOf ==
  ASSUME NEW v \in Buffer
  PROVE  /\ v.x \in Int /\ v.y \in Int /\ v.savedY \in Int
         /\ v.ybase \in Nat /\ v.ydisp \in Nat /\ v.scrollTop \in Nat /\ v.scrollBottom \in Nat
         /\ v.maxLength \in Nat /\ v.lines \in Seq(Line)
  BY DEF Buffer

\* A new column, and a new row.
LEMMA ColumnMoved ==
  ASSUME Size, NEW v, Window(v, rows), NEW x \in Int PROVE CursorMoved(v, [v EXCEPT !.x = x])
<1>1. v \in Buffer
  BY DEF Window, Sized
<1>2. [v EXCEPT !.x = x] = [v EXCEPT !.x = x, !.y = v.y]
  BY <1>1 DEF Buffer
<1>3. v.y \in Int
  BY <1>1, PartsOf
<1>4. v.y <= v.y
  BY <1>3
<1> QED BY <1>2, <1>3, <1>4, PlaceMoved

\* See above.
LEMMA RowMoved ==
  ASSUME Size, NEW v, Window(v, rows), NEW y \in Int, y < rows \/ y <= v.y
  PROVE  CursorMoved(v, [v EXCEPT !.y = y])
<1>1. v \in Buffer
  BY DEF Window, Sized
<1>2. [v EXCEPT !.y = y] = [v EXCEPT !.x = v.x, !.y = y] /\ v.x \in Int
  BY <1>1 DEF Buffer
<1> QED BY <1>2, PlaceMoved

\* The lesser and the greater of two numbers.
LEMMA LeastMost ==
  ASSUME NEW m \in Int, NEW n \in Int
  PROVE  /\ Least(m, n) \in Int /\ Least(m, n) <= m /\ Least(m, n) <= n
         /\ Most(m, n) \in Int /\ Most(m, n) >= m /\ Most(m, n) >= n
         /\ Most(m, n) = m \/ Most(m, n) = n
         /\ m \in Nat \/ n \in Nat => Most(m, n) \in Nat
  BY DEF Least, Most

\* A column moved to the right or to the left.
LEMMA Sideways ==
  ASSUME NEW x \in Int, NEW n \in Int PROVE Right(x, n) \in Int /\ Left(x, n) \in Int
<1>1. x + n \in Int /\ x - n \in Int /\ 0 \in Int /\ NaN \in Int
  BY DEF NaN
<1>2. Most(x - n, 0) \in Int
  BY <1>1, LeastMost
<1> QED BY <1>1, <1>2 DEF Right, Left

\* By one column.
LEMMA OneSideways ==
  \A x \in Int : Right(x, 1) \in Int /\ Left(x, 1) \in Int
<1> SUFFICES ASSUME NEW x \in Int PROVE Right(x, 1) \in Int /\ Left(x, 1) \in Int
  OBVIOUS
<1>1. x + 1 \in Int /\ x - 1 \in Int /\ 0 \in Int /\ NaN \in Int
  BY DEF NaN
<1>2. Most(x - 1, 0) \in Int
  BY <1>1, LeastMost
<1> QED BY <1>1, <1>2 DEF Right, Left

\* The column goes back from the edge.
LEMMA FromEdgeMoved ==
  ASSUME Size, NEW v, Window(v, rows) PROVE CursorMoved(v, FromEdge(v))
<1>1. v.x \in Int
  BY PartsOf DEF Window, Sized
<1>2. CursorMoved(v, v)
  BY DEF CursorMoved
<1>3. CursorMoved(v, [v EXCEPT !.x = v.x - 1])
  BY <1>1, ColumnMoved
<1> QED BY <1>2, <1>3 DEF FromEdge

\* What newLine does to the lines, and to where the window begins.
IsNewLine(v, w) ==
  /\ w \in Buffer /\ Len(w.lines) = w.ybase + rows /\ Len(w.lines) <= w.maxLength
  /\ w.ybase \in {v.ybase, v.ybase + 1}
  /\ w.y = v.y /\ w.savedY = v.savedY /\ w.ydisp = v.ydisp /\ w.maxLength = v.maxLength
  /\ w.scrollTop = v.scrollTop /\ w.scrollBottom = v.scrollBottom
  /\ \E n \in {0, 1} :
       /\ n = IF v.scrollTop = 0 /\ Len(v.lines) = v.maxLength THEN 1 ELSE 0
       /\ \A j \in 1 .. v.ybase - n : w.lines[j] = v.lines[n + j]

\* A new line at the bottom of the scroll region.
LEMMA NewLineIs ==
  ASSUME Size, NEW v, Window(v, rows) PROVE IsNewLine(v, newLine(v))
<1>1. PICK w, n : /\ w = newLine(v)
                  /\ n = IF v.scrollTop = 0 /\ Len(v.lines) = v.maxLength THEN 1 ELSE 0
  OBVIOUS
<1>2. v \in Buffer /\ n \in {0, 1}
  BY <1>1 DEF Window, Sized
<1>3. /\ v.ybase \in Nat /\ v.scrollTop \in Nat /\ v.scrollBottom \in Nat
      /\ v.maxLength \in Nat /\ v.lines \in Seq(Line)
  BY <1>2, PartsOf
<1>4. PICK l, s, m, y, b1 : /\ l = Len(v.lines) /\ s = v.lines /\ m = v.maxLength
                        /\ y = v.ybase /\ b1 = v.ybase + v.scrollBottom + 1
  OBVIOUS
<1>5. /\ l \in Nat /\ m \in Nat /\ y \in Nat /\ b1 \in Nat /\ l = y + rows /\ l <= m
      /\ b1 <= l /\ y <= b1 - 1 /\ s \in Seq(Line) /\ l = Len(s) /\ rows \in Nat
  <2>1. PICK e : e = v.scrollBottom
    OBVIOUS
  <2>2. l = y + rows /\ l <= m /\ e < rows
    BY <1>4, <2>1 DEF Window, Sized
  <2>3. l \in Nat /\ m \in Nat /\ y \in Nat /\ e \in Nat /\ rows \in Nat /\ b1 = y + e + 1
    BY <1>3, <1>4, <2>1 DEF Size
  <2>4. b1 \in Nat /\ b1 <= l /\ y <= b1 - 1
    BY <2>2, <2>3
  <2> QED BY <1>3, <1>4, <2>2, <2>3, <2>4
<1>6. CASE v.scrollTop = 0
  <2>1. PICK t : t = Inserted(s, b1, "blank", m)
    OBVIOUS
  <2>2. IsInserted(t, s, b1, m)
    BY <1>5, <2>1, InsertedIs DEF Line
  <2>3. n = IF Len(s) = m THEN 1 ELSE 0
    BY <1>1, <1>4, <1>6
  <2>4. /\ t \in Seq(Line) /\ Len(t) = Len(s) + 1 - n
        /\ \A j \in 1 .. b1 - n : t[j] = s[n + j]
    BY <2>2, <2>3 DEF IsInserted
  <2>5. w = [v EXCEPT !.lines = t, !.ybase = IF l = m THEN y ELSE y + 1]
    BY <1>1, <1>4, <1>6, <2>1 DEF newLine
  <2>6. PICK yy : yy = IF l = m THEN y ELSE y + 1
    OBVIOUS
  <2>7. yy \in Nat /\ yy \in {y, y + 1} /\ l + 1 - n = yy + rows /\ l + 1 - n <= m
    BY <1>5, <2>3, <2>6
  <2>8. /\ w \in Buffer /\ w.lines = t /\ w.ybase = yy
        /\ w.y = v.y /\ w.savedY = v.savedY /\ w.ydisp = v.ydisp /\ w.maxLength = v.maxLength
        /\ w.scrollTop = v.scrollTop /\ w.scrollBottom = v.scrollBottom
    BY <1>2, <2>4, <2>5, <2>6, <2>7 DEF Buffer
  <2>9. \A j \in 1 .. y - n : j \in 1 .. b1 - n
    BY <1>2, <1>5
  <2>10. \A j \in 1 .. v.ybase - n : w.lines[j] = v.lines[n + j]
    BY <1>4, <2>4, <2>8, <2>9
  <2>11. /\ Len(w.lines) = w.ybase + rows /\ Len(w.lines) <= w.maxLength
         /\ w.ybase \in {v.ybase, v.ybase + 1}
    BY <1>4, <1>5, <2>4, <2>7, <2>8
  <2> QED BY <1>1, <1>2, <2>8, <2>10, <2>11 DEF IsNewLine
<1>7. CASE v.scrollTop # 0
  <2>1. PICK top, bottom : top = v.ybase + v.scrollTop /\ bottom = v.ybase + v.scrollBottom
    OBVIOUS
  <2>a. PICK st, sb : st = v.scrollTop /\ sb = v.scrollBottom
    OBVIOUS
  <2>b. st \in Nat /\ sb \in Nat /\ st # 0 /\ top = y + st /\ bottom = y + sb /\ b1 = y + sb + 1
    BY <1>3, <1>4, <1>7, <2>1, <2>a
  <2>2. top \in Nat /\ bottom \in Nat /\ y < top /\ bottom + 1 = b1 /\ b1 <= l /\ y <= bottom
    BY <1>5, <2>b
  <2>3. PICK t : t = [i \in DOMAIN s |->
                        IF i - 1 = bottom THEN "blank"
                        ELSE IF i - 1 \in top .. bottom - 1 THEN s[i + 1] ELSE s[i]]
    OBVIOUS
  <2>4. DOMAIN s = 1 .. l /\ \A j \in 1 .. l : s[j] \in Line
    BY <1>5
  <2>5. \A i \in 1 .. l : i - 1 \in top .. bottom - 1 => i + 1 \in 1 .. l
    BY <1>5, <2>2
  <2>6. t \in [1 .. l -> Line]
    BY <2>3, <2>4, <2>5 DEF Line
  <2>7. t \in Seq(Line) /\ Len(t) = l
    BY <1>5, <2>6
  <2>8. \A j \in 1 .. y : j \in 1 .. l /\ j - 1 # bottom /\ ~(j - 1 \in top .. bottom - 1)
    BY <1>5, <2>2
  <2>9. \A j \in 1 .. y : t[j] = s[j]
    BY <2>3, <2>4, <2>8
  <2>10. w = [v EXCEPT !.lines = t]
    BY <1>1, <1>4, <1>7, <2>1, <2>3 DEF newLine
  <2>11. /\ w \in Buffer /\ w.lines = t /\ w.ybase = v.ybase
         /\ w.y = v.y /\ w.savedY = v.savedY /\ w.ydisp = v.ydisp /\ w.maxLength = v.maxLength
         /\ w.scrollTop = v.scrollTop /\ w.scrollBottom = v.scrollBottom
    BY <1>2, <2>7, <2>10 DEF Buffer
  <2>12. n = 0 /\ \A j \in 1 .. y - n : j \in 1 .. y /\ n + j = j
    BY <1>1, <1>5, <1>7
  <2>13. \A j \in 1 .. v.ybase - n : w.lines[j] = v.lines[n + j]
    BY <1>4, <2>9, <2>11, <2>12
  <2>14. Len(w.lines) = w.ybase + rows /\ Len(w.lines) <= w.maxLength
    BY <1>4, <1>5, <2>7, <2>11
  <2> QED BY <1>1, <1>2, <2>11, <2>13, <2>14 DEF IsNewLine
<1> QED BY <1>1, <1>6, <1>7

\* What is known of a buffer after a scroll.
Scrolled(v, w) ==
  /\ Kept(v, w)
  /\ w.y = v.y /\ w.scrollBottom = v.scrollBottom
  /\ userScrolling /\ v.ydisp < v.ybase => w.ydisp < w.ybase

\* Terminal.scroll
LEMMA ScrollKept == ASSUME Size, NEW v, Window(v, rows) PROVE Scrolled(v, scroll(v))
<1>1. PICK u, w : u = newLine(v) /\ w = scroll(v)
  OBVIOUS
<1>2. IsNewLine(v, u)
  BY <1>1, NewLineIs
<1>3. PICK n \in {0, 1} :
        /\ n = IF v.scrollTop = 0 /\ Len(v.lines) = v.maxLength THEN 1 ELSE 0
        /\ \A j \in 1 .. v.ybase - n : u.lines[j] = v.lines[n + j]
  BY <1>2 DEF IsNewLine
<1>4. v \in Buffer /\ u \in Buffer
  BY <1>2 DEF IsNewLine, Window, Sized
<1>5. PICK d, y, d1, y1 : /\ d = v.ydisp /\ y = v.ybase /\ y1 = u.ybase
                          /\ d1 = IF ~userScrolling THEN u.ybase
                                  ELSE IF n = 1 THEN Most(v.ydisp - 1, 0) ELSE v.ydisp
  OBVIOUS
<1>6. d \in Nat /\ y \in Nat /\ y1 \in Nat /\ y1 \in {y, y + 1} /\ d <= y
  BY <1>2, <1>4, <1>5, PartsOf DEF IsNewLine, Window, Sized
<1>7. d1 = IF ~userScrolling THEN y1 ELSE IF n = 1 THEN Most(d - 1, 0) ELSE d
  BY <1>5
<1>8. d1 \in Nat /\ d1 <= y1 /\ (userScrolling /\ d < y => d1 < y1)
  BY <1>6, <1>7 DEF Most
<1>9. w = [u EXCEPT !.ydisp = d1]
  <2>1. n = 1 <=> v.scrollTop = 0 /\ Len(v.lines) = v.maxLength
    BY <1>3
  <2>2. u.ydisp = v.ydisp
    BY <1>2 DEF IsNewLine
  <2> QED BY <1>1, <1>4, <1>5, <2>1, <2>2 DEF scroll, Buffer
<1>10. /\ w \in Buffer /\ w.ydisp = d1 /\ w.lines = u.lines /\ w.ybase = y1
       /\ w.y = v.y /\ w.savedY = v.savedY /\ w.maxLength = v.maxLength
       /\ w.scrollTop = v.scrollTop /\ w.scrollBottom = v.scrollBottom
  BY <1>2, <1>4, <1>5, <1>8, <1>9 DEF Buffer, IsNewLine
<1>11. Window(w, rows)
  BY <1>2, <1>5, <1>8, <1>10 DEF Window, Sized, IsNewLine
<1>12. Still(v, w)
  <2> SUFFICES ASSUME userScrolling, d < y, ~(d = 0 /\ Len(v.lines) = v.maxLength)
               PROVE  w.lines[w.ydisp + 1] = v.lines[v.ydisp + 1]
    BY <1>5 DEF Still
  <2>1. CASE n = 0
    <3>1. d1 = d /\ d + 1 \in 1 .. y - n /\ n + (d + 1) = d + 1
      BY <1>6, <1>7, <2>1
    <3> QED BY <1>3, <1>5, <1>10, <3>1
  <2>2. CASE n = 1
    <3>1. Len(v.lines) = v.maxLength
      BY <1>3, <2>2
    <3>2. d # 0
      BY <3>1
    <3>3. d1 = d - 1 /\ d1 + 1 \in 1 .. y - n /\ n + (d1 + 1) = d + 1
      BY <1>6, <1>7, <2>2, <3>2 DEF Most
    <3> QED BY <1>3, <1>5, <1>10, <3>3
  <2> QED BY <2>1, <2>2
<1>13. ~userScrolling => w.ydisp = w.ybase
  BY <1>7, <1>10
<1>14. Kept(v, w)
  BY <1>10, <1>11, <1>12, <1>13 DEF Kept, Above
<1> QED BY <1>1, <1>5, <1>8, <1>10, <1>14 DEF Scrolled

\* The next row.
LEMMA DownKept ==
  ASSUME Size, NEW v, Window(v, rows)
  PROVE  /\ Kept(v, Down(v))
         /\ v.y \in 0 .. rows - 1 => Down(v).y \in 0 .. rows - 1
         /\ userScrolling /\ v.ydisp < v.ybase => Down(v).ydisp < Down(v).ybase
<1>1. /\ v \in Buffer /\ v.y \in Int /\ v.scrollBottom \in Nat
      /\ v.scrollBottom < rows /\ rows \in Nat
  BY PartsOf DEF Window, Sized, Size
<1>2. CASE v.y + 1 > v.scrollBottom
  <2>1. Down(v) = scroll(v)
    BY <1>2 DEF Down
  <2> QED BY <2>1, ScrollKept DEF Scrolled
<1>3. CASE ~(v.y + 1 > v.scrollBottom)
  <2>1. PICK w, y : y = v.y + 1 /\ w = [v EXCEPT !.y = y]
    OBVIOUS
  <2>2. y \in Int /\ y < rows /\ (v.y \in 0 .. rows - 1 => y \in 0 .. rows - 1)
    BY <1>1, <1>3, <2>1
  <2>3. Down(v) = w
    BY <1>1, <1>3, <2>1 DEF Down, Buffer
  <2>4. CursorMoved(v, w)
    BY <2>1, <2>2, RowMoved
  <2>5. w.y = y
    BY <1>1, <2>1 DEF Buffer
  <2>6. Kept(v, w)
    BY <2>4, CursorMovedKept
  <2>7. w.ydisp = v.ydisp /\ w.ybase = v.ybase
    BY <2>4 DEF CursorMoved
  <2> QED BY <2>2, <2>3, <2>5, <2>6, <2>7
<1> QED BY <1>2, <1>3

\* lineFeed and index, and what they do after a move in the row.
LEMMA LineFeedKept == ASSUME Size, NEW v, Window(v, rows) PROVE Kept(v, FromEdge(Down(v)))
<1>1. PICK w : w = Down(v)
  OBVIOUS
<1>2. Kept(v, w)
  BY <1>1, DownKept
<1>3. Window(w, rows)
  BY <1>2 DEF Kept
<1>4. CursorMoved(w, FromEdge(w))
  BY <1>3, FromEdgeMoved
<1> QED BY <1>1, <1>2, <1>4, KeptThenMoved

\* A handler after a move of the cursor in its row.
LEMMA MovedThenKept ==
  ASSUME NEW v, NEW w, NEW u, CursorMoved(v, w), w.y = v.y, Kept(w, u) PROVE Kept(v, u)
<1>1. /\ Window(u, rows) /\ u.maxLength = v.maxLength
      /\ Above(v, rows) => Above(u, rows)
  BY DEF CursorMoved, Kept
<1>2. ~userScrolling /\ v.ydisp = v.ybase => u.ydisp = u.ybase
  BY DEF CursorMoved, Kept
<1>3. Still(v, u)
  BY DEF CursorMoved, Kept, Still
<1> QED BY <1>1, <1>2, <1>3 DEF Kept

\* The slots the cursor's row may be in.
LEMMA RowsAre ==
  ASSUME Size, NEW v, Window(v, rows)
  PROVE  /\ v.y \in 0 .. rows - 1 => Rows(v) = {v.ybase + v.y}
         /\ \A row \in Rows(v) : row \in DOMAIN v.lines \cup {NoLine, Hidden, 0} /\ row \in Int
         /\ \A row \in Rows(v) : row \in {NoLine, Hidden} \/ row + 1 \in DOMAIN v.lines
<1>1. PICK n, max, y, c, row : /\ n = Len(v.lines) /\ max = v.maxLength /\ y = v.ybase
                               /\ c = v.y /\ row = v.ybase + v.y
  OBVIOUS
<1>2. v.lines \in Seq(Line) /\ y \in Nat /\ c \in Int /\ n = y + rows /\ rows \in Nat \ {0}
  BY <1>1, PartsOf DEF Window, Sized, Size
<1>3. n \in Nat \ {0} /\ row \in Int /\ DOMAIN v.lines = 1 .. n
  <2>1. row = y + c
    BY <1>1
  <2>2. n \in Nat \ {0} /\ row \in Int
    BY <1>2, <2>1
  <2>3. DOMAIN v.lines = 1 .. Len(v.lines)
    BY <1>2
  <2> QED BY <1>1, <2>2, <2>3
<1>4. row % n \in 0 .. n - 1
  BY <1>3
<1>5. Rows(v) = CASE row \in 0 .. n - 1       -> {row}
                  [] row >= n /\ n = max      -> {row % n}
                  [] row < 0 /\ n = max       -> {NoLine, row % n}
                  [] OTHER                    -> {NoLine, Hidden}
  BY <1>1 DEF Rows
<1>6. v.y \in 0 .. rows - 1 <=> row \in y .. n - 1
  <2>1. row = y + c
    BY <1>1
  <2>2. c \in 0 .. rows - 1 <=> row \in y .. n - 1
    BY <1>2, <2>1
  <2> QED BY <1>1, <2>2
<1>7. CASE row \in 0 .. n - 1
  <2>1. Rows(v) = {row}
    <3>1. ~(row >= n) /\ ~(row < 0)
      BY <1>3, <1>7
    <3> QED BY <1>5, <1>7, <3>1
  <2>2. row + 1 \in 1 .. n /\ row \in 1 .. n \cup {0}
    BY <1>3, <1>7
  <2> QED BY <1>1, <1>3, <2>1, <2>2
<1>8. CASE row \notin 0 .. n - 1
  <2>1. v.y \notin 0 .. rows - 1
    BY <1>2, <1>3, <1>6, <1>8
  <2>2. Rows(v) \subseteq {NoLine, Hidden, row % n}
    <3>1. row >= n \/ row < 0
      BY <1>3, <1>8
    <3>2. row >= n => ~(row < 0)
      BY <1>3
    <3>3. CASE n = max /\ row >= n
      BY <1>5, <1>8, <3>2, <3>3
    <3>4. CASE n = max /\ row < 0
      BY <1>5, <1>8, <3>2, <3>4
    <3>5. CASE n # max
      BY <1>5, <1>8, <3>5
    <3> QED BY <3>1, <3>3, <3>4, <3>5
  <2>3. row % n \in 1 .. n \cup {0} /\ (row % n) + 1 \in 1 .. n /\ row % n \in Int
    <3>1. PICK p : p = row % n
      OBVIOUS
    <3>2. p \in 0 .. n - 1
      BY <1>4, <3>1
    <3>3. p \in 1 .. n \cup {0} /\ p + 1 \in 1 .. n /\ p \in Int
      BY <1>3, <3>2
    <3> QED BY <3>1, <3>3
  <2>4. NoLine \in Int /\ Hidden \in Int
    BY DEF NoLine, Hidden
  <2> QED BY <1>3, <2>1, <2>2, <2>3, <2>4
<1> QED BY <1>7, <1>8

\* There is no line only where the cursor is out of the window.
LEMMA NoLineOutside ==
  ASSUME Size, NEW v, Window(v, rows), NoLine \in Rows(v) PROVE v.y \notin 0 .. rows - 1
<1> SUFFICES ASSUME v.y \in 0 .. rows - 1 PROVE FALSE
  OBVIOUS
<1>1. Rows(v) = {v.ybase + v.y}
  BY RowsAre
<1>2. v.ybase \in Nat /\ v.y \in Int
  BY PartsOf DEF Window, Sized
<1>3. v.ybase + v.y # -1
  BY <1>2 DEF Size
<1> QED BY <1>1, <1>3 DEF NoLine

\* The handlers that move the cursor.
LEMMA MovesKept ==
  ASSUME Size, active \in Names, NEW v, Window(v, rows), NEW w \in Moves(v) PROVE Kept(v, w)
<1>1. /\ v \in Buffer /\ v.x \in Int /\ v.y \in Int /\ v.savedY \in Int
      /\ v.ybase \in Nat /\ v.scrollTop \in Nat /\ v.scrollBottom \in Nat
      /\ v.lines \in Seq(Line)
  BY PartsOf DEF Window, Sized
<1>2. rows \in Nat \ {0} /\ cols \in Nat \ {0}
  BY DEF Size
<1>3. \A x \in Int, y \in Int :
        y < rows \/ y <= v.y \/ y <= v.savedY => Kept(v, [v EXCEPT !.x = x, !.y = y])
  BY PlaceMoved, CursorMovedKept
<1>4. \A x \in Int : Kept(v, [v EXCEPT !.x = x])
  BY ColumnMoved, CursorMovedKept
<1>5. \A y \in Int : y < rows \/ y <= v.y => Kept(v, [v EXCEPT !.y = y])
  BY RowMoved, CursorMovedKept
<1>6. CASE w \in {lineFeed(v), index(v)}
  BY <1>6, LineFeedKept DEF lineFeed, index
<1>7. CASE w = carriageReturn(v)
  BY <1>4, <1>7 DEF carriageReturn
<1>8. CASE w = nextLine(v)
  <2>1. PICK u : u = [v EXCEPT !.x = 0]
    OBVIOUS
  <2>2. CursorMoved(v, u)
    BY <2>1, ColumnMoved
  <2>3. u.y = v.y
    BY <1>1, <2>1 DEF Buffer
  <2>4. Window(u, rows)
    BY <2>2 DEF CursorMoved
  <2>5. Kept(u, FromEdge(Down(u)))
    BY <2>4, LineFeedKept
  <2> QED BY <1>8, <2>1, <2>2, <2>3, <2>5, MovedThenKept DEF nextLine, index, carriageReturn
<1>9. CASE w = backspace(v)
  <2>1. Left(v.x, 1) \in Int
    <3>1. v.x \in Int
      BY <1>1
    <3> QED BY <3>1, OneSideways, Zenon
  <2> QED BY <1>1, <1>4, <1>9, <2>1 DEF backspace, Buffer
<1>10. CASE w = reverseIndex(v)
  <2>1. CASE v.y # v.scrollTop
    <3>1. v.y - 1 \in Int /\ v.y - 1 <= v.y
      BY <1>1
    <3> QED BY <1>1, <1>5, <1>10, <2>1, <3>1 DEF reverseIndex, Buffer
  <2>2. CASE v.y = v.scrollTop
    <3>1. PICK row, bottom : row = v.ybase + v.y /\ bottom = v.ybase + v.scrollBottom
      OBVIOUS
    <3>2. PICK s, y, n : s = v.lines /\ y = v.ybase /\ n = Len(v.lines)
      OBVIOUS
    <3>3. /\ s \in Seq(Line) /\ n = Len(s) /\ n \in Nat /\ DOMAIN s = 1 .. n /\ y \in Nat
          /\ n = y + rows /\ row \in Nat /\ bottom \in Nat /\ y <= row /\ bottom < n
      <4>1. PICK c, d : c = v.scrollTop /\ d = v.scrollBottom
        OBVIOUS
      <4>2. /\ c \in Nat /\ d \in Nat /\ c < rows /\ d < rows /\ row = y + c /\ bottom = y + d
            /\ y \in Nat /\ n = y + rows
        BY <1>1, <2>2, <3>1, <3>2, <4>1 DEF Window, Sized
      <4>3. n \in Nat /\ row \in Nat /\ bottom \in Nat /\ y <= row /\ bottom < n
        BY <1>2, <4>2
      <4>4. DOMAIN s = 1 .. Len(s) /\ s \in Seq(Line)
        BY <1>1, <3>2
      <4> QED BY <3>2, <4>2, <4>3, <4>4
    <3>4. PICK l : l = [i \in DOMAIN s |-> IF i - 1 = row THEN "blank"
                                           ELSE IF i - 1 \in row + 1 .. bottom THEN s[i - 1]
                                           ELSE s[i]]
      OBVIOUS
    <3>5. \A i \in 1 .. n : i - 1 \in row + 1 .. bottom => i - 1 \in 1 .. n
      BY <3>3
    <3>6. \A i \in 1 .. n : s[i] \in Line
      BY <3>3
    <3>7. \A i \in DOMAIN s : l[i] \in Line
      BY <3>3, <3>4, <3>5, <3>6 DEF Line
    <3>8. \A i \in 1 .. y : i \in 1 .. n /\ i - 1 # row /\ ~(i - 1 \in row + 1 .. bottom)
      BY <1>2, <3>3
    <3>9. \A i \in 1 .. y : l[i] = s[i]
      BY <3>3, <3>4, <3>8
    <3>10. DOMAIN l = DOMAIN s /\ l = [i \in DOMAIN s |-> l[i]]
      BY <3>4
    <3>11. Kept(v, [v EXCEPT !.lines = l])
      BY <3>2, <3>7, <3>9, <3>10, EachLineKept
    <3>12. w = [v EXCEPT !.lines = l]
      BY <1>1, <1>10, <2>2, <3>1, <3>2, <3>4 DEF reverseIndex, Buffer
    <3> QED BY <3>11, <3>12
  <2> QED BY <2>1, <2>2
<1>11. ASSUME NEW n \in Counts,
              w \in {cursorUp(v, n), cursorDown(v, n), cursorForward(v, n), cursorBackward(v, n),
                    cursorNextLine(v, n), cursorPrecedingLine(v, n), cursorCharAbsolute(v, n),
                    charPosAbsolute(v, n), hPositionRelative(v, n), linePosAbsolute(v, n),
                    vPositionRelative(v, n)}
       PROVE  Kept(v, w)
  <2>1. n \in Nat
    BY CountsAssumption
  <2>2. PICK up, down, right, left, col, row :
          /\ up = Most(v.y - n, 0) /\ down = Least(v.y + n, rows - 1)
          /\ right = Least(Right(v.x, n), cols - 1) /\ col = Least(n, cols) - 1
          /\ row = Least(n, rows) - 1 /\ left = n - 1
    OBVIOUS
  <2>3. /\ up \in Int /\ down \in Int /\ right \in Int /\ left \in Int
        /\ col \in Int /\ row \in Int
        /\ (up < rows \/ up <= v.y) /\ down < rows /\ row < rows
    <3>1. PICK x, y : x = v.x /\ y = v.y
      OBVIOUS
    <3>2. x \in Int /\ y \in Int
      BY <1>1, <3>1
    <3>3. up \in Int /\ (up < rows \/ up <= y)
      <4>1. up = IF y - n > 0 THEN y - n ELSE 0
        BY <2>2, <3>1 DEF Most
      <4> QED BY <1>2, <2>1, <3>2, <4>1
    <3>4. down \in Int /\ down < rows
      <4>1. down = IF y + n < rows - 1 THEN y + n ELSE rows - 1
        BY <2>2, <3>1 DEF Least
      <4> QED BY <1>2, <2>1, <3>2, <4>1
    <3>5. right \in Int
      <4>1. Right(x, n) \in Int /\ cols - 1 \in Int
        BY <1>2, <2>1, <3>2, Sideways
      <4> QED BY <2>2, <3>1, <4>1, LeastMost
    <3>6. left \in Int /\ col \in Int /\ row \in Int /\ row < rows
      BY <1>2, <2>1, <2>2 DEF Least
    <3> QED BY <3>1, <3>3, <3>4, <3>5, <3>6
  <2>4. CASE w = cursorUp(v, n)
    BY <1>1, <1>5, <2>2, <2>3, <2>4 DEF cursorUp, Buffer
  <2>5. CASE w \in {cursorDown(v, n), vPositionRelative(v, n)}
    <3>1. PICK u : u = [v EXCEPT !.y = down]
      OBVIOUS
    <3>2. CursorMoved(v, u)
      BY <2>3, <3>1, RowMoved
    <3>3. Kept(v, u) /\ Window(u, rows)
      BY <3>2, CursorMovedKept DEF CursorMoved
    <3>4. CursorMoved(u, FromEdge(u))
      BY <3>3, FromEdgeMoved
    <3>5. Kept(v, FromEdge(u))
      BY <3>3, <3>4, KeptThenMoved
    <3>6. w = FromEdge(u)
      BY <1>1, <2>2, <2>5, <3>1 DEF cursorDown, vPositionRelative, Buffer
    <3> QED BY <3>5, <3>6
  <2>6. CASE w \in {cursorForward(v, n), hPositionRelative(v, n)}
    BY <1>1, <1>4, <2>2, <2>3, <2>6 DEF cursorForward, hPositionRelative, Buffer
  <2>7. CASE w = cursorBackward(v, n)
    <3>1. PICK u, x : u = FromEdge(v) /\ x = Left(u.x, n)
      OBVIOUS
    <3>2. CursorMoved(v, u)
      BY <3>1, FromEdgeMoved
    <3>3. Kept(v, u) /\ Window(u, rows)
      BY <3>2, CursorMovedKept DEF CursorMoved
    <3>4. u \in Buffer
      BY <3>3 DEF Window, Sized
    <3>5. u.x \in Int
      BY <3>4, PartsOf
    <3>6. x \in Int
      <4>1. n \in Int
        BY <2>1
      <4>2. Left(u.x, n) \in Int
        BY <3>5, <4>1, Sideways, Zenon
      <4> QED BY <3>1, <4>2, Zenon
    <3>7. CursorMoved(u, [u EXCEPT !.x = x])
      BY <3>3, <3>6, ColumnMoved
    <3>8. w = [u EXCEPT !.x = x]
      BY <2>7, <3>1 DEF cursorBackward
    <3> QED BY <3>3, <3>7, <3>8, KeptThenMoved
  <2>8. CASE w = cursorNextLine(v, n)
    <3>1. w = [v EXCEPT !.x = 0, !.y = down]
      BY <2>2, <2>8 DEF cursorNextLine
    <3>2. CursorMoved(v, [v EXCEPT !.x = 0, !.y = down])
      <4>1. 0 \in Int /\ down \in Int /\ down < rows
        BY <2>3
      <4> QED BY <4>1, PlaceMoved
    <3> QED BY <3>1, <3>2, CursorMovedKept
  <2>9. CASE w = cursorPrecedingLine(v, n)
    <3>1. PICK u : u = [v EXCEPT !.y = up]
      OBVIOUS
    <3>2. CursorMoved(v, u)
      BY <2>3, <3>1, RowMoved
    <3>3. Kept(v, u) /\ Window(u, rows)
      BY <3>2, CursorMovedKept DEF CursorMoved
    <3>4. CursorMoved(u, [u EXCEPT !.x = 0])
      BY <3>3, ColumnMoved
    <3>5. cursorUp(v, n) = u
      BY <1>1, <2>2, <3>1 DEF cursorUp, Buffer
    <3>6. w = [u EXCEPT !.x = 0]
      BY <2>9, <3>5 DEF cursorPrecedingLine
    <3> QED BY <3>3, <3>4, <3>6, KeptThenMoved
  <2>10. CASE w = cursorCharAbsolute(v, n)
    BY <1>4, <2>2, <2>3, <2>10 DEF cursorCharAbsolute
  <2>11. CASE w = charPosAbsolute(v, n)
    BY <1>4, <2>2, <2>3, <2>11 DEF charPosAbsolute
  <2>12. CASE w = linePosAbsolute(v, n)
    BY <1>5, <2>2, <2>3, <2>12 DEF linePosAbsolute
  <2> QED BY <1>11, <2>4, <2>5, <2>6, <2>7, <2>8, <2>9, <2>10, <2>11, <2>12
<1>12. ASSUME NEW m \in Counts, NEW n \in Counts,
              w \in {cursorPosition(v, m, n), hVPosition(v, m, n), hVPosition(v, m, NaN)}
       PROVE  Kept(v, w)
  <2>1. PICK x, y : x = Least(n, cols) - 1 /\ y = Least(m, rows) - 1
    OBVIOUS
  <2>2. x \in Int /\ y \in Int /\ y < rows /\ NaN \in Int
    BY <1>2, <2>1, CountsAssumption DEF Least, NaN
  <2>3. w \in {[v EXCEPT !.x = x, !.y = y], [v EXCEPT !.x = NaN, !.y = y]}
    BY <1>12, <2>1, Zenon DEF cursorPosition, hVPosition
  <2> QED BY <1>3, <2>2, <2>3
<1>13. ASSUME NEW x \in 0 .. MaxX, w \in {nextStop(v, x), prevStop(v, x), restoreCursor(v, x)}
       PROVE  Kept(v, w)
  <2>1. x \in Int
    BY MaxXAssumption
  <2>2. PICK p, q :
          /\ p = IF v.x = NaN THEN NaN ELSE IF x > v.x THEN Least(x, cols - 1) ELSE cols - 1
          /\ q = IF v.x = NaN THEN NaN ELSE Least(Least(x, Left(v.x, 1)), cols - 1)
    OBVIOUS
  <2>3. p \in Int /\ q \in Int
    <3>1. cols - 1 \in Int /\ NaN \in Int /\ Left(v.x, 1) \in Int
      <4>1. v.x \in Int /\ cols - 1 \in Int /\ NaN \in Int
        BY <1>1, <1>2 DEF NaN
      <4> QED BY <4>1, OneSideways, Zenon
    <3>2. Least(x, cols - 1) \in Int /\ Least(x, Left(v.x, 1)) \in Int
      BY <2>1, <3>1, LeastMost
    <3>3. Least(Least(x, Left(v.x, 1)), cols - 1) \in Int
      BY <3>1, <3>2, LeastMost
    <3> QED BY <2>2, <3>1, <3>2, <3>3
  <2>4. CASE w = nextStop(v, x)
    BY <1>1, <1>4, <2>2, <2>3, <2>4 DEF nextStop, Buffer
  <2>5. CASE w = prevStop(v, x)
    BY <1>1, <1>4, <2>2, <2>3, <2>5 DEF prevStop, Buffer
  <2>6. CASE w = restoreCursor(v, x)
    <3>1. v.savedY <= v.savedY
      BY <1>1
    <3> QED BY <1>1, <1>3, <2>1, <2>6, <3>1 DEF restoreCursor
  <2> QED BY <1>13, <2>4, <2>5, <2>6
<1>14. CASE w = saveCursor(v)
  <2>1. /\ w \in Buffer /\ w.y = v.y /\ w.savedY = v.y
        /\ w.lines = v.lines /\ w.ybase = v.ybase /\ w.ydisp = v.ydisp
        /\ w.maxLength = v.maxLength /\ w.scrollTop = v.scrollTop
        /\ w.scrollBottom = v.scrollBottom
    BY <1>1, <1>14 DEF saveCursor, Buffer
  <2>2. CursorMoved(v, w)
    BY <2>1 DEF CursorMoved, Window, Sized, Above
  <2> QED BY <2>2, CursorMovedKept
<1>15. ASSUME NEW g \in Regions[active], g[1] <= rows, w = setScrollRegion(v, g[1], g[2])
       PROVE  Kept(v, w)
  <2>1. g[1] \in Nat \ {0} /\ g[2] \in Nat \ {0}
    BY RegionsAssumption DEF Names
  <2>2. PICK top, bottom : top = g[1] - 1 /\ bottom = (IF g[2] <= rows THEN g[2] ELSE rows) - 1
    OBVIOUS
  <2>3. top \in Nat /\ top < rows /\ bottom \in Nat /\ bottom < rows
    BY <1>2, <1>15, <2>1, <2>2
  <2>4. /\ w \in Buffer /\ w.y = 0 /\ w.savedY = v.savedY
        /\ w.lines = v.lines /\ w.ybase = v.ybase /\ w.ydisp = v.ydisp
        /\ w.maxLength = v.maxLength /\ w.scrollTop = top /\ w.scrollBottom = bottom
    <3>1. w = [v EXCEPT !.x = 0, !.y = 0, !.scrollTop = top, !.scrollBottom = bottom]
      BY <1>15, <2>2, Zenon DEF setScrollRegion
    <3>2. w \in Buffer
      <4>1. v \in Buffer /\ 0 \in Int /\ top \in Nat /\ bottom \in Nat
        BY <1>1, <2>3
      <4>2. PICK u : u = [v EXCEPT !.x = 0, !.y = 0]
        OBVIOUS
      <4>3. u \in Buffer
        BY <4>1, <4>2 DEF Buffer
      <4>4. w = [u EXCEPT !.scrollTop = top, !.scrollBottom = bottom]
        BY <3>1, <4>1, <4>2 DEF Buffer
      <4> QED BY <4>1, <4>3, <4>4 DEF Buffer
    <3>3. w.y = 0 /\ w.savedY = v.savedY /\ w.lines = v.lines /\ w.maxLength = v.maxLength
      BY <1>1, <3>1 DEF Buffer
    <3>4. w.ybase = v.ybase /\ w.ydisp = v.ydisp
      BY <1>1, <3>1 DEF Buffer
    <3>5. w.scrollTop = top /\ w.scrollBottom = bottom
      BY <1>1, <3>1 DEF Buffer
    <3> QED BY <3>2, <3>3, <3>4, <3>5
  <2>5. Window(w, rows)
    BY <2>3, <2>4 DEF Window, Sized
  <2>6. Above(v, rows) => Above(w, rows)
    BY <1>2, <2>4 DEF Above
  <2> QED BY <2>4, <2>5, <2>6, CursorMovedKept DEF CursorMoved
<1> DEFINE
      A == {lineFeed(v), index(v), carriageReturn(v), nextLine(v), backspace(v),
            reverseIndex(v)}
      B(n) == {cursorUp(v, n), cursorDown(v, n), cursorForward(v, n), cursorBackward(v, n),
               cursorNextLine(v, n), cursorPrecedingLine(v, n), cursorCharAbsolute(v, n),
               charPosAbsolute(v, n), hPositionRelative(v, n), linePosAbsolute(v, n),
               vPositionRelative(v, n)}
      C(m, n) == {cursorPosition(v, m, n), hVPosition(v, m, n), hVPosition(v, m, NaN)}
      D(x) == {nextStop(v, x), prevStop(v, x), restoreCursor(v, x)}
      BB == UNION {B(n) : n \in Counts}
      CC == UNION {C(m, n) : m, n \in Counts}
      DD == UNION {D(x) : x \in 0 .. MaxX}
      E == {saveCursor(v)}
      F == {setScrollRegion(v, g[1], g[2]) : g \in {h \in Regions[active] : h[1] <= rows}}
<1>17. w \in A => Kept(v, w)
  BY <1>6, <1>7, <1>8, <1>9, <1>10
<1>18. ASSUME NEW n \in Counts, w \in B(n) PROVE Kept(v, w)
  BY <1>11, <1>18
<1>19. ASSUME NEW m \in Counts, NEW n \in Counts, w \in C(m, n) PROVE Kept(v, w)
  BY <1>12, <1>19
<1>20. ASSUME NEW x \in 0 .. MaxX, w \in D(x) PROVE Kept(v, w)
  BY <1>13, <1>20
<1>21. w \in E => Kept(v, w)
  BY <1>14
<1>22. w \in F => Kept(v, w)
  BY <1>15
<1>23. w \in A \cup BB \cup CC \cup DD \cup E \cup F
  BY DEF Moves
<1> HIDE DEF A, B, C, D, E, F
<1>24. w \in BB => Kept(v, w)
  BY <1>18
<1>25. w \in CC => Kept(v, w)
  <2> SUFFICES ASSUME NEW c \in {C(m, n) : m, n \in Counts}, w \in c PROVE Kept(v, w)
    OBVIOUS
  <2>1. PICK m \in Counts, n \in Counts : c = C(m, n)
    OBVIOUS
  <2> QED BY <1>19, <2>1
<1>26. w \in DD => Kept(v, w)
  BY <1>20
<1> HIDE DEF BB, CC, DD
<1> QED BY <1>17, <1>21, <1>22, <1>23, <1>24, <1>25, <1>26

\* A line goes out, and a blank one in.
LEMMA MovedKept ==
  ASSUME Size, NEW v, Window(v, rows), NEW i \in Nat, NEW j \in Nat,
         i < Len(v.lines), j < Len(v.lines),
         v.y \in 0 .. rows - 1 => v.ybase <= i /\ v.ybase <= j
  PROVE  Kept(v, Moved(v, i, j))
<1>1. PICK s, n, max, y : s = v.lines /\ n = Len(v.lines) /\ max = v.maxLength /\ y = v.ybase
  OBVIOUS
<1>2. s \in Seq(Line) /\ n = Len(s) /\ max \in Nat /\ y \in Nat
  BY <1>1, PartsOf DEF Window, Sized
<1>3. n \in Nat /\ n <= max /\ i < n /\ j < n
  BY <1>1, <1>2 DEF Window
<1>4. PICK d, t : d = Deleted(s, i) /\ t = Inserted(d, j, "blank", max)
  OBVIOUS
<1>5. d \in Seq(Line) /\ Len(d) = n - 1 /\ \A k \in 1 .. i : d[k] = s[k]
  <2>1. IsDeleted(d, s, i)
    BY <1>2, <1>3, <1>4, DeletedIs
  <2> QED BY <1>2, <2>1 DEF IsDeleted
<1>6. t \in Seq(Line) /\ Len(t) = n /\ \A k \in 1 .. j : t[k] = d[k]
  <2>1. j <= Len(d) /\ Len(d) <= max /\ Len(d) # max /\ "blank" \in Line
    BY <1>2, <1>3, <1>5 DEF Line
  <2>2. IsInserted(t, d, j, max)
    BY <1>2, <1>4, <1>5, <2>1, InsertedIs
  <2>3. PICK k \in {0, 1} : /\ k = IF Len(d) = max THEN 1 ELSE 0
                            /\ t \in Seq(Line) /\ Len(t) = Len(d) + 1 - k
                            /\ \A m \in 1 .. j - k : t[m] = d[k + m]
    BY <2>2 DEF IsInserted
  <2>4. k = 0
    BY <2>1, <2>3
  <2>5. n - 1 + 1 - k = n /\ \A m \in 1 .. j : m \in 1 .. j - k /\ k + m = m
    BY <1>3, <2>4
  <2> QED BY <1>5, <2>3, <2>5
<1>7. ASSUME v.y \in 0 .. rows - 1 PROVE \A k \in 1 .. y : t[k] = s[k]
  <2>1. \A k \in 1 .. y : k \in 1 .. i /\ k \in 1 .. j
    BY <1>1, <1>2, <1>7
  <2> QED BY <1>5, <1>6, <2>1
<1>8. Kept(v, [v EXCEPT !.lines = t])
  BY <1>1, <1>6, <1>7, LinesKept
<1>9. Moved(v, i, j) = [v EXCEPT !.lines = t]
  BY <1>1, <1>4 DEF Moved
<1> QED BY <1>8, <1>9

\* Lines made blank one by one.
LEMMA BlankedKept ==
  ASSUME Size, NEW v, Window(v, rows), NEW gone,
         v.y \in 0 .. rows - 1 => \A j \in 1 .. v.ybase : j - 1 \notin gone
  PROVE  Kept(v, [v EXCEPT !.lines = [j \in DOMAIN v.lines |->
                                       IF j - 1 \in gone THEN "blank" ELSE v.lines[j]]])
<1>1. PICK l : l = [j \in DOMAIN v.lines |-> IF j - 1 \in gone THEN "blank" ELSE v.lines[j]]
  OBVIOUS
<1>2. v.lines \in Seq(Line) /\ v.ybase \in Nat
  BY PartsOf DEF Window, Sized
<1>3. DOMAIN l = DOMAIN v.lines /\ l = [j \in DOMAIN v.lines |-> l[j]]
  BY <1>1
<1>4. \A j \in DOMAIN v.lines : l[j] \in Line
  <2>1. \A j \in DOMAIN v.lines : v.lines[j] \in Line
    BY <1>2
  <2> QED BY <1>1, <2>1 DEF Line
<1>5. 1 .. v.ybase \subseteq DOMAIN v.lines
  <2>1. DOMAIN v.lines = 1 .. v.ybase + rows
    BY <1>2 DEF Window
  <2>2. PICK y : y = v.ybase /\ y \in Nat
    BY <1>2
  <2>3. 1 .. y \subseteq 1 .. y + rows
    BY <2>2 DEF Size
  <2> QED BY <2>1, <2>2, <2>3
<1>6. v.y \in 0 .. rows - 1 => \A j \in 1 .. v.ybase : l[j] = v.lines[j]
  BY <1>1, <1>5
<1>7. Kept(v, [v EXCEPT !.lines = l])
  BY <1>3, <1>4, <1>6, EachLineKept
<1> QED BY <1>1, <1>7

\* The handlers that change lines without the cursor.
LEMMA EditsKept ==
  ASSUME Size, NEW v, Window(v, rows), NEW w \in Edits(v) PROVE Kept(v, w)
<1>1. PICK n, y, c, top, bottom :
        /\ n = Len(v.lines) /\ y = v.ybase /\ c = v.y
        /\ top = v.ybase + v.scrollTop /\ bottom = v.ybase + v.scrollBottom
  OBVIOUS
<1>2. v \in Buffer /\ v.lines \in Seq(Line) /\ y \in Nat /\ c \in Int /\ rows \in Nat \ {0}
  BY <1>1, PartsOf DEF Window, Sized, Size
<1>3. /\ n = y + rows /\ n \in Nat /\ top \in y .. n - 1 /\ bottom \in y .. n - 1
      /\ top \in Nat /\ bottom \in Nat
  <2>1. PICK st, sb : st = v.scrollTop /\ sb = v.scrollBottom
    OBVIOUS
  <2>2. /\ st \in Nat /\ sb \in Nat /\ st < rows /\ sb < rows
        /\ n = y + rows /\ top = y + st /\ bottom = y + sb
    BY <1>1, <1>2, <2>1, PartsOf DEF Window, Sized
  <2> QED BY <1>2, <2>2
<1>4. \A i, j \in Nat : i < n /\ j < n /\ (c \in 0 .. rows - 1 => y <= i /\ y <= j)
                        => Kept(v, Moved(v, i, j))
  BY <1>1, MovedKept
<1>5. \A gone : (c \in 0 .. rows - 1 => \A j \in 1 .. y : j - 1 \notin gone)
                => Kept(v, [v EXCEPT !.lines = [j \in DOMAIN v.lines |->
                                       IF j - 1 \in gone THEN "blank" ELSE v.lines[j]]])
  BY <1>1, BlankedKept
<1>6. CASE w \in {scrollUp(v), scrollDown(v)}
  <2>1. Kept(v, Moved(v, top, bottom)) /\ Kept(v, Moved(v, bottom, top))
    BY <1>3, <1>4
  <2> QED BY <1>1, <1>6, <2>1 DEF scrollUp, scrollDown
<1>7. CASE w = eraseWindow(v)
  <2>1. \A j \in 1 .. y : j - 1 \notin y .. y + rows - 1
    BY <1>2
  <2>2. w = [v EXCEPT !.lines = [j \in DOMAIN v.lines |->
                   IF j - 1 \in y .. y + rows - 1 THEN "blank" ELSE v.lines[j]]]
    BY <1>1, <1>7 DEF eraseWindow
  <2> QED BY <1>5, <2>1, <2>2
<1>8. c \in 0 .. rows - 1 => Rows(v) = {y + c}
  BY <1>1, RowsAre
<1>9. CASE w = eraseBelow(v)
  <2>0. PICK lo, hi : lo = y + c + 1 /\ hi = y + rows - 1
    OBVIOUS
  <2>1. PICK gone : gone = (lo .. hi) \cup (IF v.x = 0 THEN Rows(v) ELSE {})
    OBVIOUS
  <2>2. c \in 0 .. rows - 1 => \A j \in 1 .. y : j - 1 \notin gone
    BY <1>2, <1>8, <2>0, <2>1
  <2>3. DOMAIN v.lines \subseteq Int
    BY <1>2
  <2>4. w = [v EXCEPT !.lines = [j \in DOMAIN v.lines |->
                   IF j - 1 \in gone THEN "blank" ELSE v.lines[j]]]
    <3>1. PICK f, g :
            /\ f = [j \in DOMAIN v.lines |->
                     IF \/ j - 1 \in lo .. hi
                        \/ j - 1 \in Rows(v) /\ v.x = 0 THEN "blank" ELSE v.lines[j]]
            /\ g = [j \in DOMAIN v.lines |-> IF j - 1 \in gone THEN "blank" ELSE v.lines[j]]
      OBVIOUS
    <3>2. \A j \in DOMAIN v.lines : j - 1 \in Int
      BY <2>3
    <3>3. \A k \in Int : k \in gone <=> k \in lo .. hi \/ (k \in Rows(v) /\ v.x = 0)
      BY <2>1
    <3>6. ASSUME NEW j \in DOMAIN v.lines PROVE f[j] = g[j]
      <4>1. f[j] = IF j - 1 \in lo .. hi \/ (j - 1 \in Rows(v) /\ v.x = 0)
                   THEN "blank" ELSE v.lines[j]
        BY <3>1, <3>6
      <4>2. g[j] = IF j - 1 \in gone THEN "blank" ELSE v.lines[j]
        BY <3>1, <3>6
      <4>3. j - 1 \in gone <=> j - 1 \in lo .. hi \/ (j - 1 \in Rows(v) /\ v.x = 0)
        <5>1. PICK k : k = j - 1
          OBVIOUS
        <5>2. k \in Int
          BY <3>2, <3>6, <5>1
        <5>3. k \in gone <=> k \in lo .. hi \/ (k \in Rows(v) /\ v.x = 0)
          BY <3>3, <5>2
        <5> QED BY <5>1, <5>3
      <4> QED BY <4>1, <4>2, <4>3
    <3>4. f = g
      BY <3>1, <3>6
    <3>5. w = [v EXCEPT !.lines = f]
      BY <1>1, <1>9, <2>0, <3>1 DEF eraseBelow
    <3> QED BY <3>1, <3>4, <3>5
  <2> QED BY <1>5, <2>2, <2>4
<1>10. CASE w = eraseAbove(v)
  <2>0. PICK lo, hi : lo = y /\ hi = y + c - 1
    OBVIOUS
  <2>1. PICK gone : gone = (lo .. hi) \cup (IF v.x >= cols - 1 THEN Rows(v) ELSE {})
    OBVIOUS
  <2>2. c \in 0 .. rows - 1 => \A j \in 1 .. y : j - 1 \notin gone
    BY <1>2, <1>8, <2>0, <2>1
  <2>3. DOMAIN v.lines \subseteq Int
    BY <1>2
  <2>4. w = [v EXCEPT !.lines = [j \in DOMAIN v.lines |->
                   IF j - 1 \in gone THEN "blank" ELSE v.lines[j]]]
    <3>1. PICK f, g :
            /\ f = [j \in DOMAIN v.lines |->
                     IF \/ j - 1 \in lo .. hi
                        \/ j - 1 \in Rows(v) /\ v.x >= cols - 1 THEN "blank" ELSE v.lines[j]]
            /\ g = [j \in DOMAIN v.lines |-> IF j - 1 \in gone THEN "blank" ELSE v.lines[j]]
      OBVIOUS
    <3>2. \A j \in DOMAIN v.lines : j - 1 \in Int
      BY <2>3
    <3>3. \A k \in Int : k \in gone <=> k \in lo .. hi \/ (k \in Rows(v) /\ v.x >= cols - 1)
      BY <2>1
    <3>6. ASSUME NEW j \in DOMAIN v.lines PROVE f[j] = g[j]
      <4>1. f[j] = IF j - 1 \in lo .. hi \/ (j - 1 \in Rows(v) /\ v.x >= cols - 1)
                   THEN "blank" ELSE v.lines[j]
        BY <3>1, <3>6
      <4>2. g[j] = IF j - 1 \in gone THEN "blank" ELSE v.lines[j]
        BY <3>1, <3>6
      <4>3. j - 1 \in gone <=> j - 1 \in lo .. hi \/ (j - 1 \in Rows(v) /\ v.x >= cols - 1)
        <5>1. PICK k : k = j - 1
          OBVIOUS
        <5>2. k \in Int
          BY <3>2, <3>6, <5>1
        <5>3. k \in gone <=> k \in lo .. hi \/ (k \in Rows(v) /\ v.x >= cols - 1)
          BY <3>3, <5>2
        <5> QED BY <5>1, <5>3
      <4> QED BY <4>1, <4>2, <4>3
    <3>4. f = g
      BY <3>1, <3>6
    <3>5. w = [v EXCEPT !.lines = f]
      BY <1>1, <1>10, <2>0, <3>1 DEF eraseAbove
    <3> QED BY <3>1, <3>4, <3>5
  <2> QED BY <1>5, <2>2, <2>4
<1>11. CASE y + c \in 0 .. n - 1 /\ w \in {insertLines(v), deleteLines(v)}
  <2>1. y + c \in Nat /\ y + c < n /\ (c \in 0 .. rows - 1 => y <= y + c)
    BY <1>2, <1>3, <1>11
  <2>2. Kept(v, Moved(v, bottom, y + c)) /\ Kept(v, Moved(v, y + c, bottom))
    BY <1>3, <1>4, <2>1
  <2> QED BY <1>1, <1>11, <2>2 DEF insertLines, deleteLines
<1> QED BY <1>1, <1>6, <1>7, <1>9, <1>10, <1>11 DEF Edits

\* ED 3
LEMMA EraseScrollbackKept ==
  ASSUME Size, NEW v, Window(v, rows) PROVE Kept(v, eraseScrollback(v))
<1>1. PICK s, l, y, d, w : /\ s = v.lines /\ l = Len(v.lines) /\ y = v.ybase /\ d = v.ydisp
                           /\ w = eraseScrollback(v)
  OBVIOUS
<1>2. /\ v \in Buffer /\ s \in Seq(Line) /\ l = Len(s)
      /\ y \in Nat /\ d \in Nat /\ d <= y /\ l = y + rows
  BY <1>1, PartsOf DEF Window, Sized
<1>3. rows \in Nat \ {0} /\ l \in Nat
  BY <1>2 DEF Size
<1>4. Most(l - rows, 0) = y /\ Most(y - y, 0) = 0 /\ Most(d - y, 0) = 0
  BY <1>2, <1>3 DEF Most
<1>5. PICK t : t = SubSeq(s, y + 1, l)
  OBVIOUS
<1>6. t \in Seq(Line) /\ Len(t) = rows
  <2>1. y <= l /\ l - y = rows
    BY <1>2, <1>3
  <2>2. IsPart(t, s, Line, y, l - y)
    BY <1>2, <1>3, <1>5, <2>1, BackPart
  <2> QED BY <2>1, <2>2 DEF IsPart
<1>7. w = [v EXCEPT !.lines = t, !.ybase = 0, !.ydisp = 0]
  BY <1>1, <1>2, <1>4, <1>5 DEF eraseScrollback, Buffer
<1>8. /\ w \in Buffer /\ w.y = v.y /\ w.savedY = v.savedY
      /\ w.lines = t /\ w.ybase = 0 /\ w.ydisp = 0
      /\ w.maxLength = v.maxLength /\ w.scrollTop = v.scrollTop
      /\ w.scrollBottom = v.scrollBottom
  BY <1>2, <1>6, <1>7 DEF Buffer
<1>9. Window(w, rows)
  BY <1>3, <1>6, <1>8 DEF Window, Sized
<1>10. Still(v, w)
  <2>1. d < y => rows < l
    BY <1>2, <1>3
  <2> QED BY <1>1, <1>6, <1>8, <2>1 DEF Still
<1> QED BY <1>1, <1>8, <1>9, <1>10 DEF Kept, Above

\* One row more or less.
OneRow(v, r, cursor) == IF rows < r THEN RowMore(v, r, cursor) ELSE RowLess(v, r)

\* A loop over the rows, and its result.
IsLoop(g, v, r, cursor, count) ==
  /\ g = [i \in 0 .. count |-> IF i = 0 THEN v ELSE OneRow(g[i - 1], r, cursor)]
  /\ AllRows(v, r, cursor, count) = g[count]

\* The loop over the rows has a value.
LEMMA RowsLoop ==
  ASSUME NEW v, NEW r, NEW cursor, NEW count \in Nat
  PROVE  \E g : IsLoop(g, v, r, cursor, count)
<1>1. \E g : g = [i \in 0 .. count |-> IF i = 0 THEN v ELSE OneRow(g[i - 1], r, cursor)]
  <2> DEFINE Loop(g, n) ==
        g = [i \in 0 .. n |-> IF i = 0 THEN v ELSE OneRow(g[i - 1], r, cursor)]
  <2>1. \E g : Loop(g, 0)
    <3>1. PICK g : g = [i \in 0 .. 0 |-> v]
      OBVIOUS
    <3>2. \A i \in 0 .. 0 : i = 0
      OBVIOUS
    <3>3. Loop(g, 0)
      BY <3>1, <3>2
    <3> QED BY <3>3
  <2>2. ASSUME NEW n \in Nat, NEW g, Loop(g, n) PROVE \E h : Loop(h, n + 1)
    <3>1. PICK m : m = n + 1
      OBVIOUS
    <3>2. m \in Nat /\ m # 0 /\ m - 1 = n /\ m \notin 0 .. n
      BY <3>1
    <3>3. \A i \in 0 .. m : i = m \/ i \in 0 .. n
      BY <3>1
    <3>4. \A i \in 0 .. n : i # 0 => i - 1 \in 0 .. n
      OBVIOUS
    <3>5. PICK e : e = OneRow(g[n], r, cursor)
      OBVIOUS
    <3>6. PICK h : h = [i \in 0 .. m |-> IF i = m THEN e ELSE g[i]]
      OBVIOUS
    <3>7. \A i \in 0 .. n : h[i] = g[i]
      BY <3>2, <3>6, <3>1
    <3>8. h[m] = OneRow(h[m - 1], r, cursor)
      BY <3>2, <3>5, <3>6, <3>7
    <3>9. \A i \in 0 .. n : g[i] = IF i = 0 THEN v ELSE OneRow(g[i - 1], r, cursor)
      BY <2>2
    <3>10. \A i \in 0 .. n : h[i] = IF i = 0 THEN v ELSE OneRow(h[i - 1], r, cursor)
      BY <3>4, <3>7, <3>9
    <3>11. \A i \in 0 .. m : h[i] = IF i = 0 THEN v ELSE OneRow(h[i - 1], r, cursor)
      BY <3>2, <3>3, <3>8, <3>10
    <3>12. Loop(h, m)
      BY <3>6, <3>11
    <3> QED BY <3>1, <3>12
  <2> HIDE DEF Loop
  <2>3. \A n \in Nat : \E g : Loop(g, n)
    <3> SUFFICES ASSUME NEW n \in Nat, ~\E g : Loop(g, n) PROVE FALSE
      OBVIOUS
    <3>1. PICK S : S = {m \in Nat : ~\E g : Loop(g, m)}
      OBVIOUS
    <3>2. PICK m \in S : \A k \in S : m <= k
      BY <3>1, Lowest
    <3>3. m \in Nat /\ ~\E g : Loop(g, m)
      BY <3>1
    <3>4. m # 0
      BY <2>1, <3>3
    <3>5. PICK k : k = m - 1
      OBVIOUS
    <3>6. k \in Nat /\ k + 1 = m /\ ~(m <= k)
      BY <3>3, <3>4, <3>5
    <3>7. \E g : Loop(g, k)
      BY <3>1, <3>2, <3>6
    <3> QED BY <2>2, <3>3, <3>6, <3>7
  <2>4. \E g : Loop(g, count)
    BY <2>3
  <2> QED BY <2>4 DEF Loop
<1>2. PICK f : f = CHOOSE g :
        g = [i \in 0 .. count |-> IF i = 0 THEN v ELSE OneRow(g[i - 1], r, cursor)]
  OBVIOUS
<1>3. f = [i \in 0 .. count |-> IF i = 0 THEN v ELSE OneRow(f[i - 1], r, cursor)]
  BY <1>1, <1>2
<1>4. AllRows(v, r, cursor, count) = f[count]
  BY <1>2 DEF AllRows, OneRow
<1> QED BY <1>3, <1>4 DEF IsLoop

\* What the loop leaves alone.
SameCursor(v, w) ==
  /\ v.x = w.x /\ v.y = w.y /\ v.savedY = w.savedY /\ v.maxLength = w.maxLength
  /\ v.scrollTop = w.scrollTop /\ v.scrollBottom = w.scrollBottom

\* The view of a loop's result.
SameView(v, w) == w.ydisp <= w.ybase /\ (v.ydisp = v.ybase => w.ydisp = w.ybase)

\* No added row trims a line.
Room(v, r) ==
  /\ r <= v.maxLength
  /\ v.ybase + r <= v.maxLength \/ v.ybase = 0 \/ v.y >= rows - 1

\* After i rows more, of the number there are to be: a line that came back did
\* so above a cursor in the last row, and as long as there are such lines none
\* is added.  With room for them, every row has its line.
GrownBy(v, w, i, r) ==
  /\ w \in Buffer /\ SameCursor(v, w) /\ SameView(v, w)
  /\ Len(w.lines) <= w.ybase + rows + i
  /\ Room(v, r) => Len(w.lines) = w.ybase + rows + i
  /\ Len(w.lines) >= Len(v.lines) /\ Len(w.lines) <= w.maxLength
  /\ w.ybase <= v.ybase /\ v.ybase <= w.ybase + i
  /\ w.ybase < v.ybase => v.y >= rows - 1
  /\ v.ybase > 0 /\ v.y >= rows - 1 /\ w.ybase > 0 => Len(w.lines) = Len(v.lines)

\* After i rows less.
ShrunkBy(v, w, i) ==
  /\ w \in Buffer /\ SameCursor(v, w) /\ SameView(v, w)
  /\ Len(w.lines) = w.ybase + rows - i /\ Len(w.lines) <= w.maxLength

\* One row more.
LEMMA RowMoreGrows ==
  ASSUME Size, NEW r \in Nat, NEW v \in Buffer, Len(v.lines) = v.ybase + rows,
         r <= v.maxLength, NEW i \in Nat, rows + i < r, NEW w, GrownBy(v, w, i, r)
  PROVE  GrownBy(v, RowMore(w, r, v.ybase + v.y), i + 1, r)
<1>1. PICK l, l0, y, y0, c, d, d0, m, e :
        /\ l = Len(w.lines) /\ l0 = Len(v.lines) /\ y = w.ybase /\ y0 = v.ybase
        /\ c = v.y /\ d = w.ydisp /\ d0 = v.ydisp /\ m = w.maxLength /\ e = i + 1
  OBVIOUS
<1>2. w \in Buffer /\ SameCursor(v, w)
  BY DEF GrownBy
<1>3. /\ l \in Nat /\ l0 \in Nat /\ y \in Nat /\ y0 \in Nat /\ c \in Int
      /\ d \in Nat /\ d0 \in Nat /\ m \in Nat /\ w.lines \in Seq(Line)
  BY <1>1, <1>2, PartsOf
<1>4. rows \in Nat \ {0} /\ e \in Nat /\ e = i + 1
  BY <1>1 DEF Size
<1>5. /\ l0 = y0 + rows /\ r <= m
      /\ d <= y /\ (d0 = y0 => d = y)
      /\ l <= y + rows + i /\ l >= l0 /\ l <= m /\ y <= y0 /\ y0 <= y + i
      /\ (y < y0 => c >= rows - 1)
      /\ (y0 > 0 /\ c >= rows - 1 /\ y > 0 => l = l0)
  BY <1>1 DEF GrownBy, SameView, SameCursor
<1> DEFINE fits == y0 + r <= m \/ y0 = 0 \/ c >= rows - 1
<1>b. (Room(v, r) <=> fits) /\ (fits => l = y + rows + i)
  BY <1>1, <1>5 DEF GrownBy, SameCursor, Room
<1>6. ~(l >= r + y)
  BY <1>3, <1>4, <1>5
<1>7. CASE y > 0 /\ l <= y0 + c + 1
  <2>1. PICK u, d1, y1 : /\ y1 = y - 1 /\ d1 = Most(d - 1, 0)
                         /\ u = [w EXCEPT !.ybase = y1, !.ydisp = d1]
    OBVIOUS
  <2>2. y1 \in Nat /\ y1 = y - 1 /\ d1 \in Nat /\ d1 <= y1 /\ (d = y => d1 = y1)
    <3>1. y \in Nat /\ y > 0 /\ d \in Nat /\ d <= y
      BY <1>3, <1>5, <1>7
    <3>2. y1 = y - 1 /\ d1 = IF d - 1 > 0 THEN d - 1 ELSE 0
      BY <2>1 DEF Most
    <3> QED BY <3>1, <3>2
  <2>3. /\ u \in Buffer /\ u.ybase = y1 /\ u.ydisp = d1 /\ u.lines = w.lines
        /\ SameCursor(w, u)
    BY <1>2, <2>1, <2>2 DEF Buffer, SameCursor
  <2>4. RowMore(w, r, v.ybase + v.y) = u
    BY <1>1, <1>2, <1>6, <1>7, <2>1 DEF RowMore, Buffer
  <2>5. /\ l <= y1 + rows + e /\ l >= l0 /\ l <= m /\ y1 <= y0 /\ y0 <= y1 + e
        /\ (y1 < y0 => c >= rows - 1)
        /\ (y0 > 0 /\ c >= rows - 1 /\ y1 > 0 => l = l0)
    BY <1>3, <1>4, <1>5, <1>7, <2>2
  <2>a. Room(v, r) => l = y1 + rows + e
    BY <1>3, <1>4, <1>b, <2>2
  <2>6. SameCursor(v, u)
    BY <1>2, <2>3 DEF SameCursor
  <2>7. SameView(v, u)
    BY <1>1, <1>5, <2>2, <2>3 DEF SameView
  <2>8. u.maxLength = m
    BY <1>1, <2>3 DEF SameCursor
  <2>9. GrownBy(v, u, e, r)
    BY <1>1, <2>3, <2>5, <2>6, <2>7, <2>8, <2>a DEF GrownBy
  <2> QED BY <1>1, <2>4, <2>9
<1>8. CASE ~(y > 0 /\ l <= y0 + c + 1)
  <2>1. PICK t, u : t = Inserted(w.lines, l, "blank", m) /\ u = [w EXCEPT !.lines = t]
    OBVIOUS
  <2>2. fits => l < m
    <3> SUFFICES ASSUME fits PROVE l < m
      OBVIOUS
    <3>1. CASE y = 0
      BY <1>3, <1>4, <1>5, <3>1
    <3>2. CASE y > 0
      <4>1. l > y0 + c + 1
        BY <1>3, <1>8, <3>2
      <4>2. ~(c >= rows - 1)
        BY <1>3, <1>4, <1>5, <3>2, <4>1
      <4>3. y0 + r <= m
        BY <1>3, <1>5, <3>2, <4>2
      <4> QED BY <1>3, <1>4, <1>5, <4>3
    <3> QED BY <1>3, <3>1, <3>2
  <2>a. PICK k : k = Len(t)
    OBVIOUS
  <2>3. t \in Seq(Line) /\ k = IF l = m THEN l ELSE l + 1
    <3>1. l <= Len(w.lines) /\ Len(w.lines) <= m /\ "blank" \in Line
      BY <1>1, <1>3, <1>5 DEF Line
    <3>2. IsInserted(t, w.lines, l, m)
      BY <1>3, <2>1, <3>1, InsertedIs
    <3>3. t \in Seq(Line) /\ Len(t) = l + 1 - (IF l = m THEN 1 ELSE 0)
      BY <1>1, <3>2 DEF IsInserted
    <3> QED BY <1>3, <2>a, <3>3
  <2>4. u \in Buffer /\ u.lines = t /\ u.ybase = y /\ u.ydisp = d /\ SameCursor(w, u)
    BY <1>1, <1>2, <2>1, <2>3 DEF Buffer, SameCursor
  <2>5. RowMore(w, r, v.ybase + v.y) = u
    BY <1>1, <1>2, <1>6, <1>8, <2>1 DEF RowMore, Buffer
  <2>6. /\ k <= y + rows + e /\ k >= l0 /\ k <= m /\ y <= y0 /\ y0 <= y + e
        /\ (y < y0 => c >= rows - 1)
        /\ (y0 > 0 /\ c >= rows - 1 /\ y > 0 => k = l0)
    BY <1>3, <1>4, <1>5, <1>8, <2>3
  <2>b. Room(v, r) => k = y + rows + e
    BY <1>3, <1>4, <1>b, <2>2, <2>3
  <2>7. SameCursor(v, u)
    BY <1>2, <2>4 DEF SameCursor
  <2>8. SameView(v, u)
    BY <1>1, <1>5, <2>4 DEF SameView
  <2>9. u.maxLength = m
    BY <1>1, <2>4 DEF SameCursor
  <2>10. GrownBy(v, u, e, r)
    BY <1>1, <2>4, <2>6, <2>7, <2>8, <2>9, <2>a, <2>b DEF GrownBy
  <2> QED BY <1>1, <2>5, <2>10
<1> QED BY <1>7, <1>8

\* One row less.
LEMMA RowLessShrinks ==
  ASSUME Size, NEW r \in Nat, NEW v \in Buffer, NEW i \in Nat, r < rows - i,
         NEW w, ShrunkBy(v, w, i)
  PROVE  ShrunkBy(v, RowLess(w, r), i + 1)
<1>1. PICK l, y, c, d, d0, y0, m, e :
        /\ l = Len(w.lines) /\ y = w.ybase /\ c = w.y /\ d = w.ydisp /\ d0 = v.ydisp
        /\ y0 = v.ybase /\ m = w.maxLength /\ e = i + 1
  OBVIOUS
<1>2. w \in Buffer /\ SameCursor(v, w)
  BY DEF ShrunkBy
<1>3. /\ l \in Nat /\ y \in Nat /\ c \in Int /\ d \in Nat /\ d0 \in Nat /\ y0 \in Nat /\ m \in Nat
      /\ w.lines \in Seq(Line)
  BY <1>1, <1>2, PartsOf
<1>4. rows \in Nat \ {0} /\ e \in Nat /\ e = i + 1
  BY <1>1 DEF Size
<1>5. l = y + rows - i /\ l <= m /\ d <= y /\ (d0 = y0 => d = y)
  BY <1>1 DEF ShrunkBy, SameView
<1>6. ~(l <= r + y) /\ l > 0
  BY <1>3, <1>4, <1>5
<1>7. CASE l > y + c + 1
  <2>1. PICK t, u, k : t = Front(w.lines) /\ u = [w EXCEPT !.lines = t] /\ k = l - 1
    OBVIOUS
  <2>2. k \in Nat /\ k <= Len(w.lines) /\ k = y + rows - e /\ k <= m
    <3>1. k = l - 1
      BY <2>1
    <3>2. k \in Nat /\ k <= l /\ k <= m
      BY <1>3, <1>5, <1>6, <3>1
    <3>3. k = y + rows - e
      BY <1>3, <1>4, <1>5, <3>1
    <3> QED BY <1>1, <3>2, <3>3
  <2>3. t \in Seq(Line) /\ Len(t) = k
    <3>1. t = SubSeq(w.lines, 1, k)
      BY <1>1, <2>1 DEF Front
    <3>2. IsPart(t, w.lines, Line, 0, k)
      BY <1>3, <2>2, <3>1, FrontPart
    <3> QED BY <3>2 DEF IsPart
  <2>4. u \in Buffer /\ u.lines = t /\ u.ybase = y /\ u.ydisp = d /\ SameCursor(w, u)
    BY <1>1, <1>2, <2>1, <2>3 DEF Buffer, SameCursor
  <2>5. RowLess(w, r) = u
    BY <1>1, <1>2, <1>6, <1>7, <2>1 DEF RowLess, Buffer
  <2>6. SameCursor(v, u)
    BY <1>2, <2>4 DEF SameCursor
  <2>7. SameView(v, u)
    BY <1>1, <1>5, <2>4 DEF SameView
  <2>8. u.maxLength = m
    BY <1>1, <2>4 DEF SameCursor
  <2>9. ShrunkBy(v, u, e)
    BY <2>2, <2>3, <2>4, <2>6, <2>7, <2>8 DEF ShrunkBy
  <2> QED BY <1>1, <2>5, <2>9
<1>8. CASE ~(l > y + c + 1)
  <2>1. PICK u, y1, d1 : y1 = y + 1 /\ d1 = d + 1 /\ u = [w EXCEPT !.ybase = y1, !.ydisp = d1]
    OBVIOUS
  <2>2. y1 \in Nat /\ d1 \in Nat /\ d1 <= y1 /\ (d = y => d1 = y1) /\ l = y1 + rows - e
    <3>1. y1 = y + 1 /\ d1 = d + 1
      BY <2>1
    <3>2. y1 \in Nat /\ d1 \in Nat /\ d1 <= y1 /\ (d = y => d1 = y1)
      BY <1>3, <1>5, <3>1
    <3>3. l = y1 + rows - e
      BY <1>3, <1>4, <1>5, <3>1
    <3> QED BY <3>2, <3>3
  <2>3. u \in Buffer /\ u.lines = w.lines /\ u.ybase = y1 /\ u.ydisp = d1 /\ SameCursor(w, u)
    BY <1>2, <2>1, <2>2 DEF Buffer, SameCursor
  <2>4. RowLess(w, r) = u
    BY <1>1, <1>2, <1>6, <1>8, <2>1 DEF RowLess, Buffer
  <2>5. SameCursor(v, u)
    BY <1>2, <2>3 DEF SameCursor
  <2>6. SameView(v, u)
    BY <1>1, <1>5, <2>2, <2>3 DEF SameView
  <2>7. u.maxLength = m
    BY <1>1, <2>3 DEF SameCursor
  <2>8. ShrunkBy(v, u, e)
    BY <1>1, <1>5, <2>2, <2>3, <2>5, <2>6, <2>7 DEF ShrunkBy
  <2> QED BY <1>1, <2>4, <2>8
<1> QED BY <1>7, <1>8

\* The whole loop.
AllFit(v, w, r) == IF rows < r THEN GrownBy(v, w, r - rows, r) ELSE ShrunkBy(v, w, rows - r)

\* By the least number of rows for which it would not.
LEMMA AllRowsFit ==
  ASSUME Size, NEW r \in Nat \ {0}, NEW v \in Buffer, Len(v.lines) = v.ybase + rows,
         Len(v.lines) <= v.maxLength, v.ydisp <= v.ybase, r <= v.maxLength
  PROVE  AllFit(v, AllRows(v, r, v.ybase + v.y, Most(r - rows, rows - r)), r)
<1>1. PICK count, cursor : count = Most(r - rows, rows - r) /\ cursor = v.ybase + v.y
  OBVIOUS
<1>2. /\ rows \in Nat \ {0} /\ count \in Nat
      /\ count = IF rows < r THEN r - rows ELSE rows - r
  BY <1>1 DEF Size, Most
<1>a. count \in Nat
  BY <1>2
<1>b. PICK g : IsLoop(g, v, r, cursor, count)
  BY <1>a, RowsLoop
<1>3. /\ g = [i \in 0 .. count |-> IF i = 0 THEN v ELSE OneRow(g[i - 1], r, cursor)]
      /\ AllRows(v, r, cursor, count) = g[count]
  BY <1>b DEF IsLoop
<1> DEFINE Fit(i) == IF rows < r THEN GrownBy(v, g[i], i, r) ELSE ShrunkBy(v, g[i], i)
<1>4. Fit(0)
  <2>1. 0 \in 0 .. count
    BY <1>2
  <2>2. g[0] = v
    BY <1>3, <2>1
  <2>3. SameCursor(v, v) /\ SameView(v, v)
    BY DEF SameCursor, SameView
  <2>4. PICK l, y : l = Len(v.lines) /\ y = v.ybase
    OBVIOUS
  <2>5. l \in Nat /\ y \in Nat /\ l = y + rows
    BY <2>4, PartsOf
  <2>6. /\ l = y + rows + 0 /\ l <= y + rows + 0 /\ l = y + rows - 0
        /\ l >= l /\ y <= y /\ y <= y + 0 /\ ~(y < y)
    BY <1>2, <2>5
  <2>7. GrownBy(v, v, 0, r) /\ ShrunkBy(v, v, 0)
    BY <2>3, <2>4, <2>6 DEF GrownBy, ShrunkBy
  <2> QED BY <2>2, <2>7
<1>5. ASSUME NEW i \in Nat, i + 1 <= count, Fit(i) PROVE Fit(i + 1)
  <2>1. PICK e : e = i + 1
    OBVIOUS
  <2>2. e \in 0 .. count /\ e # 0 /\ e - 1 = i
    BY <1>2, <1>5, <2>1
  <2>3. g[e] = OneRow(g[i], r, cursor)
    BY <1>3, <2>2
  <2>4. CASE rows < r
    <3>1. rows + i < r
      BY <1>2, <1>5, <2>4
    <3>2. GrownBy(v, RowMore(g[i], r, cursor), i + 1, r)
      BY <1>1, <1>5, <2>4, <3>1, RowMoreGrows
    <3> QED BY <2>1, <2>3, <2>4, <3>2 DEF OneRow
  <2>5. CASE ~(rows < r)
    <3>1. r < rows - i
      BY <1>2, <1>5, <2>5
    <3>2. ShrunkBy(v, RowLess(g[i], r), i + 1)
      BY <1>5, <2>5, <3>1, RowLessShrinks
    <3> QED BY <2>1, <2>3, <2>5, <3>2 DEF OneRow
  <2> QED BY <2>4, <2>5
<1> HIDE DEF Fit
<1>6. Fit(count)
  <2> SUFFICES ASSUME ~Fit(count) PROVE FALSE
    OBVIOUS
  <2>1. PICK S : S = {i \in Nat : i <= count /\ ~Fit(i)}
    OBVIOUS
  <2>2. count \in S
    BY <1>2, <2>1
  <2>3. PICK m \in S : \A k \in S : m <= k
    BY <2>1, <2>2, Lowest
  <2>4. m \in Nat /\ m <= count /\ ~Fit(m)
    BY <2>1
  <2>5. m # 0
    BY <1>4, <2>4
  <2>6. PICK k : k = m - 1
    OBVIOUS
  <2>7. k \in Nat /\ k + 1 = m /\ k <= count /\ ~(m <= k)
    BY <1>2, <2>4, <2>5, <2>6
  <2>8. Fit(k)
    BY <2>1, <2>3, <2>7
  <2> QED BY <1>5, <2>4, <2>7, <2>8
<1>7. AllFit(v, g[count], r)
  BY <1>2, <1>6 DEF AllFit, Fit
<1> QED BY <1>1, <1>3, <1>7

\* A buffer after a resize.  Where the window may lack a line it grew, with
\* the cursor above its last row and lines above it.
Fits(w, r) == Sized(w, r) /\ Len(w.lines) <= w.ybase + r /\ Len(w.lines) <= w.maxLength
Resized(v, w, r, max) ==
  /\ Fits(w, r) /\ w.maxLength = max
  /\ Window(w, r) \/ (rows < r /\ v.ybase > 0 /\ v.y < rows - 1)
  /\ v.ydisp = v.ybase => w.ydisp = w.ybase
  /\ Above(v, rows) => Above(w, r)

\* What is above the last lines the list has room for goes.
IsTrimmed(v, w, r, max) ==
  /\ w \in Buffer /\ w.y = v.y /\ w.savedY = v.savedY /\ w.x = v.x
  /\ w.scrollBottom = v.scrollBottom /\ w.maxLength = max
  /\ Len(w.lines) <= w.ybase + r /\ Len(w.lines) <= max
  /\ Len(v.lines) = v.ybase + r => Len(w.lines) = w.ybase + r
  /\ w.ydisp <= w.ybase /\ (v.ydisp = v.ybase => w.ydisp = w.ybase)

\* The window moves with its lines, for the list has room for them.
LEMMA TrimmedIs ==
  ASSUME NEW v \in Buffer, NEW r \in Nat, NEW max \in Nat, r <= max,
         Len(v.lines) <= v.ybase + r, v.ydisp <= v.ybase
  PROVE  IsTrimmed(v, Trimmed(v, max), r, max)
<1>1. PICK l, y, d, s : l = Len(v.lines) /\ y = v.ybase /\ d = v.ydisp /\ s = v.lines
  OBVIOUS
<1>2. /\ l \in Nat /\ y \in Nat /\ d \in Nat /\ s \in Seq(Line) /\ l = Len(s)
      /\ l <= y + r /\ d <= y
  BY <1>1, PartsOf
<1>3. PICK n : n = Most(l - max, 0)
  OBVIOUS
<1>4. n \in Nat /\ n <= y /\ n <= l /\ l - n <= max
  <2>1. n = IF l - max > 0 THEN l - max ELSE 0
    BY <1>3 DEF Most
  <2> QED BY <1>2, <2>1
<1>5. PICK t, y1, d1 : t = SubSeq(s, n + 1, l) /\ y1 = Most(y - n, 0) /\ d1 = Most(d - n, 0)
  OBVIOUS
<1>6. /\ y1 \in Nat /\ d1 \in Nat /\ d1 <= y1 /\ (d = y => d1 = y1) /\ l - n <= y1 + r
      /\ (l = y + r => l - n = y1 + r)
  <2>1. y1 = (IF y - n > 0 THEN y - n ELSE 0) /\ d1 = (IF d - n > 0 THEN d - n ELSE 0)
    BY <1>5 DEF Most
  <2>2. y1 \in Nat /\ d1 \in Nat /\ d1 <= y1 /\ (d = y => d1 = y1)
    BY <1>2, <1>4, <2>1
  <2>3. y1 = y - n
    BY <1>2, <1>4, <2>1
  <2>4. l - n <= y1 + r /\ (l = y + r => l - n = y1 + r)
    BY <1>2, <1>4, <2>3
  <2> QED BY <2>2, <2>4
<1>7. t \in Seq(Line) /\ Len(t) = l - n
  <2>1. IsPart(t, s, Line, n, l - n)
    BY <1>2, <1>4, <1>5, BackPart
  <2> QED BY <2>1 DEF IsPart
<1>8. PICK w : w = [v EXCEPT !.lines = t, !.maxLength = max, !.ybase = y1, !.ydisp = d1]
  OBVIOUS
<1>9. Trimmed(v, max) = w
  BY <1>1, <1>3, <1>5, <1>8 DEF Trimmed, Buffer
<1>10. /\ w \in Buffer /\ w.lines = t /\ w.maxLength = max /\ w.ybase = y1 /\ w.ydisp = d1
       /\ w.x = v.x /\ w.y = v.y /\ w.savedY = v.savedY /\ w.scrollBottom = v.scrollBottom
  BY <1>6, <1>7, <1>8 DEF Buffer
<1>11. /\ Len(w.lines) <= w.ybase + r /\ Len(w.lines) <= max
       /\ Len(v.lines) = v.ybase + r => Len(w.lines) = w.ybase + r
  BY <1>1, <1>4, <1>6, <1>7, <1>10
<1>12. w.ydisp <= w.ybase /\ (v.ydisp = v.ybase => w.ydisp = w.ybase)
  BY <1>1, <1>6, <1>10
<1> QED BY <1>9, <1>10, <1>11, <1>12 DEF IsTrimmed

\* Buffer.resize, of a buffer with lines.
LEMMA ResizeFits ==
  ASSUME Size, NEW n \in Names, NEW c \in Nat \ {0}, NEW r \in Nat \ {0},
         NEW max, max = IF n = "normal" THEN r + scrollback ELSE r,
         Window(buf[n], rows)
  PROVE  /\ Resized(buf[n], resize(n, c, r), r, max)
         /\ n = "normal" /\ buf[n].maxLength = rows + scrollback => Window(resize(n, c, r), r)
<1>1. PICK v : v = buf[n]
  OBVIOUS
<1>2. v \in Buffer /\ Window(v, rows)
  BY <1>1 DEF Window, Sized
<1>3. PICK l, y, x, d, m, k, sy :
        /\ l = Len(v.lines) /\ y = v.ybase /\ k = v.y /\ d = v.ydisp /\ m = v.maxLength
        /\ x = v.x /\ sy = v.savedY
  OBVIOUS
<1>4. /\ l \in Nat /\ y \in Nat /\ k \in Int /\ d \in Nat /\ m \in Nat /\ x \in Int /\ sy \in Int
      /\ l = y + rows /\ l <= m /\ d <= y
      /\ v.scrollTop \in Nat /\ v.lines \in Seq(Line)
  <2>1. /\ v.x \in Int /\ v.y \in Int /\ v.savedY \in Int /\ v.ybase \in Nat
        /\ v.ydisp \in Nat /\ v.scrollTop \in Nat /\ v.maxLength \in Nat
        /\ v.lines \in Seq(Line)
    BY <1>2, PartsOf
  <2>2. Len(v.lines) = v.ybase + rows /\ Len(v.lines) <= v.maxLength /\ v.ydisp <= v.ybase
    BY <1>2 DEF Window, Sized
  <2>3. Len(v.lines) \in Nat
    BY <2>1
  <2> QED BY <1>3, <2>1, <2>2, <2>3
<1>5. rows \in Nat \ {0} /\ max \in Nat /\ r <= max
  BY scrollbackAssumption DEF Size
<1>6. PICK m1, q : m1 = Most(m, max) /\ q = r - 1
  OBVIOUS
<1>7. m1 \in Nat /\ q \in Nat /\ q = r - 1 /\ m <= m1 /\ max <= m1
  <2>1. m1 = IF m > max THEN m ELSE max
    BY <1>6 DEF Most
  <2> QED BY <1>4, <1>5, <1>6, <2>1
<1>8. PICK u : u = [v EXCEPT !.maxLength = m1, !.scrollBottom = q]
  OBVIOUS
<1>9. /\ u \in Buffer /\ u.maxLength = m1 /\ u.lines = v.lines /\ u.ybase = v.ybase
      /\ u.ydisp = v.ydisp /\ u.x = v.x /\ u.y = v.y /\ u.savedY = v.savedY
      /\ u.scrollBottom = q /\ u.scrollTop = v.scrollTop
  BY <1>2, <1>7, <1>8 DEF Buffer
<1> DEFINE enough ==
      (n = "normal" /\ m = rows + scrollback) \/ y = 0 \/ k >= rows - 1 \/ ~(rows < r)
<1>10. r <= u.maxLength /\ (enough /\ rows < r => Room(u, r))
  <2>1. r <= m1
    BY <1>5, <1>7
  <2>2. n = "normal" => max = r + scrollback
    OBVIOUS
  <2>3. scrollback \in Nat
    BY scrollbackAssumption
  <2>4. enough /\ rows < r => y + r <= m1 \/ y = 0 \/ k >= rows - 1
    BY <1>4, <1>5, <1>7, <2>2, <2>3
  <2> QED BY <1>3, <1>9, <2>1, <2>4 DEF Room
<1>11. PICK f : f = AllRows(u, r, u.ybase + u.y, Most(r - rows, rows - r))
  OBVIOUS
<1>12. AllFit(u, f, r)
  <2>1. Len(u.lines) = u.ybase + rows /\ u.ydisp <= u.ybase
    BY <1>3, <1>4, <1>9
  <2>2. Len(u.lines) <= u.maxLength
    <3>1. l <= m1
      BY <1>4, <1>7
    <3> QED BY <1>3, <1>9, <3>1
  <2> QED BY <1>9, <1>10, <1>11, <2>1, <2>2, AllRowsFit
<1>13. f \in Buffer /\ SameCursor(u, f) /\ SameView(u, f)
  BY <1>12 DEF AllFit, GrownBy, ShrunkBy
<1>14. PICK l1, y1 : l1 = Len(f.lines) /\ y1 = f.ybase
  OBVIOUS
<1>15. y1 \in Nat /\ f.ydisp \in Nat
  BY <1>13, <1>14, PartsOf
<1>16. Len(f.lines) <= f.ybase + r /\ (enough => Len(f.lines) = f.ybase + r)
  <2>1. CASE rows < r
    <3>1. /\ l1 <= y1 + rows + (r - rows)
          /\ enough => l1 = y1 + rows + (r - rows)
      BY <1>10, <1>12, <1>14, <2>1 DEF AllFit, GrownBy
    <3>2. l1 <= y1 + r /\ (enough => l1 = y1 + r)
      BY <1>5, <1>15, <3>1
    <3> QED BY <1>14, <3>2
  <2>2. CASE ~(rows < r)
    <3>1. l1 = y1 + rows - (rows - r)
      BY <1>12, <1>14, <2>2 DEF AllFit, ShrunkBy
    <3>2. l1 = y1 + r /\ l1 <= y1 + r
      BY <1>5, <1>15, <3>1
    <3> QED BY <1>14, <3>2
  <2> QED BY <2>1, <2>2
<1>17. PICK t : t = Trimmed(f, max)
  OBVIOUS
<1>18. IsTrimmed(f, t, r, max)
  BY <1>5, <1>13, <1>16, <1>17, TrimmedIs DEF SameView
<1>19. PICK add, x1, k1, s1 : /\ add = (IF rows < r THEN y - y1 ELSE 0)
                              /\ x1 = Least(x, c - 1) /\ k1 = Least(k, r - 1) + add
                              /\ s1 = Least(sy, r - 1)
  OBVIOUS
<1>20. add \in Int /\ x1 \in Int /\ k1 \in Int /\ s1 \in Int
  <2>1. PICK ll, kk : ll = Least(k, r - 1) /\ kk = c - 1
    OBVIOUS
  <2>2. ll \in Int /\ kk \in Int
    BY <1>4, <2>1 DEF Least
  <2>3. add \in Int
    <3>1. y \in Nat /\ y1 \in Nat
      BY <1>4, <1>15
    <3>2. add = IF rows < r THEN y - y1 ELSE 0
      BY <1>19
    <3> QED BY <3>1, <3>2
  <2>4. k1 = ll + add /\ x1 = Least(x, kk)
    BY <1>19, <2>1
  <2>5. k1 \in Int /\ x1 \in Int
    BY <1>4, <2>2, <2>3, <2>4 DEF Least
  <2>6. s1 \in Int
    BY <1>4, <1>19 DEF Least
  <2> QED BY <2>3, <2>5, <2>6
<1>21. k < rows => k1 < r
  <2>1. k1 = (IF k < r - 1 THEN k ELSE r - 1) + add
    BY <1>19 DEF Least
  <2>2. CASE rows < r
    <3>1. y1 <= y /\ y <= y1 + (r - rows) /\ (y1 < y => k >= rows - 1)
      BY <1>3, <1>9, <1>12, <1>14, <2>2 DEF AllFit, GrownBy
    <3>2. add = y - y1
      BY <1>19, <2>2
    <3> QED BY <1>4, <1>5, <1>15, <2>1, <2>2, <3>1, <3>2
  <2>3. CASE ~(rows < r)
    <3>1. add = 0
      BY <1>19, <2>3
    <3> QED BY <1>4, <1>5, <2>1, <3>1
  <2> QED BY <2>2, <2>3
<1>22. sy < rows => s1 < r
  BY <1>4, <1>5, <1>19 DEF Least
<1>23. PICK w : w = [t EXCEPT !.x = x1, !.y = k1, !.savedY = s1, !.scrollTop = 0]
  OBVIOUS
<1>24. t \in Buffer
  BY <1>18 DEF IsTrimmed
<1>25. /\ w \in Buffer /\ w.y = k1 /\ w.savedY = s1 /\ w.scrollTop = 0
       /\ w.scrollBottom = t.scrollBottom /\ w.maxLength = t.maxLength
       /\ w.lines = t.lines /\ w.ybase = t.ybase /\ w.ydisp = t.ydisp
  BY <1>20, <1>23, <1>24 DEF Buffer
<1>26. t.scrollBottom = q /\ t.x = x /\ t.y = k /\ t.savedY = sy
  BY <1>3, <1>9, <1>13, <1>18 DEF IsTrimmed, SameCursor
<1>27. Fits(w, r) /\ (enough => Window(w, r))
  <2>1. w.scrollTop < r /\ w.scrollBottom < r
    BY <1>7, <1>25, <1>26
  <2>2. w.maxLength = max /\ w.ydisp <= w.ybase
    BY <1>18, <1>25 DEF IsTrimmed
  <2>3. /\ Len(w.lines) <= w.ybase + r /\ Len(w.lines) <= w.maxLength
        /\ enough => Len(w.lines) = w.ybase + r
    BY <1>16, <1>18, <1>25 DEF IsTrimmed
  <2>4. Sized(w, r)
    BY <1>5, <1>25, <2>1, <2>2 DEF Sized
  <2> QED BY <2>3, <2>4 DEF Window, Fits
<1>28. v.ydisp = v.ybase => w.ydisp = w.ybase
  BY <1>9, <1>13, <1>18, <1>25 DEF SameView, IsTrimmed
<1>29. Above(v, rows) => Above(w, r)
  BY <1>3, <1>21, <1>22, <1>25 DEF Above
<1>30. v.lines # <<>>
  <2>1. l # 0
    BY <1>4, <1>5
  <2> QED BY <1>3, <2>1
<1>31. resize(n, c, r) = w
  <2>1. u = [v EXCEPT !.maxLength = Most(@, max), !.scrollBottom = r - 1]
    BY <1>2, <1>3, <1>6, <1>8 DEF Buffer
  <2>2. f = AllRows(u, r, v.ybase + v.y, Most(r - rows, rows - r))
    BY <1>9, <1>11
  <2>3. add = IF rows < r THEN v.ybase - f.ybase ELSE 0
    BY <1>3, <1>14, <1>19
  <2>4. w = [t EXCEPT !.x = Least(@, c - 1), !.y = Least(@, r - 1) + add,
                      !.savedY = Least(@, r - 1), !.scrollTop = 0]
    BY <1>19, <1>23, <1>24, <1>26 DEF Buffer
  <2>5. resize(n, c, r) =
          [t EXCEPT !.x = Least(@, c - 1), !.y = Least(@, r - 1) + add,
                    !.savedY = Least(@, r - 1), !.scrollTop = 0]
    BY <1>1, <1>17, <1>30, <2>1, <2>2, <2>3 DEF resize
  <2> QED BY <2>4, <2>5
<1>32. w.maxLength = max
  BY <1>18, <1>25 DEF IsTrimmed
<1>33. enough \/ (rows < r /\ y > 0 /\ k < rows - 1)
  BY <1>4, <1>5
<1>34. Resized(v, w, r, max)
  BY <1>3, <1>27, <1>28, <1>29, <1>32, <1>33 DEF Resized
<1>35. n = "normal" /\ v.maxLength = rows + scrollback => Window(w, r)
  BY <1>3, <1>27
<1> QED BY <1>1, <1>31, <1>34, <1>35

\* The alternate buffer while it is not shown.
Empty(v, r) == Sized(v, r) /\ v.lines = <<>> /\ v.ybase = 0 /\ v.scrollTop = 0

\* Buffer.resize, of a buffer without lines.
LEMMA EmptyResized ==
  ASSUME Size, NEW c \in Nat \ {0}, NEW r \in Nat \ {0}, Empty(buf["alt"], rows)
  PROVE  Empty(resize("alt", c, r), r)
<1>1. PICK v, m, m1, q : /\ v = buf["alt"] /\ m = v.maxLength /\ m1 = Most(m, r) /\ q = r - 1
  OBVIOUS
<1>2. v \in Buffer /\ v.lines = <<>> /\ v.ybase = 0 /\ v.scrollTop = 0 /\ v.ydisp <= v.ybase
  BY <1>1 DEF Empty, Sized
<1>3. m \in Nat
  BY <1>1, <1>2, PartsOf
<1>4. m1 \in Nat /\ q \in Nat /\ q < r /\ r <= m1
  BY <1>1, <1>3 DEF Most
<1>5. PICK w : w = [v EXCEPT !.maxLength = m1, !.scrollBottom = q]
  OBVIOUS
<1>6. /\ w \in Buffer /\ w.maxLength = m1 /\ w.lines = v.lines /\ w.ybase = v.ybase
      /\ w.ydisp = v.ydisp /\ w.scrollBottom = q /\ w.scrollTop = v.scrollTop
  BY <1>2, <1>4, <1>5 DEF Buffer
<1>7. resize("alt", c, r) = w
  BY <1>1, <1>2, <1>5 DEF resize, Buffer
<1> QED BY <1>2, <1>4, <1>6, <1>7 DEF Empty, Sized

\* fillViewportRows: the alternate buffer gets its lines.
LEMMA Filled == ASSUME Size, NEW v, Empty(v, rows) PROVE Window(fillViewportRows(v, rows), rows)
<1>1. v \in Buffer /\ v.lines = <<>> /\ v.ybase = 0 /\ Sized(v, rows) /\ rows \in Nat
  BY DEF Empty, Sized, Size
<1>2. PICK t, w : t = Blanks(rows) /\ w = [v EXCEPT !.lines = t]
  OBVIOUS
<1>3. t \in Seq(Line) /\ Len(t) = rows
  <2>1. t \in [1 .. rows -> Line]
    BY <1>2 DEF Blanks, Line
  <2> QED BY <1>1, <2>1
<1>4. /\ w \in Buffer /\ w.lines = t /\ w.ybase = v.ybase /\ w.ydisp = v.ydisp
      /\ w.maxLength = v.maxLength /\ w.scrollTop = v.scrollTop /\ w.scrollBottom = v.scrollBottom
  BY <1>1, <1>2, <1>3 DEF Buffer
<1>5. fillViewportRows(v, rows) = w
  BY <1>1, <1>2 DEF fillViewportRows
<1> QED BY <1>1, <1>3, <1>4, <1>5 DEF Window, Sized

\* Buffer.clear of the alternate buffer.
LEMMA ClearedEmpty ==
  ASSUME NEW r \in Nat \ {0}, NEW y \in Int PROVE Empty(Cleared(r, FALSE, y), r)
<1>1. PICK v : v = Cleared(r, FALSE, y)
  OBVIOUS
<1>2. v \in Buffer
  <2>1. <<>> \in Seq(Line) /\ r - 1 \in Nat
    OBVIOUS
  <2> QED BY <1>1, <2>1 DEF Cleared, Buffer
<1>3. /\ v.lines = <<>> /\ v.ybase = 0 /\ v.ydisp = 0 /\ v.scrollTop = 0
      /\ v.scrollBottom = r - 1 /\ v.maxLength = r
  BY <1>1 DEF Cleared
<1>4. 0 < r /\ r - 1 < r /\ r <= r /\ 0 <= 0
  OBVIOUS
<1> QED BY <1>1, <1>2, <1>3, <1>4 DEF Empty, Sized

\* The normal buffer as it begins.
Fresh(v, r) ==
  Window(v, r) /\ v.maxLength = r + scrollback /\ Above(v, r) /\ v.ydisp = v.ybase

\* The normal buffer of a new BufferSet.
LEMMA NewNormal ==
  ASSUME NEW r \in Nat \ {0} PROVE Fresh(fillViewportRows(Cleared(r, TRUE, 0), r), r)
<1>1. PICK u, t : u = Cleared(r, TRUE, 0) /\ t = Blanks(r)
  OBVIOUS
<1>2. t \in Seq(Line) /\ Len(t) = r
  <2>1. t \in [1 .. r -> Line]
    BY <1>1 DEF Blanks, Line
  <2> QED BY <2>1
<1>3. PICK m : m = r + scrollback
  OBVIOUS
<1>4. m \in Nat /\ r <= m
  BY <1>3, scrollbackAssumption
<1>5. fillViewportRows(u, r) = [u EXCEPT !.lines = t]
  BY <1>1 DEF fillViewportRows, Cleared
<1>6. PICK q : q = r - 1
  OBVIOUS
<1>7. q \in Nat /\ q < r
  BY <1>6
<1>a. PICK v : v = [x |-> 0, y |-> 0, ybase |-> 0, ydisp |-> 0, scrollTop |-> 0,
                    scrollBottom |-> q, lines |-> t, maxLength |-> m, savedY |-> 0]
  OBVIOUS
<1>8. fillViewportRows(u, r) = v
  BY <1>1, <1>3, <1>5, <1>6, <1>a DEF Cleared
<1>9. v \in Buffer
  BY <1>2, <1>4, <1>7, <1>a DEF Buffer
<1>10. /\ v.lines = t /\ v.ybase = 0 /\ v.ydisp = 0 /\ v.scrollTop = 0 /\ v.y = 0
       /\ v.savedY = 0 /\ v.scrollBottom = q /\ v.maxLength = m
  BY <1>a
<1>11. Sized(v, r)
  BY <1>4, <1>7, <1>9, <1>10 DEF Sized
<1>12. Len(v.lines) = v.ybase + r /\ Len(v.lines) <= v.maxLength
  BY <1>2, <1>4, <1>10
<1>13. Above(v, r) /\ v.ydisp = v.ybase
  BY <1>10 DEF Above
<1> QED BY <1>1, <1>3, <1>8, <1>10, <1>11, <1>12, <1>13 DEF Window, Fresh
-----------------------------------------------------------------------------
\* The screen in a state a, c, r, us, gs: see ScreenInv.
Normal(v, a, r, us, gs) ==
  /\ Window(v, r) /\ v.maxLength = r + scrollback /\ Above(v, r)
  /\ a = "alt" /\ ~gs => v.ydisp = v.ybase
  /\ a = "normal" /\ ~us /\ ~gs => v.ydisp = v.ybase
Alternate(v, a, r, us, how) ==
  IF a = "alt" THEN /\ Fits(v, r) /\ (how # "short" => Window(v, r))
                    /\ ~us => v.ydisp = v.ybase
  ELSE Empty(v, r)
Screened(B, a, r, us, gs, how) ==
  /\ B \in [Names -> Buffer] /\ a \in Names
  /\ Normal(B["normal"], a, r, us, gs) /\ Alternate(B["alt"], a, r, us, how)

\* The inductive invariant: both buffers fit the window, the hidden alternate
\* one has no lines, the normal one has room for all of its scrollback, its
\* cursor and its saved one are not below the window, and, while it is hidden,
\* it shows its bottom unless the ghost says otherwise.  A shown alternate one
\* may lack a line once a resize has left it short.
ScreenInv ==
  /\ Screened(buf, active, rows, userScrolling, ghostScroll, stuck)
  /\ <<cols, rows>> \in Sizes
  /\ userScrolling \in BOOLEAN /\ ghostScroll \in BOOLEAN
  /\ stuck \in Outcomes

\* Where a step begins.
Working == ScreenInv /\ stuck = "no"

\* ViewStays and BreaksOutside, of one step.
ViewStep ==
  LET lines == buf'[active].lines
  IN  /\ userScrolling /\ b.ydisp < b.ybase /\ b.y \in 0 .. rows - 1
      /\ UNCHANGED <<userScrolling, active, cols, rows>>
      /\ lines # b.lines /\ Len(lines) >= Len(b.lines)
      => \/ b.ydisp = 0 /\ Len(b.lines) = b.maxLength
         \/ lines[buf'[active].ydisp + 1] = b.lines[b.ydisp + 1]
BreakStep ==
  stuck' # stuck =>
    \/ b.y \notin 0 .. rows - 1
    \/ stuck' = "short" /\ active = "alt" /\ b.ybase > 0 /\ b.y < rows - 1 /\ rows' > rows
    \/ stuck' = "counting"
StepKept == ScreenInv' /\ ViewStep /\ BreakStep

\* A window with all its lines.
LEMMA WindowFits ==
  ASSUME NEW r \in Nat, NEW v, Window(v, r) PROVE Fits(v, r)
<1>1. v.ybase \in Nat /\ v.lines \in Seq(Line)
  BY PartsOf DEF Window, Sized
<1>2. Len(v.lines) \in Nat /\ Len(v.lines) = v.ybase + r
  BY <1>1 DEF Window
<1>3. Len(v.lines) <= v.ybase + r
  BY <1>1, <1>2
<1> QED BY <1>3 DEF Fits, Window

\* What the invariant says of the buffer that is shown.
LEMMA Shown ==
  ASSUME Working
  PROVE  /\ Size /\ buf \in [Names -> Buffer] /\ active \in Names
         /\ Window(b, rows) /\ b \in Buffer
<1>1. Size
  <2>1. <<cols, rows>> \in (Nat \ {0}) \X (Nat \ {0})
    BY SizesAssumption DEF Working, ScreenInv
  <2> QED BY <2>1 DEF Size
<1>2. buf \in [Names -> Buffer] /\ active \in Names
  BY DEF Working, ScreenInv, Screened
<1>3. Window(buf["normal"], rows) /\ (active = "alt" => Window(buf["alt"], rows))
  BY DEF Working, ScreenInv, Screened, Normal, Alternate
<1>4. Window(b, rows)
  BY <1>2, <1>3 DEF Names, b
<1>5. b \in Buffer
  BY <1>4 DEF Window, Sized
<1> QED BY <1>1, <1>2, <1>4, <1>5

\* A step of a handler keeps the invariant.
LEMMA ShownKept ==
  ASSUME Working, NEW w, Kept(b, w), Show(w), UNCHANGED Screen,
         stuck' \in Outcomes
  PROVE  ScreenInv' /\ ViewStep
<1>1. Size /\ buf \in [Names -> Buffer] /\ active \in Names /\ Window(b, rows)
  BY Shown
<1>2. Screened(buf, active, rows, userScrolling, ghostScroll, stuck)
  BY DEF Working, ScreenInv
<1>3. PICK B : B = [buf EXCEPT ![active] = w]
  OBVIOUS
<1>4. Window(w, rows) /\ w \in Buffer /\ w.maxLength = b.maxLength
  BY DEF Kept, Window, Sized
<1>5. B \in [Names -> Buffer] /\ B[active] = w /\ \A n \in Names : n # active => B[n] = buf[n]
  BY <1>1, <1>3, <1>4
<1>6. ~userScrolling /\ b.ydisp = b.ybase => w.ydisp = w.ybase
  BY DEF Kept
<1>7. Screened(B, active, rows, userScrolling, ghostScroll, stuck')
  <2>1. CASE active = "normal"
    <3>1. b = buf["normal"] /\ B["normal"] = w /\ B["alt"] = buf["alt"]
      BY <1>5, <2>1 DEF b, Names
    <3>2. Normal(b, active, rows, userScrolling, ghostScroll)
      BY <1>2, <3>1 DEF Screened
    <3>3. Above(w, rows)
      BY <3>2 DEF Normal, Kept
    <3>4. Normal(w, active, rows, userScrolling, ghostScroll)
      BY <1>4, <1>6, <2>1, <3>2, <3>3 DEF Normal
    <3>5. Alternate(buf["alt"], active, rows, userScrolling, stuck')
      BY <1>2, <2>1 DEF Screened, Alternate
    <3> QED BY <1>1, <1>2, <1>5, <3>1, <3>4, <3>5 DEF Screened
  <2>2. CASE active = "alt"
    <3>1. b = buf["alt"] /\ B["alt"] = w /\ B["normal"] = buf["normal"]
      BY <1>5, <2>2 DEF b, Names
    <3>2. Alternate(b, active, rows, userScrolling, stuck)
      BY <1>2, <3>1 DEF Screened
    <3>3. Alternate(w, active, rows, userScrolling, stuck')
      <4>1. Fits(w, rows)
        BY <1>1, <1>4, WindowFits DEF Size
      <4> QED BY <1>4, <1>6, <2>2, <3>2, <4>1 DEF Alternate
    <3> QED BY <1>1, <1>2, <1>5, <3>1, <3>3 DEF Screened
  <2> QED BY <1>1, <2>1, <2>2 DEF Names
<1>8. /\ buf' = B /\ active' = active /\ cols' = cols /\ rows' = rows
      /\ userScrolling' = userScrolling /\ ghostScroll' = ghostScroll
  BY <1>3 DEF Show, Screen
<1>9. ScreenInv'
  BY <1>7, <1>8 DEF Working, ScreenInv
<1>10. Still(b, w) /\ buf'[active] = w
  BY <1>5, <1>8 DEF Kept
<1>11. Len(w.lines) \in Nat /\ Len(b.lines) \in Nat
  <2>1. w.lines \in Seq(Line) /\ b.lines \in Seq(Line)
    BY <1>1, <1>4, PartsOf DEF Window, Sized
  <2> QED BY <2>1
<1>12. ViewStep
  BY <1>10, <1>11 DEF ViewStep, Still
<1> QED BY <1>9, <1>12

\* The handlers that move the cursor, edit lines and erase the scrollback.
LEMMA HandlersStep ==
  ASSUME Working, Move \/ Edit \/ EraseScrollback PROVE StepKept
<1>1. PICK w : Kept(b, w) /\ Show(w)
  <2>1. Size /\ active \in Names /\ Window(b, rows)
    BY Shown
  <2>2. CASE Move
    <3>1. PICK w \in Moves(b) : Show(w)
      BY <2>2 DEF Move
    <3> QED BY <2>1, <3>1, MovesKept
  <2>3. CASE Edit
    <3>1. PICK w \in Edits(b) : Show(w)
      BY <2>3 DEF Edit
    <3> QED BY <2>1, <3>1, EditsKept
  <2>4. CASE EraseScrollback
    BY <2>1, <2>4, EraseScrollbackKept DEF EraseScrollback
  <2> QED BY <2>2, <2>3, <2>4
<1>2. UNCHANGED <<Screen, stuck>>
  BY DEF Move, Edit, EraseScrollback
<1>3. stuck' \in Outcomes /\ UNCHANGED Screen
  BY <1>2 DEF Working, ScreenInv
<1> QED BY <1>1, <1>2, <1>3, ShownKept DEF StepKept, BreakStep

\* The handlers that break down.
LEMMA BreakingStep ==
  ASSUME Working, CountDown \/ EraseAboveWindow \/ MoveLinesOutside PROVE StepKept
<1>1. Size /\ Window(b, rows) /\ b \in Buffer
  BY Shown
<1>2. UNCHANGED <<buf, Screen>> /\ stuck' \in {"counting", "hung", "list"}
  BY DEF CountDown, EraseAboveWindow, MoveLinesOutside, Stuck
<1>3. ScreenInv'
  <2>1. stuck' \in Outcomes /\ stuck' # "short"
    BY <1>2 DEF Outcomes
  <2>2. Screened(buf, active, rows, userScrolling, ghostScroll, stuck')
    BY <2>1 DEF Working, ScreenInv, Screened, Alternate
  <2> QED BY <1>2, <2>1, <2>2 DEF Screen, Working, ScreenInv
<1>4. ViewStep
  BY <1>2 DEF ViewStep, b
<1>5. BreakStep
  <2>a. CASE CountDown
    BY <2>a DEF CountDown, Stuck, BreakStep
  <2>1. CASE EraseAboveWindow
    BY <1>1, <2>1 DEF EraseAboveWindow, BreakStep, Size
  <2>2. CASE MoveLinesOutside
    <3>1. PICK y, c, l : y = b.ybase /\ c = b.y /\ l = Len(b.lines)
      OBVIOUS
    <3>2. y \in Nat /\ c \in Int /\ l = y + rows /\ rows \in Nat
      BY <1>1, <3>1, PartsOf DEF Window, Size
    <3>3. y + c \notin 0 .. l - 1
      BY <2>2, <3>1 DEF MoveLinesOutside
    <3>4. c \notin 0 .. rows - 1
      BY <3>2, <3>3
    <3> QED BY <3>1, <3>4 DEF BreakStep
  <2> QED BY <2>1, <2>2, <2>a
<1> QED BY <1>3, <1>4, <1>5 DEF StepKept

\* A handler that sets the cursor's row in w, which Down left or b was: what it
\* has to know of w.
Ready(w) ==
  /\ Kept(b, w)
  /\ b.y \in 0 .. rows - 1 => w.y \in 0 .. rows - 1
  /\ userScrolling /\ b.ydisp < b.ybase => w.ydisp < w.ybase

\* The row of the cursor gets a content.
LEMMA RowSet ==
  ASSUME Size, NEW w, Ready(w), NEW row \in Rows(w), row # NoLine, row # Hidden,
         NEW line \in Line
  PROVE  Kept(b, [w EXCEPT !.lines = [@ EXCEPT ![row + 1] = line]])
<1>1. Kept(b, w) /\ Window(w, rows) /\ w \in Buffer
  BY DEF Ready, Kept, Window, Sized
<1>2. PICK s, l, y, u : /\ s = w.lines /\ l = [s EXCEPT ![row + 1] = line] /\ y = w.ybase
                        /\ u = [w EXCEPT !.lines = l]
  OBVIOUS
<1>3. row + 1 \in DOMAIN s /\ row \in Int
  BY <1>1, <1>2, RowsAre
<1>4. s \in Seq(Line) /\ y \in Nat /\ w.ydisp \in Nat
  BY <1>1, <1>2, PartsOf
<1>5. l \in Seq(Line) /\ Len(l) = Len(s)
  BY <1>2, <1>3, <1>4
<1>6. w.y \in 0 .. rows - 1 => \A j \in 1 .. y : l[j] = s[j]
  <2> SUFFICES ASSUME w.y \in 0 .. rows - 1, NEW j \in 1 .. y PROVE l[j] = s[j]
    OBVIOUS
  <2>1. row = y + w.y
    BY <1>1, <1>2, RowsAre
  <2>2. PICK c : c = w.y
    OBVIOUS
  <2>3. c \in 0 .. rows - 1 /\ row = y + c
    BY <2>1, <2>2
  <2>4. j # row + 1
    BY <1>3, <1>4, <2>3 DEF Size
  <2> QED BY <1>2, <2>4
<1>7. Kept(w, u)
  BY <1>1, <1>2, <1>5, <1>6, LinesKept
<1>8. u.lines = l /\ u.ydisp = w.ydisp
  BY <1>1, <1>2, <1>5 DEF Buffer
<1>9. /\ Window(u, rows) /\ u.maxLength = b.maxLength
      /\ Above(b, rows) => Above(u, rows)
      /\ ~userScrolling /\ b.ydisp = b.ybase => u.ydisp = u.ybase
  BY <1>1, <1>7 DEF Kept
<1>10. Still(b, u)
  <2> SUFFICES ASSUME userScrolling, b.ydisp < b.ybase, b.y \in 0 .. rows - 1
               PROVE  \/ u.lines = b.lines /\ u.ydisp = b.ydisp
                      \/ Len(u.lines) < Len(b.lines)
                      \/ b.ydisp = 0 /\ Len(b.lines) = b.maxLength
                      \/ u.lines[u.ydisp + 1] = b.lines[b.ydisp + 1]
    BY DEF Still
  <2>1. w.y \in 0 .. rows - 1 /\ w.ydisp < w.ybase
    BY DEF Ready
  <2>2. PICK d : d = w.ydisp
    OBVIOUS
  <2>3. d \in Nat /\ d < y
    BY <1>2, <1>4, <2>1, <2>2
  <2>4. d + 1 \in 1 .. y
    BY <1>4, <2>3
  <2>5. l[d + 1] = s[d + 1]
    BY <1>6, <2>1, <2>4
  <2>6. u.lines[u.ydisp + 1] = w.lines[w.ydisp + 1] /\ Len(u.lines) = Len(w.lines)
    BY <1>2, <1>5, <1>8, <2>2, <2>5
  <2>7. \/ w.lines = b.lines /\ w.ydisp = b.ydisp
        \/ Len(w.lines) < Len(b.lines)
        \/ b.ydisp = 0 /\ Len(b.lines) = b.maxLength
        \/ w.lines[w.ydisp + 1] = b.lines[b.ydisp + 1]
    BY <1>1 DEF Kept, Still
  <2> QED BY <2>6, <2>7
<1> QED BY <1>2, <1>9, <1>10 DEF Kept

\* SetRow, of a buffer that is ready for it.
LEMMA SetRowStep ==
  ASSUME Working, NEW w, Ready(w), NEW line \in Line, NEW x \in Int, SetRow(w, line, x)
  PROVE  StepKept
<1>1. Size /\ Window(b, rows) /\ b \in Buffer
  BY Shown
<1>2. Kept(b, w) /\ Window(w, rows) /\ w \in Buffer
  BY DEF Ready, Kept, Window, Sized
<1>3. PICK row \in Rows(w) :
        IF row = NoLine THEN Show(w) /\ Stuck("threw")
        ELSE /\ Show([w EXCEPT !.x = x,
                     !.lines = IF row = Hidden THEN @ ELSE [@ EXCEPT ![row + 1] = line]])
             /\ UNCHANGED stuck
  BY DEF SetRow
<1>4. UNCHANGED Screen
  BY DEF SetRow
<1>5. stuck \in Outcomes
  BY DEF Working, ScreenInv
<1>6. CASE row = NoLine
  <2>1. Show(w) /\ stuck' = "threw"
    BY <1>3, <1>6 DEF Stuck
  <2>2. ScreenInv' /\ ViewStep
    <3>1. stuck' \in Outcomes
      BY <2>1 DEF Outcomes
    <3> QED BY <1>2, <1>4, <2>1, <3>1, ShownKept
  <2>3. w.y \notin 0 .. rows - 1
    BY <1>1, <1>2, <1>6, NoLineOutside
  <2>4. BreakStep
    BY <2>3 DEF BreakStep, Ready
  <2> QED BY <2>2, <2>4 DEF StepKept
<1>7. CASE row # NoLine
  <2>1. PICK u, v : /\ u = IF row = Hidden THEN w
                           ELSE [w EXCEPT !.lines = [@ EXCEPT ![row + 1] = line]]
                    /\ v = [u EXCEPT !.x = x]
    OBVIOUS
  <2>2. Kept(b, u)
    <3>1. CASE row = Hidden
      BY <1>2, <2>1, <3>1
    <3>2. CASE row # Hidden
      <4>1. Kept(b, [w EXCEPT !.lines = [@ EXCEPT ![row + 1] = line]])
        BY <1>1, <1>7, <3>2, RowSet
      <4> QED BY <2>1, <3>2, <4>1
    <3> QED BY <3>1, <3>2
  <2>3. Window(u, rows)
    BY <2>2 DEF Kept
  <2>4. CursorMoved(u, v)
    BY <1>1, <2>1, <2>3, ColumnMoved
  <2>5. Kept(b, v)
    BY <2>2, <2>4, KeptThenMoved
  <2>6. v = [w EXCEPT !.x = x, !.lines = IF row = Hidden THEN @ ELSE [@ EXCEPT ![row + 1] = line]]
    <3>1. CASE row = Hidden
      BY <1>2, <2>1, <3>1 DEF Buffer
    <3>2. CASE row # Hidden
      BY <1>2, <2>1, <3>2 DEF Buffer
    <3> QED BY <3>1, <3>2
  <2>7. Show(v) /\ UNCHANGED stuck
    BY <1>3, <1>7, <2>6
  <2>8. ScreenInv' /\ ViewStep
    BY <1>4, <1>5, <2>5, <2>7, ShownKept
  <2> QED BY <2>7, <2>8 DEF StepKept, BreakStep
<1> QED BY <1>6, <1>7

\* What is in the cursor's row may be set in it.
LEMMA PresentLines ==
  ASSUME Size, NEW v, Window(v, rows) PROVE Present(v) \subseteq Line
<1>1. \A row \in Rows(v) \ {NoLine, Hidden} : row + 1 \in DOMAIN v.lines
  BY RowsAre
<1>2. v.lines \in Seq(Line)
  BY PartsOf DEF Window, Sized
<1>3. \A j \in DOMAIN v.lines : v.lines[j] \in Line
  BY <1>2
<1> QED BY <1>1, <1>3 DEF Present, Line

\* The handlers that write to the cursor's row.
LEMMA WritersStep ==
  ASSUME Working, print \/ repeatPrecedingCharacter \/ EditChars \/ eraseInLine
  PROVE  StepKept
<1>1. Size /\ Window(b, rows) /\ b \in Buffer
  BY Shown
<1>2. b.x \in Int
  BY <1>1, PartsOf
<1>3. Ready(b)
  <2>1. CursorMoved(b, b)
    BY <1>1 DEF CursorMoved
  <2> QED BY <2>1, CursorMovedKept DEF Ready
<1>4. Present(b) \subseteq Line
  BY <1>1, PresentLines
<1>5. CASE print
  <2>1. PICK wraparoundMode \in BOOLEAN :
          LET v == IF b.x >= cols /\ wraparoundMode THEN [Down(b) EXCEPT !.x = 0] ELSE b
          IN  \E c \in IF v.x = NaN THEN Present(v) ELSE Chars : SetRow(v, c, Right(v.x, 1))
    BY <1>5 DEF print
  <2>2. PICK w, d : /\ d = Down(b)
                    /\ w = IF b.x >= cols /\ wraparoundMode THEN [d EXCEPT !.x = 0] ELSE b
    OBVIOUS
  <2>3. PICK c \in IF w.x = NaN THEN Present(w) ELSE Chars : SetRow(w, c, Right(w.x, 1))
    BY <2>1, <2>2
  <2>4. Ready(w) /\ Window(w, rows)
    <3>1. CASE b.x >= cols /\ wraparoundMode
      <4>1. /\ Kept(b, d)
            /\ b.y \in 0 .. rows - 1 => d.y \in 0 .. rows - 1
            /\ userScrolling /\ b.ydisp < b.ybase => d.ydisp < d.ybase
        BY <1>1, <2>2, DownKept
      <4>2. Window(d, rows) /\ d \in Buffer
        BY <4>1 DEF Kept, Window, Sized
      <4>3. w = [d EXCEPT !.x = 0]
        BY <2>2, <3>1
      <4>4. CursorMoved(d, w)
        BY <1>1, <4>2, <4>3, ColumnMoved
      <4>5. Kept(b, w)
        BY <4>1, <4>4, KeptThenMoved
      <4>6. w.y = d.y /\ w.ydisp = d.ydisp /\ w.ybase = d.ybase
        BY <4>2, <4>3 DEF Buffer
      <4> QED BY <4>1, <4>5, <4>6 DEF Ready, Kept
    <3>2. CASE ~(b.x >= cols /\ wraparoundMode)
      BY <1>1, <1>3, <2>2, <3>2
    <3> QED BY <3>1, <3>2
  <2>5. Right(w.x, 1) \in Int /\ c \in Line
    <3>1. w.x \in Int
      BY <2>4, PartsOf DEF Window, Sized
    <3>2. Present(w) \subseteq Line /\ Chars \subseteq Line
      BY <1>1, <2>4, PresentLines DEF Line
    <3>3. Right(w.x, 1) \in Int
      BY <3>1, OneSideways, Zenon
    <3>4. c \in Present(w) \/ c \in Chars
      BY <2>3
    <3>5. c \in Line
      BY <3>2, <3>4
    <3> QED BY <3>3, <3>5
  <2> QED BY <2>3, <2>4, <2>5, SetRowStep
<1>6. CASE repeatPrecedingCharacter
  <2>1. PICK n \in Counts, line \in Present(b) : SetRow(b, line, Right(b.x, n))
    BY <1>6 DEF repeatPrecedingCharacter
  <2>2. Right(b.x, n) \in Int /\ line \in Line
    <3>1. n \in Int
      BY CountsAssumption
    <3> QED BY <1>2, <1>4, <3>1, Sideways
  <2> QED BY <1>3, <2>1, <2>2, SetRowStep
<1>7. CASE EditChars
  <2>1. PICK line \in Present(b) : SetRow(b, line, b.x)
    BY <1>7 DEF EditChars
  <2> QED BY <1>2, <1>3, <1>4, <2>1, SetRowStep
<1>8. CASE eraseInLine
  <2>1. PICK row \in Rows(b) \ {NoLine, Hidden} : Show([b EXCEPT !.lines[row + 1] = "blank"])
    BY <1>8 DEF eraseInLine
  <2>2. Kept(b, [b EXCEPT !.lines = [@ EXCEPT ![row + 1] = "blank"]])
    <3>1. "blank" \in Line /\ row \in Rows(b) /\ row # NoLine /\ row # Hidden
      BY DEF Line
    <3> QED BY <1>1, <1>3, <3>1, RowSet
  <2>3. [b EXCEPT !.lines[row + 1] = "blank"]
          = [b EXCEPT !.lines = [@ EXCEPT ![row + 1] = "blank"]]
    OBVIOUS
  <2>4. UNCHANGED <<Screen, stuck>> /\ stuck' \in Outcomes
    BY <1>8 DEF eraseInLine, Working, ScreenInv
  <2>5. ScreenInv' /\ ViewStep
    BY <2>1, <2>2, <2>3, <2>4, ShownKept
  <2> QED BY <2>4, <2>5 DEF StepKept, BreakStep
<1> QED BY <1>5, <1>6, <1>7, <1>8

\* The lines stay: the view of what is read does too.
LEMMA SameLines ==
  ASSUME \/ active' # active \/ rows' # rows \/ cols' # cols \/ userScrolling' = FALSE
         \/ buf'[active].lines = b.lines,
         BreakStep, ScreenInv'
  PROVE  StepKept
BY DEF StepKept, ViewStep

\* Nothing breaks down.
LEMMA NoBreak == UNCHANGED stuck => BreakStep
BY DEF BreakStep

\* The other screen is shown.
LEMMA SwitchStep ==
  ASSUME Working, activateAltBuffer \/ activateNormalBuffer PROVE StepKept
<1>1. Size /\ buf \in [Names -> Buffer] /\ Window(b, rows) /\ b \in Buffer
  BY Shown
<1>2. Screened(buf, active, rows, userScrolling, ghostScroll, stuck)
  BY DEF Working, ScreenInv
<1>3. CASE activateAltBuffer
  <2>1. PICK v, w, B, g : /\ v = buf["alt"] /\ w = fillViewportRows(v, rows)
                          /\ B = [buf EXCEPT !["alt"] = w] /\ g = (b.ydisp < b.ybase)
    OBVIOUS
  <2>2. /\ active = "normal" /\ active' = "alt" /\ buf' = B /\ ghostScroll' = g
        /\ UNCHANGED <<cols, rows, userScrolling, stuck>>
    BY <1>3, <2>1 DEF activateAltBuffer
  <2>3. Empty(v, rows) /\ b = buf["normal"]
    BY <1>2, <2>1, <2>2 DEF Screened, Alternate, b
  <2>4. Window(w, rows) /\ w \in Buffer
    BY <1>1, <2>1, <2>3, Filled DEF Window, Sized
  <2>a. Fits(w, rows)
    BY <1>1, <2>4, WindowFits DEF Size
  <2>5. w.ydisp = w.ybase
    <3>1. v \in Buffer /\ v.ybase = 0 /\ v.ydisp <= v.ybase
      BY <2>3 DEF Empty, Sized
    <3>2. v.ydisp \in Nat
      BY <3>1, PartsOf
    <3>3. v.ydisp = 0
      BY <3>1, <3>2
    <3>4. w.ydisp = v.ydisp /\ w.ybase = v.ybase
      BY <2>1, <3>1 DEF fillViewportRows, Buffer
    <3> QED BY <3>1, <3>3, <3>4
  <2>6. B \in [Names -> Buffer] /\ B["alt"] = w /\ B["normal"] = buf["normal"]
    BY <1>1, <2>1, <2>4 DEF Names
  <2>7. ~g => b.ydisp = b.ybase
    <3>1. PICK d, y : d = b.ydisp /\ y = b.ybase
      OBVIOUS
    <3>2. d \in Nat /\ y \in Nat /\ d <= y
      BY <1>1, <3>1, PartsOf DEF Window, Sized
    <3>3. ~(d < y) => d = y
      BY <3>2
    <3> QED BY <2>1, <3>1, <3>3
  <2>8. Normal(b, "alt", rows, userScrolling, g)
    BY <1>2, <2>3, <2>7 DEF Screened, Normal
  <2>9. Screened(B, "alt", rows, userScrolling, g, stuck)
    BY <2>a, <2>3, <2>4, <2>5, <2>6, <2>8 DEF Screened, Alternate, Names
  <2>10. g \in BOOLEAN
    BY <2>1
  <2>11. ScreenInv'
    BY <2>2, <2>9, <2>10 DEF Working, ScreenInv
  <2>12. active' # active /\ UNCHANGED stuck
    BY <2>2
  <2> QED BY <2>11, <2>12, SameLines, NoBreak
<1>4. CASE activateNormalBuffer
  <2>1. PICK w, B : /\ w = Cleared(rows, FALSE, buf["alt"].savedY)
                    /\ B = [buf EXCEPT !["alt"] = w]
    OBVIOUS
  <2>2. /\ active = "alt" /\ active' = "normal" /\ buf' = B
        /\ UNCHANGED <<cols, rows, userScrolling, stuck, ghostScroll>>
    BY <1>4, <2>1 DEF activateNormalBuffer
  <2>3. buf["alt"].savedY \in Int
    BY <1>1, PartsOf DEF Names
  <2>4. Empty(w, rows) /\ w \in Buffer
    BY <1>1, <2>1, <2>3, ClearedEmpty DEF Empty, Sized, Size
  <2>5. B \in [Names -> Buffer] /\ B["alt"] = w /\ B["normal"] = buf["normal"]
    BY <1>1, <2>1, <2>4 DEF Names
  <2>6. Normal(buf["normal"], "normal", rows, userScrolling, ghostScroll)
    BY <1>2, <2>2 DEF Screened, Normal
  <2>7. Screened(B, "normal", rows, userScrolling, ghostScroll, stuck)
    BY <2>4, <2>5, <2>6 DEF Screened, Alternate, Names
  <2>8. ScreenInv'
    BY <2>2, <2>7 DEF Working, ScreenInv
  <2>9. active' # active /\ UNCHANGED stuck
    BY <2>2
  <2> QED BY <2>8, <2>9, SameLines, NoBreak
<1> QED BY <1>3, <1>4

\* DECSTR: the whole window is the scroll region again, and the cursor is in
\* its corner.
LEMMA SoftResetStep == ASSUME Working, softReset PROVE StepKept
<1>1. Size /\ Window(b, rows) /\ b \in Buffer /\ b.savedY \in Int
  BY Shown, PartsOf
<1>2. PICK q : q = rows - 1
  OBVIOUS
<1>3. q \in Nat /\ q < rows /\ 0 < rows
  BY <1>1, <1>2 DEF Size
<1>a. PICK w : w = [b EXCEPT !.scrollTop = 0, !.scrollBottom = q, !.x = 0, !.y = 0]
  OBVIOUS
<1>4. /\ w \in Buffer /\ w.scrollTop = 0 /\ w.scrollBottom = q /\ w.y = 0
      /\ w.lines = b.lines /\ w.ybase = b.ybase /\ w.ydisp = b.ydisp
      /\ w.maxLength = b.maxLength /\ w.savedY = b.savedY
  <2>1. PICK v : v = b
    OBVIOUS
  <2>2. v \in Buffer /\ 0 \in Int /\ 0 \in Nat
    BY <1>1, <2>1
  <2>3. w = [v EXCEPT !.scrollTop = 0, !.scrollBottom = q, !.x = 0, !.y = 0]
    BY <1>a, <2>1
  <2>4. w \in Buffer
    BY <1>3, <2>2, <2>3 DEF Buffer
  <2>5. /\ w.scrollTop = 0 /\ w.scrollBottom = q /\ w.y = 0
        /\ w.lines = v.lines /\ w.ybase = v.ybase /\ w.ydisp = v.ydisp
        /\ w.maxLength = v.maxLength /\ w.savedY = v.savedY
    BY <2>2, <2>3 DEF Buffer
  <2> QED BY <2>1, <2>4, <2>5
<1>5. Window(w, rows)
  BY <1>1, <1>3, <1>4 DEF Window, Sized
<1>6. Kept(b, w)
  BY <1>3, <1>4, <1>5 DEF Kept, Above, Still
<1>7. Show(w) /\ UNCHANGED Screen /\ UNCHANGED stuck
  BY <1>2, <1>a DEF softReset, Screen
<1>8. stuck' \in Outcomes
  BY <1>7 DEF Working, ScreenInv
<1>9. ScreenInv' /\ ViewStep
  BY <1>6, <1>7, <1>8, ShownKept
<1> QED BY <1>7, <1>9 DEF StepKept, BreakStep

\* A BufferSet is a screen that shows its bottom.
LEMMA NewScreen ==
  ASSUME NEW r \in Nat \ {0}, NEW how
  PROVE  Screened(BufferSet(r), "normal", r, FALSE, FALSE, how)
<1>1. PICK v : v = fillViewportRows(Cleared(r, TRUE, 0), r)
  OBVIOUS
<1>2. Fresh(v, r)
  BY <1>1, NewNormal
<1>3. PICK w : w = Cleared(r, FALSE, 0)
  OBVIOUS
<1>4. Empty(w, r)
  <2>1. 0 \in Int
    OBVIOUS
  <2> QED BY <1>3, <2>1, ClearedEmpty
<1>5. v \in Buffer /\ w \in Buffer
  BY <1>2, <1>4 DEF Fresh, Empty, Window, Sized
<1>6. PICK B : B = [normal |-> v, alt |-> w]
  OBVIOUS
<1>7. B["normal"] = v /\ B["alt"] = w
  BY <1>6
<1>8. B \in [Names -> Buffer]
  <2>1. B = [n \in Names |-> IF n = "normal" THEN v ELSE w]
    BY <1>6 DEF Names
  <2> QED BY <1>5, <2>1
<1>9. Screened(B, "normal", r, FALSE, FALSE, how)
  BY <1>2, <1>4, <1>7, <1>8 DEF Screened, Normal, Alternate, Fresh, Names
<1> QED BY <1>1, <1>3, <1>6, <1>9 DEF BufferSet

\* RIS
LEMMA ResetStep == ASSUME Working, reset PROVE StepKept
<1>1. rows \in Nat \ {0}
  BY Shown DEF Size
<1>2. /\ buf' = BufferSet(rows) /\ active' = "normal" /\ userScrolling' = FALSE
      /\ ghostScroll' = FALSE /\ UNCHANGED <<cols, rows, stuck>>
  BY DEF reset
<1>3. ScreenInv'
  BY <1>1, <1>2, NewScreen DEF Working, ScreenInv
<1> QED BY <1>2, <1>3, SameLines, NoBreak

\* fit.js, and DECCOLM.
LEMMA ResizeStep == ASSUME Working, Resize PROVE StepKept
<1>1. Size /\ buf \in [Names -> Buffer] /\ active \in Names /\ Window(b, rows) /\ b \in Buffer
  BY Shown
<1>2. Screened(buf, active, rows, userScrolling, ghostScroll, stuck) /\ stuck = "no"
  BY DEF Working, ScreenInv
<1>3. PICK s \in Sizes :
        LET new == [n \in Names |-> resize(n, s[1], s[2])]
        IN  /\ s # <<cols, rows>> /\ cols' = s[1] /\ rows' = s[2] /\ buf' = new
            /\ stuck' = IF Len(new[active].lines) < new[active].ybase + s[2] THEN "short" ELSE "no"
  BY DEF Resize
<1>4. PICK c, r, v, w, B, z : /\ c = s[1] /\ r = s[2] /\ v = resize("normal", c, r)
                              /\ w = resize("alt", c, r)
                              /\ B = [n \in Names |-> resize(n, c, r)] /\ z = B[active]
  OBVIOUS
<1>5. c \in Nat \ {0} /\ r \in Nat \ {0}
  BY <1>4, SizesAssumption
<1>6. B["normal"] = v /\ B["alt"] = w
  BY <1>4 DEF Names
<1>7. Normal(buf["normal"], active, rows, userScrolling, ghostScroll)
  BY <1>2 DEF Screened
<1>8. Resized(buf["normal"], v, r, r + scrollback) /\ Window(v, r)
  <2>1. PICK max : max = r + scrollback
    OBVIOUS
  <2>2. "normal" \in Names /\ max = IF "normal" = "normal" THEN r + scrollback ELSE r
    BY <2>1 DEF Names
  <2>3. Window(buf["normal"], rows) /\ buf["normal"].maxLength = rows + scrollback
    BY <1>7 DEF Normal
  <2>4. Resized(buf["normal"], v, r, max) /\ Window(v, r)
    BY <1>1, <1>4, <1>5, <2>2, <2>3, ResizeFits
  <2> QED BY <2>1, <2>4
<1>9. Normal(v, active, r, userScrolling, ghostScroll)
  BY <1>7, <1>8 DEF Normal, Resized
<1>10. /\ buf' = B /\ rows' = r /\ cols' = c
       /\ stuck' = IF Len(z.lines) < z.ybase + r THEN "short" ELSE "no"
       /\ UNCHANGED <<active, userScrolling, ghostScroll>>
  BY <1>3, <1>4 DEF Resize
<1>11. ASSUME active = "normal" PROVE stuck' = "no"
  <2>1. z = v /\ Window(z, r)
    BY <1>4, <1>6, <1>8, <1>11
  <2>2. PICK l, y : l = Len(z.lines) /\ y = z.ybase
    OBVIOUS
  <2>3. y \in Nat /\ l = y + r
    BY <2>1, <2>2, PartsOf DEF Window, Sized
  <2>4. ~(l < y + r)
    BY <1>5, <2>3
  <2> QED BY <1>10, <2>2, <2>4
<1>12. ASSUME active = "alt"
       PROVE  /\ Fits(w, r) /\ (~userScrolling => w.ydisp = w.ybase)
              /\ stuck' # "short" => Window(w, r)
              /\ stuck' = "short" => rows < r /\ b.ybase > 0 /\ b.y < rows - 1
  <2>1. /\ b = buf["alt"] /\ Window(buf["alt"], rows) /\ z = w
        /\ ~userScrolling => buf["alt"].ydisp = buf["alt"].ybase
    BY <1>1, <1>2, <1>4, <1>6, <1>12 DEF Screened, Alternate, b
  <2>2. "alt" \in Names /\ r = IF "alt" = "normal" THEN r + scrollback ELSE r
    BY DEF Names
  <2>3. Resized(buf["alt"], w, r, r)
    BY <1>1, <1>4, <1>5, <2>1, <2>2, ResizeFits
  <2>4. PICK l, y : l = Len(w.lines) /\ y = w.ybase
    OBVIOUS
  <2>5. Fits(w, r) /\ y \in Nat /\ l \in Nat /\ l <= y + r
    BY <2>3, <2>4, PartsOf DEF Resized, Fits, Sized
  <2>6. stuck' = IF l < y + r THEN "short" ELSE "no"
    BY <1>10, <2>1, <2>4
  <2>7. stuck' # "short" => Window(w, r)
    <3>1. ~(l < y + r) => l = y + r
      BY <1>5, <2>5
    <3> QED BY <2>4, <2>5, <2>6, <3>1 DEF Fits, Window
  <2>8. stuck' = "short" => ~Window(w, r)
    <3>1. l < y + r => l # y + r
      BY <1>5, <2>5
    <3> QED BY <2>4, <2>6, <3>1 DEF Window
  <2> QED BY <2>1, <2>3, <2>5, <2>7, <2>8 DEF Resized
<1>13. Alternate(w, active, r, userScrolling, stuck') /\ w \in Buffer
  <2>1. CASE active = "alt"
    BY <1>12, <2>1 DEF Alternate, Fits, Sized
  <2>2. CASE active # "alt"
    <3>1. Empty(buf["alt"], rows)
      BY <1>2, <2>2 DEF Screened, Alternate
    <3>2. Empty(w, r)
      BY <1>1, <1>4, <1>5, <3>1, EmptyResized
    <3> QED BY <2>2, <3>2 DEF Alternate, Empty, Sized
  <2> QED BY <2>1, <2>2
<1>14. v \in Buffer
  BY <1>9 DEF Normal, Window, Sized
<1>15. B \in [Names -> Buffer]
  BY <1>4, <1>6, <1>13, <1>14 DEF Names
<1>16. Screened(B, active, r, userScrolling, ghostScroll, stuck')
  BY <1>1, <1>6, <1>9, <1>13, <1>15 DEF Screened
<1>17. s = <<s[1], s[2]>>
  BY SizesAssumption
<1>18. <<c, r>> \in Sizes /\ (rows' # rows \/ cols' # cols)
  BY <1>3, <1>4, <1>10, <1>17
<1>19. stuck' \in Outcomes
  BY <1>10 DEF Outcomes
<1>20. ScreenInv'
  BY <1>10, <1>16, <1>18, <1>19 DEF Working, ScreenInv
<1>21. BreakStep
  <2> SUFFICES ASSUME stuck' # stuck
               PROVE  stuck' = "short" /\ active = "alt" /\ b.ybase > 0 /\ b.y < rows - 1
                      /\ rows' > rows
    BY DEF BreakStep
  <2>1. stuck' = "short"
    BY <1>2, <1>10
  <2>2. active = "alt"
    BY <1>1, <1>11, <2>1 DEF Names
  <2>3. rows < r /\ b.ybase > 0 /\ b.y < rows - 1
    BY <1>12, <2>1, <2>2
  <2>4. r > rows
    BY <1>1, <1>5, <2>3 DEF Size
  <2> QED BY <1>10, <2>1, <2>2, <2>3, <2>4
<1> QED BY <1>18, <1>20, <1>21, SameLines

\* The user's scrolling, by any number of lines.
LEMMA ScrollStep == ASSUME Working, NEW e \in Int, scrollLines(e) PROVE StepKept
<1>1. Size /\ buf \in [Names -> Buffer] /\ active \in Names /\ Window(b, rows) /\ b \in Buffer
  BY Shown
<1>2. Screened(buf, active, rows, userScrolling, ghostScroll, stuck) /\ stuck = "no"
  BY DEF Working, ScreenInv
<1>3. PICK d, y, disp, us, gs :
        /\ d = b.ydisp /\ y = b.ybase /\ disp = Most(Least(d + e, y), 0)
        /\ us = (IF e < 0 THEN TRUE ELSE IF e >= 0 /\ d + e >= y THEN FALSE ELSE userScrolling)
        /\ gs = (ghostScroll /\ ~(active = "normal" /\ disp = y))
  OBVIOUS
<1>4. d \in Nat /\ y \in Nat /\ d <= y
  BY <1>1, <1>3, PartsOf DEF Window, Sized
<1>5. disp \in Nat /\ disp <= y
  BY <1>3, <1>4 DEF Least, Most
<1>6. PICK w, B : w = [b EXCEPT !.ydisp = disp] /\ B = [buf EXCEPT ![active] = w]
  OBVIOUS
<1>7. /\ buf' = B /\ userScrolling' = us /\ ghostScroll' = gs
      /\ UNCHANGED <<active, cols, rows, stuck>>
  BY <1>3, <1>6 DEF scrollLines, Show
<1>8. /\ w \in Buffer /\ w.ydisp = disp /\ w.lines = b.lines /\ w.ybase = b.ybase
      /\ w.y = b.y /\ w.savedY = b.savedY /\ w.maxLength = b.maxLength
      /\ w.scrollTop = b.scrollTop /\ w.scrollBottom = b.scrollBottom
  BY <1>1, <1>5, <1>6 DEF Buffer
<1>9. Window(w, rows)
  BY <1>1, <1>3, <1>5, <1>8 DEF Window, Sized
<1>10. B \in [Names -> Buffer] /\ B[active] = w /\ \A n \in Names : n # active => B[n] = buf[n]
  BY <1>1, <1>6, <1>8
<1>11. us \in BOOLEAN /\ gs \in BOOLEAN
  BY <1>3 DEF Working, ScreenInv
<1>12. ~us => disp = y \/ (~userScrolling /\ d # y /\ disp # y)
  <2> SUFFICES ASSUME ~us PROVE disp = y \/ (~userScrolling /\ d # y /\ disp # y)
    OBVIOUS
  <2>1. e >= 0
    BY <1>3
  <2>2. CASE d + e >= y
    <3>1. disp = y
      BY <1>3, <1>4, <2>1, <2>2 DEF Least, Most
    <3> QED BY <3>1
  <2>3. CASE ~(d + e >= y)
    <3>1. ~userScrolling
      BY <1>3, <2>1, <2>3
    <3>2. d # y
      BY <1>4, <2>1, <2>3
    <3>3. disp # y
      BY <1>3, <1>4, <2>1, <2>3 DEF Least, Most
    <3> QED BY <3>1, <3>2, <3>3
  <2> QED BY <2>2, <2>3
<1>13. Screened(B, active, rows, us, gs, stuck)
  <2>1. CASE active = "normal"
    <3>1. b = buf["normal"] /\ B["normal"] = w /\ B["alt"] = buf["alt"]
      BY <1>10, <2>1 DEF b, Names
    <3>2. Normal(b, active, rows, userScrolling, ghostScroll) /\ Empty(B["alt"], rows)
      BY <1>2, <2>1, <3>1 DEF Screened, Alternate
    <3>3. w.maxLength = rows + scrollback /\ Above(w, rows)
      BY <1>8, <3>2 DEF Normal, Above
    <3>4. ~us /\ ~gs => w.ydisp = w.ybase
      <4>1. ~us /\ ~gs /\ disp # y => ~ghostScroll
        BY <1>3
      <4>2. ~userScrolling /\ ~ghostScroll => d = y
        BY <1>3, <2>1, <3>2 DEF Normal
      <4>3. ~us /\ ~gs => disp = y
        BY <1>12, <4>1, <4>2
      <4> QED BY <1>3, <1>8, <4>3
    <3>5. Normal(w, active, rows, us, gs)
      BY <1>9, <2>1, <3>3, <3>4 DEF Normal
    <3>6. Alternate(B["alt"], active, rows, us, stuck)
      BY <2>1, <3>2 DEF Alternate
    <3> QED BY <1>1, <1>10, <3>1, <3>5, <3>6 DEF Screened
  <2>2. CASE active = "alt"
    <3>1. b = buf["alt"] /\ B["alt"] = w /\ B["normal"] = buf["normal"]
      BY <1>10, <2>2 DEF b, Names
    <3>2. ~userScrolling => b.ydisp = b.ybase
      BY <1>2, <2>2, <3>1 DEF Screened, Alternate
    <3>3. ~us => w.ydisp = w.ybase
      <4>1. ~us => disp = y
        BY <1>3, <1>12, <3>2
      <4> QED BY <1>3, <1>8, <4>1
    <3>4. Alternate(w, active, rows, us, stuck)
      <4>1. Fits(w, rows)
        BY <1>1, <1>9, WindowFits DEF Size
      <4> QED BY <1>9, <2>2, <3>3, <4>1 DEF Alternate
    <3>5. gs = ghostScroll
      BY <1>3, <2>2 DEF Working, ScreenInv
    <3>6. Normal(buf["normal"], active, rows, us, gs)
      BY <1>2, <2>2, <3>5 DEF Screened, Normal
    <3> QED BY <1>1, <1>10, <3>1, <3>4, <3>6 DEF Screened
  <2> QED BY <1>1, <2>1, <2>2 DEF Names
<1>14. ScreenInv'
  BY <1>7, <1>11, <1>13 DEF Working, ScreenInv
<1>15. buf'[active].lines = b.lines /\ UNCHANGED stuck
  BY <1>7, <1>8, <1>10
<1> QED BY <1>14, <1>15, SameLines, NoBreak

\* Every step.
LEMMA ScreenStepKept == ASSUME ScreenInv, Next PROVE StepKept
<1>0. Working
  <2>1. stuck = "no"
    BY DEF Next, Move, Edit, CountDown, EraseScrollback, EraseAboveWindow, MoveLinesOutside, print,
           repeatPrecedingCharacter, EditChars, eraseInLine, activateAltBuffer,
           activateNormalBuffer, softReset, reset, Resize, Scroll, handler, scrollLines
  <2> QED BY <2>1 DEF Working
<1>1. ASSUME Scroll PROVE StepKept
  <2>1. PICK e \in -1 .. 1 : scrollLines(e)
    BY <1>1 DEF Scroll
  <2>2. e \in Int
    OBVIOUS
  <2> QED BY <1>0, <2>1, <2>2, ScrollStep
<1>2. ASSUME handler PROVE StepKept
  <2>1. PICK e : e = b.ybase - b.ydisp
    OBVIOUS
  <2>2. scrollLines(e)
    BY <1>2, <2>1 DEF handler
  <2>3. b.ybase \in Int /\ b.ydisp \in Int
    BY <1>0, Shown, PartsOf
  <2>4. e \in Int
    BY <2>1, <2>3
  <2> QED BY <1>0, <2>2, <2>4, ScrollStep
<1> QED
  BY <1>0, <1>1, <1>2, HandlersStep, BreakingStep, WritersStep, SwitchStep, SoftResetStep, ResetStep,
     ResizeStep DEF Next

\* The invariant holds in every state.
LEMMA ScreenInvariant == Spec => []ScreenInv
<1>1. Init => ScreenInv
  <2> SUFFICES ASSUME Init PROVE ScreenInv
    OBVIOUS
  <2>1. PICK s \in Sizes : cols = s[1] /\ rows = s[2] /\ buf = BufferSet(s[2])
    BY DEF Init
  <2>2. s = <<s[1], s[2]>> /\ s[2] \in Nat \ {0}
    BY SizesAssumption
  <2>3. Screened(BufferSet(s[2]), "normal", s[2], FALSE, FALSE, "no")
    BY <2>2, NewScreen
  <2>4. <<cols, rows>> \in Sizes
    BY <2>1, <2>2
  <2>5. active = "normal" /\ stuck = "no" /\ userScrolling = FALSE /\ ghostScroll = FALSE
    BY DEF Init
  <2> QED BY <2>1, <2>3, <2>4, <2>5 DEF ScreenInv, Outcomes
<1>2. ScreenInv /\ [Next]_vars => ScreenInv'
  <2>1. ScreenInv /\ UNCHANGED vars => ScreenInv'
    BY DEF ScreenInv, vars
  <2> QED BY <2>1, ScreenStepKept DEF StepKept
<1> QED BY <1>1, <1>2, PTL DEF Spec

(***************************************************************************)
(* Whatever sequences of handlers, scrolls, switches and resizes came      *)
(* before: every row of a shown window has its line, but for the alternate *)
(* screen after the resize that BreaksOnlyOutside names; the view is in    *)
(* the buffer, and the normal screen's cursor is not below the window      *)
(* (Buffer and CircularList).                                              *)
(***************************************************************************)
THEOREM RowsHaveLines == Spec => []RowsExist
<1>1. ScreenInv => RowsExist
  <2> SUFFICES ASSUME ScreenInv PROVE RowsExist
    OBVIOUS
  <2>1. Size /\ buf \in [Names -> Buffer] /\ active \in Names
    <3>1. <<cols, rows>> \in (Nat \ {0}) \X (Nat \ {0})
      BY SizesAssumption DEF ScreenInv
    <3> QED BY <3>1 DEF Size, ScreenInv, Screened
  <2>2. /\ Normal(buf["normal"], active, rows, userScrolling, ghostScroll)
        /\ Alternate(buf["alt"], active, rows, userScrolling, stuck)
    BY DEF ScreenInv, Screened
  <2>3. Window(buf["normal"], rows) /\ buf["normal"].y < rows
    BY <2>2 DEF Normal, Above
  <2>4. Fits(buf["alt"], rows) \/ Empty(buf["alt"], rows)
    BY <2>2 DEF Alternate
  <2>5. \A n \in Names : Fits(buf[n], rows) \/ Empty(buf[n], rows)
    <3>1. Fits(buf["normal"], rows)
      BY <2>1, <2>3, WindowFits DEF Size
    <3> QED BY <2>4, <3>1 DEF Names
  <2>6. ASSUME NEW n \in Names
        PROVE  /\ buf[n].lines \in Seq(Line) /\ Len(buf[n].lines) <= buf[n].maxLength
               /\ buf[n].ydisp \in 0 .. buf[n].ybase
    <3>1. PICK v : v = buf[n]
      OBVIOUS
    <3>2. v \in Buffer
      BY <2>1, <3>1
    <3>3. /\ v.lines \in Seq(Line) /\ v.ydisp \in Nat /\ v.ybase \in Nat /\ v.maxLength \in Nat
      BY <3>2, PartsOf
    <3>4. v.ydisp <= v.ybase
      BY <2>5, <3>1 DEF Fits, Empty, Sized
    <3>5. v.ydisp \in 0 .. v.ybase
      BY <3>3, <3>4
    <3>6. Len(v.lines) <= v.maxLength
      <4>1. CASE Fits(v, rows)
        BY <4>1 DEF Fits
      <4>2. CASE Empty(v, rows)
        <5>1. v.lines = <<>>
          BY <4>2 DEF Empty
        <5>2. Len(v.lines) = 0
          BY <5>1
        <5> QED BY <3>3, <5>2
      <4> QED BY <2>5, <3>1, <4>1, <4>2
    <3> QED BY <3>1, <3>3, <3>5, <3>6
  <2>7. \A n \in {"normal", active} :
          (n = "alt" => stuck # "short") => Len(buf[n].lines) >= buf[n].ybase + rows
    <3>1. ASSUME NEW v, Window(v, rows) PROVE Len(v.lines) >= v.ybase + rows
      <4>1. PICK l, y : l = Len(v.lines) /\ y = v.ybase
        OBVIOUS
      <4>2. y \in Nat /\ rows \in Nat /\ l = y + rows
        BY <2>1, <3>1, <4>1, PartsOf DEF Window, Sized, Size
      <4>3. l >= y + rows
        BY <4>2
      <4> QED BY <4>1, <4>3
    <3>2. active = "alt" /\ stuck # "short" => Window(buf["alt"], rows)
      BY <2>2 DEF Alternate
    <3> QED BY <2>1, <2>3, <3>1, <3>2 DEF Names
  <2>8. TypeOK
    BY <2>1, <2>6 DEF TypeOK, ScreenInv, Line
  <2> QED BY <2>3, <2>6, <2>7, <2>8 DEF RowsExist
<1> QED BY <1>1, ScreenInvariant, PTL

(***************************************************************************)
(* A user who did not scroll up sees the bottom of the buffer, in a window *)
(* of any size and with any scrollback (Terminal.scroll, scrollLines,      *)
(* eraseInDisplay, Buffer.resize).                                         *)
(***************************************************************************)
THEOREM BottomFollowed == Spec => []Follows
<1>1. ScreenInv => Follows
  <2> SUFFICES ASSUME ScreenInv, ~userScrolling, ~(ghostScroll /\ active = "normal")
               PROVE  b.ydisp = b.ybase
    BY DEF Follows
  <2>1. Screened(buf, active, rows, userScrolling, ghostScroll, stuck) /\ active \in Names
    BY DEF ScreenInv, Screened
  <2>2. CASE active = "normal"
    BY <2>1, <2>2 DEF Screened, Normal, b
  <2>3. CASE active = "alt"
    BY <2>1, <2>3 DEF Screened, Alternate, b
  <2> QED BY <2>1, <2>2, <2>3 DEF Names
<1> QED BY <1>1, ScreenInvariant, PTL

(***************************************************************************)
(* The handling of output breaks down only with the cursor out of the      *)
(* window (InputHandler.print, eraseInDisplay, insertLines, deleteLines),  *)
(* by a count that never gets to 0, or by one kind of resize: of an        *)
(* alternate screen with lines above its window and the cursor above its   *)
(* last row, to more rows (Buffer.resize).                                 *)
(***************************************************************************)
THEOREM BreaksOnlyOutside == Spec => BreaksOutside
<1>1. ScreenInv /\ [Next]_vars => [BreakStep]_vars
  BY ScreenStepKept DEF StepKept
<1> QED BY <1>1, ScreenInvariant, PTL DEF BreaksOutside, BreakStep, Spec

(***************************************************************************)
(* Output leaves the first line a scrolled-up user sees where it is on the *)
(* screen until that line is trimmed (Terminal.scroll).                    *)
(***************************************************************************)
THEOREM ViewIsHeld == Spec => ViewStays
<1>1. ScreenInv /\ [Next]_vars => [ViewStep]_vars
  BY ScreenStepKept DEF StepKept
<1> QED BY <1>1, ScreenInvariant, PTL DEF ViewStays, ViewStep, Spec

-----------------------------------------------------------------------------
\* The parser.
TableRow(k) == VT500_TRANSITION_TABLE[k]

\* The actions of the ground state.
InGround == {"error", "print", "execute", "ignore", "clear", "osc_start"}

\* What is used of a row of the table.
RowFits(k) ==
  /\ TableRow(k)[4] \in Every \cup {Same}
  /\ TableRow(k)[3] = "print" => TableRow(k)[2] = {0} /\ TableRow(k)[4] = 0
  /\ TableRow(k)[3] = "error" => k = 1 /\ TableRow(k)[4] = 0
  /\ 0 \in TableRow(k)[2] => TableRow(k)[3] \in InGround

\* All rows fit.
LEMMA TableFits ==
  /\ DOMAIN VT500_TRANSITION_TABLE = 1 .. 42
  /\ \A k \in 1 .. 42 : RowFits(k)
<1>1. DOMAIN VT500_TRANSITION_TABLE = 1 .. 42
  BY DEF VT500_TRANSITION_TABLE
<1>2. \A k \in 1 .. 42 : TableRow(k)[4] \in Every \cup {Same}
  BY DEF TableRow, VT500_TRANSITION_TABLE, Every, Same
<1>3. \A k \in 1 .. 42 : TableRow(k)[3] = "print" => TableRow(k)[2] = {0} /\ TableRow(k)[4] = 0
  BY DEF TableRow, VT500_TRANSITION_TABLE, Every
<1>4. \A k \in 1 .. 42 : TableRow(k)[3] = "error" => k = 1 /\ TableRow(k)[4] = 0
  BY DEF TableRow, VT500_TRANSITION_TABLE
<1>5. \A k \in 1 .. 42 : 0 \in TableRow(k)[2] => TableRow(k)[3] \in InGround
  <2>1. \A k \in 1 .. 10 : TableRow(k)[3] \in InGround
    BY DEF TableRow, VT500_TRANSITION_TABLE, InGround
  <2>2. \A k \in 11 .. 42 : TableRow(k)[2] \subseteq 1 .. 13
    BY DEF TableRow, VT500_TRANSITION_TABLE
  <2>3. \A k \in 11 .. 42 : 0 \notin TableRow(k)[2]
    BY <2>2
  <2>4. \A k \in 1 .. 42 : k \in 1 .. 10 \/ k \in 11 .. 42
    OBVIOUS
  <2> QED BY <2>1, <2>3, <2>4
<1> QED BY <1>1, <1>2, <1>3, <1>4, <1>5 DEF RowFits

\* In the ground state the first row stands for 28 to 31 only.
LEMMA GroundCovered ==
  ASSUME NEW c \in 0 .. 159, c \notin 28 .. 31, c # 127
  PROVE  \E k \in 2 .. 10 : 0 \in TableRow(k)[2] /\ c \in TableRow(k)[1]
<1>1. /\ TableRow(2)[1] = 32 .. 126 /\ TableRow(3)[1] = {24, 26} \cup 128 .. 151 \cup {153, 154}
      /\ TableRow(4)[1] = {156} /\ TableRow(5)[1] = {27} /\ TableRow(6)[1] = {157}
      /\ TableRow(7)[1] = {152, 158, 159} /\ TableRow(8)[1] = {155} /\ TableRow(9)[1] = {144}
      /\ TableRow(10)[1] = 0 .. 23 \cup {25}
  BY DEF TableRow, VT500_TRANSITION_TABLE, PRINTABLES, EXECUTABLES
<1>2. \A k \in 2 .. 10 : 0 \in TableRow(k)[2]
  BY DEF TableRow, VT500_TRANSITION_TABLE, Every
<1>3. \/ c \in 32 .. 126 \/ c \in {24, 26} \cup 128 .. 151 \cup {153, 154}
      \/ c = 156 \/ c = 27 \/ c = 157 \/ c \in {152, 158, 159} \/ c = 155 \/ c = 144
      \/ c \in 0 .. 23 \cup {25}
  OBVIOUS
<1> QED BY <1>1, <1>2, <1>3

\* The rows for a state and a code; the last one counts.
RowsOf(s, c) == {k \in 1 .. 42 : s \in TableRow(k)[2] /\ c \in TableRow(k)[1]}

\* What is added for a state and a code.
LEMMA LastRow ==
  ASSUME NEW s, NEW c
  PROVE  \/ RowsOf(s, c) = {} /\ Added(s, c) = <<"error", 0>>
         \/ \E k \in RowsOf(s, c) :
              /\ \A j \in RowsOf(s, c) : j <= k
              /\ Added(s, c) =
                   <<TableRow(k)[3], IF TableRow(k)[4] = Same THEN s ELSE TableRow(k)[4]>>
<1> DEFINE R == RowsOf(s, c)
<1>1. \/ R = {} /\ Added(s, c) = <<"error", 0>>
      \/ /\ R # {}
         /\ Added(s, c) =
              <<TableRow(Max(R))[3], IF TableRow(Max(R))[4] = Same THEN s ELSE TableRow(Max(R))[4]>>
  BY TableFits DEF Added, RowsOf, TableRow
<1>2. ASSUME R # {} PROVE Max(R) \in R /\ \A j \in R : j <= Max(R)
  <2>1. PICK S : S = {42 - j : j \in R}
    OBVIOUS
  <2>2. R \subseteq 1 .. 42
    BY DEF RowsOf
  <2>3. S \subseteq Nat /\ S # {}
    BY <1>2, <2>1, <2>2
  <2>4. PICK n \in S : \A m \in S : n <= m
    BY <2>3, Lowest
  <2>5. PICK k \in R : n = 42 - k
    BY <2>1
  <2>6. \A j \in R : j <= k
    <3> SUFFICES ASSUME NEW j \in R PROVE j <= k
      OBVIOUS
    <3>1. 42 - j \in S
      BY <2>1
    <3>2. 42 - k <= 42 - j /\ j \in 1 .. 42 /\ k \in 1 .. 42
      BY <2>2, <2>4, <2>5, <3>1
    <3> QED BY <3>2
  <2>7. \A j \in R : k >= j
    BY <2>2, <2>6
  <2>8. Max(R) \in R /\ \A j \in R : Max(R) >= j
    BY <2>7 DEF Max
  <2> QED BY <2>2, <2>8
<1> QED BY <1>1, <1>2

\* What is used of a transition.
LEMMA TransitionFits ==
  ASSUME NEW s \in Every, NEW c \in Bytes, NEW action, NEW next,
         action = Transitions[s][c][1], next = Transitions[s][c][2]
  PROVE  /\ next \in Every
         /\ s = 0 => action \in InGround
         /\ s = 0 /\ action \in {"error", "print"} => next = 0
         /\ s = 0 /\ action = "error" /\ c < 160 => c \in 28 .. 31
         /\ s # 0 => action # "print"
<1>1. CASE s = 0 /\ c = 127
  <2>1. Transitions[s][c] = <<"print", 0>>
    BY <1>1 DEF Transitions
  <2> QED BY <1>1, <2>1 DEF InGround, Every
<1>2. CASE ~(s = 0 /\ c = 127)
  <2>1. Transitions[s][c] = Added(s, c)
    BY <1>2 DEF Transitions
  <2>2. CASE RowsOf(s, c) = {} /\ Added(s, c) = <<"error", 0>>
    <3>1. action = "error" /\ next = 0
      BY <2>1, <2>2
    <3>2. s = 0 /\ c < 160 => c \in 28 .. 31
      <4> SUFFICES ASSUME s = 0, c < 160, c \notin 28 .. 31 PROVE FALSE
        OBVIOUS
      <4>1. c \in 0 .. 159 /\ c # 127
        BY <1>2, BytesAssumption
      <4>2. PICK k \in 2 .. 10 : 0 \in TableRow(k)[2] /\ c \in TableRow(k)[1]
        BY <4>1, GroundCovered
      <4>3. k \in RowsOf(s, c)
        BY <4>2 DEF RowsOf
      <4> QED BY <2>2, <4>3
    <3> QED BY <3>1, <3>2 DEF InGround, Every
  <2>3. ASSUME NEW k \in RowsOf(s, c), \A j \in RowsOf(s, c) : j <= k,
               Added(s, c) = <<TableRow(k)[3], IF TableRow(k)[4] = Same THEN s ELSE TableRow(k)[4]>>
        PROVE  /\ next \in Every
               /\ s = 0 => action \in InGround
               /\ s = 0 /\ action \in {"error", "print"} => next = 0
               /\ s = 0 /\ action = "error" /\ c < 160 => c \in 28 .. 31
               /\ s # 0 => action # "print"
    <3>1. k \in 1 .. 42 /\ s \in TableRow(k)[2] /\ RowFits(k)
      BY TableFits DEF RowsOf
    <3>2. action = TableRow(k)[3] /\ next = IF TableRow(k)[4] = Same THEN s ELSE TableRow(k)[4]
      BY <2>1, <2>3
    <3>3. next \in Every
      BY <3>1, <3>2 DEF RowFits
    <3>4. s = 0 => action \in InGround
      BY <3>1, <3>2 DEF RowFits
    <3>5. s = 0 /\ action \in {"error", "print"} => next = 0
      BY <3>1, <3>2 DEF RowFits, Same
    <3>6. s # 0 => action # "print"
      BY <3>1, <3>2 DEF RowFits
    <3>7. s = 0 /\ action = "error" /\ c < 160 => c \in 28 .. 31
      <4> SUFFICES ASSUME s = 0, action = "error", c < 160, c \notin 28 .. 31 PROVE FALSE
        OBVIOUS
      <4>1. k = 1
        BY <3>1, <3>2 DEF RowFits
      <4>2. c \in 0 .. 159 /\ c # 127
        BY <1>2, BytesAssumption
      <4>3. PICK j \in 2 .. 10 : 0 \in TableRow(j)[2] /\ c \in TableRow(j)[1]
        BY <4>2, GroundCovered
      <4>4. j \in RowsOf(s, c)
        BY <4>3 DEF RowsOf
      <4>5. j <= 1
        BY <2>3, <4>1, <4>4
      <4> QED BY <4>5
    <3> QED BY <3>3, <3>4, <3>5, <3>6, <3>7
  <2> QED BY <2>2, <2>3, LastRow
<1> QED BY <1>1, <1>2
-----------------------------------------------------------------------------
\* What the handlers are called with.
Kinds == {"print", "execute", "csi", "esc", "hook", "unhook", "osc"}
Calls == [kind : Kinds, code : Int, params : Seq(Int), text : Seq(Int)]
PrintCall(c) == Event("print", c, <<>>, <<>>)

\* The calls that do not depend on the cuts.
Visible == {e \in Calls : ~Joins(e)}

\* One call more.
OneMore(out, e) == IF Joins(e) THEN out ELSE Append(out, e)

\* What is seen of calls, one by one.
IsHanding(g, run) ==
  /\ g = [i \in 0 .. Len(run) |-> IF i = 0 THEN <<>> ELSE OneMore(g[i - 1], run[i])]
  /\ Seen(run) = g[Len(run)]

\* It has a value.
LEMMA Handing ==
  ASSUME NEW run, Len(run) \in Nat PROVE \E g : IsHanding(g, run)
<1> DEFINE Loop(g, n) ==
      g = [i \in 0 .. n |-> IF i = 0 THEN <<>> ELSE OneMore(g[i - 1], run[i])]
<1>1. \E g : Loop(g, 0)
  <2>1. PICK g : g = [i \in 0 .. 0 |-> <<>>]
    OBVIOUS
  <2>2. \A i \in 0 .. 0 : i = 0
    OBVIOUS
  <2>3. Loop(g, 0)
    BY <2>1, <2>2
  <2> QED BY <2>3
<1>2. ASSUME NEW n \in Nat, NEW g, Loop(g, n) PROVE \E h : Loop(h, n + 1)
  <2>1. PICK m : m = n + 1
    OBVIOUS
  <2>2. m \in Nat /\ m # 0 /\ m - 1 = n /\ m \notin 0 .. n
    BY <2>1
  <2>3. \A i \in 0 .. m : i = m \/ i \in 0 .. n
    BY <2>1
  <2>4. \A i \in 0 .. n : i # 0 => i - 1 \in 0 .. n
    OBVIOUS
  <2>5. PICK e : e = OneMore(g[n], run[m])
    OBVIOUS
  <2>6. PICK h : h = [i \in 0 .. m |-> IF i = m THEN e ELSE g[i]]
    OBVIOUS
  <2>7. \A i \in 0 .. n : h[i] = g[i]
    BY <2>1, <2>2, <2>6
  <2>8. h[m] = OneMore(h[m - 1], run[m])
    BY <2>2, <2>5, <2>6, <2>7
  <2>9. \A i \in 0 .. n : g[i] = IF i = 0 THEN <<>> ELSE OneMore(g[i - 1], run[i])
    BY <1>2
  <2>10. \A i \in 0 .. n : h[i] = IF i = 0 THEN <<>> ELSE OneMore(h[i - 1], run[i])
    BY <2>4, <2>7, <2>9
  <2>11. \A i \in 0 .. m : h[i] = IF i = 0 THEN <<>> ELSE OneMore(h[i - 1], run[i])
    BY <2>2, <2>3, <2>8, <2>10
  <2>12. Loop(h, m)
    BY <2>6, <2>11
  <2> QED BY <2>1, <2>12
<1> HIDE DEF Loop
<1>3. \A n \in Nat : \E g : Loop(g, n)
  <2> SUFFICES ASSUME NEW n \in Nat, ~\E g : Loop(g, n) PROVE FALSE
    OBVIOUS
  <2>1. PICK S : S = {m \in Nat : ~\E g : Loop(g, m)}
    OBVIOUS
  <2>2. PICK m \in S : \A k \in S : m <= k
    BY <2>1, Lowest
  <2>3. m \in Nat /\ ~\E g : Loop(g, m)
    BY <2>1
  <2>4. m # 0
    BY <1>1, <2>3
  <2>5. PICK k : k = m - 1
    OBVIOUS
  <2>6. k \in Nat /\ k + 1 = m /\ ~(m <= k)
    BY <2>3, <2>4, <2>5
  <2>7. \E g : Loop(g, k)
    BY <2>1, <2>2, <2>6
  <2> QED BY <1>2, <2>3, <2>6, <2>7
<1>4. \E g : Loop(g, Len(run))
  BY <1>3
<1>5. \E g : g = [i \in 0 .. Len(run) |-> IF i = 0 THEN <<>> ELSE OneMore(g[i - 1], run[i])]
  BY <1>4 DEF Loop
<1>6. PICK f : f = CHOOSE g :
        g = [i \in 0 .. Len(run) |-> IF i = 0 THEN <<>> ELSE OneMore(g[i - 1], run[i])]
  OBVIOUS
<1>7. f = [i \in 0 .. Len(run) |-> IF i = 0 THEN <<>> ELSE OneMore(f[i - 1], run[i])]
  BY <1>5, <1>6
<1>8. Seen(run) = f[Len(run)]
  BY <1>6 DEF Seen, OneMore
<1> QED BY <1>7, <1>8 DEF IsHanding

\* It is a sequence of shown calls up to every call.
LEMMA HandingTyped ==
  ASSUME NEW run \in Seq(Calls), NEW g, IsHanding(g, run)
  PROVE  \A i \in 0 .. Len(run) : g[i] \in Seq(Visible)
<1>1. PICK n : n = Len(run)
  OBVIOUS
<1>2. n \in Nat /\ \A i \in 1 .. n : run[i] \in Calls
  BY <1>1
<1>3. \A i \in 0 .. n : g[i] = IF i = 0 THEN <<>> ELSE OneMore(g[i - 1], run[i])
  BY <1>1 DEF IsHanding
<1>4. <<>> \in Seq(Visible)
  BY EmptySeq
<1> SUFFICES ASSUME NEW i \in 0 .. n, g[i] \notin Seq(Visible) PROVE FALSE
  BY <1>1
<1>5. PICK S : S = {j \in 0 .. n : g[j] \notin Seq(Visible)}
  OBVIOUS
<1>6. S \subseteq Nat /\ S # {}
  BY <1>2, <1>5
<1>7. PICK m \in S : \A k \in S : m <= k
  BY <1>6, Lowest
<1>8. m \in 0 .. n /\ g[m] \notin Seq(Visible)
  BY <1>5
<1>9. m # 0
  BY <1>3, <1>4, <1>8
<1>10. PICK k : k = m - 1
  OBVIOUS
<1>11. k \in 0 .. n /\ ~(m <= k) /\ m \in 1 .. n
  BY <1>2, <1>8, <1>9, <1>10
<1>12. g[k] \in Seq(Visible)
  BY <1>5, <1>7, <1>11
<1>13. g[m] = OneMore(g[k], run[m])
  BY <1>3, <1>8, <1>9, <1>10
<1>14. run[m] \in Calls
  BY <1>2, <1>11
<1>15. ~Joins(run[m]) => run[m] \in Visible
  BY <1>14 DEF Visible
<1>16. ~Joins(run[m]) => Append(g[k], run[m]) \in Seq(Visible)
  BY <1>12, <1>15
<1> QED BY <1>8, <1>12, <1>13, <1>16 DEF OneMore

\* What is seen is shown.
LEMMA SeenTyped == ASSUME NEW run \in Seq(Calls) PROVE Seen(run) \in Seq(Visible)
<1>1. Len(run) \in Nat
  OBVIOUS
<1>2. PICK g : IsHanding(g, run)
  BY <1>1, Handing
<1> QED BY <1>1, <1>2, HandingTyped DEF IsHanding

\* Nothing is seen of no calls.
LEMMA SeenNone == Seen(<<>>) = <<>>
<1>1. Len(<<>>) = 0
  OBVIOUS
<1>2. PICK g : IsHanding(g, <<>>)
  BY <1>1, Handing
<1>3. g = [i \in 0 .. 0 |-> IF i = 0 THEN <<>> ELSE OneMore(g[i - 1], (<<>>)[i])]
  BY <1>1, <1>2 DEF IsHanding
<1>4. g[0] = <<>>
  BY <1>3
<1> QED BY <1>1, <1>2, <1>4 DEF IsHanding

\* One call more is seen or not.
LEMMA SeenMore ==
  ASSUME NEW run \in Seq(Calls), NEW c \in Calls
  PROVE  Seen(Append(run, c)) = OneMore(Seen(run), c)
<1>1. PICK n, more : n = Len(run) /\ more = Append(run, c)
  OBVIOUS
<1>2. n \in Nat /\ Len(more) = n + 1 /\ more[n + 1] = c /\ \A i \in 1 .. n : more[i] = run[i]
  BY <1>1
<1>3. PICK g : IsHanding(g, run)
  BY <1>1, <1>2, Handing
<1>4. PICK m : m = n + 1
  OBVIOUS
<1>5. m \in Nat /\ m # 0 /\ m - 1 = n /\ Len(more) = m
  BY <1>2, <1>4
<1>6. PICK h : IsHanding(h, more)
  BY <1>5, Handing
<1>7. \A i \in 0 .. n : g[i] = IF i = 0 THEN <<>> ELSE OneMore(g[i - 1], run[i])
  BY <1>1, <1>3 DEF IsHanding
<1>8. \A i \in 0 .. m : h[i] = IF i = 0 THEN <<>> ELSE OneMore(h[i - 1], more[i])
  BY <1>5, <1>6 DEF IsHanding
<1>9. \A i \in 0 .. n : g[i] = h[i]
  <2> SUFFICES ASSUME NEW i \in 0 .. n, g[i] # h[i] PROVE FALSE
    OBVIOUS
  <2>1. PICK S : S = {j \in 0 .. n : g[j] # h[j]}
    OBVIOUS
  <2>2. S \subseteq Nat /\ S # {}
    BY <1>2, <2>1
  <2>3. PICK l \in S : \A k \in S : l <= k
    BY <2>2, Lowest
  <2>4. l \in 0 .. n /\ g[l] # h[l]
    BY <2>1
  <2>5. l \in 0 .. m
    BY <1>2, <1>4, <2>4
  <2>6. l # 0
    BY <1>7, <1>8, <2>4, <2>5
  <2>7. PICK k : k = l - 1
    OBVIOUS
  <2>8. k \in 0 .. n /\ ~(l <= k) /\ l \in 1 .. n
    BY <1>2, <2>4, <2>6, <2>7
  <2>9. g[k] = h[k]
    BY <2>1, <2>3, <2>8
  <2>10. g[l] = OneMore(g[k], run[l]) /\ h[l] = OneMore(h[k], more[l])
    BY <1>7, <1>8, <2>4, <2>5, <2>6, <2>7
  <2> QED BY <1>2, <2>4, <2>8, <2>9, <2>10
<1>10. h[m] = OneMore(h[n], more[m])
  BY <1>5, <1>8
<1>11. h[n] = g[n] /\ more[m] = c
  BY <1>2, <1>4, <1>9
<1>12. Seen(run) = g[n] /\ Seen(more) = h[m]
  BY <1>1, <1>3, <1>5, <1>6 DEF IsHanding
<1> QED BY <1>1, <1>10, <1>11, <1>12

\* What is seen of two sequences of calls is seen of each.
LEMMA SeenJoins ==
  ASSUME NEW s \in Seq(Calls), NEW t \in Seq(Calls)
  PROVE  Seen(s \o t) = Seen(s) \o Seen(t)
<1> DEFINE Upto(n) == SubSeq(t, 1, n)
<1>1. PICK l : l = Len(t)
  OBVIOUS
<1>2. l \in Nat /\ \A i \in 1 .. l : t[i] \in Calls
  BY <1>1
<1>3. \A n \in 0 .. l : Upto(n) \in Seq(Calls) /\ Len(Upto(n)) = n
  <2> SUFFICES ASSUME NEW n \in 0 .. l PROVE Upto(n) \in Seq(Calls) /\ Len(Upto(n)) = n
    OBVIOUS
  <2>1. n \in Nat /\ n <= Len(t)
    BY <1>1, <1>2
  <2>2. IsPart(Upto(n), t, Calls, 0, n)
    BY <2>1, FrontPart
  <2> QED BY <2>2 DEF IsPart
<1>4. Upto(0) = <<>> /\ Upto(l) = t
  <2>1. Upto(0) \in Seq(Calls) /\ Len(Upto(0)) = 0
    BY <1>2, <1>3
  <2> QED BY <1>1, <2>1, SubSeqFull
<1>5. ASSUME NEW n \in 1 .. l PROVE Upto(n) = Append(Upto(n - 1), t[n])
  <2>1. PICK k, f, g : k = n - 1 /\ f = Upto(n) /\ g = Append(Upto(k), t[n])
    OBVIOUS
  <2>2. k \in 0 .. l /\ n \in 0 .. l /\ k + 1 = n /\ k \in Nat /\ n \in Nat
        /\ k <= Len(t) /\ n <= Len(t)
    BY <1>1, <1>2, <2>1
  <2>3. IsPart(f, t, Calls, 0, n) /\ IsPart(Upto(k), t, Calls, 0, k)
    BY <2>1, <2>2, FrontPart
  <2>4. \A j \in 1 .. n : 0 + j = j
    BY <2>2
  <2>5. f \in Seq(Calls) /\ Len(f) = n /\ \A j \in 1 .. n : f[j] = t[j]
    BY <2>3, <2>4 DEF IsPart
  <2>6. Upto(k) \in Seq(Calls) /\ Len(Upto(k)) = k /\ \A j \in 1 .. k : Upto(k)[j] = t[j]
    <3>1. \A j \in 1 .. k : 0 + j = j
      BY <2>2
    <3> QED BY <2>3, <3>1 DEF IsPart
  <2>7. PICK e : e = Upto(k)
    OBVIOUS
  <2> HIDE DEF Upto
  <2>8. g \in Seq(Calls) /\ Len(g) = n /\ \A j \in 1 .. n : g[j] = t[j]
    <3>1. t[n] \in Calls
      BY <1>2
    <3>2. e \in Seq(Calls) /\ Len(e) = k /\ \A j \in 1 .. k : e[j] = t[j]
      BY <2>6, <2>7
    <3>3. g = Append(e, t[n])
      BY <2>1, <2>7
    <3>4. g \in Seq(Calls) /\ Len(g) = k + 1 /\ g[k + 1] = t[n]
          /\ \A j \in 1 .. k : g[j] = e[j]
      BY <2>2, <3>1, <3>2, <3>3
    <3>5. \A j \in 1 .. n : j \in 1 .. k \/ j = k + 1
      BY <2>2
    <3> QED BY <2>2, <3>2, <3>4, <3>5
  <2>9. f = g
    BY <2>2, <2>5, <2>8, SeqEqual
  <2> QED BY <2>1, <2>9
<1> HIDE DEF Upto
<1>6. s \o <<>> = s /\ Seen(s) \in Seq(Visible)
  BY SeenTyped, ConcatEmptySeq
<1>7. Seen(s \o Upto(0)) = Seen(s) \o Seen(Upto(0))
  <2>1. Seen(s) \o <<>> = Seen(s)
    BY <1>6, ConcatEmptySeq
  <2> QED BY <1>4, <1>6, <2>1, SeenNone
<1>8. ASSUME NEW n \in 1 .. l, Seen(s \o Upto(n - 1)) = Seen(s) \o Seen(Upto(n - 1))
      PROVE  Seen(s \o Upto(n)) = Seen(s) \o Seen(Upto(n))
  <2>1. PICK f, e, x, y : f = Upto(n - 1) /\ e = t[n] /\ x = Seen(s) /\ y = Seen(f)
    OBVIOUS
  <2>2. f \in Seq(Calls) /\ e \in Calls /\ Upto(n) = Append(f, e)
    <3>1. n - 1 \in 0 .. l
      BY <1>2
    <3> QED BY <1>2, <1>3, <1>5, <2>1, <3>1
  <2>3. x \in Seq(Visible) /\ y \in Seq(Visible)
    BY <2>1, <2>2, SeenTyped
  <2>4. s \o Append(f, e) = Append(s \o f, e) /\ s \o f \in Seq(Calls)
    <3>1. Append(f, e) = f \o <<e>> /\ <<e>> \in Seq(Calls) /\ s \o f \in Seq(Calls)
      BY <2>2, AppendIsConcat, ConcatProperties
    <3>2. Append(s \o f, e) = (s \o f) \o <<e>>
      BY <2>2, <3>1, AppendIsConcat
    <3>3. (s \o f) \o <<e>> = s \o (f \o <<e>>)
      BY <2>2, <3>1, ConcatAssociative
    <3> QED BY <3>1, <3>2, <3>3
  <2>5. Seen(s \o Upto(n)) = OneMore(x \o y, e)
    <3>1. Seen(s \o f) = x \o y
      BY <1>8, <2>1
    <3>2. Seen(Append(s \o f, e)) = OneMore(Seen(s \o f), e)
      BY <2>2, <2>4, SeenMore
    <3> QED BY <2>2, <2>4, <3>1, <3>2
  <2>6. Seen(Upto(n)) = OneMore(y, e)
    BY <2>1, <2>2, SeenMore
  <2>7. CASE Joins(e)
    BY <2>1, <2>5, <2>6, <2>7 DEF OneMore
  <2>8. CASE ~Joins(e)
    <3>1. e \in Visible
      BY <2>2, <2>8 DEF Visible
    <3>2. x \o y \in Seq(Visible) /\ <<e>> \in Seq(Visible)
      BY <2>3, <3>1, ConcatProperties
    <3>3. Append(x \o y, e) = (x \o y) \o <<e>> /\ Append(y, e) = y \o <<e>>
      BY <2>3, <3>1, <3>2, AppendIsConcat
    <3>4. (x \o y) \o <<e>> = x \o (y \o <<e>>)
      BY <2>3, <3>2, ConcatAssociative
    <3> QED BY <2>1, <2>5, <2>6, <2>8, <3>3, <3>4 DEF OneMore
  <2> QED BY <2>7, <2>8
<1>9. \A n \in 0 .. l : Seen(s \o Upto(n)) = Seen(s) \o Seen(Upto(n))
  <2> DEFINE Bad(n) == Seen(s \o Upto(n)) # Seen(s) \o Seen(Upto(n))
  <2> SUFFICES ASSUME NEW i \in 0 .. l, Bad(i) PROVE FALSE
    OBVIOUS
  <2>1. PICK S : S = {j \in 0 .. l : Bad(j)}
    OBVIOUS
  <2>2. S \subseteq Nat /\ S # {}
    BY <1>2, <2>1
  <2>3. PICK m \in S : \A k \in S : m <= k
    BY <2>2, Lowest
  <2>4. m \in 0 .. l /\ Bad(m)
    BY <2>1
  <2>5. m # 0
    BY <1>7, <2>4
  <2>6. PICK k : k = m - 1
    OBVIOUS
  <2>7. k \in 0 .. l /\ ~(m <= k) /\ m \in 1 .. l
    BY <1>2, <2>4, <2>5, <2>6
  <2>8. ~Bad(k)
    BY <2>1, <2>3, <2>7
  <2> QED BY <1>8, <2>4, <2>6, <2>7, <2>8
<1>10. l \in 0 .. l
  BY <1>2
<1> QED BY <1>4, <1>9, <1>10

\* Of calls that are shown, all are seen.
LEMMA SeenShown == ASSUME NEW s \in Seq(Visible) PROVE Seen(s) = s
<1>1. PICK n : n = Len(s)
  OBVIOUS
<1>2. n \in Nat /\ \A i \in 1 .. n : s[i] \in Visible
  BY <1>1
<1>3. PICK g : IsHanding(g, s)
  BY <1>1, <1>2, Handing
<1>4. \A i \in 0 .. n : g[i] = IF i = 0 THEN <<>> ELSE OneMore(g[i - 1], s[i])
  BY <1>1, <1>3 DEF IsHanding
<1> DEFINE Good(i) == g[i] \in Seq(Visible) /\ Len(g[i]) = i /\ \A j \in 1 .. i : g[i][j] = s[j]
<1>5. Good(0)
  <2>1. g[0] = <<>>
    BY <1>2, <1>4
  <2> QED BY <2>1, EmptySeq
<1>6. ASSUME NEW i \in 1 .. n, Good(i - 1) PROVE Good(i)
  <2>1. PICK k, f, e : k = i - 1 /\ f = g[k] /\ e = s[i]
    OBVIOUS
  <2>2. k \in Nat /\ k + 1 = i /\ e \in Visible /\ f \in Seq(Visible) /\ Len(f) = k
        /\ \A j \in 1 .. k : f[j] = s[j]
    BY <1>2, <1>6, <2>1
  <2>3. g[i] = Append(f, e)
    <3>1. i \in 0 .. n /\ i # 0
      BY <1>2
    <3>2. ~Joins(e)
      BY <2>2 DEF Visible
    <3> QED BY <1>4, <2>1, <3>1, <3>2 DEF OneMore
  <2>4. PICK h : h = Append(f, e)
    OBVIOUS
  <2>5. h \in Seq(Visible) /\ Len(h) = i /\ h[i] = e /\ \A j \in 1 .. k : h[j] = f[j]
    BY <2>2, <2>4
  <2>6. \A j \in 1 .. i : j \in 1 .. k \/ j = i
    BY <2>2
  <2>7. \A j \in 1 .. i : h[j] = s[j]
    BY <2>1, <2>2, <2>5, <2>6
  <2> QED BY <2>3, <2>4, <2>5, <2>7
<1> HIDE DEF Good
<1>7. Good(n)
  <2> SUFFICES ASSUME ~Good(n) PROVE FALSE
    OBVIOUS
  <2>1. PICK S : S = {j \in 0 .. n : ~Good(j)}
    OBVIOUS
  <2>2. S \subseteq Nat /\ S # {}
    BY <1>2, <2>1
  <2>3. PICK m \in S : \A k \in S : m <= k
    BY <2>2, Lowest
  <2>4. m \in 0 .. n /\ ~Good(m)
    BY <2>1
  <2>5. m # 0
    BY <1>5, <2>4
  <2>6. PICK k : k = m - 1
    OBVIOUS
  <2>7. k \in 0 .. n /\ ~(m <= k) /\ m \in 1 .. n
    BY <1>2, <2>4, <2>5, <2>6
  <2>8. Good(k)
    BY <2>1, <2>3, <2>7
  <2> QED BY <1>6, <2>4, <2>6, <2>7, <2>8
<1>8. g[n] \in Seq(Visible) /\ Len(g[n]) = n /\ \A j \in 1 .. n : g[n][j] = s[j]
  BY <1>7 DEF Good
<1>9. g[n] = s
  BY <1>1, <1>8, SeqEqual
<1> QED BY <1>1, <1>3, <1>9 DEF IsHanding

\* A run is handed over as calls of print.
LEMMA PrintedTyped == ASSUME NEW run \in Seq(Int) PROVE Printed(run) \in Seq(Calls)
<1>1. PICK n : n = Len(run)
  OBVIOUS
<1>2. n \in Nat /\ DOMAIN run = 1 .. n /\ \A i \in 1 .. n : run[i] \in Int
  BY <1>1
<1>3. ASSUME NEW i \in 1 .. n PROVE Event("print", run[i], <<>>, <<>>) \in Calls
  BY <1>2, EmptySeq DEF Event, Calls, Kinds
<1>4. Printed(run) \in [1 .. n -> Calls]
  BY <1>2, <1>3 DEF Printed
<1> QED BY <1>2, <1>4, IsASeq

\* An empty run is none.
LEMMA PrintedNone == Printed(<<>>) = <<>>
<1>1. Printed(<<>>) \in Seq(Calls)
  BY PrintedTyped, EmptySeq
<1>2. DOMAIN Printed(<<>>) = {}
  BY DEF Printed
<1>3. Len(Printed(<<>>)) = 0
  BY <1>1, <1>2
<1> QED BY <1>1, <1>3

\* What is seen of a run that is one code longer.
LEMMA PrintedMore ==
  ASSUME NEW run \in Seq(Int), NEW c \in Int
  PROVE  Seen(Printed(Append(run, c))) = OneMore(Seen(Printed(run)), PrintCall(c))
<1>1. PICK n, more, s, t :
        n = Len(run) /\ more = Append(run, c) /\ s = Printed(run) /\ t = Printed(more)
  OBVIOUS
<1>2. /\ n \in Nat /\ more \in Seq(Int) /\ Len(more) = n + 1 /\ more[n + 1] = c
      /\ \A i \in 1 .. n : more[i] = run[i]
  BY <1>1
<1>3. s \in Seq(Calls) /\ t \in Seq(Calls)
  BY <1>1, <1>2, PrintedTyped
<1>4. DOMAIN run = 1 .. n /\ DOMAIN more = 1 .. n + 1
  BY <1>1, <1>2
<1>5. /\ DOMAIN s = 1 .. n /\ \A i \in 1 .. n : s[i] = PrintCall(run[i])
      /\ DOMAIN t = 1 .. n + 1 /\ \A i \in 1 .. n + 1 : t[i] = PrintCall(more[i])
  BY <1>1, <1>4 DEF Printed, PrintCall
<1>6. Len(s) = n /\ Len(t) = n + 1
  BY <1>2, <1>3, <1>5
<1>7. PICK e : e = PrintCall(c)
  OBVIOUS
<1>8. e \in Calls
  BY <1>7, EmptySeq DEF PrintCall, Event, Calls, Kinds
<1>9. PICK u : u = Append(s, e)
  OBVIOUS
<1>10. u \in Seq(Calls) /\ Len(u) = n + 1 /\ u[n + 1] = e /\ \A i \in 1 .. n : u[i] = s[i]
  BY <1>2, <1>3, <1>6, <1>8, <1>9
<1>11. \A i \in 1 .. n + 1 : i \in 1 .. n \/ i = n + 1
  BY <1>2
<1>12. \A i \in 1 .. n + 1 : t[i] = u[i]
  BY <1>2, <1>5, <1>7, <1>10, <1>11
<1>13. n + 1 \in Nat
  BY <1>2
<1>14. t = u
  BY <1>3, <1>6, <1>10, <1>12, <1>13, SeqEqual
<1>15. Seen(u) = OneMore(Seen(s), e)
  BY <1>3, <1>8, <1>9, SeenMore
<1> QED BY <1>1, <1>7, <1>14, <1>15
-----------------------------------------------------------------------------
\* What two sequences have in common at their fronts.
Agree(s, t, n) == n <= Len(s) /\ n <= Len(t) /\ \A i \in 1 .. n : s[i] = t[i]
Common(s, t, n) == Agree(s, t, n) /\ (n < Len(s) => ~Agree(s, t, n + 1))

\* A front of a sequence is a front of another.
LEMMA FrontAgrees ==
  ASSUME NEW S, NEW s \in Seq(S), NEW t \in Seq(S), NEW n \in Nat, n <= Len(s)
  PROVE  IsPrefix(SubSeq(s, 1, n), t) <=> Agree(s, t, n)
<1>1. PICK u : u = SubSeq(s, 1, n)
  OBVIOUS
<1>2. u \in Seq(S) /\ Len(u) = n /\ \A j \in 1 .. n : u[j] = s[j]
  <2>1. IsPart(u, s, S, 0, n)
    BY <1>1, FrontPart
  <2>2. \A j \in 1 .. n : 0 + j = j
    OBVIOUS
  <2> QED BY <2>1, <2>2 DEF IsPart
<1>3. IsPrefix(u, t) <=> n <= Len(t) /\ SubSeq(u, 1, Len(u)) = SubSeq(t, 1, Len(u))
  BY <1>2 DEF IsPrefix
<1>4. SubSeq(u, 1, Len(u)) = u
  BY <1>2, SubSeqFull
<1>5. ASSUME n <= Len(t) PROVE u = SubSeq(t, 1, n) <=> \A j \in 1 .. n : s[j] = t[j]
  <2>1. PICK v : v = SubSeq(t, 1, n)
    OBVIOUS
  <2>2. IsPart(v, t, S, 0, n)
    BY <1>5, <2>1, FrontPart
  <2>3. v \in Seq(S) /\ Len(v) = n /\ \A j \in 1 .. n : v[j] = t[j]
    <3>1. \A j \in 1 .. n : 0 + j = j
      OBVIOUS
    <3> QED BY <2>2, <3>1 DEF IsPart
  <2>4. u = v <=> \A j \in 1 .. n : u[j] = v[j]
    BY <1>2, <2>3, SeqEqual
  <2> QED BY <1>2, <2>1, <2>3, <2>4
<1> QED BY <1>1, <1>2, <1>3, <1>4, <1>5 DEF Agree

\* A sequence is its front and what is behind.
LEMMA FrontAndBack ==
  ASSUME NEW S, NEW s \in Seq(S), NEW n \in 0 .. Len(s)
  PROVE  SubSeq(s, 1, n) \o SubSeq(s, n + 1, Len(s)) = s
<1>1. PICK l : l = Len(s)
  OBVIOUS
<1>2. l \in Nat /\ 1 \in 1 .. l + 1 /\ n \in 1 - 1 .. l /\ l \in n .. l
  BY <1>1
<1>3. SubSeq(s, 1, n) \o SubSeq(s, n + 1, l) = SubSeq(s, 1, l)
  BY <1>1, <1>2, ConcatAdjacentSubSeq
<1> QED BY <1>1, <1>3, SubSeqFull

\* There is a longest common front, and only one.
LEMMA CommonFront ==
  ASSUME NEW S, NEW s \in Seq(S), NEW t \in Seq(S)
  PROVE  /\ \E n \in 0 .. Len(s) : Common(s, t, n)
         /\ \A m, n \in 0 .. Len(s) : Common(s, t, m) /\ Common(s, t, n) => m = n
<1>1. PICK l, r : l = Len(s) /\ r = Len(t)
  OBVIOUS
<1>2. l \in Nat /\ r \in Nat
  BY <1>1
<1>3. Agree(s, t, 0)
  BY <1>1, <1>2 DEF Agree
<1>4. \E n \in 0 .. l : Common(s, t, n)
  <2> SUFFICES ASSUME \A n \in 0 .. l : ~Common(s, t, n) PROVE FALSE
    OBVIOUS
  <2>1. PICK T : T = {n \in 0 .. l : ~Agree(s, t, n)}
    OBVIOUS
  <2>2. CASE T = {}
    <3>1. l \in 0 .. l /\ Agree(s, t, l) /\ ~(l < l)
      BY <1>2, <2>1, <2>2
    <3> QED BY <1>1, <3>1 DEF Common
  <2>3. CASE T # {}
    <3>1. T \subseteq Nat
      BY <1>2, <2>1
    <3>2. PICK n \in T : \A m \in T : n <= m
      BY <2>3, <3>1, Lowest
    <3>3. n \in 0 .. l /\ ~Agree(s, t, n)
      BY <2>1
    <3>4. n # 0
      BY <1>3, <3>3
    <3>5. PICK k : k = n - 1
      OBVIOUS
    <3>6. k \in 0 .. l /\ k + 1 = n /\ ~(n <= k)
      BY <1>2, <3>3, <3>4, <3>5
    <3>7. Agree(s, t, k)
      BY <2>1, <3>2, <3>6
    <3> QED BY <3>3, <3>6, <3>7 DEF Common
  <2> QED BY <2>2, <2>3
<1>5. ASSUME NEW m \in 0 .. l, NEW n \in 0 .. l, Common(s, t, m), Common(s, t, n), m < n
      PROVE  FALSE
  <2>1. m < l /\ m + 1 <= n /\ m + 1 <= l /\ m + 1 <= r /\ \A i \in 1 .. m + 1 : i \in 1 .. n
    BY <1>1, <1>2, <1>5 DEF Common, Agree
  <2>2. Agree(s, t, m + 1)
    BY <1>1, <1>5, <2>1 DEF Common, Agree
  <2> QED BY <1>1, <1>5, <2>1, <2>2 DEF Common
<1>6. ASSUME NEW m \in 0 .. l, NEW n \in 0 .. l, Common(s, t, m), Common(s, t, n)
      PROVE  m = n
  <2>1. m < n \/ n < m \/ m = n
    BY <1>2
  <2> QED BY <1>5, <1>6, <2>1
<1> QED BY <1>1, <1>4, <1>6

\* It is the same from the other side.
LEMMA CommonBoth ==
  ASSUME NEW S, NEW s \in Seq(S), NEW t \in Seq(S), NEW n \in 0 .. Len(s), Common(s, t, n)
  PROVE  n \in 0 .. Len(t) /\ Common(t, s, n)
<1>1. PICK l, r : l = Len(s) /\ r = Len(t)
  OBVIOUS
<1>2. l \in Nat /\ r \in Nat /\ n \in Nat
  BY <1>1
<1>3. n <= l /\ n <= r /\ Agree(t, s, n)
  BY <1>1 DEF Common, Agree
<1>4. Agree(t, s, n + 1) => Agree(s, t, n + 1)
  BY DEF Agree
<1>5. Agree(t, s, n + 1) => n < l
  BY <1>1, <1>2 DEF Agree
<1> QED BY <1>1, <1>2, <1>3, <1>4, <1>5 DEF Common

\* A sequence of integers, and calls, that a parser keeps.
ParserTyped(p) ==
  p \in [state : Every, osc : Seq(Int), params : Seq(Int) \ {<<>>}, collect : Seq(Int),
         print : Seq(Int), dcs : Seq(Int), data : Seq(Int), out : Seq(Calls)]

\* Visible calls are calls.
LEMMA ShownCalls == ASSUME NEW s \in Seq(Visible) PROVE s \in Seq(Calls)
<1>1. PICK n : n = Len(s)
  OBVIOUS
<1>2. n \in Nat /\ DOMAIN s = 1 .. n /\ \A i \in 1 .. n : s[i] \in Calls
  BY <1>1 DEF Visible
<1>3. s \in [1 .. n -> Calls]
  BY <1>2
<1> QED BY <1>2, <1>3, IsASeq

\* What Rest keeps of a parser.
LEMMA RestIs ==
  ASSUME NEW p, NEW q, NEW s, NEW t, s = Seen(p.out), t = Seen(q.out),
         s \in Seq(Visible), t \in Seq(Visible), NEW n \in 0 .. Len(s), Common(s, t, n)
  PROVE  Rest(p, q) = [p EXCEPT !.out = SubSeq(s, n + 1, Len(s))]
<1>1. PICK l : l = Len(s)
  OBVIOUS
<1>2. l \in Nat
  BY <1>1
<1>3. ASSUME NEW m \in 0 .. l
      PROVE  /\ IsPrefix(SubSeq(s, 1, m), t) <=> Agree(s, t, m)
             /\ m < l => (IsPrefix(SubSeq(s, 1, m + 1), t) <=> Agree(s, t, m + 1))
  <2>1. m \in Nat /\ m <= l /\ m + 1 \in Nat /\ (m < l => m + 1 <= l)
    BY <1>2
  <2> QED BY <1>1, <1>2, <2>1, FrontAgrees
<1>4. \A m \in 0 .. l :
        /\ IsPrefix(SubSeq(s, 1, m), t)
        /\ m < l => ~IsPrefix(SubSeq(s, 1, m + 1), t)
        <=> Common(s, t, m)
  BY <1>1, <1>3 DEF Common
<1>5. \A m \in 0 .. l : Common(s, t, m) => m = n
  BY <1>1, <1>2, CommonFront
<1>6. n = CHOOSE m \in 0 .. l :
        /\ IsPrefix(SubSeq(s, 1, m), t)
        /\ m < l => ~IsPrefix(SubSeq(s, 1, m + 1), t)
  <2>1. \A m \in 0 .. l :
          /\ IsPrefix(SubSeq(s, 1, m), t)
          /\ m < l => ~IsPrefix(SubSeq(s, 1, m + 1), t)
          <=> m = n
    BY <1>1, <1>4, <1>5
  <2> QED BY <1>1, <2>1
<1> QED BY <1>1, <1>6 DEF Rest

\* Calls are put behind others in any order.
LEMMA CallsJoin ==
  ASSUME NEW S, NEW s \in Seq(S), NEW t \in Seq(S), NEW u \in Seq(S)
  PROVE  (s \o t) \o u = s \o (t \o u) /\ s \o t \in Seq(S)
<1>1. (s \o t) \o u = s \o (t \o u)
  BY ConcatAssociative
<1>2. s \o t \in Seq(S)
  BY ConcatProperties
<1> QED BY <1>1, <1>2

\* What is seen of a parser's calls once it hands over its run, and its DCS data.
Handed(p) == Seen(p.out) \o Seen(Printed(p.print))
Data(p) == p.data \o p.dcs

\* Only what was handed over is dropped.
Dropped(p, u) == \E a \in Seq(Calls) : u = [p EXCEPT !.out = a]

\* The same of shown calls.
LEMMA ShownJoin ==
  ASSUME NEW s \in Seq(Visible), NEW t \in Seq(Visible), NEW u \in Seq(Visible)
  PROVE  (s \o t) \o u = s \o (t \o u)
BY ConcatAssociative

\* Rest takes the same from both sides.
LEMMA RestHanded ==
  ASSUME NEW p, NEW q, ParserTyped(p), ParserTyped(q), Handed(p) = Handed(q),
         NEW u, NEW v, u = Rest(p, q), v = Rest(q, p)
  PROVE  /\ ParserTyped(u) /\ ParserTyped(v) /\ Handed(u) = Handed(v)
         /\ Dropped(p, u) /\ Dropped(q, v)
<1>1. PICK s, t : s = Seen(p.out) /\ t = Seen(q.out)
  OBVIOUS
<1>2. s \in Seq(Visible) /\ t \in Seq(Visible)
  BY <1>1, SeenTyped DEF ParserTyped
<1>3. PICK n \in 0 .. Len(s) : Common(s, t, n)
  BY <1>2, CommonFront
<1>4. n \in 0 .. Len(t) /\ Common(t, s, n)
  BY <1>2, <1>3, CommonBoth
<1>5. PICK l, r : l = Len(s) /\ r = Len(t)
  OBVIOUS
<1>6. l \in Nat /\ r \in Nat /\ n \in Nat /\ n <= l /\ n <= r
  BY <1>2, <1>3, <1>4, <1>5
<1>7. PICK a, e : a = SubSeq(s, n + 1, l) /\ e = SubSeq(t, n + 1, r)
  OBVIOUS
<1>8. u = [p EXCEPT !.out = a] /\ v = [q EXCEPT !.out = e]
  <2>1. Rest(p, q) = [p EXCEPT !.out = SubSeq(s, n + 1, Len(s))]
    BY <1>1, <1>2, <1>3, RestIs
  <2>2. Rest(q, p) = [q EXCEPT !.out = SubSeq(t, n + 1, Len(t))]
    BY <1>1, <1>2, <1>4, RestIs
  <2> QED BY <1>5, <1>7, <2>1, <2>2
<1>9. IsPart(a, s, Visible, n, l - n) /\ IsPart(e, t, Visible, n, r - n)
  BY <1>2, <1>5, <1>6, <1>7, BackPart
<1>10. /\ a \in Seq(Visible) /\ e \in Seq(Visible) /\ a \in Seq(Calls) /\ e \in Seq(Calls)
       /\ Seen(a) = a /\ Seen(e) = e
  <2>1. a \in Seq(Visible) /\ e \in Seq(Visible)
    BY <1>9 DEF IsPart
  <2> QED BY <2>1, ShownCalls, SeenShown
<1>11. ParserTyped(u) /\ ParserTyped(v)
  BY <1>8, <1>10 DEF ParserTyped
<1>12. PICK x, y : x = Seen(Printed(p.print)) /\ y = Seen(Printed(q.print))
  OBVIOUS
<1>13. x \in Seq(Visible) /\ y \in Seq(Visible)
  <2>1. Printed(p.print) \in Seq(Calls) /\ Printed(q.print) \in Seq(Calls)
    BY PrintedTyped DEF ParserTyped
  <2> QED BY <1>12, <2>1, SeenTyped
<1>14. PICK f, g : f = SubSeq(s, 1, n) /\ g = SubSeq(t, 1, n)
  OBVIOUS
<1>15. IsPart(f, s, Visible, 0, n) /\ IsPart(g, t, Visible, 0, n)
  BY <1>2, <1>5, <1>6, <1>14, FrontPart
<1>16. /\ f \in Seq(Visible) /\ Len(f) = n /\ \A j \in 1 .. n : f[j] = s[j]
       /\ g \in Seq(Visible) /\ Len(g) = n /\ \A j \in 1 .. n : g[j] = t[j]
  <2>1. \A j \in 1 .. n : 0 + j = j
    OBVIOUS
  <2> QED BY <1>15, <2>1 DEF IsPart
<1>17. g = f
  <2>1. \A j \in 1 .. n : f[j] = g[j]
    BY <1>3, <1>16 DEF Common, Agree
  <2> QED BY <1>16, <2>1, SeqEqual
<1>18. s = f \o a
  BY <1>2, <1>3, <1>5, <1>7, <1>14, FrontAndBack
<1>19. t = f \o e
  BY <1>2, <1>4, <1>5, <1>7, <1>14, <1>17, FrontAndBack
<1>20. (f \o a) \o x = (f \o e) \o y
  BY <1>1, <1>12, <1>18, <1>19 DEF Handed
<1>21. f \o (a \o x) = f \o (e \o y)
  <2>1. /\ f \in Seq(Visible) /\ a \in Seq(Visible) /\ e \in Seq(Visible)
        /\ x \in Seq(Visible) /\ y \in Seq(Visible)
    BY <1>10, <1>13, <1>16
  <2>2. (f \o a) \o x = f \o (a \o x)
    BY <2>1, ShownJoin
  <2>3. (f \o e) \o y = f \o (e \o y)
    BY <2>1, ShownJoin
  <2> QED BY <1>20, <2>2, <2>3
<1>22. a \o x \in Seq(Visible) /\ e \o y \in Seq(Visible)
  BY <1>10, <1>13, ConcatProperties
<1>23. a \o x = e \o y
  BY <1>16, <1>21, <1>22, ConcatSimplifications
<1>24. Handed(u) = Handed(v)
  <2>1. u.out = a /\ v.out = e /\ u.print = p.print /\ v.print = q.print
    BY <1>8 DEF ParserTyped
  <2> QED BY <1>10, <1>12, <1>23, <2>1 DEF Handed
<1>25. Dropped(p, u) /\ Dropped(q, v)
  BY <1>8, <1>10 DEF Dropped
<1> QED BY <1>11, <1>24, <1>25
-----------------------------------------------------------------------------
\* The parts of parse.
Action(p, c) == Transitions[p.state][c][1]
IsText(p, c) == Action(p, c) = "error" /\ c >= 160
Goes(p, c) ==
  IF IsText(p, c) THEN (IF p.state \in {0, 6, 8, 11, 13} THEN p.state ELSE 0)
  ELSE IF Action(p, c) \in {"osc_end", "dcs_unhook"} /\ c = 27 THEN 1
  ELSE Transitions[p.state][c][2]
Flushes == {"execute", "ignore", "clear", "osc_start"}
Finishes == {"clear", "osc_end", "dcs_unhook"}
Prints(p, c) == Action(p, c) = "print" \/ (IsText(p, c) /\ Goes(p, c) = 0 /\ p.state = 0)
CallOf(action, c, params, collect, osc, data) ==
  CASE action = "execute"      -> <<Event("execute", c, <<>>, <<>>)>>
    [] action = "csi_dispatch" -> <<Event("csi", c, params, collect)>>
    [] action = "esc_dispatch" -> <<Event("esc", c, <<>>, collect)>>
    [] action = "dcs_hook"     -> <<Event("hook", c, params, collect)>>
    [] action = "dcs_unhook"   -> <<Event("unhook", 0, <<>>, data)>>
    [] action = "osc_end" /\ osc # <<>> /\ c \notin {24, 26}
                               -> <<Event("osc", 0, <<>>, osc)>>
    [] OTHER                   -> <<>>
Call(p, c) == CallOf(Action(p, c), c, p.params, p.collect, p.osc, Data(p))

\* What the parser is afterwards.
IsParsed(r, p, c) ==
  /\ r.state = Goes(p, c)
  /\ r.osc = IF Action(p, c) \in Finishes \cup {"osc_start"} THEN <<>>
             ELSE IF Goes(p, c) = 8 /\ (IsText(p, c) \/ Action(p, c) = "osc_put")
             THEN Append(p.osc, c) ELSE p.osc
  /\ r.params = IF Action(p, c) \in Finishes THEN <<0>>
                ELSE IF Action(p, c) = "param" THEN Param(p.params, c) ELSE p.params
  /\ r.collect = IF Action(p, c) \in Finishes THEN <<>>
                 ELSE IF Action(p, c) = "collect" THEN Append(p.collect, c) ELSE p.collect
  /\ r.print = IF Action(p, c) \in Flushes THEN <<>>
               ELSE IF Prints(p, c) \/ p.print # <<>> THEN Append(p.print, c) ELSE <<>>
  /\ r.dcs = IF Goes(p, c) # 13 \/ Action(p, c) \in {"ignore", "dcs_hook"} THEN <<>>
             ELSE Append(p.dcs, c)
  /\ r.data = IF Goes(p, c) # 13 \/ Action(p, c) = "dcs_hook" THEN <<>>
              ELSE IF Action(p, c) = "ignore" THEN Data(p) ELSE p.data
  /\ r.out = (p.out \o (IF Action(p, c) \in Flushes THEN Printed(p.print) ELSE <<>>)) \o Call(p, c)

\* See above.
LEMMA ParseIs ==
  ASSUME NEW p, NEW c
  PROVE  /\ IsParsed(parse(p, c), p, c)
         /\ parse(p, c) =
              [state |-> parse(p, c).state, osc |-> parse(p, c).osc, params |-> parse(p, c).params,
               collect |-> parse(p, c).collect, print |-> parse(p, c).print,
               dcs |-> parse(p, c).dcs, data |-> parse(p, c).data, out |-> parse(p, c).out]
<1>1. PICK r : r = parse(p, c)
  OBVIOUS
<1>2. r.state = Goes(p, c)
  BY <1>1 DEF parse, Goes, IsText, Action
<1>3. r.osc = IF Action(p, c) \in Finishes \cup {"osc_start"} THEN <<>>
              ELSE IF Goes(p, c) = 8 /\ (IsText(p, c) \/ Action(p, c) = "osc_put")
              THEN Append(p.osc, c) ELSE p.osc
  BY <1>1 DEF parse, Goes, IsText, Action, Finishes
<1>4. r.params = IF Action(p, c) \in Finishes THEN <<0>>
                 ELSE IF Action(p, c) = "param" THEN Param(p.params, c) ELSE p.params
  BY <1>1 DEF parse, Action, Finishes
<1>5. r.collect = IF Action(p, c) \in Finishes THEN <<>>
                  ELSE IF Action(p, c) = "collect" THEN Append(p.collect, c) ELSE p.collect
  BY <1>1 DEF parse, Action, Finishes
<1>6. r.print = IF Action(p, c) \in Flushes THEN <<>>
                ELSE IF Prints(p, c) \/ p.print # <<>> THEN Append(p.print, c) ELSE <<>>
  BY <1>1 DEF parse, Goes, IsText, Action, Flushes, Prints
<1>7. r.dcs = IF Goes(p, c) # 13 \/ Action(p, c) \in {"ignore", "dcs_hook"} THEN <<>>
              ELSE Append(p.dcs, c)
  BY <1>1 DEF parse, Goes, IsText, Action
<1>8. r.data = IF Goes(p, c) # 13 \/ Action(p, c) = "dcs_hook" THEN <<>>
               ELSE IF Action(p, c) = "ignore" THEN Data(p) ELSE p.data
  BY <1>1 DEF parse, Goes, IsText, Action, Data
<1>9. r.out = (p.out \o (IF Action(p, c) \in Flushes THEN Printed(p.print) ELSE <<>>)) \o Call(p, c)
  BY <1>1 DEF parse, Action, Flushes, Call, CallOf, Data
<1>10. IsParsed(r, p, c)
  BY <1>2, <1>3, <1>4, <1>5, <1>6, <1>7, <1>8, <1>9 DEF IsParsed
<1>11. r = [state |-> r.state, osc |-> r.osc, params |-> r.params, collect |-> r.collect,
            print |-> r.print, dcs |-> r.dcs, data |-> r.data, out |-> r.out]
  BY <1>1 DEF parse
<1> QED BY <1>1, <1>10, <1>11

\* A parser is in the middle of text, or of DCS data, in their states only.
Tidy(p) ==
  /\ p.state # 0 => p.print = <<>>
  /\ p.state # 13 => p.dcs = <<>> /\ p.data = <<>>

\* The parts of a parser.
LEMMA ParserParts ==
  ASSUME NEW p, ParserTyped(p)
  PROVE  /\ p.state \in Every /\ p.osc \in Seq(Int) /\ p.params \in Seq(Int) /\ p.params # <<>>
         /\ p.collect \in Seq(Int) /\ p.print \in Seq(Int) /\ p.dcs \in Seq(Int)
         /\ p.data \in Seq(Int) /\ p.out \in Seq(Calls)
         /\ Data(p) \in Seq(Int) /\ Printed(p.print) \in Seq(Calls)
         /\ Seen(p.out) \in Seq(Visible) /\ Seen(Printed(p.print)) \in Seq(Visible)
<1>1. /\ p.state \in Every /\ p.osc \in Seq(Int) /\ p.params \in Seq(Int) /\ p.params # <<>>
      /\ p.collect \in Seq(Int) /\ p.print \in Seq(Int) /\ p.dcs \in Seq(Int)
      /\ p.data \in Seq(Int) /\ p.out \in Seq(Calls)
  BY DEF ParserTyped
<1>2. Data(p) \in Seq(Int)
  BY <1>1, ConcatProperties DEF Data
<1>3. Printed(p.print) \in Seq(Calls)
  BY <1>1, PrintedTyped
<1>4. Seen(p.out) \in Seq(Visible) /\ Seen(Printed(p.print)) \in Seq(Visible)
  BY <1>1, <1>3, SeenTyped
<1> QED BY <1>1, <1>2, <1>3, <1>4

\* A call by itself.
LEMMA OneCall ==
  ASSUME NEW kind \in Kinds, kind # "print", NEW code \in Int,
         NEW params \in Seq(Int), NEW text \in Seq(Int)
  PROVE  <<Event(kind, code, params, text)>> \in Seq(Visible)
<1>1. PICK e : e = Event(kind, code, params, text)
  OBVIOUS
<1>2. e \in Calls /\ e.kind # "print"
  BY <1>1 DEF Event, Calls
<1>3. e \in Visible
  BY <1>2 DEF Visible, Joins
<1> QED BY <1>1, <1>3

\* One call, or none.
LEMMA CallTyped ==
  ASSUME NEW p, ParserTyped(p), NEW c \in Bytes PROVE Call(p, c) \in Seq(Visible)
<1>1. c \in Int /\ 0 \in Int
  BY BytesAssumption
<1>2. PICK d : d = Data(p)
  OBVIOUS
<1>3. /\ p.osc \in Seq(Int) /\ p.params \in Seq(Int) /\ p.collect \in Seq(Int) /\ d \in Seq(Int)
      /\ <<>> \in Seq(Int)
  BY <1>2, ParserParts, EmptySeq
<1>4. /\ "execute" \in Kinds /\ "csi" \in Kinds /\ "esc" \in Kinds
      /\ "hook" \in Kinds /\ "unhook" \in Kinds /\ "osc" \in Kinds
  BY DEF Kinds
<1>5. /\ <<Event("execute", c, <<>>, <<>>)>> \in Seq(Visible)
      /\ <<Event("csi", c, p.params, p.collect)>> \in Seq(Visible)
      /\ <<Event("esc", c, <<>>, p.collect)>> \in Seq(Visible)
      /\ <<Event("hook", c, p.params, p.collect)>> \in Seq(Visible)
      /\ <<Event("unhook", 0, <<>>, d)>> \in Seq(Visible)
      /\ <<Event("osc", 0, <<>>, p.osc)>> \in Seq(Visible)
  <2>1. <<Event("execute", c, <<>>, <<>>)>> \in Seq(Visible)
    BY <1>1, <1>3, <1>4, OneCall
  <2>2. <<Event("csi", c, p.params, p.collect)>> \in Seq(Visible)
    BY <1>1, <1>3, <1>4, OneCall
  <2>3. <<Event("esc", c, <<>>, p.collect)>> \in Seq(Visible)
    BY <1>1, <1>3, <1>4, OneCall
  <2>4. <<Event("hook", c, p.params, p.collect)>> \in Seq(Visible)
    BY <1>1, <1>3, <1>4, OneCall
  <2>5. <<Event("unhook", 0, <<>>, d)>> \in Seq(Visible)
    BY <1>1, <1>3, <1>4, OneCall
  <2>6. <<Event("osc", 0, <<>>, p.osc)>> \in Seq(Visible)
    BY <1>1, <1>3, <1>4, OneCall
  <2> QED BY <2>1, <2>2, <2>3, <2>4, <2>5, <2>6
<1>6. <<>> \in Seq(Visible)
  BY EmptySeq
<1> QED BY <1>2, <1>5, <1>6 DEF Call, CallOf

\* What parse does in each state: see TransitionFits.
LEMMA GoesFits ==
  ASSUME NEW p, ParserTyped(p), NEW c \in Bytes
  PROVE  /\ Goes(p, c) \in Every
         /\ p.state = 0 /\ Action(p, c) \notin Flushes =>
              /\ Action(p, c) \in {"print", "error"} /\ Goes(p, c) = 0
              /\ ~Prints(p, c) => c \in 28 .. 31
         /\ p.state # 0 => ~Prints(p, c)
<1>1. PICK s, action, next :
        s = p.state /\ action = Transitions[s][c][1] /\ next = Transitions[s][c][2]
  OBVIOUS
<1>2. s \in Every
  BY <1>1, ParserParts
<1>3. /\ next \in Every
      /\ s = 0 => action \in InGround
      /\ s = 0 /\ action \in {"error", "print"} => next = 0
      /\ s = 0 /\ action = "error" /\ c < 160 => c \in 28 .. 31
      /\ s # 0 => action # "print"
  BY <1>1, <1>2, TransitionFits
<1>4. action = Action(p, c)
  BY <1>1 DEF Action
<1>5. Goes(p, c) \in Every
  BY <1>1, <1>2, <1>3 DEF Goes, Every
<1>6. ASSUME s = 0, action \notin Flushes
      PROVE  /\ action \in {"print", "error"} /\ Goes(p, c) = 0
             /\ ~Prints(p, c) => c \in 28 .. 31
  <2>1. action \in {"print", "error"}
    BY <1>3, <1>6 DEF InGround, Flushes
  <2>2. Goes(p, c) = 0
    BY <1>1, <1>3, <1>4, <1>6, <2>1 DEF Goes
  <2>3. ~Prints(p, c) => action = "error" /\ ~(c >= 160)
    BY <1>1, <1>4, <1>6, <2>1, <2>2 DEF Prints, IsText
  <2>4. c \in Nat
    BY BytesAssumption
  <2> QED BY <1>3, <1>6, <2>1, <2>2, <2>3, <2>4
<1>7. s # 0 => ~Prints(p, c)
  BY <1>1, <1>3, <1>4 DEF Prints
<1> QED BY <1>1, <1>4, <1>5, <1>6, <1>7

\* A parser stays one, and tidy.
LEMMA ParseTyped ==
  ASSUME NEW p, ParserTyped(p), Tidy(p), NEW c \in Bytes
  PROVE  ParserTyped(parse(p, c)) /\ Tidy(parse(p, c))
<1>1. PICK r : r = parse(p, c)
  OBVIOUS
<1>2. IsParsed(r, p, c)
  BY <1>1, ParseIs
<1>3. c \in Int
  BY BytesAssumption
<1>4. <<>> \in Seq(Int) /\ <<>> \in Seq(Calls)
  BY EmptySeq
<1>5. r.state \in Every
  BY <1>2, GoesFits DEF IsParsed
<1>6. r.osc \in Seq(Int)
  <2>1. Append(p.osc, c) \in Seq(Int)
    BY <1>3, ParserParts, AppendProperties
  <2>2. p.osc \in Seq(Int)
    BY ParserParts
  <2> QED BY <1>2, <1>4, <2>1, <2>2 DEF IsParsed
<1>7. r.params \in Seq(Int) /\ r.params # <<>>
  <2>1. PICK s : s = p.params
    OBVIOUS
  <2>2. s \in Seq(Int) /\ s # <<>>
    BY <2>1, ParserParts
  <2>3. Param(s, c) \in Seq(Int) /\ Param(s, c) # <<>>
    <3>1. Append(s, 0) \in Seq(Int) /\ Append(s, 0) # <<>>
      BY <2>2, AppendProperties
    <3>2. PICK n : n = Len(s)
      OBVIOUS
    <3>3. n \in 1 .. Len(s) /\ s[n] \in Int
      BY <2>2, <3>2
    <3>4. s[n] * 10 + c - 48 \in Int
      BY <1>3, <3>3
    <3>5. PICK t : t = [s EXCEPT ![n] = s[n] * 10 + c - 48]
      OBVIOUS
    <3>6. t \in Seq(Int) /\ Len(t) = Len(s)
      BY <2>2, <3>3, <3>4, <3>5, ExceptSeq
    <3>7. t # <<>>
      BY <3>3, <3>6
    <3>8. c # 59 => Param(s, c) = t
      BY <3>2, <3>5 DEF Param
    <3> QED BY <3>1, <3>6, <3>7, <3>8 DEF Param
  <2>4. <<0>> \in Seq(Int) /\ <<0>> # <<>>
    OBVIOUS
  <2> QED BY <1>2, <2>1, <2>2, <2>3, <2>4 DEF IsParsed
<1>8. r.collect \in Seq(Int)
  <2>1. Append(p.collect, c) \in Seq(Int)
    BY <1>3, ParserParts, AppendProperties
  <2>2. p.collect \in Seq(Int)
    BY ParserParts
  <2> QED BY <1>2, <1>4, <2>1, <2>2 DEF IsParsed
<1>9. r.print \in Seq(Int)
  <2>1. Append(p.print, c) \in Seq(Int)
    BY <1>3, ParserParts, AppendProperties
  <2> QED BY <1>2, <1>4, <2>1 DEF IsParsed
<1>10. r.dcs \in Seq(Int)
  <2>1. Append(p.dcs, c) \in Seq(Int)
    BY <1>3, ParserParts, AppendProperties
  <2> QED BY <1>2, <1>4, <2>1 DEF IsParsed
<1>11. r.data \in Seq(Int)
  <2>1. Data(p) \in Seq(Int) /\ p.data \in Seq(Int)
    BY ParserParts
  <2> QED BY <1>2, <1>4, <2>1 DEF IsParsed
<1>12. r.out \in Seq(Calls)
  <2>1. PICK a, d, e :
          /\ a = p.out /\ e = Call(p, c)
          /\ d = IF Action(p, c) \in Flushes THEN Printed(p.print) ELSE <<>>
    OBVIOUS
  <2>2. a \in Seq(Calls) /\ d \in Seq(Calls) /\ e \in Seq(Calls)
    <3>1. Call(p, c) \in Seq(Calls)
      BY CallTyped, ShownCalls
    <3> QED BY <1>4, <2>1, <3>1, ParserParts
  <2>3. (a \o d) \o e \in Seq(Calls)
    BY <2>2, CallsJoin
  <2> QED BY <1>2, <2>1, <2>3 DEF IsParsed
<1>13. ParserTyped(r)
  <2>1. r = [state |-> r.state, osc |-> r.osc, params |-> r.params, collect |-> r.collect,
             print |-> r.print, dcs |-> r.dcs, data |-> r.data, out |-> r.out]
    BY <1>1, ParseIs
  <2> QED BY <1>5, <1>6, <1>7, <1>8, <1>9, <1>10, <1>11, <1>12, <2>1 DEF ParserTyped
<1>14. r.state # 13 => r.dcs = <<>> /\ r.data = <<>>
  BY <1>2 DEF IsParsed
<1>15. r.state # 0 => r.print = <<>>
  <2>1. CASE p.state = 0
    BY <1>2, <2>1, GoesFits DEF IsParsed
  <2>2. CASE p.state # 0
    <3>1. ~Prints(p, c) /\ p.print = <<>>
      BY <2>2, GoesFits DEF Tidy
    <3> QED BY <1>2, <3>1 DEF IsParsed
  <2> QED BY <2>1, <2>2
<1> QED BY <1>1, <1>13, <1>14, <1>15 DEF Tidy

\* What a code adds to what is seen once the run is handed over.
Given(p, c) ==
  IF p.state = 0 /\ Action(p, c) \notin Flushes
  THEN IF c \in 28 .. 31 THEN <<>> ELSE <<PrintCall(c)>>
  ELSE Call(p, c)

\* It is the same whether the run was cut or not.
LEMMA ParseHanded ==
  ASSUME NEW p, ParserTyped(p), Tidy(p), NEW c \in Bytes
  PROVE  Handed(parse(p, c)) = Handed(p) \o Given(p, c)
<1>1. PICK r, o, d, s, x, e :
        /\ r = parse(p, c) /\ o = p.out /\ d = Printed(p.print) /\ e = Call(p, c)
        /\ s = Seen(o) /\ x = Seen(d)
  OBVIOUS
<1>2. IsParsed(r, p, c)
  BY <1>1, ParseIs
<1>3. /\ o \in Seq(Calls) /\ d \in Seq(Calls) /\ <<>> \in Seq(Calls) /\ e \in Seq(Calls)
      /\ s \in Seq(Visible) /\ x \in Seq(Visible) /\ <<>> \in Seq(Visible) /\ e \in Seq(Visible)
      /\ Seen(e) = e
  <2>1. e \in Seq(Visible)
    BY <1>1, CallTyped
  <2> QED BY <1>1, <2>1, ParserParts, ShownCalls, SeenShown, EmptySeq
<1>4. o \o d \in Seq(Calls) /\ o \o <<>> = o /\ s \o x \in Seq(Visible) /\ s \o <<>> = s
  BY <1>3, ConcatProperties, ConcatEmptySeq
<1>5. Handed(p) = s \o x
  BY <1>1 DEF Handed
<1>6. Seen((o \o d) \o e) = (s \o x) \o e /\ Seen(o \o e) = s \o e
  <2>1. Seen((o \o d) \o e) = Seen(o \o d) \o Seen(e)
    BY <1>3, <1>4, SeenJoins
  <2>2. Seen(o \o d) = s \o x
    BY <1>1, <1>3, SeenJoins
  <2>3. Seen(o \o e) = s \o Seen(e)
    BY <1>1, <1>3, SeenJoins
  <2> QED BY <1>3, <2>1, <2>2, <2>3
<1>7. ASSUME r.print = <<>>, NEW y \in Seq(Visible), Seen(r.out) = y PROVE Handed(r) = y
  <2>1. Handed(r) = y \o <<>>
    BY <1>7, PrintedNone, SeenNone DEF Handed
  <2> QED BY <1>7, <2>1, ConcatEmptySeq
<1>8. CASE Action(p, c) \in Flushes
  <2>1. r.out = (o \o d) \o e /\ r.print = <<>>
    BY <1>1, <1>2, <1>8 DEF IsParsed
  <2>2. (s \o x) \o e \in Seq(Visible)
    BY <1>3, <1>4, ConcatProperties
  <2>3. Handed(r) = (s \o x) \o e
    BY <1>6, <1>7, <2>1, <2>2
  <2>4. Given(p, c) = e
    BY <1>1, <1>8 DEF Given
  <2> QED BY <1>1, <1>5, <2>3, <2>4
<1>9. CASE p.state # 0
  <2>1. p.print = <<>> /\ ~Prints(p, c)
    BY <1>9, GoesFits DEF Tidy
  <2>2. d = <<>> /\ x = <<>>
    BY <1>1, <2>1, PrintedNone, SeenNone
  <2>3. r.print = <<>> /\ r.out = (o \o <<>>) \o e
    BY <1>1, <1>2, <2>1, <2>2 DEF IsParsed
  <2>4. s \o e \in Seq(Visible)
    BY <1>3, ConcatProperties
  <2>5. Handed(r) = s \o e
    BY <1>4, <1>6, <1>7, <2>3, <2>4
  <2>6. Given(p, c) = e
    BY <1>1, <1>9 DEF Given
  <2> QED BY <1>1, <1>4, <1>5, <2>2, <2>5, <2>6
<1>10. CASE p.state = 0 /\ Action(p, c) \notin Flushes
  <2>1. Action(p, c) \in {"print", "error"} /\ (~Prints(p, c) => c \in 28 .. 31)
    BY <1>10, GoesFits
  <2>2. e = <<>>
    BY <1>1, <2>1 DEF Call, CallOf
  <2>3. r.out = o
    <3>1. r.out = (o \o <<>>) \o <<>>
      BY <1>1, <1>2, <1>10, <2>2 DEF IsParsed
    <3> QED BY <1>4, <3>1
  <2>4. r.print = Append(p.print, c) \/ (r.print = p.print /\ c \in 28 .. 31)
    BY <1>2, <1>10, <2>1 DEF IsParsed
  <2>5. p.print \in Seq(Int) /\ c \in Int
    BY ParserParts, BytesAssumption
  <2>6. PICK f : f = PrintCall(c)
    OBVIOUS
  <2>7. f \in Calls /\ (Joins(f) <=> c \in 28 .. 31)
    <3>1. "print" \in Kinds /\ <<>> \in Seq(Int)
      BY EmptySeq DEF Kinds
    <3> QED BY <2>5, <2>6, <3>1 DEF PrintCall, Event, Calls, Joins
  <2>8. Seen(Printed(r.print)) = OneMore(x, f)
    <3>1. Seen(Printed(Append(p.print, c))) = OneMore(x, f)
      BY <1>1, <2>5, <2>6, PrintedMore
    <3>2. c \in 28 .. 31 => OneMore(x, f) = x
      BY <2>7 DEF OneMore
    <3> QED BY <1>1, <2>4, <3>1, <3>2
  <2>9. Handed(r) = s \o OneMore(x, f)
    BY <1>1, <2>3, <2>8 DEF Handed
  <2>10. CASE c \in 28 .. 31
    <3>1. Given(p, c) = <<>> /\ OneMore(x, f) = x
      BY <1>10, <2>7, <2>10 DEF Given, OneMore
    <3>2. (s \o x) \o <<>> = s \o x
      BY <1>4, ConcatEmptySeq
    <3> QED BY <1>1, <1>5, <2>9, <3>1, <3>2
  <2>11. CASE c \notin 28 .. 31
    <3>1. Given(p, c) = <<f>> /\ OneMore(x, f) = Append(x, f)
      BY <1>10, <2>6, <2>7, <2>11 DEF Given, OneMore
    <3>2. f \in Visible /\ <<f>> \in Seq(Visible)
      BY <2>7, <2>11 DEF Visible
    <3>3. Append(x, f) = x \o <<f>>
      BY <1>3, <3>2, AppendIsConcat
    <3>4. (s \o x) \o <<f>> = s \o (x \o <<f>>)
      BY <1>3, <3>2, CallsJoin
    <3> QED BY <1>1, <1>5, <2>9, <3>1, <3>3, <3>4
  <2> QED BY <2>10, <2>11
<1> QED BY <1>8, <1>9, <1>10

\* DCS data, wherever it was cut.
LEMMA ParseData ==
  ASSUME NEW p, ParserTyped(p), NEW c \in Bytes
  PROVE  Data(parse(p, c)) =
           IF Goes(p, c) # 13 \/ Action(p, c) = "dcs_hook" THEN <<>>
           ELSE IF Action(p, c) = "ignore" THEN Data(p) ELSE Append(Data(p), c)
<1>1. PICK r, d, e : r = parse(p, c) /\ d = p.data /\ e = p.dcs
  OBVIOUS
<1>2. IsParsed(r, p, c)
  BY <1>1, ParseIs
<1>3. d \in Seq(Int) /\ e \in Seq(Int) /\ c \in Int /\ <<>> \in Seq(Int) /\ d \o e \in Seq(Int)
      /\ <<c>> \in Seq(Int)
  BY <1>1, ParserParts, BytesAssumption, EmptySeq DEF Data
<1>4. CASE Goes(p, c) # 13 \/ Action(p, c) = "dcs_hook"
  <2>1. r.data = <<>> /\ r.dcs = <<>>
    BY <1>2, <1>4 DEF IsParsed
  <2>2. Data(r) = <<>> \o <<>>
    BY <2>1 DEF Data
  <2>3. Data(r) = <<>>
    BY <1>3, <2>2, ConcatEmptySeq
  <2> QED BY <1>1, <1>4, <2>3
<1>5. CASE Goes(p, c) = 13 /\ Action(p, c) = "ignore"
  <2>1. r.data = d \o e /\ r.dcs = <<>>
    BY <1>1, <1>2, <1>5 DEF IsParsed, Data
  <2>2. Data(r) = (d \o e) \o <<>>
    BY <2>1 DEF Data
  <2>3. Data(r) = d \o e
    BY <1>3, <2>2, ConcatEmptySeq
  <2> QED BY <1>1, <1>5, <2>3 DEF Data
<1>6. CASE Goes(p, c) = 13 /\ Action(p, c) # "dcs_hook" /\ Action(p, c) # "ignore"
  <2>1. r.data = d /\ r.dcs = Append(e, c)
    BY <1>1, <1>2, <1>6 DEF IsParsed
  <2>2. Append(e, c) = e \o <<c>> /\ Append(d \o e, c) = (d \o e) \o <<c>>
    BY <1>3, AppendIsConcat
  <2>3. (d \o e) \o <<c>> = d \o (e \o <<c>>)
    BY <1>3, ConcatAssociative
  <2>4. Data(r) = Append(d \o e, c)
    BY <2>1, <2>2, <2>3 DEF Data
  <2> QED BY <1>1, <1>6, <2>4 DEF Data
<1> QED BY <1>4, <1>5, <1>6

\* Two parsers that a handler cannot tell apart.
Alike(p, q) ==
  /\ p.state = q.state /\ p.osc = q.osc /\ p.params = q.params /\ p.collect = q.collect
  /\ Data(p) = Data(q) /\ Handed(p) = Handed(q)

\* They stay alike with the next code.
LEMMA ParseAlike ==
  ASSUME NEW p, NEW q, ParserTyped(p), ParserTyped(q), Tidy(p), Tidy(q), Alike(p, q),
         NEW c \in Bytes
  PROVE  Alike(parse(p, c), parse(q, c))
<1>1. PICK u, v : u = parse(p, c) /\ v = parse(q, c)
  OBVIOUS
<1>2. IsParsed(u, p, c) /\ IsParsed(v, q, c)
  BY <1>1, ParseIs
<1>3. Action(p, c) = Action(q, c) /\ p.state = q.state
  BY DEF Alike, Action
<1>4. Goes(p, c) = Goes(q, c) /\ (IsText(p, c) <=> IsText(q, c))
  BY <1>3 DEF Goes, IsText
<1>5. Call(p, c) = Call(q, c)
  BY <1>3 DEF Call, Alike
<1>6. Given(p, c) = Given(q, c)
  BY <1>3, <1>5 DEF Given
<1>7. u.state = v.state /\ u.osc = v.osc
  BY <1>2, <1>3, <1>4 DEF IsParsed, Alike
<1>8. u.params = v.params /\ u.collect = v.collect
  BY <1>2, <1>3 DEF IsParsed, Alike
<1>9. Data(u) = Data(v)
  BY <1>1, <1>3, <1>4, ParseData DEF Alike
<1>10. Handed(u) = Handed(v)
  <2>1. Handed(p) = Handed(q)
    BY DEF Alike
  <2> QED BY <1>1, <1>6, <2>1, ParseHanded
<1> QED BY <1>1, <1>7, <1>8, <1>9, <1>10 DEF Alike

\* The end of a call hands over the run and keeps the data.
LEMMA EndAlike ==
  ASSUME NEW p, ParserTyped(p), Tidy(p)
  PROVE  /\ ParserTyped(End(p)) /\ Tidy(End(p)) /\ Alike(p, End(p))
         /\ Seen(End(p).out) = Handed(p)
<1>1. PICK r, o, x : r = End(p) /\ o = p.out /\ x = Printed(p.print)
  OBVIOUS
<1>2. /\ o \in Seq(Calls) /\ x \in Seq(Calls) /\ <<>> \in Seq(Calls) /\ <<>> \in Seq(Int)
      /\ o \o x \in Seq(Calls)
  BY <1>1, ParserParts, CallsJoin, EmptySeq
<1>3. r = [p EXCEPT !.out = IF p.state = 0 THEN o \o x ELSE o,
                    !.data = IF p.state = 13 THEN Data(p) ELSE p.data,
                    !.print = <<>>, !.dcs = <<>>]
  BY <1>1 DEF End, Data, ParserTyped
<1>4. r.out = o \o x
  <2>1. p.state # 0 => x = <<>>
    BY <1>1, PrintedNone DEF Tidy
  <2>2. o \o <<>> = o
    BY <1>2, ConcatEmptySeq
  <2>3. r.out = IF p.state = 0 THEN o \o x ELSE o
    BY <1>3 DEF ParserTyped
  <2> QED BY <2>1, <2>2, <2>3
<1>5. r.data = Data(p)
  <2>1. p.state # 13 => p.data = <<>> /\ p.dcs = <<>>
    BY DEF Tidy
  <2>2. <<>> \o <<>> = <<>>
    BY <1>2, ConcatEmptySeq
  <2>3. r.data = IF p.state = 13 THEN Data(p) ELSE p.data
    BY <1>3 DEF ParserTyped
  <2> QED BY <2>1, <2>2, <2>3 DEF Data
<1>6. /\ r.print = <<>> /\ r.dcs = <<>> /\ r.state = p.state /\ r.osc = p.osc
      /\ r.params = p.params /\ r.collect = p.collect
  BY <1>3 DEF ParserTyped
<1>7. ParserTyped(r)
  <2>1. Data(p) \in Seq(Int) /\ p.data \in Seq(Int)
    BY ParserParts
  <2> QED BY <1>2, <1>3, <2>1 DEF ParserTyped
<1>8. Tidy(r)
  BY <1>5, <1>6 DEF Tidy, Data
<1>9. Seen(r.out) = Handed(p) /\ Handed(r) = Handed(p)
  <2>1. Seen(o \o x) = Seen(o) \o Seen(x)
    BY <1>2, SeenJoins
  <2>2. Seen(r.out) = Handed(p)
    BY <1>1, <1>4, <2>1 DEF Handed
  <2>3. Handed(p) \in Seq(Visible)
    <3>1. Seen(r.out) \in Seq(Visible)
      BY <1>2, <1>4, SeenTyped
    <3> QED BY <2>2, <3>1
  <2>4. Handed(r) = Handed(p) \o <<>>
    BY <1>6, <2>2, PrintedNone, SeenNone DEF Handed
  <2> QED BY <2>2, <2>3, <2>4, ConcatEmptySeq
<1>10. Data(r) = Data(p)
  <2>1. Data(p) \in Seq(Int) /\ Data(r) = Data(p) \o <<>>
    BY <1>5, <1>6, ParserParts DEF Data
  <2> QED BY <2>1, ConcatEmptySeq
<1> QED BY <1>1, <1>6, <1>7, <1>8, <1>9, <1>10 DEF Alike

\* The inductive invariant: two parsers that a handler cannot tell apart.
ParserInv ==
  /\ ParserTyped(whole) /\ ParserTyped(cut)
  /\ Tidy(whole) /\ Tidy(cut)
  /\ Alike(whole, cut)

\* Dropping what both have handed over keeps it.
LEMMA RestAlike ==
  ASSUME NEW p, NEW q, ParserTyped(p), ParserTyped(q), Tidy(p), Tidy(q), Alike(p, q),
         NEW u, NEW v, u = Rest(p, q), v = Rest(q, p)
  PROVE  ParserTyped(u) /\ ParserTyped(v) /\ Tidy(u) /\ Tidy(v) /\ Alike(u, v)
<1>1. Handed(p) = Handed(q)
  BY DEF Alike
<1>2. /\ ParserTyped(u) /\ ParserTyped(v) /\ Handed(u) = Handed(v)
      /\ Dropped(p, u) /\ Dropped(q, v)
  BY <1>1, RestHanded
<1>3. /\ u.state = p.state /\ u.osc = p.osc /\ u.params = p.params /\ u.collect = p.collect
      /\ u.print = p.print /\ u.dcs = p.dcs /\ u.data = p.data
  BY <1>2 DEF ParserTyped, Dropped
<1>4. /\ v.state = q.state /\ v.osc = q.osc /\ v.params = q.params /\ v.collect = q.collect
      /\ v.print = q.print /\ v.dcs = q.dcs /\ v.data = q.data
  BY <1>2 DEF ParserTyped, Dropped
<1>5. Tidy(u) /\ Tidy(v)
  BY <1>3, <1>4 DEF Tidy
<1> QED BY <1>2, <1>3, <1>4, <1>5 DEF Alike, Data

\* The invariant holds at the start.
LEMMA ParserInitial == ParserInit => ParserInv
<1> SUFFICES ASSUME ParserInit PROVE ParserInv
  OBVIOUS
<1>1. <<>> \in Seq(Int) /\ <<>> \in Seq(Calls) /\ <<0>> \in Seq(Int) /\ <<0>> # <<>> /\ 0 \in Every
  BY EmptySeq DEF Every
<1>2. ParserTyped(Initial)
  BY <1>1 DEF Initial, ParserTyped
<1>3. Tidy(Initial)
  BY DEF Initial, Tidy
<1>4. Alike(Initial, Initial)
  BY DEF Alike
<1> QED BY <1>2, <1>3, <1>4 DEF ParserInit, ParserInv

\* Every step keeps it.
LEMMA ParserStepInv == ParserInv /\ [ParserNext]_parserVars => ParserInv'
<1> SUFFICES ASSUME ParserInv, [ParserNext]_parserVars PROVE ParserInv'
  OBVIOUS
<1>1. /\ ParserTyped(whole) /\ ParserTyped(cut) /\ Tidy(whole) /\ Tidy(cut)
      /\ Alike(whole, cut)
  BY DEF ParserInv
<1>2. ASSUME NEW p, NEW q, ParserTyped(p), ParserTyped(q), Tidy(p), Tidy(q), Alike(p, q),
             whole' = Rest(p, q), cut' = Rest(q, p)
      PROVE  ParserInv'
  <2>1. PICK u, v : u = Rest(p, q) /\ v = Rest(q, p)
    OBVIOUS
  <2>2. ParserTyped(u) /\ ParserTyped(v) /\ Tidy(u) /\ Tidy(v) /\ Alike(u, v)
    BY <1>2, <2>1, RestAlike
  <2>3. whole' = u /\ cut' = v
    BY <1>2, <2>1
  <2> QED BY <2>2, <2>3 DEF ParserInv
<1>3. CASE Read
  <2>1. PICK c \in Bytes :
          LET p == parse(whole, c)
              q == parse(cut, c)
          IN  whole' = Rest(p, q) /\ cut' = Rest(q, p)
    BY <1>3 DEF Read
  <2>2. PICK p, q : p = parse(whole, c) /\ q = parse(cut, c)
    OBVIOUS
  <2>3. ParserTyped(p) /\ Tidy(p) /\ ParserTyped(q) /\ Tidy(q)
    BY <1>1, <2>2, ParseTyped
  <2>4. Alike(p, q)
    BY <1>1, <2>2, ParseAlike
  <2>5. whole' = Rest(p, q) /\ cut' = Rest(q, p)
    BY <2>1, <2>2
  <2> QED BY <1>2, <2>3, <2>4, <2>5
<1>4. CASE CutHere
  <2>1. PICK q : q = End(cut)
    OBVIOUS
  <2>2. ParserTyped(q) /\ Tidy(q) /\ Alike(cut, q)
    BY <1>1, <2>1, EndAlike
  <2>3. Alike(whole, q)
    BY <1>1, <2>2 DEF Alike
  <2>4. whole' = Rest(whole, q) /\ cut' = Rest(q, whole)
    BY <1>4, <2>1 DEF CutHere
  <2> QED BY <1>1, <1>2, <2>2, <2>3, <2>4
<1>5. CASE UNCHANGED parserVars
  BY <1>1, <1>5 DEF ParserInv, parserVars
<1> QED BY <1>3, <1>4, <1>5 DEF ParserNext

\* It is an invariant.
LEMMA ParserInvariant == ParserSpec => []ParserInv
BY ParserInitial, ParserStepInv, PTL DEF ParserSpec

(***************************************************************************)
(* Wherever the server and the socket cut the output, the handlers get the *)
(* same text, sequences and data in the same order, apart from the codes   *)
(* 28 to 31, which reach print only behind text of the same call.          *)
(***************************************************************************)
THEOREM CutsMakeNoDifference == ParserSpec => []CutsUnseen
<1>1. ParserInv => CutsUnseen
  <2> SUFFICES ASSUME ParserInv PROVE CutsUnseen
    OBVIOUS
  <2>1. /\ ParserTyped(whole) /\ ParserTyped(cut) /\ Tidy(whole) /\ Tidy(cut)
        /\ Alike(whole, cut)
    BY DEF ParserInv
  <2>2. Seen(End(whole).out) = Handed(whole) /\ Seen(End(cut).out) = Handed(cut)
    BY <2>1, EndAlike
  <2> QED BY <2>1, <2>2 DEF CutsUnseen, Alike
<1> QED BY <1>1, ParserInvariant, PTL

(***************************************************************************)
(* What is proved of a part holds in the run that explores the four parts, *)
(* which share no variable: each of them does its own steps there.         *)
(***************************************************************************)
THEOREM PartsOfTheRun == MCSpec => Spec /\ ParserSpec /\ Write!Spec /\ Selection!Spec
<1>1. MCInit => Init /\ ParserInit /\ Write!Init /\ Selection!Init
  BY DEF MCInit
<1>2. [MCNext]_all => [Next]_vars
  BY DEF MCNext, ScreenStep, ParserStep, WriteStep, SelectionStep, all
<1>3. [MCNext]_all => [ParserNext]_parserVars
  BY DEF MCNext, ScreenStep, ParserStep, WriteStep, SelectionStep, all
<1>4. [MCNext]_all => [Write!Next]_(Write!vars)
  BY DEF MCNext, ScreenStep, ParserStep, WriteStep, SelectionStep, all, writeVars, Write!vars
<1>5. [MCNext]_all => [Selection!Next]_(Selection!vars)
  BY DEF MCNext, ScreenStep, ParserStep, WriteStep, SelectionStep, all, selectionVars,
         Selection!vars, Selection!lines, Selection!selection
<1> QED BY <1>1, <1>2, <1>3, <1>4, <1>5, PTL
           DEF MCSpec, Spec, ParserSpec, Write!Spec, Selection!Spec

=============================================================================
