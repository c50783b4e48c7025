---------------------------- MODULE XTermSelection ----------------------------
(***************************************************************************)
(* Selecting text in the web terminal with the mouse while output arrives  *)
(* (SelectionManager and SelectionModel of xterm.js).  A selection is kept *)
(* in rows of the buffer; when the buffer is full every new line trims the *)
(* first one, and onTrim counts the rows again.  Nothing tells a selection *)
(* of the lines a resize takes from the end of the buffer, nor of those a  *)
(* program moves within it.                                                *)
(*                                                                         *)
(* "first" numbers the buffer's first line among all there have been, so   *)
(* that row r is line first + r.  Columns are left out, and the scroll     *)
(* position: the mouse may be over any row that has a line.  It always has *)
(* coordinates: getCoords has none only for characters without a size, and *)
(* CharMeasure takes no size of zero.                                      *)
(***************************************************************************)
EXTENDS Integers

CONSTANTS
  Longest,    \* bound of the model: the longest list of lines
  MaxFirst    \* bound of the model: the number of lines trimmed

VARIABLES
  first, length, maxLength,      \* the lines in the buffer, and how many there may be
  selectionStart, selectionEnd,  \* rows, or None
  below,           \* the rows below the first that selectionStartLength covers, up to 1
  mode,            \* _activeSelectionMode: "char" (column mode too), "word" or "line"
  dragging,        \* the mouse is down and its listeners are added
  dragScroll,      \* _dragScrollAmount: -1, 0 or 1
  failures,        \* the TypeErrors listeners raised, up to 1
  from, to,        \* ghosts: the lines the gesture began and ended on,
  moved            \* and whether lines moved under the selection, other than by a trim

lines == <<first, length, maxLength>>
selection == <<selectionStart, selectionEnd, below, from, to, moved>>
vars == <<lines, selection, mode, dragging, dragScroll, failures>>

None == -1
RowsOf == 0 .. length - 1

Init ==
  /\ first = 0 /\ length = 1 /\ maxLength \in 1 .. Longest
  /\ selectionStart = None /\ selectionEnd = None /\ below = 0
  /\ from = 0 /\ to = 0 /\ moved = FALSE
  /\ mode = "char" /\ dragging = FALSE /\ dragScroll = 0
  /\ failures = 0

-----------------------------------------------------------------------------
\* SelectionModel

Reversed == selectionStart > selectionEnd

FinalStart == IF selectionEnd = None \/ ~Reversed THEN selectionStart ELSE selectionEnd
FinalEnd == IF selectionEnd = None \/ Reversed THEN selectionStart + below ELSE selectionEnd

\* Mutant: only the start is counted again.
TrimmedEndLeft(amount) ==
  [start |-> IF selectionStart = None THEN None
             ELSE IF selectionStart < amount THEN 0 ELSE selectionStart - amount,
   end |-> selectionEnd, below |-> below]

\* onTrim: an end among the lines trimmed clears the selection.
Trimmed(amount) ==
  IF selectionEnd # None /\ selectionEnd < amount
  THEN [start |-> None, end |-> None, below |-> 0]
  ELSE [start |-> IF selectionStart = None THEN None
                  ELSE IF selectionStart < amount THEN 0 ELSE selectionStart - amount,
        end |-> IF selectionEnd = None THEN None ELSE selectionEnd - amount,
        below |-> below]

Trim(amount) ==
  /\ first + amount <= MaxFirst /\ first' = first + amount
  /\ LET counted == Trimmed(amount) IN
       /\ selectionStart' = counted.start /\ selectionEnd' = counted.end
       /\ below' = counted.below
  /\ UNCHANGED <<from, to>>

\* A line more; a full buffer trims one.
Pushed ==
  \/ /\ length < maxLength /\ length' = length + 1
     /\ UNCHANGED <<first, selectionStart, selectionEnd, below, from, to>>
  \/ length = maxLength /\ Trim(1) /\ UNCHANGED length

\* The whole window scrolls.
NewLine ==
  /\ Pushed
  /\ UNCHANGED <<maxLength, moved, mode, dragging, dragScroll, failures>>

\* A scroll region, insertLines or deleteLines: lines pass others, with or
\* without a new one, and a selection there is counted as if they had not.
MoveLines ==
  /\ Pushed \/ UNCHANGED <<first, length, selectionStart, selectionEnd, below, from, to>>
  /\ moved' = TRUE
  /\ UNCHANGED <<maxLength, mode, dragging, dragScroll, failures>>

\* eraseInDisplay, of the scrollback.
EraseScrollback ==
  /\ \E amount \in 1 .. length - 1 : Trim(amount) /\ length' = length - amount
  /\ UNCHANGED <<maxLength, moved, mode, dragging, dragScroll, failures>>

\* Buffer.resize, of a window that grows ...
Grow ==
  /\ \E max \in maxLength + 1 .. Longest :
       /\ maxLength' = max
       /\ length' \in length .. max
  /\ UNCHANGED <<first, selection, mode, dragging, dragScroll, failures>>

\* ... and of one that shrinks: it pops lines below the cursor, which emits
\* nothing, and trims what does not fit any more.
Shrink ==
  /\ \E max \in 1 .. maxLength - 1, kept \in 1 .. length :
       /\ maxLength' = max
       /\ Trim(IF kept > max THEN kept - max ELSE 0)
       /\ length' = (IF kept > max THEN max ELSE kept)
       /\ moved' = (moved \/ selectionStart + below >= kept \/ selectionEnd >= kept)
  /\ UNCHANGED <<mode, dragging, dragScroll, failures>>

-----------------------------------------------------------------------------
\* SelectionManager

Select(start, end) ==
  /\ selectionStart' = start /\ selectionEnd' = end /\ below' = 0
  /\ from' = (IF start = None THEN 0 ELSE first + start)
  /\ to' = (IF end = None THEN from' ELSE first + end)
  /\ moved' = FALSE

\* selectionText reads isWrapped of every row selected but the first, and a row
\* that a resize popped has no line.
RowMissing == selectionStart # None /\ FinalStart < FinalEnd /\ FinalEnd >= length

Fail == failures = 0 /\ failures' = 1

\* refresh of a new selection and _onMouseUp take the text: the first on Linux
\* only, neither in column mode, and the row may be one of another line still.
ReadText == UNCHANGED failures \/ (RowMissing' /\ Fail)

\* Mutant: a new press goes on with the scrolling of the last drag.
PressScrolling == dragging' = TRUE /\ UNCHANGED dragScroll

\* onMouseDown, around one of the clicks.
Press == dragging' = TRUE /\ dragScroll' = 0

_onSingleClick ==
  /\ \E row \in RowsOf : Select(row, None)
  /\ mode' = "char"
  /\ Press /\ UNCHANGED lines /\ ReadText

\* A word, which may go on in the next row; it may find none.  The end stays
\* that a drag of the first click set.
_onDoubleClick ==
  /\ \/ \E row \in RowsOf :
          /\ selectionStart' = row /\ from' = first + row
          /\ below' \in {0, 1} /\ row + below' < length
     \/ UNCHANGED <<selectionStart, from, below>>
  /\ mode' = "word"
  /\ Press /\ UNCHANGED <<lines, selectionEnd, to, moved>> /\ ReadText

\* The row and those it is wrapped with.
_onTripleClick ==
  /\ \E top, bottom \in RowsOf : top <= bottom /\ Select(top, bottom)
  /\ mode' = "line"
  /\ Press /\ UNCHANGED lines /\ ReadText

EndTo(row) == selectionEnd' = row /\ to' = first + row

\* With shift the selection that is there gets another end.
_onIncrementalClick ==
  /\ IF selectionStart = None THEN UNCHANGED selection
     ELSE (\E row \in RowsOf : EndTo(row)) /\ UNCHANGED <<selectionStart, below, from, moved>>
  /\ Press /\ UNCHANGED <<lines, mode>> /\ ReadText

\* In line mode the listener compares with the start, and there may be none.
_onMouseMove ==
  /\ dragging
  /\ \E row \in RowsOf : EndTo(row)
  /\ UNCHANGED <<lines, selectionStart, below, from, moved, mode, dragging>>
  /\ IF mode = "line" /\ selectionStart = None THEN Fail /\ UNCHANGED dragScroll
     ELSE dragScroll' \in {-1, 0, 1} /\ ReadText

\* The timer of a drag out of the window moves the end.
_dragScroll ==
  /\ dragging /\ dragScroll # 0
  /\ IF selectionEnd = None THEN Fail /\ UNCHANGED selection
     ELSE /\ \E row \in RowsOf : EndTo(row)
          /\ UNCHANGED <<selectionStart, below, from, moved, failures>>
  /\ UNCHANGED <<lines, mode, dragging, dragScroll>>

\* The listeners are removed first.
_onMouseUp ==
  /\ dragging /\ dragging' = FALSE
  /\ UNCHANGED <<lines, selection, mode, dragScroll>> /\ ReadText

\* Input, or mouse events for the program in the terminal.
clearSelection ==
  /\ Select(None, None)
  /\ dragging' = FALSE
  /\ UNCHANGED <<lines, mode, dragScroll, failures>>

\* The program in the terminal turns to the other screen, which has its own lines.
_onBufferActivate ==
  /\ Select(None, None)
  /\ dragging' = FALSE
  /\ maxLength' \in 1 .. Longest /\ length' \in 1 .. maxLength'
  /\ UNCHANGED <<first, mode, dragScroll, failures>>

Next ==
  \/ NewLine \/ MoveLines \/ EraseScrollback \/ Grow \/ Shrink
  \/ _onSingleClick \/ _onDoubleClick \/ _onTripleClick \/ _onIncrementalClick
  \/ _onMouseMove \/ _dragScroll \/ _onMouseUp \/ clearSelection \/ _onBufferActivate

Spec == Init /\ [][Next]_vars

-----------------------------------------------------------------------------
\* Where no lines were moved or popped under it: what is selected lies between
\* the lines the user began and ended on (a word's last line included), also
\* after lines above it, or some of it, have been trimmed.  (A word that was
\* clicked and has no end moves to other text when its line goes.)
OnItsLines ==
  ~moved /\ selectionStart # None /\ selectionEnd # None =>
    /\ first + FinalStart >= (IF from < to THEN from ELSE to)
    /\ first + FinalEnd <= (IF from < to THEN to ELSE from + below)

\* A listener fails only when there is no start to select from - trimmed, or
\* cleared before a click with shift - or when a resize took a selected row.  The
\* timer of a drag never outlives the end it moves otherwise.
FailsWithoutRows == [][failures' # failures => selectionStart = None \/ RowMissing']_vars
=============================================================================
