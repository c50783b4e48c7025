------------------------------- MODULE MCXTerm -------------------------------
(***************************************************************************)
(* Model checking of the terminal emulator: its screen, the parser of its  *)
(* output, the queue of what is written to it, and the selection.  The     *)
(* four parts share no variable, so every behaviour explores one of them   *)
(* and leaves the others where they begin.                                 *)
(***************************************************************************)
EXTENDS XTermScreen, XTermParser

CONSTANTS WRITE_BATCH_SIZE, MaxWrites, LongestList, MaxFirst

ASSUME BatchAssumption == WRITE_BATCH_SIZE \in Nat \ {0}
ASSUME ListAssumption == LongestList \in Nat

VARIABLES
  part,
  writeBuffer, writeInProgress, timer, writes, handled, lost,
  first, length, maxLength, selectionStart, selectionEnd, below, mode, dragging, dragScroll,
  failures, from, to, moved

Write == INSTANCE XTermWrite
Selection == INSTANCE XTermSelection WITH Longest <- LongestList

writeVars == <<writeBuffer, writeInProgress, timer, writes, handled, lost>>
selectionVars ==
  <<first, length, maxLength, selectionStart, selectionEnd, below, mode, dragging, dragScroll,
    failures, from, to, moved>>

all == <<vars, part, parserVars, writeVars, selectionVars>>

\* One column, where every character fills its row, and one or two rows.
MCSizes == {<<1, 1>>, <<1, 2>>}
\* One row of two: the upper one, where lines that leave the region stay in the
\* scrollback, and the lower one, above which the cursor can get out of the
\* window.  softReset sets the whole window again.
MCRegions == [normal |-> {<<1, 1>>}, alt |-> {<<2, 2>>}]

MCInit ==
  /\ part \in {"screen", "parser", "write", "selection"}
  /\ Init /\ ParserInit /\ Write!Init /\ Selection!Init
  \* The screen and the selection begin in one way for the others.
  /\ part # "screen" => rows = 1
  /\ part # "selection" => maxLength = 1

ScreenStep ==
  /\ part = "screen" /\ Next
  /\ UNCHANGED <<part, parserVars, writeVars, selectionVars>>
ParserStep ==
  /\ part = "parser" /\ ParserNext
  /\ UNCHANGED <<part, vars, writeVars, selectionVars>>
WriteStep ==
  /\ part = "write" /\ Write!Next
  /\ UNCHANGED <<part, vars, parserVars, selectionVars>>
SelectionStep ==
  /\ part = "selection" /\ Selection!Next
  /\ UNCHANGED <<part, vars, parserVars, writeVars>>

MCNext == ScreenStep \/ ParserStep \/ WriteStep \/ SelectionStep

MCSpec == MCInit /\ [][MCNext]_all

\* The properties of the other two parts, under their own names (see their modules).

\* Chunks are handled once and in order, wait with a timer, or are lost.
Accounted == Write!Accounted
\* The selection stays on the lines it was made on when lines are trimmed.
OnItsLines == Selection!OnItsLines
\* The mouse listeners fail only where no selection was begun, or its rows are gone.
FailsWithoutRows == Selection!FailsWithoutRows
=============================================================================
