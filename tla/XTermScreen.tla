----------------------------- MODULE XTermScreen -----------------------------
(***************************************************************************)
(* The screen of the web terminal: the two buffers of xterm.js, what the   *)
(* control sequences of the output do to them (InputHandler), the user's   *)
(* scrolling, and the resizing that fit.js asks for.                       *)
(*                                                                         *)
(* A line is what was printed last in it, "blank" when nothing was or all  *)
(* of it has been erased.  A handler is an operator from a buffer to a     *)
(* buffer; positions count from 0, as in the source.                       *)
(***************************************************************************)
EXTENDS Integers, SequencesExt

CONSTANTS
  Sizes,       \* the sizes of the window: <<cols, rows>>
  scrollback,  \* the option
  Chars,       \* what is printed
  Regions,     \* the parameters of DECSTBM on each screen, <<first row, last row>> from 1;
               \* bound of the model: the first one is in the window
  Counts,      \* the parameters of the sequences; one that is missing or 0 counts as 1
  MaxX         \* bound of the model: no column past it is entered

ASSUME SizesAssumption == Sizes \subseteq (Nat \ {0}) \X (Nat \ {0})
ASSUME scrollbackAssumption == scrollback \in Nat
ASSUME RegionsAssumption ==
  \A n \in {"normal", "alt"} : Regions[n] \subseteq (Nat \ {0}) \X (Nat \ {0})
ASSUME CountsAssumption == Counts \subseteq Nat \ {0}
ASSUME MaxXAssumption == MaxX \in Nat

VARIABLES
  buf,           \* the buffers, "normal" and "alt"
  active,        \* which of them is shown
  cols, rows,
  userScrolling, \* _userScrolling: the user has scrolled up
  stuck,         \* what ended the handling of output, or the model of it: see Outcomes
  ghostScroll    \* ghost: "normal" was scrolled up when "alt" was entered

vars == <<buf, active, cols, rows, userScrolling, stuck, ghostScroll>>

Names == {"normal", "alt"}
b == buf[active]

\* A TypeError, a loop that never ends, lines moved outside the list, a loop
\* over a count that never gets to 0, and a row of the window without a line.
Outcomes == {"no", "threw", "hung", "list", "counting", "short"}

Least(m, n) == IF m < n THEN m ELSE n
Most(m, n) == IF m > n THEN m ELSE n
Blanks(n) == [i \in 1 .. n |-> "blank"]

\* Buffer.clear, which leaves the saved cursor, at y, alone.
Cleared(r, hasScrollback, y) ==
  [x |-> 0, y |-> 0, ybase |-> 0, ydisp |-> 0, scrollTop |-> 0, scrollBottom |-> r - 1,
   lines |-> <<>>, maxLength |-> IF hasScrollback THEN r + scrollback ELSE r, savedY |-> y]

fillViewportRows(v, r) == IF v.lines = <<>> THEN [v EXCEPT !.lines = Blanks(r)] ELSE v

\* The constructor of BufferSet: the alternate buffer has no lines yet, and a
\* cursor never saved restores to the corner.
BufferSet(r) ==
  [normal |-> fillViewportRows(Cleared(r, TRUE, 0), r), alt |-> Cleared(r, FALSE, 0)]

TypeOK ==
  /\ DOMAIN buf = Names
  /\ active \in Names
  /\ <<cols, rows>> \in Sizes
  /\ userScrolling \in BOOLEAN /\ ghostScroll \in BOOLEAN
  /\ stuck \in Outcomes
  /\ \A n \in Names :
       /\ buf[n].lines \in Seq(Chars \cup {"blank"})
       /\ Len(buf[n].lines) <= buf[n].maxLength

Init ==
  /\ \E s \in Sizes : cols = s[1] /\ rows = s[2] /\ buf = BufferSet(s[2])
  /\ active = "normal"
  /\ userScrolling = FALSE
  /\ stuck = "no"
  /\ ghostScroll = FALSE

-----------------------------------------------------------------------------
\* CircularList.  A list is a sequence of at most maxLength lines; its indexes
\* count from 0.
Inserted(s, i, line, max) ==
  LET all == SubSeq(s, 1, i) \o <<line>> \o SubSeq(s, i + 1, Len(s))
  IN  SubSeq(all, Most(Len(all) - max, 0) + 1, Len(all))
Deleted(s, i) == SubSeq(s, 1, i) \o SubSeq(s, i + 2, Len(s))
\* splice(i, 1) and then splice(j, 0, blank)
Moved(v, i, j) ==
  [v EXCEPT !.lines = Inserted(Deleted(v.lines, i), j, "blank", v.maxLength)]

\* _getCyclicIndex: an index outside the list is a slot of the array behind
\* it.  When the list is full the slot is another line's, or, before the first
\* one of an array that has not moved round yet, none.  Otherwise it is empty,
\* or holds a line no longer shown.
NoLine == -1
Hidden == -2
Rows(v) ==
  LET n == Len(v.lines)
      row == v.ybase + v.y
  IN  CASE row \in 0 .. n - 1          -> {row}
        [] row >= n /\ n = v.maxLength -> {row % n}
        [] row < 0 /\ n = v.maxLength  -> {NoLine, row % n}
        [] OTHER                       -> {NoLine, Hidden}

\* A new line at the bottom of the scroll region: below the lines of the window
\* that stay, when the region begins with the first of them.
newLine(v) ==
  LET top == v.ybase + v.scrollTop
      bottom == v.ybase + v.scrollBottom
  IN  IF v.scrollTop = 0
      THEN [v EXCEPT !.lines = Inserted(@, bottom + 1, "blank", v.maxLength),
                     !.ybase = IF Len(v.lines) = v.maxLength THEN @ ELSE @ + 1]
      ELSE [v EXCEPT !.lines = [i \in DOMAIN @ |->
                                  IF i - 1 = bottom THEN "blank"
                                  ELSE IF i - 1 \in top .. bottom - 1 THEN @[i + 1]
                                  ELSE @[i]]]

\* Mutant: the view of a scrolled-up user stays where the lines move under it.
scrollUnmoved(v) == [newLine(v) EXCEPT !.ydisp = IF userScrolling THEN @ ELSE newLine(v).ybase]

\* Terminal.scroll
scroll(v) ==
  [newLine(v) EXCEPT !.ydisp = IF ~userScrolling THEN newLine(v).ybase
                               ELSE IF v.scrollTop = 0 /\ Len(v.lines) = v.maxLength
                               THEN Most(@ - 1, 0) ELSE @]

\* The next row, or a scroll of the region.
Down(v) == IF v.y + 1 > v.scrollBottom THEN scroll(v) ELSE [v EXCEPT !.y = @ + 1]

\* The cursor is in no column once a parameter was used that is not there.  No
\* comparison with it is true, and it stays so when it moves.
NaN == -1
Right(x, n) == IF x = NaN THEN NaN ELSE x + n
Left(x, n) == IF x = NaN THEN NaN ELSE Most(x - n, 0)

\* A column past the last one goes back by one.
FromEdge(v) == IF v.x >= cols THEN [v EXCEPT !.x = @ - 1] ELSE v

-----------------------------------------------------------------------------
\* The handlers that move the cursor.
lineFeed(v) == FromEdge(Down(v))
index(v) == FromEdge(Down(v))
carriageReturn(v) == [v EXCEPT !.x = 0]
nextLine(v) == index(carriageReturn(v))
backspace(v) == [v EXCEPT !.x = Left(@, 1)]
cursorUp(v, n) == [v EXCEPT !.y = Most(@ - n, 0)]
cursorDown(v, n) == FromEdge([v EXCEPT !.y = Least(@ + n, rows - 1)])
cursorForward(v, n) == [v EXCEPT !.x = Least(Right(@, n), cols - 1)]
cursorBackward(v, n) == [FromEdge(v) EXCEPT !.x = Left(@, n)]
cursorNextLine(v, n) == [v EXCEPT !.x = 0, !.y = Least(@ + n, rows - 1)]
cursorPrecedingLine(v, n) == [cursorUp(v, n) EXCEPT !.x = 0]
\* The one that does not stop at the last column.
cursorCharAbsolute(v, n) == [v EXCEPT !.x = n - 1]
charPosAbsolute(v, n) == [v EXCEPT !.x = Least(n, cols) - 1]
hPositionRelative(v, n) == cursorForward(v, n)
linePosAbsolute(v, n) == [v EXCEPT !.y = Least(n, rows) - 1]
vPositionRelative(v, n) == cursorDown(v, n)
cursorPosition(v, m, n) == [v EXCEPT !.x = Least(n, cols) - 1, !.y = Least(m, rows) - 1]
\* A second parameter that is missing is not replaced here.
hVPosition(v, m, n) ==
  [v EXCEPT !.x = IF n = NaN THEN NaN ELSE Least(n, cols) - 1, !.y = Least(m, rows) - 1]
\* Tab stops are not kept: any stop may be the next or the previous one.
nextStop(v, x) ==
  [v EXCEPT !.x = IF @ = NaN THEN NaN ELSE IF x > @ THEN Least(x, cols - 1) ELSE cols - 1]
prevStop(v, x) ==
  [v EXCEPT !.x = IF @ = NaN THEN NaN ELSE Least(Least(x, Left(@, 1)), cols - 1)]
\* The saved column is not kept either.
saveCursor(v) == [v EXCEPT !.savedY = v.y]
restoreCursor(v, x) == [v EXCEPT !.x = x, !.y = v.savedY]
setScrollRegion(v, top, bottom) ==
  [v EXCEPT !.x = 0, !.y = 0, !.scrollTop = top - 1,
            !.scrollBottom = (IF bottom <= rows THEN bottom ELSE rows) - 1]

\* At the top of the region its lines move down; elsewhere, above the region
\* too, the cursor goes up, and nothing stops it at the first row.
reverseIndex(v) ==
  LET row == v.ybase + v.y
      bottom == v.ybase + v.scrollBottom
  IN  IF v.y # v.scrollTop THEN [v EXCEPT !.y = @ - 1]
      ELSE [v EXCEPT !.lines = [i \in DOMAIN @ |->
                                  IF i - 1 = row THEN "blank"
                                  ELSE IF i - 1 \in row + 1 .. bottom THEN @[i - 1]
                                  ELSE @[i]]]

Moves(v) ==
  {lineFeed(v), index(v), carriageReturn(v), nextLine(v), backspace(v), reverseIndex(v)}
  \cup (UNION {{cursorUp(v, n), cursorDown(v, n), cursorForward(v, n), cursorBackward(v, n),
                cursorNextLine(v, n), cursorPrecedingLine(v, n), cursorCharAbsolute(v, n),
                charPosAbsolute(v, n), hPositionRelative(v, n), linePosAbsolute(v, n),
                vPositionRelative(v, n)} : n \in Counts})
  \cup (UNION {{cursorPosition(v, m, n), hVPosition(v, m, n), hVPosition(v, m, NaN)} :
                    m, n \in Counts})
  \cup (UNION {{nextStop(v, x), prevStop(v, x), restoreCursor(v, x)} : x \in 0 .. MaxX})
  \cup {saveCursor(v)}
  \cup {setScrollRegion(v, g[1], g[2]) : g \in {h \in Regions[active] : h[1] <= rows}}

-----------------------------------------------------------------------------
\* The handlers that change lines without the cursor.
scrollUp(v) == Moved(v, v.ybase + v.scrollTop, v.ybase + v.scrollBottom)
scrollDown(v) == Moved(v, v.ybase + v.scrollBottom, v.ybase + v.scrollTop)

\* Mutant: the view is not told.
EraseUnseen(v) ==
  LET n == Most(Len(v.lines) - rows, 0)
  IN  [v EXCEPT !.lines = SubSeq(@, n + 1, Len(@)), !.ybase = Most(@ - n, 0)]

\* ED 3: the lines above the window go.
eraseScrollback(v) ==
  LET n == Most(Len(v.lines) - rows, 0)
  IN  [v EXCEPT !.lines = SubSeq(@, n + 1, Len(@)),
                !.ybase = Most(@ - n, 0), !.ydisp = Most(@ - n, 0)]

\* ED 2
eraseWindow(v) ==
  [v EXCEPT !.lines = [i \in DOMAIN @ |-> IF i - 1 \in v.ybase .. v.ybase + rows - 1
                                           THEN "blank" ELSE @[i]]]

\* ED 0: the rest of the cursor's row and the rows below.
eraseBelow(v) ==
  [v EXCEPT !.lines = [i \in DOMAIN @ |->
     IF \/ i - 1 \in v.ybase + v.y + 1 .. v.ybase + rows - 1
        \/ i - 1 \in Rows(v) /\ v.x = 0 THEN "blank" ELSE @[i]]]

\* ED 1: the beginning of the row and the rows above; it counts down to row 0,
\* which it never meets from above the window.
eraseAbove(v) ==
  [v EXCEPT !.lines = [i \in DOMAIN @ |->
     IF \/ i - 1 \in v.ybase .. v.ybase + v.y - 1
        \/ i - 1 \in Rows(v) /\ v.x >= cols - 1 THEN "blank" ELSE @[i]]]

insertLines(v) == Moved(v, v.ybase + v.scrollBottom, v.ybase + v.y)
deleteLines(v) == Moved(v, v.ybase + v.y, v.ybase + v.scrollBottom)

Edits(v) ==
  {scrollUp(v), scrollDown(v), eraseWindow(v), eraseBelow(v)}
  \cup (IF v.y >= 0 THEN {eraseAbove(v)} ELSE {})
  \cup (IF v.ybase + v.y \in 0 .. Len(v.lines) - 1 THEN {insertLines(v), deleteLines(v)} ELSE {})

\* Buffer.resize, one row of the window more: a line of the scrollback comes
\* back when there is nothing below the cursor's row (cursor), else a new line.
RowMore(v, r, cursor) ==
  IF Len(v.lines) >= r + v.ybase THEN v
  ELSE IF v.ybase > 0 /\ Len(v.lines) <= cursor + 1
  THEN [v EXCEPT !.ybase = @ - 1, !.ydisp = Most(@ - 1, 0)]
  ELSE [v EXCEPT !.lines = Inserted(@, Len(@), "blank", v.maxLength)]

\* One row less: a line below the cursor's row, else the first goes out of view.
RowLess(v, r) ==
  IF Len(v.lines) <= r + v.ybase THEN v
  ELSE IF Len(v.lines) > v.ybase + v.y + 1 THEN [v EXCEPT !.lines = Front(@)]
  ELSE [v EXCEPT !.ybase = @ + 1, !.ydisp = @ + 1]

\* The loops over the rows that are added, or taken away.
AllRows(v, r, cursor, count) ==
  LET after[i \in 0 .. count] ==
        IF i = 0 THEN v
        ELSE IF rows < r THEN RowMore(after[i - 1], r, cursor) ELSE RowLess(after[i - 1], r)
  IN  after[count]

\* Mutant: the window is not moved to the lines that are left.
TrimmedUnder(v, max) ==
  [v EXCEPT !.lines = SubSeq(@, Most(Len(@) - max, 0) + 1, Len(@)), !.maxLength = max]

\* The list gets its new capacity, and loses the lines it has no room for.
Trimmed(v, max) ==
  LET n == Most(Len(v.lines) - max, 0)
  IN  [v EXCEPT !.lines = SubSeq(@, n + 1, Len(@)), !.maxLength = max,
                !.ybase = Most(@ - n, 0), !.ydisp = Most(@ - n, 0)]

\* A buffer without lines, the alternate one while it is not shown, keeps its
\* capacity when the window shrinks, and its saved cursor where it is.
resize(n, c, r) ==
  LET v == buf[n]
      max == IF n = "normal" THEN r + scrollback ELSE r
      roomy == [v EXCEPT !.maxLength = Most(@, max), !.scrollBottom = r - 1]
      fitted == AllRows(roomy, r, v.ybase + v.y, Most(r - rows, rows - r))
      addToY == IF rows < r THEN v.ybase - fitted.ybase ELSE 0
  IN  IF v.lines = <<>> THEN roomy
      ELSE [Trimmed(fitted, max) EXCEPT
              !.x = Least(@, c - 1), !.y = Least(@, r - 1) + addToY,
              !.savedY = Least(@, r - 1), !.scrollTop = 0]

-----------------------------------------------------------------------------
Screen == <<active, cols, rows, userScrolling, ghostScroll>>
Show(v) == buf' = [buf EXCEPT ![active] = v]
Stuck(how) == stuck' = how

\* The cursor moves, or lines are edited.  Bounds: MaxX, and one row above the
\* window.
Move ==
  /\ stuck = "no"
  /\ \E v \in Moves(b) : v.x <= MaxX /\ v.y >= -1 /\ Show(v)
  /\ UNCHANGED <<Screen, stuck>>

Edit ==
  /\ stuck = "no"
  /\ \E v \in Edits(b) : Show(v)
  /\ UNCHANGED <<Screen, stuck>>

\* A parameter that is too big for `param--` to change it, or a column that is:
\* the loops that count it down to 0 (insertLines, deleteLines, deleteChars,
\* scrollUp, scrollDown, the tabs, repeatPrecedingCharacter, and eraseLeft)
\* never end, wherever the cursor is.
CountDown ==
  /\ stuck = "no"
  /\ Stuck("counting")
  /\ UNCHANGED <<buf, Screen>>

EraseScrollback ==
  /\ stuck = "no"
  /\ Show(eraseScrollback(b))
  /\ UNCHANGED <<Screen, stuck>>

\* Mutant: the loop counts before it tests, and misses row 0 from there too.
EraseAboveFirst == stuck = "no" /\ b.y <= 0 /\ Stuck("hung") /\ UNCHANGED <<buf, Screen>>

\* eraseInDisplay 1 from above the window counts down for ever.
EraseAboveWindow ==
  /\ stuck = "no" /\ b.y < 0
  /\ Stuck("hung")
  /\ UNCHANGED <<buf, Screen>>

\* insertLines and deleteLines move lines to slots behind the ends of the
\* list: the model does not follow them.
MoveLinesOutside ==
  /\ stuck = "no" /\ b.ybase + b.y \notin 0 .. Len(b.lines) - 1
  /\ Stuck("list")
  /\ UNCHANGED <<buf, Screen>>

\* The row of the cursor in v gets a content, and the cursor a column.  Where
\* there is no line, using it raises a TypeError.
SetRow(v, line, x) ==
  /\ x <= MaxX
  /\ \E row \in Rows(v) :
       IF row = NoLine THEN Show(v) /\ Stuck("threw")
       ELSE /\ Show([v EXCEPT !.x = x,
                              !.lines = IF row = Hidden THEN @ ELSE [@ EXCEPT ![row + 1] = line]])
            /\ UNCHANGED stuck
  /\ UNCHANGED Screen

\* What is in the line of the cursor, when it has one.
Present(v) == {"blank"} \cup {v.lines[row + 1] : row \in Rows(v) \ {NoLine, Hidden}}

\* A character, after the wrap of a full row when wraparoundMode is on, which
\* it may be or not.  In no column it is put into no cell.
print ==
  /\ stuck = "no"
  /\ \E wraparoundMode \in BOOLEAN :
       LET v == IF b.x >= cols /\ wraparoundMode THEN [Down(b) EXCEPT !.x = 0] ELSE b
       IN  \E c \in IF v.x = NaN THEN Present(v) ELSE Chars : SetRow(v, c, Right(v.x, 1))

repeatPrecedingCharacter ==
  /\ stuck = "no"
  /\ \E n \in Counts : \E line \in Present(b) : SetRow(b, line, Right(b.x, n))

\* insertChars, eraseChars and deleteChars; those left in a row may be none.
\* Only deleteChars uses the row when the cursor is past the last column.
EditChars ==
  /\ stuck = "no"
  /\ \E line \in Present(b) : SetRow(b, line, b.x)

\* eraseInLine finds no line without harm.
eraseInLine ==
  /\ stuck = "no"
  /\ \E row \in Rows(b) \ {NoLine, Hidden} : Show([b EXCEPT !.lines[row + 1] = "blank"])
  /\ UNCHANGED <<Screen, stuck>>

\* Bound of the model: with the cursor in the first column, where the normal
\* screen leaves it until it is shown again.
activateAltBuffer ==
  /\ stuck = "no" /\ active = "normal" /\ b.x = 0
  /\ buf' = [buf EXCEPT !.alt = fillViewportRows(@, rows)]
  /\ active' = "alt"
  /\ ghostScroll' = (b.ydisp < b.ybase)
  /\ UNCHANGED <<cols, rows, userScrolling, stuck>>

\* The alternate buffer is cleared; its saved cursor is not.
activateNormalBuffer ==
  /\ stuck = "no" /\ active = "alt"
  /\ buf' = [buf EXCEPT !.alt = Cleared(rows, FALSE, @.savedY)]
  /\ active' = "normal"
  /\ UNCHANGED <<cols, rows, userScrolling, stuck, ghostScroll>>

softReset ==
  /\ stuck = "no"
  /\ Show([b EXCEPT !.scrollTop = 0, !.scrollBottom = rows - 1, !.x = 0, !.y = 0])
  /\ UNCHANGED <<active, cols, rows, userScrolling, stuck, ghostScroll>>

reset ==
  /\ stuck = "no"
  /\ buf' = BufferSet(rows)
  /\ active' = "normal"
  /\ userScrolling' = FALSE /\ ghostScroll' = FALSE
  /\ UNCHANGED <<cols, rows, stuck>>

\* fit.js, and DECCOLM.  When the list of the alternate screen is full, a row
\* that is added trims a line and the window gets a row without one: the model
\* ends there, for the handlers that follow index that row like any other.
Resize ==
  /\ stuck = "no"
  /\ \E s \in Sizes :
       LET new == [n \in Names |-> resize(n, s[1], s[2])]
       IN  /\ s # <<cols, rows>>
           /\ cols' = s[1] /\ rows' = s[2] /\ buf' = new
           /\ stuck' = IF Len(new[active].lines) < new[active].ybase + s[2] THEN "short" ELSE "no"
  /\ UNCHANGED <<active, userScrolling, ghostScroll>>

\* The user's wheel and keys.  The event of the scroll bar asks for the row it
\* is at.
scrollLines(d) ==
  LET disp == Most(Least(b.ydisp + d, b.ybase), 0)
      atBottom == d >= 0 /\ b.ydisp + d >= b.ybase
  IN  /\ stuck = "no"
      /\ d < 0 => b.ydisp > 0
      /\ userScrolling' = (IF d < 0 THEN TRUE ELSE IF atBottom THEN FALSE ELSE userScrolling)
      /\ Show([b EXCEPT !.ydisp = disp])
      /\ ghostScroll' = (ghostScroll /\ ~(active = "normal" /\ disp = b.ybase))
      /\ UNCHANGED <<active, cols, rows, stuck>>

Scroll == \E d \in -1 .. 1 : scrollLines(d)

\* Terminal.handler: what is sent to the shell shows the bottom, the user's
\* input and the answer to a device attributes request alike.
handler == b.ybase # b.ydisp /\ scrollLines(b.ybase - b.ydisp)

Next ==
  \/ Move \/ Edit \/ CountDown \/ EraseScrollback \/ EraseAboveWindow \/ MoveLinesOutside
  \/ print \/ repeatPrecedingCharacter \/ EditChars \/ eraseInLine
  \/ activateAltBuffer \/ activateNormalBuffer \/ softReset \/ reset
  \/ Resize \/ Scroll \/ handler

Spec == Init /\ [][Next]_vars

-----------------------------------------------------------------------------
\* Every row of the window has its line, the view is in the buffer, and the
\* cursor of the normal screen is not below the window, whatever sequences of
\* insertions, deletions, scrolls, trims and resizes came before: the renderer
\* and the handlers index lines by the row without a look at the length.  One
\* resize there is that leaves a row of the alternate screen without its line
\* (BreaksOutside says which); the normal screen keeps its lines then too.
RowsExist ==
  /\ TypeOK
  /\ \A n \in {"normal", active} :
       (n = "alt" => stuck # "short") => Len(buf[n].lines) >= buf[n].ybase + rows
  /\ \A n \in Names : buf[n].ydisp \in 0 .. buf[n].ybase
  /\ buf.normal.y < rows

\* The handling of output breaks down in these cases only.  The cursor is out of
\* the window: above it, or below it after the alternate screen restored a
\* cursor it saved in a higher window.  Or the window gets higher on an
\* alternate screen that has a scrollback (from a window that shrank while it
\* was hidden), with the cursor above the last row.  Or a count never gets to 0.
BreaksOutside ==
  [][stuck' # stuck =>
       \/ b.y \notin 0 .. rows - 1
       \/ stuck' = "short" /\ active = "alt" /\ b.ybase > 0 /\ b.y < rows - 1 /\ rows' > rows
       \/ stuck' = "counting"]_vars

\* A user who did not scroll up sees the bottom of the buffer, after every
\* scroll, erase and resize.  (Not after the alternate screen was entered from
\* a scrolled-up one: scrolling is noted for the terminal, not for a buffer.)
Follows ==
  ~userScrolling /\ ~(ghostScroll /\ active = "normal") => b.ydisp = b.ybase

\* Output leaves the first line a scrolled-up user sees where it is on the
\* screen, until that line is trimmed: no step but a resize, ED 3 or another
\* screen changes the lines and what the user reads with them.
ViewStays ==
  [][LET lines == buf'[active].lines
     IN  /\ userScrolling /\ b.ydisp < b.ybase /\ b.y \in 0 .. rows - 1
         /\ UNCHANGED <<userScrolling, active, cols, rows>>
         /\ lines # b.lines /\ Len(lines) >= Len(b.lines)
         => \/ b.ydisp = 0 /\ Len(b.lines) = b.maxLength
            \/ lines[buf'[active].ydisp + 1] = b.lines[b.ydisp + 1]]_vars
=============================================================================
