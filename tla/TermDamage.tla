----------------------------- MODULE TermDamage -----------------------------
(***************************************************************************)
(* Writing cells and recording damage (term/mod.rs): the handlers that     *)
(* move the cursor and change cells, each with the damage it reports, and  *)
(* the frame that reads the damage and resets it.  The display shows the   *)
(* screen, not the history.                                                *)
(*                                                                         *)
(* A cell is reduced to what is drawn in it: nothing, a character, the     *)
(* first half of a wide character, the spacer in its second half, or the   *)
(* spacer left in the last column when a wide character did not fit.       *)
(* `pending` is no state of the program: the cells written, or emptied     *)
(* with the other half of a wide character, since the last frame that no   *)
(* recorded damage covers yet.                                             *)
(***************************************************************************)
EXTENDS Integers, Sequences, SequencesExt

CONSTANTS INITIAL_TABSTOPS,
          Loads      \* screens and what an application does with them

ASSUME SizeAssumption ==
  \A l \in Loads : l.lines \in Nat \ {0} /\ l.columns \in Nat \ {0, 1}

VARIABLES screen, saved_cursor, mode, scroll_region, tabs, last_cursor, load

damageVars == <<screen, saved_cursor, mode, scroll_region, tabs, last_cursor, load>>

others == <<saved_cursor, mode, scroll_region, tabs, last_cursor, load>>

Lines == load.lines
Columns == load.columns
Chars == load.chars      \* kinds of characters that are output
Modes == load.modes      \* modes the application sets and unsets
Regions == load.regions  \* scroll regions it sets: pairs of top and bottom line
Uses == load.uses        \* what else it uses: "align", "save", "tabs"

AllLines == 0 .. (Lines - 1)
AllColumns == 0 .. (Columns - 1)
last_column == Columns - 1

Lower(a, b) == IF a < b THEN a ELSE b
Upper(a, b) == IF a > b THEN a ELSE b

BlankRow == [c \in AllColumns |-> "blank"]

undamaged == [left |-> Columns, right |-> 0]

Home == [line |-> 0, column |-> 0, input_needs_wrap |-> FALSE]

DamageInit ==
  /\ screen = [cells |-> [l \in AllLines |-> BlankRow], cursor |-> Home,
               full |-> TRUE, lines |-> [l \in AllLines |-> undamaged],
               pending |-> {}]
  /\ saved_cursor = Home
  /\ mode = {"LINE_WRAP"}
  /\ scroll_region = [start |-> 0, end |-> Lines]
  /\ tabs = {c \in AllColumns : c % INITIAL_TABSTOPS = 0}
  /\ last_cursor = <<0, 0>>

-----------------------------------------------------------------------------
(* Damage.                                                                 *)

damage_line(s, line, left, right) ==
  [s EXCEPT !.lines[line].left = Lower(@, left),
            !.lines[line].right = Upper(@, right)]

damage_cursor(s) ==
  damage_line(s, s.cursor.line, s.cursor.column, s.cursor.column)

mark_fully_damaged(s) == [s EXCEPT !.full = TRUE]

Within(bounds, c) == bounds.left <= c /\ c <= bounds.right

\* The step that leaves the screen s.
Becomes(s) ==
  screen' = [s EXCEPT !.pending =
               IF s.full THEN {}
               ELSE {p \in @ : ~Within(s.lines[p[1]], p[2])}]

\* Bounds of a line in the damage that Term::damage would return now: the old and
\* the new position of the cursor are added to what was recorded.
Reported(l) ==
  LET now  == <<screen.cursor.line, screen.cursor.column>>
      cols == {p[2] : p \in {q \in {last_cursor, now} : q[1] = l}}
      left == {screen.lines[l].left} \cup cols
      right == {screen.lines[l].right} \cup cols
  IN  [left |-> CHOOSE x \in left : \A y \in left : x <= y,
       right |-> CHOOSE x \in right : \A y \in right : x >= y]

\* The display widens the damage of a line by one cell on each side.
overdamage(l) == [left |-> Reported(l).left - 1, right |-> Reported(l).right + 1]

\* Term::damage, the frame, and Term::reset_damage.
Draw ==
  /\ screen' = [screen EXCEPT !.full = FALSE, !.pending = {},
                              !.lines = [l \in AllLines |-> undamaged]]
  /\ last_cursor' = <<screen.cursor.line, screen.cursor.column>>
  /\ UNCHANGED <<saved_cursor, mode, scroll_region, tabs>>

-----------------------------------------------------------------------------
(* Rows.                                                                   *)

\* The row of the cursor replaced; the picture changed in columns `changed`.
WithRow(s, row, changed) ==
  [s EXCEPT !.cells[s.cursor.line] = row,
            !.pending = @ \cup {<<s.cursor.line, c>> : c \in changed \cap AllColumns}]

CursorRow(s) == s.cells[s.cursor.line]

\* Cells from `left` up to, without, `right` are cleared.  A wide character that
\* loses its first half disappears from its second half too.
ClearCells(s, left, right) ==
  LET row   == CursorRow(s)
      split == {c \in 1 .. last_column : c = right /\ row[c - 1] = "wide"}
  IN  WithRow(s, [c \in AllColumns |-> IF left <= c /\ c < right THEN "blank" ELSE row[c]],
              (left .. (right - 1)) \cup split)

SwapCells(row, a, b) == [row EXCEPT ![a] = row[b], ![b] = row[a]]

RowsUp(cells, start, end, n) ==
  [l \in AllLines |->
     IF l < start \/ l >= end THEN cells[l]
     ELSE IF l + n < end THEN cells[l + n] ELSE BlankRow]

RowsDown(cells, start, end, n) ==
  [l \in AllLines |->
     IF l < start \/ l >= end THEN cells[l]
     ELSE IF l - n >= start THEN cells[l - n] ELSE BlankRow]

RegionSize == scroll_region.end - scroll_region.start

InRegion(line) == line >= scroll_region.start /\ line < scroll_region.end

scroll_up_relative(s, origin, count) ==
  mark_fully_damaged([s EXCEPT !.cells =
    RowsUp(@, origin, scroll_region.end, Lower(count, RegionSize))])

scroll_down_relative(s, origin, count) ==
  mark_fully_damaged([s EXCEPT !.cells =
    RowsDown(@, origin, scroll_region.end, Lower(count, RegionSize))])

Screen(s) == Becomes(s) /\ UNCHANGED others

-----------------------------------------------------------------------------
(* Moving the cursor.                                                      *)

At(s, line, column) ==
  [s EXCEPT !.cursor = [line |-> line, column |-> column, input_needs_wrap |-> FALSE]]

\* In origin mode the line is counted from the top of the scroll region.
goto(s, modes, region, line, column) ==
  LET offset == IF "ORIGIN" \in modes THEN region.start ELSE 0
      max_y  == IF "ORIGIN" \in modes THEN region.end - 1 ELSE Lines - 1
      moved  == At(damage_cursor(s), Upper(Lower(line + offset, max_y), 0),
                   Lower(column, last_column))
  IN  damage_cursor(moved)

carriage_return(s) ==
  At(damage_line(s, s.cursor.line, 0, s.cursor.column), s.cursor.line, 0)

linefeed(s) ==
  LET next == s.cursor.line + 1
  IN  IF next = scroll_region.end
      THEN scroll_up_relative(s, scroll_region.start, 1)
      ELSE IF next < Lines
           THEN damage_cursor([damage_cursor(s) EXCEPT !.cursor.line = next])
           ELSE s


wrapline(s) ==
  LET next == IF s.cursor.line + 1 >= scroll_region.end THEN linefeed(s)
              ELSE [damage_cursor(s) EXCEPT !.cursor.line = @ + 1]
  IN  IF "LINE_WRAP" \in mode THEN damage_cursor(At(next, next.cursor.line, 0)) ELSE s

\* The tab stop after a column, and the one before it.
NextTab(c) ==
  IF \E t \in tabs : t > c
  THEN CHOOSE t \in tabs : t > c /\ \A u \in tabs : u > c => t <= u
  ELSE last_column

PreviousTab(c) ==
  IF \E t \in tabs : t < c
  THEN CHOOSE t \in tabs : t < c /\ \A u \in tabs : u < c => u <= t
  ELSE c

Times(n) == [i \in 1 .. n |-> i]

put_tab(s, count) ==
  IF s.cursor.input_needs_wrap THEN wrapline(s)
  ELSE [s EXCEPT !.cursor.column = FoldLeft(LAMBDA c, i : NextTab(c), @, Times(count))]

move_forward_tabs(s, count) ==
  LET to == FoldLeft(LAMBDA c, i : NextTab(c), s.cursor.column, Times(count))
  IN  [damage_line(s, s.cursor.line, s.cursor.column, to) EXCEPT !.cursor.column = to]

move_backward_tabs(s, count) ==
  LET to == FoldLeft(LAMBDA c, i : PreviousTab(c), s.cursor.column, Times(count))
  IN  [damage_line(s, s.cursor.line, to, s.cursor.column) EXCEPT !.cursor.column = to]

-----------------------------------------------------------------------------
(* Writing characters.                                                     *)

\* Cell::clear_wide blanks whatever character the cell has.
clear_wide(cell) == IF cell \in {"wide", "text"} THEN "blank" ELSE cell

\* The cell at the cursor is written.  Over a wide character the other half goes too,
\* and so does the spacer it left at the end of the line above.
write_at_cursor(s, cell) ==
  LET line == s.cursor.line
      c    == s.cursor.column
      row  == CursorRow(s)
      full == row[c] \in {"wide", "spacer"}
      wide == row[c] = "wide" /\ c < last_column
      other == IF wide THEN {c + 1} ELSE IF full /\ c > 0 THEN {c - 1} ELSE {}
      new  == [d \in AllColumns |->
                 CASE d = c -> cell
                   [] d \in other /\ wide -> IF row[d] = "spacer" THEN "blank" ELSE row[d]
                   [] d \in other /\ ~wide -> clear_wide(row[d])
                   [] OTHER -> row[d]]
      written == WithRow(s, new, {c} \cup other)
  IN  IF full /\ c <= 1 /\ line > 0 /\ s.cells[line - 1][last_column] = "leading"
      THEN [written EXCEPT !.cells[line - 1][last_column] = "blank"]
      ELSE written

\* In insert mode the cells from the cursor on are first swapped to the right.
Shifted(s, width) ==
  LET from  == s.cursor.column
      count == Columns - width - from
      row   == FoldLeft(LAMBDA r, i : SwapCells(r, from + count - i + width, from + count - i),
                        CursorRow(s), Times(count))
  IN  IF "INSERT" \in mode /\ from + width < Columns
      THEN WithRow(s, row, from .. last_column) ELSE s

Advance(s) ==
  IF s.cursor.column + 1 < Columns THEN [s EXCEPT !.cursor.column = @ + 1]
  ELSE [s EXCEPT !.cursor.input_needs_wrap = TRUE]

\* A character without width is added to the one before the cursor.
InputZeroWidth(s) ==
  LET before == IF s.cursor.input_needs_wrap THEN s.cursor.column
                ELSE Upper(s.cursor.column - 1, 0)
      column == IF CursorRow(s)[before] = "spacer" THEN Upper(before - 1, 0) ELSE before
  IN  WithRow(s, CursorRow(s), {column})

\* A wide character that does not fit goes to the next line, or is dropped.
InputWide(s) ==
  LET fits   == s.cursor.column + 1 < Columns
      placed == IF fits THEN s ELSE wrapline(write_at_cursor(s, "leading"))
      first  == write_at_cursor(placed, "wide")
      second == write_at_cursor([first EXCEPT !.cursor.column = @ + 1], "spacer")
  IN  IF fits \/ "LINE_WRAP" \in mode THEN Advance(second)
      ELSE [s EXCEPT !.cursor.input_needs_wrap = TRUE]

input(s, char) ==
  LET wrapped == IF s.cursor.input_needs_wrap THEN wrapline(s) ELSE s
  IN  CASE char = "zero" -> InputZeroWidth(s)
        [] char = "wide" -> InputWide(Shifted(wrapped, 2))
        [] char = "letter" -> Advance(write_at_cursor(Shifted(wrapped, 1), "text"))
        [] char = "space" -> Advance(write_at_cursor(Shifted(wrapped, 1), "blank"))

-----------------------------------------------------------------------------
(* Changing cells of the line.                                             *)

DamageWholeLine(s) == damage_line(s, s.cursor.line, 0, last_column)

insert_blank(s, count) ==
  LET from == s.cursor.column
      to   == from + Lower(count, Columns - from)
      row  == CursorRow(s)
  IN  WithRow(DamageWholeLine(s),
              [c \in AllColumns |-> IF c < from THEN row[c]
                                    ELSE IF c < to THEN "blank" ELSE row[c - (to - from)]],
              AllColumns)

\* The last `count` cells are cleared, even those left of the cursor.
delete_chars(s, count) ==
  LET n   == Lower(count, Columns)
      row == CursorRow(s)
  IN  WithRow(DamageWholeLine(s),
              [c \in AllColumns |-> IF c >= Columns - n THEN "blank"
                                    ELSE IF c < s.cursor.column THEN row[c] ELSE row[c + n]],
              AllColumns)

erase_chars(s, count) ==
  LET end == Lower(s.cursor.column + count, Columns)
  IN  ClearCells(damage_line(s, s.cursor.line, s.cursor.column, end), s.cursor.column, end)

clear_line(s, how) ==
  LET left  == IF how = "Right" THEN s.cursor.column ELSE 0
      right == IF how = "Left" THEN s.cursor.column + 1 ELSE Columns
  IN  IF how = "Right" /\ s.cursor.input_needs_wrap THEN s
      ELSE ClearCells(damage_line(s, s.cursor.line, left, right - 1), left, right)

\* Whole lines in `gone` and the cells `left .. right - 1` of the cursor's line.
ClearLines(s, gone, left, right) ==
  LET cleared == ClearCells(s, left, right)
  IN  [cleared EXCEPT !.cells = [l \in AllLines |-> IF l \in gone THEN BlankRow ELSE @[l]]]

clear_screen(s, how) ==
  LET line == s.cursor.line
  IN  mark_fully_damaged(
        CASE how = "Above" ->
               ClearLines(s, IF line > 1 THEN 0 .. (line - 1) ELSE {}, 0, s.cursor.column + 1)
          [] how = "Below" ->
               ClearLines(s, (line + 1) .. (Lines - 1), s.cursor.column, Columns)
          [] how = "All" -> ClearLines(s, AllLines, 0, 0)
          [] how = "Saved" -> s)

-----------------------------------------------------------------------------
(* The handlers.                                                           *)

Input == \E char \in Chars : Screen(input(screen, char))

Decaln ==
  Screen(mark_fully_damaged([screen EXCEPT !.cells = [l \in AllLines |->
                                                       [c \in AllColumns |-> "text"]]]))

\* goto, goto_line and goto_col.
Goto ==
  \E line \in 0 .. Lines, column \in 0 .. Columns :
     Screen(goto(screen, mode, scroll_region, line, column))

\* move_up and move_up_and_cr, move_down and move_down_and_cr.
MoveUp ==
  \E n \in 1 .. Lines, column \in {0, screen.cursor.column} :
     Screen(goto(screen, mode, scroll_region, screen.cursor.line - n, column))

MoveDown ==
  \E n \in 1 .. Lines, column \in {0, screen.cursor.column} :
     Screen(goto(screen, mode, scroll_region, screen.cursor.line + n, column))

move_forward(s, count) ==
  LET to == Lower(s.cursor.column + count, last_column)
  IN  At(damage_line(s, s.cursor.line, s.cursor.column, to), s.cursor.line, to)

move_backward(s, count) ==
  LET to == Upper(s.cursor.column - count, 0)
  IN  At(damage_line(s, s.cursor.line, to, s.cursor.column), s.cursor.line, to)

MoveForward == \E count \in AllColumns : Screen(move_forward(screen, count))

MoveBackward == \E count \in AllColumns : Screen(move_backward(screen, count))

Backspace == screen.cursor.column > 0 /\ Screen(move_backward(screen, 1))

PutTab == \E count \in 1 .. 2 : Screen(put_tab(screen, count))

MoveForwardTabs == \E count \in 1 .. 2 : Screen(move_forward_tabs(screen, count))

MoveBackwardTabs == \E count \in 1 .. 2 : Screen(move_backward_tabs(screen, count))

CarriageReturn == Screen(carriage_return(screen))

Linefeed == Screen(linefeed(screen))

newline(s) ==
  IF "LINE_FEED_NEW_LINE" \in mode THEN carriage_return(linefeed(s)) ELSE linefeed(s)

Newline == Screen(newline(screen))

ReverseIndex ==
  Screen(IF screen.cursor.line = scroll_region.start
         THEN scroll_down_relative(screen, scroll_region.start, 1)
         ELSE damage_cursor([damage_cursor(screen) EXCEPT !.cursor.line = Upper(@ - 1, 0)]))

ScrollUp == \E n \in 1 .. Lines : Screen(scroll_up_relative(screen, scroll_region.start, n))

ScrollDown == \E n \in 1 .. Lines : Screen(scroll_down_relative(screen, scroll_region.start, n))

InsertBlankLines ==
  /\ InRegion(screen.cursor.line)
  /\ \E n \in 1 .. Lines : Screen(scroll_down_relative(screen, screen.cursor.line, n))

DeleteLines ==
  /\ InRegion(screen.cursor.line)
  /\ \E n \in 1 .. (Lines - screen.cursor.line) :
        Screen(scroll_up_relative(screen, screen.cursor.line, n))

InsertBlank == \E count \in 1 .. Columns : Screen(insert_blank(screen, count))

EraseChars == \E count \in 1 .. Columns : Screen(erase_chars(screen, count))

DeleteChars == \E count \in 1 .. Columns : Screen(delete_chars(screen, count))

ClearLine == \E how \in {"Right", "Left", "All"} : Screen(clear_line(screen, how))

ClearScreen == \E how \in {"Above", "Below", "All", "Saved"} : Screen(clear_screen(screen, how))

SaveCursorPosition ==
  /\ saved_cursor' = screen.cursor
  /\ UNCHANGED <<screen, mode, scroll_region, tabs, last_cursor>>

RestoreCursorPosition ==
  Screen(damage_cursor([damage_cursor(screen) EXCEPT !.cursor = saved_cursor]))

SetHorizontalTabstop ==
  /\ tabs' = tabs \cup {screen.cursor.column}
  /\ UNCHANGED <<screen, saved_cursor, mode, scroll_region, last_cursor>>

ClearTabs ==
  /\ tabs' \in {{}, tabs \ {screen.cursor.column}}
  /\ UNCHANGED <<screen, saved_cursor, mode, scroll_region, last_cursor>>

set_scrolling_region(top, bottom) ==
  [start |-> Lower(top - 1, Lines), end |-> Lower(bottom, Lines)]

SetScrollingRegion ==
  /\ \E r \in Regions :
        /\ r[1] < r[2]
        /\ scroll_region' = set_scrolling_region(r[1], r[2])
  /\ Becomes(goto(screen, mode, scroll_region', 0, 0))
  /\ UNCHANGED <<saved_cursor, mode, tabs, last_cursor>>

Deccolm ==
  /\ scroll_region' = set_scrolling_region(1, Lines)
  /\ LET s == goto(screen, mode, scroll_region', 0, 0)
     IN  Becomes(mark_fully_damaged([s EXCEPT !.cells = [l \in AllLines |-> BlankRow]]))
  /\ UNCHANGED <<saved_cursor, mode, tabs, last_cursor>>

\* set_mode and set_private_mode.
SetMode ==
  /\ \E m \in Modes :
        /\ mode' = mode \cup {m}
        /\ IF m = "ORIGIN" THEN Becomes(goto(screen, mode', scroll_region, 0, 0))
           ELSE UNCHANGED screen
  /\ UNCHANGED <<saved_cursor, scroll_region, tabs, last_cursor>>

UnsetMode ==
  /\ \E m \in Modes :
        /\ mode' = mode \ {m}
        /\ IF m = "INSERT" THEN Becomes(mark_fully_damaged(screen)) ELSE UNCHANGED screen
  /\ UNCHANGED <<saved_cursor, scroll_region, tabs, last_cursor>>

MoveCursor ==
  \/ Goto \/ MoveUp \/ MoveDown \/ MoveForward \/ MoveBackward \/ Backspace
  \/ CarriageReturn \/ Linefeed \/ Newline \/ ReverseIndex

ChangeCells ==
  \/ Input \/ InsertBlank \/ EraseChars \/ DeleteChars
  \/ ClearLine \/ ClearScreen
  \/ ScrollUp \/ ScrollDown \/ InsertBlankLines \/ DeleteLines

Configure == SetScrollingRegion \/ Deccolm \/ SetMode \/ UnsetMode

Tabs ==
  PutTab \/ MoveForwardTabs \/ MoveBackwardTabs \/ SetHorizontalTabstop \/ ClearTabs

DamageStep ==
  /\ \/ MoveCursor
     \/ ChangeCells
     \/ Configure
     \/ "align" \in Uses /\ Decaln
     \/ "save" \in Uses /\ (SaveCursorPosition \/ RestoreCursorPosition)
     \/ "tabs" \in Uses /\ Tabs
     \/ Draw
  /\ UNCHANGED load

-----------------------------------------------------------------------------
(* Properties.                                                             *)

Cursors == [line : AllLines, column : AllColumns, input_needs_wrap : BOOLEAN]

\* Every handler keeps the cursor, the saved cursor and the recorded damage inside the
\* screen; the right bound may be one past the last column, where erase_chars leaves it.
TypeOK ==
  /\ \A l \in AllLines, c \in AllColumns :
        screen.cells[l][c] \in {"blank", "text", "wide", "spacer", "leading"}
  /\ screen.cursor \in Cursors
  /\ saved_cursor \in Cursors
  /\ \A l \in AllLines : screen.lines[l] \in [left : 0 .. Columns, right : 0 .. Columns]
  /\ screen.pending \subseteq AllLines \X AllColumns
  /\ scroll_region \in [start : 0 .. Lines, end : 0 .. Lines]
  /\ tabs \subseteq AllColumns
  /\ last_cursor \in AllLines \X AllColumns


=============================================================================
