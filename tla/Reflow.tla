------------------------------- MODULE Reflow -------------------------------
(***************************************************************************)
(* Rows of cells (grid/row.rs) and the change of a grid's width            *)
(* (grow_columns and shrink_columns in grid/resize.rs): wrapped lines are  *)
(* joined or split, the cursor and the display go with their text.         *)
(*                                                                         *)
(* A grid is a text (Cells) with the limit of the history, the display     *)
(* offset and a cursor whose column is one past the last while it waits to *)
(* be reflown.  A row has a number of its own, counted from the bottom.    *)
(***************************************************************************)
EXTENDS Cells, SequencesExt

Leading == [Default EXCEPT !.wide = "leading"]
Coloured(bg) == [Default EXCEPT !.bg = bg]

Put(s, i, e) == [k \in DOMAIN s |-> IF k = i THEN e ELSE s[k]]

\* The cells with the WRAPLINE flag of the last one set or not.
WrapLast(cells, wrap) == Put(cells, Len(cells), [Last(cells) EXCEPT !.wrap = wrap])

-----------------------------------------------------------------------------
(* Rows.                                                                   *)

NewRow(columns) == [inner |-> [i \in 1 .. columns |-> Default], occ |-> 0]

from_vec(cells, occ) == [inner |-> cells, occ |-> occ]

grow(row, columns) ==
  [row EXCEPT !.inner = @ \o [i \in 1 .. Greatest(columns - Len(row.inner), 0) |-> Default]]

\* The row of at most `columns` cells and the cells removed up to the last that is
\* not empty.
shrink(row, columns) ==
  LET cut  == SubSeq(row.inner, columns + 1, Len(row.inner))
      full == {i \in DOMAIN cut : ~is_empty(cut[i])}
  IN  [row  |-> IF cut = <<>> THEN row
                ELSE from_vec(SubSeq(row.inner, 1, columns), Least(row.occ, columns)),
       rest |-> IF full = {} THEN <<>> ELSE SubSeq(cut, 1, Highest(full))]

\* Cells beyond `occ` are left alone if the last one has the colour of the template.
reset(row, bg) ==
  LET len == Len(row.inner)
      occ == IF row.inner[len].bg # bg THEN len ELSE row.occ
  IN  from_vec([i \in 1 .. len |-> IF i <= occ THEN Coloured(bg) ELSE row.inner[i]], 0)

last_mut(row, wrap) ==
  from_vec(WrapLast(row.inner, wrap), Len(row.inner))

append(row, cells) == from_vec(row.inner \o cells, row.occ + Len(cells))
append_front(row, cells) == from_vec(cells \o row.inner, row.occ + Len(cells))

front_split_off(row, at) ==
  from_vec(SubSeq(row.inner, at + 1, Len(row.inner)), Greatest(row.occ - at, 0))

index_mut(row, column, cell) ==
  from_vec(Put(row.inner, column + 1, cell), Greatest(row.occ, column + 1))

RowClear(row) == \A i \in DOMAIN row.inner : is_empty(row.inner[i])

-----------------------------------------------------------------------------
(* Both directions.                                                        *)

Cursor(line, column, wrap) == [line |-> line, column |-> column, input_needs_wrap |-> wrap]

\* The linewrap special case is removed by moving the cursor outside of the grid.
Unwrapped(g) ==
  IF g.cursor.input_needs_wrap /\ g.reflow
  THEN [g EXCEPT !.cursor = Cursor(@.line, @.column + 1, FALSE)] ELSE g

\* Point::sub with Boundary::Cursor.
SubColumns(g, cursor, n) ==
  LET p == cursor.line * g.columns + cursor.column - n
  IN  IF p < 0 THEN Cursor(0, 0, FALSE) ELSE Cursor(p \div g.columns, p % g.columns, FALSE)

cursor_buffer_line(g) == g.lines - g.cursor.line - 1

ClampedOffset(g) == [g EXCEPT !.offset = Least(@, history_size(g))]

-----------------------------------------------------------------------------
(* Growing.  `out` holds the new rows, oldest first, `delta` the lines     *)
(* the cursor has to go up.                                                *)

should_reflow(g, row) ==
  g.reflow /\ Len(row.inner) \in 1 .. (g.columns - 1) /\ Last(row.inner).wrap


\* The row above takes cells of the next one, without its leading spacer, and gets one
\* if a wide character does not fit.
JoinAt(start, row, num, len) ==
  LET split == row.inner[len].wide = "wide"
      at    == IF split THEN len - 1 ELSE len
      cells == SubSeq(row.inner, 1, at) \o (IF split THEN <<Leading>> ELSE <<>>)
  IN  [row |-> append(start, cells), rest |-> front_split_off(row, at),
       num_wrapped |-> IF split THEN num - 1 ELSE num]

JoinTo(start, row, num) == JoinAt(start, row, num, Least(Len(row.inner), num))

JoinRows(g, above, row) ==
  LET leading == Last(above.inner).wide = "leading"
      start   == IF leading THEN shrink(last_mut(above, FALSE), Len(above.inner) - 1).row
                 ELSE last_mut(above, FALSE)
  IN  JoinTo(start, row, g.columns - Len(above.inner) + (IF leading THEN 1 ELSE 0))

\* The rest of a joined row is a row of its own.
KeepRest(g, rest) ==
  [g EXCEPT !.out = Append(Append(Front(@), last_mut(Last(@), TRUE)), rest)]

\* The cursor's row; `sub` is where the cells before the cursor went.
GrowOwn(g, join, clear, sub) ==
  LET pulled == sub.column = 0 /\ clear
      target == IF pulled THEN SubColumns(g, sub, 1) ELSE sub
      up     == g.cursor.line - target.line
      own    == [g EXCEPT !.out = Append(Front(@), join.row),
                          !.cursor = Cursor(@.line, target.column,
                                            @.input_needs_wrap \/ pulled)]
  IN  IF up # 0 /\ clear THEN own ELSE KeepRest([own EXCEPT !.delta = @ + up], join.rest)

GrowOther(g, join, clear, i) ==
  LET other == [g EXCEPT !.out = Append(Front(@), join.row),
                         !.offset = IF clear /\ i < @ THEN @ - 1 ELSE @,
                         !.cursor.line = IF clear /\ i < cursor_buffer_line(g) THEN @ + 1
                                         ELSE @]
  IN  IF clear THEN other ELSE KeepRest(other, join.rest)

GrowJoined(g, join, i) ==
  IF i = cursor_buffer_line(g)
  THEN GrowOwn(g, join, RowClear(join.rest), SubColumns(g, g.cursor, join.num_wrapped))
  ELSE GrowOther(g, join, RowClear(join.rest), i)

\* One row of `grow_columns`; i is its number.
GrowRow(g, row, i) ==
  IF g.out = <<>> THEN [g EXCEPT !.out = <<row>>]
  ELSE IF ~should_reflow(g, Last(g.out)) THEN [g EXCEPT !.out = Append(@, row)]
  ELSE GrowJoined(g, JoinRows(g, Last(g.out), row), i)

\* Make sure the viewport is filled, and the cursor on its text.
GrowEnd(g) ==
  LET missing == Greatest(g.lines - Len(g.out), 0)
      filled  == [g EXCEPT !.out = @ \o [i \in 1 .. missing |-> NewRow(g.columns)],
                           !.cursor.line = IF missing > 0 THEN Greatest(@ - missing, 0) ELSE @]
      below   == Least(cursor_buffer_line(filled), Len(filled.out) - g.lines)
      over    == Greatest(g.delta - below, 0)
      kept    == SubSeq(filled.out, 1, Len(filled.out) + over - g.delta)
  IN  [filled EXCEPT !.rows = [i \in DOMAIN kept |-> grow(kept[i], g.columns)],
                     !.cursor.line = IF g.delta # 0 THEN Greatest(@ - over, 0) ELSE @,
                     !.out = <<>>, !.delta = 0]

grow_columns(grid, columns) ==
  LET g    == Unwrapped([grid EXCEPT !.columns = columns])
      n    == Len(g.rows)
      step(acc, k) == GrowRow(acc, g.rows[k], n - k)
  IN  ClampedOffset(GrowEnd(FoldLeft(step, g, [k \in 1 .. n |-> k])))

-----------------------------------------------------------------------------
(* Shrinking.  `carry` holds the cells of a wrapped line that go to the    *)
(* front of the next row.                                                  *)

\* A wide character that would be cut goes to the next row whole.
CutWide(s, columns) ==
  IF Last(s.row.inner).wide # "wide" THEN s
  ELSE [row |-> index_mut(s.row, columns - 1, Leading),
        rest |-> <<Last(s.row.inner)>> \o s.rest]

\* A leading spacer at the end of the removed cells is dropped.
CutSpacer(rest) ==
  IF rest = <<>> THEN rest
  ELSE IF Last(rest).wide # "leading" THEN rest
  ELSE WrapLast(Front(rest), TRUE)

\* The cursor and the display when a row is added at row i.
CursorDown(g, i) ==
  LET own  == i = cursor_buffer_line(g)
      line == IF (own /\ g.cursor.column < g.columns) \/ i < cursor_buffer_line(g)
              THEN Greatest(g.cursor.line - 1, 0) ELSE g.cursor.line
  IN  [g EXCEPT !.cursor = Cursor(line, IF own /\ @.column >= g.columns
                                        THEN @.column - g.columns ELSE @.column,
                                  @.input_needs_wrap),
                !.offset = IF i < @ THEN @ + 1 ELSE @]

\* A row that may be longer than the grid is wide, until nothing is left of it.
RECURSIVE ShrinkRow(_, _, _)
ShrinkRow(g, row, i) ==
  LET cut    == shrink(row, g.columns)
      blank  == i = cursor_buffer_line(g) /\ g.cursor.column > g.columns
      s      == CutWide(cut, g.columns)
      \* The rest is a leading spacer and nothing else.
      lone   == s.rest # <<>> /\ Len(s.rest) = 1 /\ Last(s.rest).wide = "leading"
      rest   == CutSpacer(s.rest)
      wraps  == rest # <<>> /\ Last(rest).wrap
      pushed == [g EXCEPT !.out = Append(@, last_mut(s.row, TRUE))]
  IN  IF ~g.reflow \/ (cut.rest = <<>> /\ ~blank) THEN [g EXCEPT !.out = Append(@, cut.row)]
      ELSE IF lone THEN pushed
      ELSE IF wraps /\ i >= 1 /\ Len(rest) < g.columns
      THEN [pushed EXCEPT !.carry = WrapLast(rest, FALSE)]
      ELSE ShrinkRow(CursorDown(pushed, i), grow(from_vec(rest, Len(rest)), g.columns), i)

ShrinkStep(g, row, i) ==
  LET own == g.carry # <<>> /\ i = cursor_buffer_line(g)
  IN  ShrinkRow([g EXCEPT !.carry = <<>>,
                          !.cursor.column = IF own THEN @ + Len(g.carry) ELSE @],
                IF g.carry = <<>> THEN row ELSE append_front(row, g.carry), i)

\* The oldest rows beyond the limit are dropped; the cursor is brought into the grid.
ShrinkEnd(g) ==
  LET drop == Greatest(Len(g.out) - g.limit - g.lines, 0)
      h    == ClampedOffset([g EXCEPT !.rows = SubSeq(g.out, drop + 1, Len(g.out)), !.out = <<>>])
      c    == h.cursor
  IN  [h EXCEPT !.cursor =
         CASE ~h.reflow -> [c EXCEPT !.column = Least(@, last_column(h))]
           [] h.reflow /\ c.column = h.columns /\ ~Wraps(h, c.line) ->
                Cursor(c.line, last_column(h), TRUE)
           [] OTHER -> [c EXCEPT !.column = Least(@, last_column(h))]]

shrink_columns(grid, columns) ==
  LET g    == Unwrapped([grid EXCEPT !.columns = columns])
      n    == Len(g.rows)
      step(acc, k) == ShrinkStep(acc, g.rows[k], n - k)
  IN  ShrinkEnd(FoldLeft(step, g, [k \in 1 .. n |-> k]))

=============================================================================
