------------------------------ MODULE TextGrid ------------------------------
(***************************************************************************)
(* The text of the terminal with its history: what the application writes  *)
(* (the handlers of term/mod.rs that change rows), the change of the       *)
(* window's size with its reflow (Reflow), the selection that is moved     *)
(* along with the text (Selection), the vi motions (ViMode) and the        *)
(* searches (Cells).  Damage and the other handlers are in TermDamage.     *)
(*                                                                         *)
(* A run is given one kind of text, `load`: the characters, sizes and      *)
(* operations it uses.                                                     *)
(***************************************************************************)
EXTENDS Reflow, ViMode, Selection

CONSTANTS Loads   \* records [kinds, chars, columns, lines, limits, max, types]

VARIABLES term,
          load    \* the inputs of this run; never changes

vars == <<term, load>>

\* A grid without text (Grid::new), and what Term has besides.
Blank(columns, lines, limit, alternate) ==
  [columns |-> columns, lines |-> lines, limit |-> limit, reflow |-> ~alternate, offset |-> 0,
   rows |-> [l \in 1 .. lines |-> NewRow(columns)], cursor |-> Cursor(0, 0, FALSE),
   out |-> <<>>, carry |-> <<>>, delta |-> 0, bg |-> 0,
   region |-> [top |-> 0, end |-> lines], selection |-> None, written |-> 0]

Init ==
  /\ load \in Loads
  /\ \E columns \in load.columns, lines \in load.lines, limit \in load.limits :
       term = Blank(columns, lines, limit, "alternate" \in load.kinds)

Does(kind) == kind \in load.kinds

\* The number of a line among the rows.
At(g, line) == line + history_size(g) + 1

RowSet(g, line, row) == [g EXCEPT !.rows = Put(@, At(g, line), row)]

-----------------------------------------------------------------------------
(* Scrolling (grid/mod.rs).                                                *)

\* Rows top .. end - 1 of the screen go up; from the top of it into the history,
\* whose oldest rows are used again.
GridUp(g, top, end, n) ==
  LET first  == At(g, top)
      beyond == At(g, end)
      new    == Least(n, g.limit - history_size(g))
      raw    == [i \in 1 .. new |-> NewRow(g.columns)] \o g.rows
      used   == [i \in 1 .. n |-> reset(raw[i], g.bg)]
      lines  == SubSeq(g.rows, first + n, beyond - 1)
      below  == SubSeq(g.rows, beyond, Len(g.rows))
      freed  == [i \in 1 .. n |-> reset(g.rows[first + i - 1], g.bg)]
      shown  == IF g.offset = 0 THEN 0 ELSE Least(g.offset + n, g.limit)
  IN  IF end - top <= n /\ top # 0
      THEN [g EXCEPT !.rows = [i \in DOMAIN @ |->
              IF i \in first .. (beyond - 1) THEN reset(@[i], g.bg) ELSE @[i]]]
      ELSE IF top = 0
      THEN [g EXCEPT !.rows = SubSeq(raw, n + 1, new + beyond - 1) \o used \o below,
                     !.offset = shown]
      ELSE [g EXCEPT !.rows = SubSeq(@, 1, first - 1) \o lines \o freed \o below,
                     !.offset = shown]

GridDown(g, top, end, n) ==
  LET first  == At(g, top)
      beyond == At(g, end)
      moved  == Least(n, end - top)
      freed  == [i \in 1 .. moved |-> reset(g.rows[beyond - moved + i - 1], g.bg)]
  IN  [g EXCEPT !.rows = SubSeq(@, 1, first - 1) \o freed
                           \o SubSeq(@, first, beyond - 1 - moved)
                           \o SubSeq(@, beyond, Len(@))]

scroll_up_relative(g, origin, count) ==
  LET n == Least(count, g.region.end - g.region.top)
      s == IF g.selection = None THEN None
           ELSE rotate(g, Get(g.selection), [top |-> origin, end |-> g.region.end], n)
  IN  GridUp([g EXCEPT !.selection = s], origin, g.region.end, n)

scroll_down_relative(g, origin, count) ==
  LET n == Least(Least(count, g.region.end - g.region.top), g.region.end - origin)
      s == IF g.selection = None THEN None
           ELSE rotate(g, Get(g.selection), [top |-> origin, end |-> g.region.end], -n)
  IN  GridDown([g EXCEPT !.selection = s], origin, g.region.end, n)

-----------------------------------------------------------------------------
(* Writing.                                                                *)

CursorCell(g) == CellAt(g, PointAt(g, g.cursor.line, g.cursor.column))

SetCell(g, line, column, cell) ==
  RowSet(g, line, index_mut(RowOf(g, line), column, cell))

linefeed(g) ==
  LET next == g.cursor.line + 1
  IN  IF next = g.region.end THEN scroll_up_relative(g, g.region.top, 1)
      ELSE IF next < g.lines THEN [g EXCEPT !.cursor.line = next] ELSE g

wrapline(g) ==
  LET marked == SetCell(g, g.cursor.line, g.cursor.column,
                        [CursorCell(g) EXCEPT !.wrap = TRUE])
      next   == IF g.cursor.line + 1 >= g.region.end THEN linefeed(marked)
                ELSE [marked EXCEPT !.cursor.line = @ + 1]
  IN  [next EXCEPT !.cursor = Cursor(@.line, 0, FALSE)]

\* Cell::clear_wide.
clear_wide(cell) == [cell EXCEPT !.c = " ", !.wide = IF @ = "wide" THEN "no" ELSE @]

\* Mutant: the spacer of an overwritten wide character stays.
write_at_cursor_spacer(g, c, wide) ==
  SetCell(g, g.cursor.line, g.cursor.column, [c |-> c, wide |-> wide, wrap |-> FALSE, bg |-> g.bg])

\* Over a wide character the other half goes too, and the spacer it left above.
write_at_cursor(g, c, wide) ==
  LET line   == g.cursor.line
      column == g.cursor.column
      old    == CursorCell(g).wide
      near(d) == RowOf(g, line).inner[column + 1 + d]
      split  == IF old = "wide" /\ column < last_column(g)
                THEN SetCell(g, line, column + 1,
                             [near(1) EXCEPT !.wide = IF @ = "spacer" THEN "no" ELSE @])
                ELSE IF old \in {"wide", "spacer"} /\ column > 0
                THEN SetCell(g, line, column - 1, clear_wide(near(-1))) ELSE g
      above  == CellAt(split, PointAt(g, line - 1, last_column(g)))
      lead   == IF old \in {"wide", "spacer"} /\ column <= 1 /\ line # topmost_line(g)
                THEN SetCell(split, line - 1, last_column(g),
                             [above EXCEPT !.wide = IF @ = "leading" THEN "no" ELSE @])
                ELSE split
  IN  SetCell(lead, line, column, [c |-> c, wide |-> wide, wrap |-> FALSE, bg |-> g.bg])

Advance(g) ==
  IF g.cursor.column + 1 < g.columns THEN [g EXCEPT !.cursor.column = @ + 1]
  ELSE [g EXCEPT !.cursor.input_needs_wrap = TRUE]

\* Line wrapping is on, insert mode off (see TermDamage).
input(grid, c, wide) ==
  LET g     == IF grid.cursor.input_needs_wrap THEN wrapline(grid) ELSE grid
      fits  == g.cursor.column + 1 < g.columns
      h     == IF fits THEN g ELSE wrapline(write_at_cursor(g, " ", "leading"))
      first == write_at_cursor(h, c, "wide")
  IN  IF ~wide THEN Advance(write_at_cursor(g, c, "no"))
      ELSE Advance(write_at_cursor([first EXCEPT !.cursor.column = @ + 1], " ", "spacer"))

carriage_return(g) == [g EXCEPT !.cursor = Cursor(@.line, 0, FALSE)]

goto(g, line, column) == [g EXCEPT !.cursor = Cursor(line, column, FALSE)]

\* Cells left .. right - 1 of the line of the cursor get the background.
FillCells(g, left, right) ==
  LET row == RowOf(g, g.cursor.line)
  IN  RowSet(g, g.cursor.line,
             from_vec([i \in DOMAIN row.inner |->
                         IF i \in (left + 1) .. right THEN Coloured(g.bg) ELSE row.inner[i]],
                      Greatest(row.occ, right)))

\* The selection is dropped if it touches the lines.
Unselect(g, top, bottom) ==
  IF g.selection = None THEN g
  ELSE IF intersects_range(Get(g.selection), g.columns, top, bottom)
  THEN [g EXCEPT !.selection = None] ELSE g

erase_chars(g, count) ==
  FillCells(g, g.cursor.column, Least(g.cursor.column + count, g.columns))

clear_line(g) ==
  IF g.cursor.input_needs_wrap THEN g
  ELSE Unselect(FillCells(g, g.cursor.column, g.columns), g.cursor.line, g.cursor.line)

\* ClearMode::All: the lines up to the last that has text scroll into the history.
clear_viewport(g) ==
  LET full == {l \in 0 .. bottommost_line(g) : ~RowClear(RowOf(g, l))}
      n    == IF full = {} THEN 0 ELSE Highest(full) + 1
      up   == GridUp(g, 0, g.lines, n)
  IN  [up EXCEPT !.rows = [i \in DOMAIN @ |->
         IF i \in At(up, 0) .. (At(up, g.lines - n) - 1) THEN reset(@[i], g.bg) ELSE @[i]]]

reset_region(g) ==
  [g EXCEPT !.rows = [i \in DOMAIN @ |-> IF i >= At(g, 0) THEN reset(@[i], g.bg) ELSE @[i]]]

clear_screen(g) ==
  [(IF g.reflow THEN clear_viewport(g) ELSE reset_region(g)) EXCEPT !.selection = None]

-----------------------------------------------------------------------------
(* Resizing.                                                               *)

\* Lines are pulled from the history, then added at the bottom.
grow_lines(g, target) ==
  LET added  == target - g.lines
      pulled == Least(history_size(g), added)
  IN  ClampedOffset([g EXCEPT
        !.lines = target, !.offset = Greatest(@ - added, 0), !.cursor.line = @ + pulled,
        !.rows = @ \o [i \in 1 .. (added - pulled) |-> NewRow(g.columns)]])

shrink_lines(g, target) ==
  LET required == Greatest(g.cursor.line + 1 - target, 0)
      up       == IF required > 0 THEN GridUp(g, 0, g.lines, required) ELSE g
  IN  [up EXCEPT !.lines = target, !.cursor.line = Least(@, target - 1),
                 !.rows = SubSeq(@, 1, Len(@) - (g.lines - target))]

\* Grid::resize, with an empty template.
GridResized(g, lines, columns) ==
  LET plain == [g EXCEPT !.bg = 0]
      h     == IF lines > g.lines THEN grow_lines(plain, lines)
               ELSE IF lines < g.lines THEN shrink_lines(plain, lines) ELSE plain
      r     == IF columns > g.columns THEN grow_columns(h, columns)
               ELSE IF columns < g.columns THEN shrink_columns(h, columns) ELSE h
  IN  [r EXCEPT !.bg = g.bg]

\* A change of width drops the selection.
Reselected(g, r) ==
  LET least == Least(0, r.lines - g.cursor.line - 1)
      delta == Least(Greatest(r.lines - g.lines, least), history_size(g))
      range == [top |-> 0, end |-> Greatest(r.lines, g.lines)]
  IN  [r EXCEPT !.region = [top |-> 0, end |-> r.lines],
                !.selection = IF r.columns # g.columns \/ @ = None THEN None
                              ELSE rotate(r, Get(@), range, -delta)]

resize(g, lines, columns) == Reselected(g, GridResized(g, lines, columns))

-----------------------------------------------------------------------------
(* Actions.                                                                *)

\* `written` counts the characters; with "letters" each is a new one.
Char(c) == Does("letters") => c = load.chars[term.written + 1]

\* Bound: a selection is followed until it leaves the history.
Followed ==
  term.selection # None =>
    LineOf(term, Ordered(Get(term.selection))[1].point) >= topmost_line(term)

Input ==
  /\ term.written < load.max /\ Followed
  /\ \E c \in Range(load.chars), wide \in BOOLEAN :
       /\ Char(c)
       /\ wide => Does("wide")
       /\ term' = [input(term, c, wide) EXCEPT !.written = @ + 1]

Newline == Does("newline") /\ Followed /\ term' = carriage_return(linefeed(term))

Goto ==
  /\ Does("goto")
  /\ \E line \in 0 .. bottommost_line(term), column \in 0 .. last_column(term) :
       term' = goto(term, line, column)

Erase ==
  /\ Does("erase")
  /\ \/ term' = clear_line(term)
     \/ term' = clear_screen(term)
     \/ term' = erase_chars(term, 1)

\* scroll_up, and delete_lines at the cursor.
ScrollUp(origin, n) ==
  /\ Does("scroll") /\ Followed /\ (n = 1 \/ origin = term.region.top)
  /\ term' = scroll_up_relative(term, origin, n)

\* scroll_down, and insert_blank_lines at the cursor.
ScrollDown(origin, n) ==
  /\ Does("scroll") /\ Followed /\ (n = 1 \/ origin = term.region.top)
  /\ term' = scroll_down_relative(term, origin, n)

Origins == term.region.top .. (term.region.end - 1)

SetScrollingRegion ==
  /\ Does("region")
  /\ \E end \in 1 .. term.lines : \E top \in 0 .. (end - 1) :
       term' = [goto(term, 0, 0) EXCEPT !.region = [top |-> top, end |-> end]]

\* The background of the template.
TerminalAttribute == Does("colour") /\ term' = [term EXCEPT !.bg = 1 - @]

Resize ==
  /\ Does("resize")
  /\ \E lines \in load.lines, columns \in load.columns :
       /\ lines # term.lines \/ columns # term.columns
       /\ term' = resize(term, lines, columns)

ScrollDisplay ==
  /\ Does("display")
  /\ \E offset \in 0 .. history_size(term) : term' = [term EXCEPT !.offset = offset]

Sides == {"Left", "Right"}

\* The selection is made by a click and a move of the mouse.
Select ==
  /\ Does("select") /\ term.selection = None
  /\ \E p, q \in Points(term), a, b \in Sides, ty \in load.types :
       term' = [term EXCEPT !.selection = Some(Updated(NewSelection(ty, p, a), q, b))]

Next ==
  /\ \/ Input \/ Newline \/ Goto \/ Erase \/ SetScrollingRegion
     \/ \E origin \in Origins, n \in 1 .. 2 : ScrollUp(origin, n) \/ ScrollDown(origin, n)
     \/ TerminalAttribute \/ Resize \/ ScrollDisplay \/ Select
  /\ UNCHANGED load

Spec == Init /\ [][Next]_vars

-----------------------------------------------------------------------------
(* Text.                                                                   *)

\* Cell count up to the last character, all of them in a wrapped row.
line_length(row) ==
  LET full == {i \in DOMAIN row.inner : row.inner[i].c # " "}
  IN  IF Last(row.inner).wrap THEN Len(row.inner) ELSE IF full = {} THEN 0 ELSE Highest(full)

\* The text of columns from .. upto (no tabs are written here, whose blanks are left
\* out).  With include_wrapped_wide a leading spacer at the end adds a character, which
\* the code takes from the row above.
line_to_string(g, line, from, upto, include_wrapped_wide) ==
  LET row    == RowOf(g, line)
      length == Least(line_length(row), upto + 1)
      start  == IF row.inner[from + 1].wide = "spacer" THEN from - 1 ELSE from
      cells  == SelectSeq(SubSeq(row.inner, start + 1, length), LAMBDA cell : ~Spacer(cell))
      break  == /\ upto >= last_column(g)
                /\ length = 0 \/ ~row.inner[Greatest(length, 1)].wrap
      wide   == /\ length = g.columns /\ length >= 2 /\ include_wrapped_wide
                /\ Last(row.inner).wide = "leading"
  IN  [i \in DOMAIN cells |-> cells[i].c]
        \o (IF break THEN <<"\n">> ELSE <<>>)
        \o (IF wide THEN <<RowOf(g, line - 1).inner[1].c>> ELSE <<>>)

\* The lines from k to that of the end.
RECURSIVE TextFrom(_, _, _, _)
TextFrom(g, start, end, k) ==
  IF k > LineOf(g, end) THEN <<>>
  ELSE line_to_string(g, k, IF k = LineOf(g, start) THEN ColumnOf(g, start) ELSE 0,
                      IF k = LineOf(g, end) THEN ColumnOf(g, end) ELSE last_column(g),
                      k = LineOf(g, end))
         \o TextFrom(g, start, end, k + 1)

bounds_to_string(g, start, end) ==
  LET text == TextFrom(g, start, end, LineOf(g, start))
  IN  IF text # <<>> /\ Last(text) = "\n" THEN Front(text) ELSE text

\* Trailing blanks of a line (str::trim_end).
trim_end(text) ==
  LET full == {i \in DOMAIN text : text[i] \notin {" ", "\n", "\t"}}
  IN  SubSeq(text, 1, Highest(full \cup {0}))

RangeToString(g, ty, range) ==
  LET from  == ColumnOf(g, range.start)
      upto  == ColumnOf(g, range.end)
      first == LineOf(g, range.start)
      low   == LineOf(g, range.end)
      read(text, k) == text \o trim_end(line_to_string(g, k, from, upto, from # 0)) \o <<"\n">>
  IN  CASE ty = "Block" -> FoldLeft(read, <<>>, [k \in 1 .. (low - first) |-> first + k - 1])
                             \o trim_end(line_to_string(g, low, from, upto, TRUE))
        [] ty = "Lines" -> Append(bounds_to_string(g, range.start, range.end), "\n")
        [] OTHER -> bounds_to_string(g, range.start, range.end)

\* The range of the selection is None or one.
selection_to_string(g) ==
  [i \in DOMAIN to_range(g, Get(g.selection), {" "}) |->
     RangeToString(g, Get(g.selection).ty, Get(to_range(g, Get(g.selection), {" "})))]

\* "All cells after this point are guaranteed to be equal" (the field occ of Row), which
\* reset relies on: as long as coloured rows do not change their width.
RowsUniform ==
  ~(Does("colour") /\ Does("resize")) =>
    \A i \in DOMAIN term.rows :
      \A k, l \in (term.rows[i].occ + 1) .. term.columns :
        term.rows[i].inner[k] = term.rows[i].inner[l]

\* A wide character and its spacer.
Paired(cells, k) ==
  /\ cells[k].wide = "wide" => k < Len(cells) /\ cells[k + 1].wide = "spacer"
  /\ cells[k].wide = "spacer" => k > 1 /\ cells[k - 1].wide = "wide"

\* What is written over the cells of a row and however lines are wrapped again, the
\* cells after occ stay equal, and on the primary screen a wide character stays with
\* its spacer.
RowsSound ==
  /\ RowsUniform
  /\ term.reflow /\ ~Does("erase") =>
       \A i \in DOMAIN term.rows : \A k \in 1 .. term.columns : Paired(term.rows[i].inner, k)

\* Lines are wrapped in their last cell only.
WrapsAtEnd(g) ==
  /\ g.cursor.input_needs_wrap => g.cursor.column = last_column(g)
  /\ \A p \in Points(g) : CellAt(g, p).wrap => ColumnOf(g, p) = last_column(g)

TrimLine(text) ==
  SubSeq(text, 1, Highest({i \in DOMAIN text : text[i] # " "} \cup {0}))

\* The text without the blanks at the end of its lines.
RECURSIVE Trimmed(_)
Trimmed(text) ==
  IF text = <<>> THEN <<>>
  ELSE IF Last(text) = "\n" THEN Append(Trimmed(TrimLine(Front(text))), "\n")
  ELSE Append(Trimmed(Front(text)), Last(text))

\* The text of the grid as it is copied.
Copied(g) == Trimmed(trim_end(bounds_to_string(g, FirstPoint(g), LastPoint(g))))

\* The cursor is in the first line of the screen, which continues one of the history:
\* Point::sub stops at the top of the screen and a line break is left behind.
CutByScreen(g) ==
  g.cursor.line = 0 /\ history_size(g) > 0 /\ Last(RowOf(g, -1).inner).wrap


Written(g, points) ==
  {CellAt(g, p).c : p \in {q \in points : ~Spacer(CellAt(g, q)) /\ CellAt(g, q).c # " "}}

\* The characters of the selection as they are copied.
Selected(g) ==
  IF g.selection = None THEN {} ELSE UNION {Range(text) : text \in Range(selection_to_string(g))}
                                       \ {" ", "\n"}

\* The selection moves as a whole with the lines that scroll by `up`, or is apart
\* from them.
Rigid(g, origin, up) ==
  LET s     == Ordered(Get(g.selection))
      top   == LineOf(g, s[1].point)
      low   == LineOf(g, s[2].point)
      least == IF origin = 0 /\ up > 0 THEN bottommost_line(g) + 1 - g.limit - g.lines ELSE origin
  IN  \/ low < origin /\ origin > 0
      \/ top >= g.region.end
      \/ /\ top >= least /\ top - up >= least
         /\ low < g.region.end /\ low - up < g.region.end

\* The step scrolls a part of the selection, or a part of it out of the region.
Tears ==
  \/ (Input \/ Newline) /\ ~Rigid(term, term.region.top, 1)
  \/ \E origin \in Origins, n \in 1 .. 2 :
       \/ ScrollUp(origin, n) /\ ~Rigid(term, origin, n)
       \/ ScrollDown(origin, n) /\ ~Rigid(term, origin, -n)


-----------------------------------------------------------------------------
(* Searches.                                                               *)

\* Points reached from a point by motions to the left, and to the right.
Backward == {"Up", "Left", "First", "SemanticLeft", "SemanticLeftEnd", "WordLeft", "WordLeftEnd",
             "ParagraphUp"}
Forward == {"Down", "Right", "Last", "SemanticRight", "SemanticRightEnd", "WordRight",
            "WordRightEnd"}


\* The cells that are read one after another from a point to another.
Read(g, p, q) ==
  LET cells == SelectSeq([i \in 1 .. (q + 1 - p) |-> CellAt(g, p + i - 1)],
                         LAMBDA cell : ~Spacer(cell))
  IN  [i \in DOMAIN cells |-> cells[i].c]

\* The places of a text in a line, which may be wrapped, with the spacers of its first
\* and last character.
Places(g, text) ==
  LET whole == {p \in Points(g) : ~Spacer(CellAt(g, p))}
      pairs == {m \in whole \X whole :
                  /\ m[2] \in m[1] .. (m[1] + 4) /\ Read(g, m[1], m[2]) = text
                  /\ \A p \in m[1] .. (m[2] - 1) : ~Breaks(g, p)}
  IN  {[start |-> expand_wide(g, m[1], "Left"), end |-> expand_wide(g, m[2], "Right")] :
         m \in pairs}

\* The next match in a direction (Term::search_next) is the one nearest to the origin
\* on that side of it, in wrapped lines and with wide characters as well; if there is
\* none there, the search goes on at the other end of the scrollback.
SearchFinds ==
  Does("search") =>
    LET places == Places(term, <<"a", "b">>)
        nearest(p, direction, side) ==
          LET from   == expand_wide(term, p, direction)
              beyond == {m \in places : IF direction = "Right" THEN match_side(m, side) >= from
                                        ELSE match_side(m, side) <= from}
              among  == IF beyond = {} THEN places ELSE beyond
          IN  CHOOSE m \in among : \A n \in among :
                IF direction = "Right" THEN m.start <= n.start ELSE m.start >= n.start
    IN  \A p \in Points(term), direction \in {"Left", "Right"}, side \in {"Left", "Right"} :
          LET found == search_next(term, <<"a", "b">>, p, direction, side, None)
          IN  found = IF places = {} THEN None ELSE Some(nearest(p, direction, side))

=============================================================================
