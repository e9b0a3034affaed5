----------------------------- MODULE Selection -----------------------------
(***************************************************************************)
(* The selection (selection.rs): a type and two anchors, each a point and  *)
(* a side of it, and the range of cells they select in a text.             *)
(***************************************************************************)
EXTENDS Cells

Anchor(point, side) == [point |-> point, side |-> side]

NewSelection(ty, point, side) ==
  [ty |-> ty, start |-> Anchor(point, side), end |-> Anchor(point, side)]

Updated(s, point, side) == [s EXCEPT !.end = Anchor(point, side)]

\* The anchors in reading order.
Ordered(s) == IF s.start.point > s.end.point THEN <<s.end, s.start>> ELSE <<s.start, s.end>>

\* Simple: nothing, or the gap between two cells of a line.  Block: the same of columns.
selection_is_empty(s, columns) ==
  LET a == Ordered(s)[1]
      b == Ordered(s)[2]
      column(anchor) == anchor.point % columns
  IN  CASE s.ty = "Simple" ->
             \/ a = b
             \/ /\ a.side = "Right" /\ b.side = "Left"
                /\ a.point \div columns = b.point \div columns /\ a.point + 1 = b.point
        [] s.ty = "Block" ->
             \/ column(s.start) = column(s.end) /\ s.start.side = s.end.side
             \/ /\ column(s.start) + 1 = column(s.end)
                /\ s.start.side = "Right" /\ s.end.side = "Left"
             \/ /\ column(s.end) + 1 = column(s.start)
                /\ s.start.side = "Left" /\ s.end.side = "Right"
        [] OTHER -> FALSE

\* The selection touches the lines top .. bottom.
intersects_range(s, columns, top, bottom) ==
  /\ bottom >= Ordered(s)[1].point \div columns
  /\ top <= Ordered(s)[2].point \div columns

include_all(s, columns) ==
  LET column(anchor) == anchor.point % columns
      back == IF s.ty = "Block"
              THEN \/ column(s.start) > column(s.end)
                   \/ column(s.start) = column(s.end) /\ s.start.point > s.end.point
              ELSE s.start.point > s.end.point
  IN  [s EXCEPT !.start.side = IF back THEN "Right" ELSE "Left",
                !.end.side = IF back THEN "Left" ELSE "Right"]


\* Lines range.top .. range.end - 1 scroll up by delta.  An anchor that leaves the
\* region is clamped to it, and the selection is lost if nothing of it remains.
rotate(t, s, range, delta) ==
  LET swapped == s.start.point > s.end.point
      a       == Ordered(s)[1]
      b       == Ordered(s)[2]
      moves(anchor) == /\ LineOf(t, anchor.point) >= range.top \/ range.top = 0
                       /\ LineOf(t, anchor.point) < range.end
      to(anchor)    == Least(LineOf(t, anchor.point) - delta, bottommost_line(t))
      column(anchor, edge) == IF s.ty = "Block" THEN ColumnOf(t, anchor.point) ELSE edge
      side(anchor, edge)   == IF s.ty = "Block" THEN anchor.side ELSE edge
      gone    == moves(a) /\ to(a) >= range.end /\ LineOf(t, b.point) < range.end
      first   == IF ~moves(a) THEN a
                 ELSE IF to(a) < range.top /\ range.top # 0
                 THEN Anchor(PointAt(t, range.top, column(a, 0)), side(a, "Left"))
                 ELSE [a EXCEPT !.point = PointAt(t, to(a), ColumnOf(t, @))]
      crossed == moves(b) /\ to(b) < LineOf(t, first.point)
      second  == IF ~moves(b) THEN b
                 ELSE IF to(b) >= range.end
                 THEN Anchor(PointAt(t, range.end - 1, column(b, last_column(t))),
                             side(b, "Right"))
                 ELSE [b EXCEPT !.point = PointAt(t, to(b), ColumnOf(t, @))]
  IN  IF gone \/ crossed THEN None
      ELSE Some(IF swapped THEN [s EXCEPT !.start = second, !.end = first]
                ELSE [s EXCEPT !.start = first, !.end = second])

-----------------------------------------------------------------------------
(* The range of a selection: the first and the last point, and whether the *)
(* columns bound it on every line.                                         *)

SelectionRange(start, end, block) == [start |-> start, end |-> end, is_block |-> block]

range_semantic(t, a, b, escapes) ==
  LET match == bracket_search(t, a)
  IN  IF a = b /\ match # None
      THEN SelectionRange(Least(a, Get(match)), Greatest(a, Get(match)), FALSE)
      ELSE SelectionRange(semantic_search_left(t, a, escapes), semantic_search_right(t, b, escapes),
                  FALSE)

range_lines(t, a, b) == SelectionRange(line_search_left(t, a), line_search_right(t, b), FALSE)

\* A cell is removed at either end if the anchor is on its inner side.
range_simple(a, b) ==
  LET end   == IF b.side = "Left" /\ a.point # b.point THEN b.point - 1 ELSE b.point
      start == IF a.side = "Right" /\ a.point # end THEN a.point + 1 ELSE a.point
  IN  SelectionRange(start, end, FALSE)

range_block(t, first, second) ==
  LET back  == ColumnOf(t, first.point) > ColumnOf(t, second.point)
      left  == IF back THEN second ELSE first
      right == IF back THEN first ELSE second
      start == PointAt(t, LineOf(t, first.point), ColumnOf(t, left.point))
      last  == PointAt(t, LineOf(t, second.point), ColumnOf(t, right.point))
      end   == IF right.side = "Left" /\ start # last /\ ColumnOf(t, last) > 0
               THEN last - 1 ELSE last
  IN  SelectionRange(IF left.side = "Right" /\ start # end THEN start + 1 ELSE start, end, TRUE)

\* Points above the scrollback are clamped to it.
RangeBetween(t, ty, a, b, escapes) ==
  CASE ty = "Simple"   -> range_simple(a, b)
    [] ty = "Block"    -> range_block(t, a, b)
    [] ty = "Semantic" -> range_semantic(t, a.point, b.point, escapes)
    [] ty = "Lines"    -> range_lines(t, a.point, b.point)

to_range(t, s, escapes) ==
  LET clamp(anchor) == [anchor EXCEPT !.point = Clamped(t, @)]
  IN  IF LineOf(t, Ordered(s)[2].point) < topmost_line(t) THEN None
      ELSE IF selection_is_empty(s, t.columns) THEN None
      ELSE Some(RangeBetween(t, s.ty, clamp(Ordered(s)[1]), clamp(Ordered(s)[2]), escapes))

range_contains(t, range, p) ==
  LET line == LineOf(t, p)
      top  == LineOf(t, range.start)
      low  == LineOf(t, range.end)
  IN  /\ top <= line /\ line <= low
      /\ \/ ColumnOf(t, range.start) <= ColumnOf(t, p)
         \/ top # line /\ ~range.is_block
      /\ \/ ColumnOf(t, range.end) >= ColumnOf(t, p)
         \/ low # line /\ ~range.is_block

=============================================================================
