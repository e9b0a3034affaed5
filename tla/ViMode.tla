------------------------------- MODULE ViMode -------------------------------
(***************************************************************************)
(* The motions of the vi mode cursor (vi_mode.rs).  `offset` is the        *)
(* display offset, `escapes` the semantic escape characters.               *)
(***************************************************************************)
EXTENDS Cells

is_space(t, p) == ~Spacer(CellAt(t, p)) /\ CellAt(t, p).c = " "

is_boundary(t, p, direction) ==
  \/ direction = "Left" /\ p <= FirstPoint(t)
  \/ direction = "Right" /\ p = LastPoint(t)

Row(t, line) == PointAt(t, line, 0) .. PointAt(t, line, last_column(t))

Occupied(t, line) == {p \in Row(t, line) : ~is_space(t, p)}

\* Option<Point>::unwrap_or_default is the origin of the screen.
first_occupied_in_line(t, line) ==
  IF Occupied(t, line) = {} THEN None ELSE Some(Lowest(Occupied(t, line)))

last_occupied_in_line(t, line) ==
  IF Occupied(t, line) = {} THEN None ELSE Some(Highest(Occupied(t, line)))

\* The column of the first occupied cell, or 0.
FirstColumn(t, line) ==
  IF Occupied(t, line) = {} THEN PointAt(t, line, 0) ELSE Lowest(Occupied(t, line))

is_clear(row) == \A i \in DOMAIN row.inner : is_empty(row.inner[i])

\* The lines a wrapped line goes on to, from a line of it.
Onward(t, line) ==
  Highest({k \in line .. bottommost_line(t) + 1 :
             \A l \in line .. (k - 1) : l <= bottommost_line(t) /\ Wraps(t, l)})

LastFrom(t, p) ==
  LET line     == LineOf(t, p)
      occupied == last_occupied_in_line(t, line)
      end      == IF occupied = None THEN 0 ELSE Get(occupied)
      next     == Onward(t, line)
  IN  IF ColumnOf(t, p) < ColumnOf(t, end) THEN end
      ELSE IF ~CellAt(t, p).wrap THEN PointAt(t, line, last_column(t))
      ELSE IF next > bottommost_line(t) \/ last_occupied_in_line(t, next) = None
           THEN PointAt(t, next, ColumnOf(t, p))
           ELSE Get(last_occupied_in_line(t, next))

last(t, point) == LastFrom(t, expand_wide(t, point, "Right"))

FirstOccupiedFrom(t, p) ==
  LET line     == LineOf(t, p)
      occupied == IF Occupied(t, line) = {} THEN PointAt(t, line, last_column(t))
                  ELSE Lowest(Occupied(t, line))
      before   == {k \in LineOf(t, line_search_left(t, p)) .. (line - 1) : Occupied(t, k) # {}}
      after    == {k \in line .. Onward(t, line) :
                     \/ k > bottommost_line(t)
                     \/ Occupied(t, k) # {} \/ ~Wraps(t, k)}
      next     == Lowest(after)
  IN  IF p # occupied THEN occupied
      ELSE IF before # {} THEN Lowest(Occupied(t, Lowest(before)))
      ELSE IF next > bottommost_line(t) THEN PointAt(t, next, 0)
      ELSE IF Occupied(t, next) # {} THEN Lowest(Occupied(t, next))
      ELSE PointAt(t, next, last_column(t))

first_occupied(t, point) == FirstOccupiedFrom(t, expand_wide(t, point, "Left"))

\* The last point reached in a direction while the next one is blank, or is not.
RECURSIVE SkipAhead(_, _, _, _)
SkipAhead(t, p, direction, blank) ==
  LET next == Advanced(t, p, direction)
  IN  IF ~is_boundary(t, p, direction) /\ is_space(t, next) = blank
      THEN SkipAhead(t, next, direction, blank) ELSE p

\* The first point reached in a direction that is not blank, or is.
RECURSIVE SkipPast(_, _, _, _)
SkipPast(t, p, direction, blank) ==
  IF ~is_boundary(t, p, direction) /\ is_space(t, p) = blank
  THEN SkipPast(t, Advanced(t, p, direction), direction, blank) ELSE p

\* The end of the word at p in a direction, if it `goes` there.
ExpandSemantic(t, p, direction, escapes, goes) ==
  IF ~goes \/ is_boundary(t, p, direction) THEN p
  ELSE IF CellAt(t, p).c \in escapes /\ ~Spacer(CellAt(t, p)) THEN p
  ELSE IF direction = "Left" THEN semantic_search_left(t, p, escapes)
  ELSE semantic_search_right(t, p, escapes)

\* The next cell beyond the blanks.
Beyond(t, blank, direction) ==
  IF is_boundary(t, blank, direction) THEN blank
  ELSE IF direction = "Left" THEN expand_wide(t, Advanced(t, blank, direction), direction)
  ELSE Advanced(t, blank, direction)

semantic(t, point, direction, side, escapes) ==
  LET from  == ExpandSemantic(t, point, direction, escapes, direction # side)
      blank == SkipAhead(t, expand_wide(t, from, direction), direction, TRUE)
  IN  ExpandSemantic(t, Beyond(t, blank, direction), direction, escapes, direction = side)

word(t, point, direction, side) ==
  LET from == expand_wide(t, point, direction)
  IN  IF direction = side
      THEN SkipAhead(t, SkipAhead(t, from, direction, TRUE), direction, FALSE)
      ELSE SkipPast(t, SkipPast(t, from, direction, FALSE), direction, TRUE)

\* The empty line that ends the next paragraph among `lines`, the nearest one first.
Paragraph(t, lines, near(_, _)) ==
  {k \in lines : /\ is_clear(RowOf(t, k))
                 /\ \E l \in lines : near(l, k) /\ ~is_clear(RowOf(t, l))}

ParagraphUp(t, p) ==
  LET below(l, k) == l > k
      found       == Paragraph(t, topmost_line(t) .. (LineOf(t, p) - 1), below)
  IN  PointAt(t, IF found = {} THEN topmost_line(t) ELSE Highest(found), 0)

ParagraphDown(t, p) ==
  LET above(l, k) == l < k
      found       == Paragraph(t, LineOf(t, p) .. (bottommost_line(t) - 1), above)
  IN  PointAt(t, IF found = {} THEN bottommost_line(t) ELSE Lowest(found), 0)

MoveLeft(t, point) ==
  LET p == expand_wide(t, point, "Left")
  IN  IF ColumnOf(t, p) # 0 THEN p - 1
      ELSE IF LineOf(t, p) > topmost_line(t) /\ Wraps(t, LineOf(t, p) - 1) THEN p - 1
      ELSE p

MoveRight(t, point) ==
  LET p == expand_wide(t, point, "Right")
  IN  IF CellAt(t, p).wrap THEN PointAt(t, LineOf(t, p) + 1, 0)
      ELSE IF ColumnOf(t, p) = last_column(t) THEN p ELSE p + 1

MoveFirst(t, point) ==
  LET p == expand_wide(t, point, "Left")
  IN  IF ColumnOf(t, p) = 0 THEN line_search_left(t, p) ELSE p - ColumnOf(t, p)

\* Middle of a screen with one line is above it.
MiddleLine(t, offset) == t.lines \div 2 - 1 - offset

Motions == {"Up", "Down", "Left", "Right", "First", "Last", "FirstOccupied", "High", "Middle",
            "Low", "SemanticLeft", "SemanticRight", "SemanticLeftEnd", "SemanticRightEnd",
            "WordLeft", "WordRight", "WordLeftEnd", "WordRightEnd", "Bracket",
            "ParagraphUp", "ParagraphDown"}

motion(t, p, offset, escapes, m) ==
  CASE m = "Up" -> IF LineOf(t, p) > topmost_line(t) THEN p - t.columns ELSE p
    [] m = "Down" -> IF LineOf(t, p) < bottommost_line(t) THEN p + t.columns ELSE p
    [] m = "Left" -> MoveLeft(t, p)
    [] m = "Right" -> MoveRight(t, p)
    [] m = "First" -> MoveFirst(t, p)
    [] m = "Last" -> last(t, p)
    [] m = "FirstOccupied" -> first_occupied(t, p)
    [] m = "High" -> FirstColumn(t, -offset)
    [] m = "Middle" -> FirstColumn(t, MiddleLine(t, offset))
    [] m = "Low" -> FirstColumn(t, bottommost_line(t) - offset)
    [] m = "SemanticLeft" -> semantic(t, p, "Left", "Left", escapes)
    [] m = "SemanticRight" -> semantic(t, p, "Right", "Left", escapes)
    [] m = "SemanticLeftEnd" -> semantic(t, p, "Left", "Right", escapes)
    [] m = "SemanticRightEnd" -> semantic(t, p, "Right", "Right", escapes)
    [] m = "WordLeft" -> word(t, p, "Left", "Left")
    [] m = "WordRight" -> word(t, p, "Right", "Left")
    [] m = "WordLeftEnd" -> word(t, p, "Left", "Right")
    [] m = "WordRightEnd" -> word(t, p, "Right", "Right")
    [] m = "Bracket" -> IF bracket_search(t, p) = None THEN p ELSE Get(bracket_search(t, p))
    [] m = "ParagraphUp" -> ParagraphUp(t, p)
    [] m = "ParagraphDown" -> ParagraphDown(t, p)

\* ViModeCursor::scroll.
scroll(t, p, lines) ==
  FirstColumn(t, Greatest(topmost_line(t), Least(bottommost_line(t), LineOf(t, p) - lines)))

=============================================================================
