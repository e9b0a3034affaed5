------------------------------- MODULE Cells -------------------------------
(***************************************************************************)
(* Text in the grid and the searches over it (index.rs, term/search.rs and *)
(* Term::expand_wide).  A text `t` has `columns`, `lines` on the screen    *)
(* and the `rows` of the history and the screen, oldest first.  A row has  *)
(* cells `inner` and the bound `occ` on the changed ones; a cell has a     *)
(* character, the part of a wide character it is, the WRAPLINE flag and a  *)
(* background.                                                             *)
(*                                                                         *)
(* A point is one number, line * columns + column, so that the order of    *)
(* points is that of numbers and the arithmetic of Point (add, sub) is     *)
(* that of numbers as well.  Lines of the history are negative.            *)
(***************************************************************************)
EXTENDS Integers, Sequences, FiniteSets

None == <<>>
Some(x) == <<x>>
Get(option) == option[1]

Least(a, b) == IF a <= b THEN a ELSE b
Greatest(a, b) == IF a >= b THEN a ELSE b

opposite(direction) == IF direction = "Right" THEN "Left" ELSE "Right"

\* The nearest member of a set of points, if there is one.
Lowest(points) == CHOOSE p \in points : \A q \in points : p <= q
Highest(points) == CHOOSE p \in points : \A q \in points : p >= q

Default == [c |-> " ", wide |-> "no", wrap |-> FALSE, bg |-> 0]

\* GridCell::is_empty.
is_empty(cell) == cell.c = " " /\ cell.bg = 0 /\ ~cell.wrap /\ cell.wide \in {"no", "wide"}

-----------------------------------------------------------------------------
(* Points.                                                                 *)

history_size(t) == Len(t.rows) - t.lines

topmost_line(t) == -history_size(t)
bottommost_line(t) == t.lines - 1
total_lines(t) == Len(t.rows)

FirstPoint(t) == topmost_line(t) * t.columns
LastPoint(t) == t.lines * t.columns - 1
Points(t) == FirstPoint(t) .. LastPoint(t)

LineOf(t, p) == p \div t.columns
ColumnOf(t, p) == p % t.columns
PointAt(t, line, column) == line * t.columns + column

last_column(t) == t.columns - 1

RowOf(t, line) == t.rows[line + history_size(t) + 1]
CellAt(t, p) == RowOf(t, LineOf(t, p)).inner[ColumnOf(t, p) + 1]

\* Boundary::Grid, and Boundary::None, where the grid is a ring.
Clamped(t, p) == Greatest(FirstPoint(t), Least(LastPoint(t), p))
Ring(t, p) == FirstPoint(t) + ((p - FirstPoint(t)) % (total_lines(t) * t.columns))

\* Point::add and Point::sub of one column, with Boundary::Grid and Boundary::None.
Advanced(t, p, direction) == Clamped(t, IF direction = "Right" THEN p + 1 ELSE p - 1)
Around(t, p, direction) == Ring(t, IF direction = "Right" THEN p + 1 ELSE p - 1)

Spacer(cell) == cell.wide \in {"spacer", "leading"}

Wraps(t, line) == CellAt(t, PointAt(t, line, last_column(t))).wrap

\* The point ends a line that is not wrapped.
Breaks(t, p) == ColumnOf(t, p) = last_column(t) /\ ~CellAt(t, p).wrap

expand_wide(t, p, direction) ==
  LET wide  == CellAt(t, p).wide
      start == IF wide = "spacer" THEN p - 1 ELSE p
      prev  == Clamped(t, start - 1)
  IN  CASE direction = "Right" /\ wide = "leading" -> PointAt(t, LineOf(t, p) + 1, 1)
        [] direction = "Right" /\ wide = "wide" ->
             IF ColumnOf(t, p) = last_column(t) THEN p ELSE p + 1
        [] direction = "Left" /\ wide \in {"wide", "spacer"} ->
             IF CellAt(t, prev).wide = "leading" THEN prev ELSE start
        [] OTHER -> p

-----------------------------------------------------------------------------
(* Lines, words and brackets.                                              *)

line_search_left(t, p) ==
  LET line == LineOf(t, p)
      up   == {k \in topmost_line(t) .. line : \A l \in k .. (line - 1) : Wraps(t, l)}
  IN  PointAt(t, Lowest(up), 0)

line_search_right(t, p) ==
  LET line == LineOf(t, p)
      down == {k \in line .. bottommost_line(t) : \A l \in line .. (k - 1) : Wraps(t, l)}
  IN  PointAt(t, Highest(down), last_column(t))

\* A character of `needles`, if there is one in the line; the start of it otherwise.
inline_search_left(t, p, needles) ==
  LET from  == Greatest(LineOf(t, p), topmost_line(t)) * t.columns + ColumnOf(t, p)
      start == Lowest({q \in FirstPoint(t) .. from : \A r \in q .. (from - 1) : ~Breaks(t, r)})
      found == {q \in start .. (from - 1) : ~Spacer(CellAt(t, q)) /\ CellAt(t, q).c \in needles}
  IN  IF found = {} THEN [ok |-> FALSE, point |-> start]
      ELSE [ok |-> TRUE, point |-> Highest(found)]

inline_search_right(t, p, needles) ==
  LET from  == Greatest(LineOf(t, p), topmost_line(t)) * t.columns + ColumnOf(t, p)
      stop  == Highest({q \in from .. LastPoint(t) : \A r \in from .. (q - 1) : ~Breaks(t, r)})
      found == {q \in (from + 1) .. stop : ~Spacer(CellAt(t, q)) /\ CellAt(t, q).c \in needles}
  IN  IF found = {} THEN [ok |-> FALSE, point |-> stop]
      ELSE [ok |-> TRUE, point |-> Lowest(found)]

semantic_search_left(t, p, escapes) ==
  LET hit   == inline_search_left(t, p, escapes)
      after == {q \in (hit.point + 1) .. LastPoint(t) : ~Spacer(CellAt(t, q))}
  IN  IF hit.ok /\ after # {} THEN Lowest(after) ELSE hit.point

semantic_search_right(t, p, escapes) ==
  LET hit == inline_search_right(t, p, escapes)
  IN  IF hit.ok /\ hit.point > FirstPoint(t) THEN hit.point - 1 ELSE hit.point

BRACKET_PAIRS == {<<"(", ")">>, <<"[", "]">>}


\* Brackets of the same kind are skipped in pairs.
bracket_search(t, p) ==
  LET c       == CellAt(t, p).c
      pair    == CHOOSE b \in BRACKET_PAIRS : c \in {b[1], b[2]}
      forward == c = pair[1]
      other   == IF forward THEN pair[2] ELSE pair[1]
      between(q) == IF forward THEN (p + 1) .. (q - 1) ELSE (q + 1) .. (p - 1)
      count(q, char) == Cardinality({r \in between(q) : CellAt(t, r).c = char})
      beyond  == IF forward THEN (p + 1) .. LastPoint(t) ELSE FirstPoint(t) .. (p - 1)
      found   == {q \in beyond : CellAt(t, q).c = other /\ count(q, c) = count(q, other)}
  IN  IF ~\E b \in BRACKET_PAIRS : c \in {b[1], b[2]} THEN None
      ELSE IF found = {} THEN None
      ELSE Some(IF forward THEN Lowest(found) ELSE Highest(found))

-----------------------------------------------------------------------------
(* Regular expressions.  The automata (regex_automata) are external: a     *)
(* regex is a word here, and a match has as many characters.               *)

\* Where the iterator is once it has read the character at p, a wide one whole, and
\* the cell it has read it from.
skip_fullwidth(t, p, direction) ==
  LET cell  == CellAt(t, p)
      after == Least(p + 1, LastPoint(t))
      prev  == Greatest(p - 1, FirstPoint(t))
      lead  == Clamped(t, prev - 1)
  IN  CASE direction = "Right" /\ cell.wide = "wide" /\ ColumnOf(t, p) < last_column(t) ->
             [point |-> after, read |-> p]
        [] direction = "Right" /\ cell.wide = "leading" ->
             [point |-> Least(p + 2, LastPoint(t)), read |-> after]
        [] direction = "Left" /\ cell.wide = "spacer" ->
             [point |-> IF CellAt(t, lead).wide = "leading" THEN lead ELSE prev, read |-> prev]
        [] OTHER -> [point |-> p, read |-> p]

\* The sequence ends with the word.
Suffix(text, word) ==
  Len(word) <= Len(text) /\ SubSeq(text, Len(text) - Len(word) + 1, Len(text)) = word

\* A line break between two characters that are read one after the other.
LineBreak(t, last, point) ==
  \/ ColumnOf(t, last) = last_column(t) /\ ColumnOf(t, point) = 0 /\ ~CellAt(t, last).wrap
  \/ ColumnOf(t, last) = 0 /\ ColumnOf(t, point) = last_column(t) /\ ~CellAt(t, point).wrap

\* From a position with the characters read since the last line break: the far side
\* of the first match, up to `end` and around the scrollback.
RECURSIVE Scan(_, _, _, _, _, _, _)
Scan(t, at, end, direction, word, read, done) ==
  LET text == Append(read, CellAt(t, at.read).c)
      next == Around(t, at.point, direction)
      then == skip_fullwidth(t, next, direction)
  IN  IF Suffix(text, word) THEN Some(at.point)
      ELSE IF at.point = end \/ done THEN None
      ELSE Scan(t, then, end, direction, word,
                IF LineBreak(t, at.point, then.point) THEN <<>> ELSE text, next = end)

Reversed(word) == [i \in DOMAIN word |-> word[Len(word) + 1 - i]]

regex_search(t, start, end, direction, word) ==
  Scan(t, skip_fullwidth(t, start, direction), end, direction,
       IF direction = "Right" THEN word ELSE Reversed(word), <<>>, FALSE)

\* A match [start, end]; the far side is found first, then the near one from there.
MatchOf(direction, far, near) ==
  IF near = None THEN None
  ELSE IF direction = "Right" THEN Some([start |-> Get(near), end |-> far])
  ELSE Some([start |-> far, end |-> Get(near)])

MatchEnding(t, start, direction, word, far) ==
  IF far = None THEN None
  ELSE MatchOf(direction, Get(far),
               regex_search(t, Get(far), start, opposite(direction), word))

regex_search_toward(t, start, end, direction, word) ==
  MatchEnding(t, start, direction, word, regex_search(t, start, end, direction, word))

\* RegexIter: the matches from a point to another.  In both directions the next one
\* is searched beyond the end of the last.
RECURSIVE MatchesFrom(_, _, _, _, _, _)
MatchesFrom(t, start, end, direction, word, match) ==
  LET next == Around(t, expand_wide(t, Get(match).end, direction), direction)
  IN  IF match = None THEN <<>>
      ELSE IF start = end \/ Get(match).end = end THEN match
      ELSE match \o MatchesFrom(t, next, end, direction, word,
                                regex_search_toward(t, next, end, direction, word))

RegexIter(t, start, end, direction, word) ==
  MatchesFrom(t, start, end, direction, word,
              regex_search_toward(t, start, end, direction, word))

match_side(match, side) == IF side = "Right" THEN match.end ELSE match.start

\* The first match that is beyond the origin, or around the end of the grid, or the
\* first one of all.
FirstBeyond(t, matches, start, origin, side, direction) ==
  LET beyond == {i \in DOMAIN matches :
                   LET p == match_side(matches[i], side)
                   IN  IF direction = "Right"
                       THEN LineOf(t, p) < LineOf(t, start) \/ p >= origin
                       ELSE LineOf(t, p) > LineOf(t, start) \/ p <= origin}
  IN  IF matches = <<>> THEN None
      ELSE Some(matches[IF beyond = {} THEN 1 ELSE Lowest(beyond)])

\* Mutant: the first match in the line of the origin.
next_match_right_first(t, word, origin, side, limit) ==
  LET start   == line_search_left(t, origin)
      matches == RegexIter(t, start, Around(t, start, "Left"), "Right", word)
  IN  IF matches = <<>> THEN None ELSE Some(matches[1])

\* The first match beyond the origin, or the first one of all; `limit` lines are
\* searched from the start of the origin's line.
next_match_right(t, word, origin, side, limit) ==
  LET start   == line_search_left(t, origin)
      end     == IF limit = None THEN Around(t, start, "Left")
                 ELSE Ring(t, start + Get(limit) * t.columns) + last_column(t)
  IN  FirstBeyond(t, RegexIter(t, start, end, "Right", word), start, origin, side, "Right")

next_match_left(t, word, origin, side, limit) ==
  LET start   == line_search_right(t, origin)
      end     == IF limit = None THEN Around(t, start, "Right")
                 ELSE LET p == Ring(t, start - Get(limit) * t.columns)
                      IN  p - ColumnOf(t, p)
  IN  FirstBeyond(t, RegexIter(t, start, end, "Left", word), start, origin, side, "Left")

search_next(t, word, origin, direction, side, max_lines) ==
  LET from  == expand_wide(t, origin, direction)
      limit == IF max_lines # None /\ Get(max_lines) + 1 < total_lines(t) THEN max_lines
               ELSE None
  IN  IF direction = "Right" THEN next_match_right(t, word, from, side, limit)
      ELSE next_match_left(t, word, from, side, limit)

=============================================================================
