--------------------------- MODULE DisplayDamage ---------------------------
(***************************************************************************)
(* The damage of a frame (display/damage.rs, draw in display/mod.rs).  A   *)
(* frame is drawn as a whole, but the compositor is told which rectangles  *)
(* of it differ from the one before, and keeps what it shows elsewhere.    *)
(* The terminal reports its own damage; the display adds that of the vi    *)
(* cursor, the selection, hints, the line indicator, the preedit text and  *)
(* the bars, some of them for the next frame as well.                      *)
(*                                                                         *)
(* The terminal is reduced to what TermDamage shows of it: a cell changes  *)
(* inside the damage that is reported, or one column beside it.  What is   *)
(* drawn is a set of layers, each a cell with what is drawn over its text. *)
(* `shown`, `changed` and `stale` are no state of the program: the layers  *)
(* of the last frame, the cells whose text changed since, and the cells    *)
(* where the compositor shows something else than what was drawn.          *)
(***************************************************************************)
EXTENDS Integers, Sequences, FiniteSets

CONSTANTS WindowLines, WindowColumns, \* cells of the window
          CellSize, Padding,          \* in pixels
          HistoryLines,
          Frames                      \* the kinds of events of a run

VARIABLES viewport, display, kinds

frameVars == <<viewport, display, kinds>>

None == <<>>
Some(x) == <<x>>
Get(o) == o[1]

Smaller(a, b) == IF a < b THEN a ELSE b
Larger(a, b) == IF a > b THEN a ELSE b

Point(line, column) == [line |-> line, column |-> column]

WindowCells == (0 .. (WindowLines - 1)) \X (0 .. (WindowColumns - 1))
LastColumn == WindowColumns - 1

Height == WindowLines * CellSize + 2 * Padding
Width == WindowColumns * CellSize + 2 * Padding

-----------------------------------------------------------------------------
(* Bounds and frames.                                                      *)

undamagedLine == [left |-> WindowColumns, right |-> 0]

expand(bounds, left, right) ==
  [left |-> Smaller(bounds.left, left), right |-> Larger(bounds.right, right)]

is_damaged(bounds) == bounds.left <= bounds.right

NoDamage(lines) == [l \in 0 .. (lines - 1) |-> undamagedLine]

ResetFrame(lines) == [full |-> FALSE, lines |-> NoDamage(lines), rects |-> {}]

DamageLine(f, line, left, right) == [f EXCEPT !.lines[line] = expand(@, left, right)]

DamagePoint(f, p) == DamageLine(f, p.line, p.column, p.column)

FullFrame(f) == [f EXCEPT !.full = TRUE]

\* FrameDamage::intersects.
intersects(f, start, end) ==
  LET within(p) == f.lines[p.line].left <= p.column /\ p.column <= f.lines[p.line].right
  IN  \/ f.full \/ within(start) \/ within(end)
      \/ \E l \in (start.line + 1) .. (end.line - 1) : is_damaged(f.lines[l])

\* DamageTracker::resize.
TrackerResized(d, lines) ==
  [d EXCEPT !.frames = <<FullFrame(ResetFrame(lines)), ResetFrame(lines)>>]

swap_damage(d, lines) == [d EXCEPT !.frames = <<@[2], ResetFrame(lines)>>]

-----------------------------------------------------------------------------
(* Rectangles, in pixels from the bottom left.                             *)

Rect(x, y, width, height) == [x |-> x, y |-> y, width |-> width, height |-> height]

rect_for_line(line, bounds) ==
  Rect(Padding + bounds.left * CellSize, Height - Padding - (line + 1) * CellSize,
       (bounds.right - bounds.left + 1) * CellSize, CellSize)

\* Near cells are included for wide characters.
overdamageRect(r) ==
  LET x == Larger(r.x - CellSize, 0)
      y == Larger(r.y - CellSize \div 2, 0)
  IN  Rect(x, y, Smaller(Larger(Width - x, 0), r.width + 2 * CellSize),
           Smaller(Larger(Height - y, 0), r.height + CellSize))

rects_overlap(a, b) ==
  /\ a.x + a.width >= b.x /\ b.x + b.width >= a.x
  /\ a.y + a.height >= b.y /\ b.y + b.height >= a.y

merge_rects(a, b) ==
  LET x == Smaller(a.x, b.x)
      y == Smaller(a.y, b.y)
  IN  Rect(x, y, Larger(a.x + a.width, b.x + b.width) - x,
           Larger(a.y + a.height, b.y + b.height) - y)

\* RenderDamageIterator: the rectangles of lines line .., the last one still growing.
RECURSIVE RenderDamage(_, _, _)
RenderDamage(f, line, last) ==
  IF line \notin DOMAIN f.lines THEN last
  ELSE IF ~is_damaged(f.lines[line]) THEN RenderDamage(f, line + 1, last)
  ELSE LET r == overdamageRect(rect_for_line(line, f.lines[line]))
       IN  RenderDamage(f, line + 1,
             IF last # <<>> /\ rects_overlap(last[Len(last)], r)
             THEN [last EXCEPT ![Len(last)] = merge_rects(@, r)] ELSE Append(last, r))

shape_frame_damage(f) ==
  IF f.full THEN {Rect(0, 0, Width, Height)}
  ELSE LET lines == RenderDamage(f, 0, <<>>)
       IN  {lines[i] : i \in DOMAIN lines} \cup f.rects

\* The cell of the window lies in one of the rectangles.
InRects(cell, rects) ==
  LET x == Padding + cell[2] * CellSize
      y == Height - Padding - (cell[1] + 1) * CellSize
  IN  \E r \in rects : /\ r.x <= x /\ x + CellSize <= r.x + r.width
                       /\ r.y <= y /\ y + CellSize <= r.y + r.height

-----------------------------------------------------------------------------
(* What is drawn.                                                          *)

\* point_to_viewport, for a point that is visible.
InViewport(v, p) == IF p.line + v.offset \in 0 .. (v.lines - 1)
                    THEN Some(Point(p.line + v.offset, p.column)) ELSE None

\* The cells of the window between two points of the grid.
Between(v, start, end) ==
  {p \in WindowCells :
     /\ p[1] < v.lines
     /\ LET line == p[1] - v.offset
        IN  /\ line >= start.line /\ line <= end.line
            /\ line = start.line => p[2] >= start.column
            /\ line = end.line => p[2] <= end.column}

CursorPoint(v) == IF v.vi = None THEN v.cursor ELSE Get(v.vi)

Hints(d) == {h \in {d.hint, d.vi_hint} : h # None}

\* The columns of the indicator of a line; it is longer for a higher number.
IndicatorColumn(line) == Larger(WindowColumns - (IF line = 0 THEN 1 ELSE 2), 0)

IndicatorLine(v) == IF v.vi = None THEN v.offset ELSE v.lines - 1 - Get(v.vi).line

HasIndicator(v, d) == v.vi # None \/ d.search

\* It is not drawn over the vi cursor.
Obstructed(v) == v.vi # None /\ Get(v.vi).line = -v.offset
                             /\ Get(v.vi).column >= IndicatorColumn(IndicatorLine(v))

\* draw_hyperlink_preview: the lines of the viewport the links are shown in, from the
\* bottom, without those of the mouse and the cursor if there are enough.
PreviewLines(v, d) ==
  LET n         == Cardinality({h \in {<<1, d.hint>>, <<2, d.vi_hint>>} :
                                  h[2] # None /\ (h[2] # None => Get(h[2]).link)})
      protected == IF v.lines > 2 * n
                   THEN {CursorPoint(v).line + v.offset}
                          \cup (IF d.mouse = None THEN {} ELSE {Get(d.mouse) + v.offset})
                   ELSE {}
      free      == (0 .. (v.lines - 1)) \ protected
  IN  {l \in free : Cardinality({k \in free : k > l}) < n}

\* The preedit text is shown at the cursor, moved left at the end of the line.
PreeditPoint(v, d) ==
  IF d.search THEN Some(Point(v.lines, 0)) ELSE InViewport(v, CursorPoint(v))

PreeditCells(v, d) ==
  LET p     == Get(PreeditPoint(v, d))
      end   == Smaller(p.column + d.preedit, WindowColumns)
  IN  {c \in WindowCells : c[1] = p.line /\ c[2] >= end - d.preedit /\ c[2] < end}

MessageLine(v, d) == v.lines + (IF d.search THEN 1 ELSE 0)

\* Every cell with what is drawn over its text.
Layers(v, d) ==
  LET on(cells, layer) == {<<p, layer>> : p \in cells \cap WindowCells}
      range(o) == Between(v, Get(o).start, Get(o).end)
      cursor   == InViewport(v, CursorPoint(v))
  IN  on(IF cursor = None THEN {} ELSE {<<Get(cursor).line, Get(cursor).column>>},
         <<"cursor", v.vi # None>>)
      \cup on(IF v.selection = None THEN {} ELSE range(v.selection), <<"selection">>)
      \cup on(UNION {range(h) : h \in Hints(d)}, <<"underline">>)
      \cup on(IF HasIndicator(v, d) /\ ~Obstructed(v)
              THEN {<<0, c>> : c \in IndicatorColumn(IndicatorLine(v)) .. LastColumn} ELSE {},
              <<"indicator", IndicatorLine(v)>>)
      \cup on(PreviewLines(v, d) \X (0 .. LastColumn), <<"preview">>)
      \cup on(IF d.preedit = 0 \/ PreeditPoint(v, d) = None THEN {} ELSE PreeditCells(v, d),
              <<"preedit", d.preedit>>)
      \cup on(IF d.search THEN {v.lines} \X (0 .. LastColumn) ELSE {}, <<"search">>)
      \cup on(IF d.message = 0 THEN {}
              ELSE (MessageLine(v, d) .. (WindowLines - 1)) \X (0 .. LastColumn),
              <<"message", d.message>>)
      \cup on(IF d.labels \/ d.bell > 0 THEN WindowCells ELSE {}, <<"over", d.labels, d.bell>>)

-----------------------------------------------------------------------------
(* Display::draw.                                                          *)

\* Term::damage, for the lines that are visible: what was recorded, and the old and the
\* new position of the cursor.
TermDamaged(v, f) ==
  LET at(l)     == {p.column : p \in {q \in {v.last_cursor, v.cursor} : q.line = l}}
      bounds(l) == LET b == v.damage[l] IN
                   [left |-> CHOOSE x \in {b.left} \cup at(l) : \A c \in {b.left} \cup at(l) : x <= c,
                    right |-> CHOOSE x \in {b.right} \cup at(l) : \A c \in {b.right} \cup at(l) : x >= c]
      visible(l) == l - v.offset >= 0 /\ is_damaged(bounds(l - v.offset))
  IN  IF v.full THEN FullFrame(f)
      ELSE [f EXCEPT !.lines = [l \in DOMAIN @ |->
              IF visible(l) THEN expand(@[l], bounds(l - v.offset).left, bounds(l - v.offset).right)
              ELSE @[l]]]

\* A hint of an earlier frame is dropped if its text may have changed.
Invalid(v, f, hint) ==
  LET start == InViewport(v, Get(hint).start)
      end   == InViewport(v, Get(hint).end)
  IN  intersects(f, IF start = None THEN Point(0, 0) ELSE Get(start),
                 IF end = None THEN Point(v.lines - 1, LastColumn) ELSE Get(end))

ValidateHint(v, d) ==
  IF d.hint = None THEN d
  ELSE IF d.hint_age > 0 /\ Invalid(v, d.frames[1], d.hint)
  THEN [d EXCEPT !.hint = None, !.hint_age = 2, !.frames[1] = FullFrame(@)]
  ELSE [d EXCEPT !.hint_age = Smaller(@ + 1, 2)]

ValidateViHint(v, d) ==
  IF d.vi_hint = None THEN d
  ELSE IF d.vi_hint_age > 0 /\ Invalid(v, d.frames[1], d.vi_hint)
  THEN [d EXCEPT !.vi_hint = None, !.vi_hint_age = 2, !.frames[1] = FullFrame(@)]
  ELSE [d EXCEPT !.vi_hint_age = Smaller(@ + 1, 2)]

validate_hint_highlights(v, d) == ValidateViHint(v, ValidateHint(v, d))

\* The visual bell, hints and the search damage this frame and the next.
RequiresFull(d) ==
  IF d.bell > 0 \/ d.labels \/ d.search
  THEN [d EXCEPT !.frames = <<FullFrame(@[1]), FullFrame(@[2])>>] ELSE d

damage_vi_cursor(v, d) ==
  LET now    == IF v.vi = None THEN None ELSE Some(Point(Get(v.vi).line + v.offset, Get(v.vi).column))
      point(f, o) == IF o = None THEN f ELSE DamagePoint(f, Get(o))
      f      == point(point(d.frames[1], now), d.old_vi_cursor)
  IN  [d EXCEPT !.old_vi_cursor = now,
                !.frames[1] = IF @.full THEN @ ELSE f]

\* The lines of the old and the new selection.
damage_selection(v, d) ==
  LET hidden(s) == \/ s.end.line + v.offset < 0
                   \/ (IF s.start.line < 0 THEN -s.start.line ELSE s.start.line)
                        < v.offset - (v.lines - 1)
      lines(s)  == IF hidden(s) THEN {}
                   ELSE Larger(s.start.line + v.offset, 0)
                          .. Smaller(Larger(s.end.line + v.offset, 0), v.lines - 1)
      all       == UNION {lines(Get(o)) : o \in {d.old_selection, v.selection} \ {None}}
  IN  [d EXCEPT !.old_selection = v.selection,
                !.frames[1].lines =
                   IF d.frames[1].full \/ d.old_selection = v.selection THEN @
                   ELSE [l \in DOMAIN @ |-> IF l \in all THEN expand(@[l], 0, LastColumn) ELSE @[l]]]

\* Underlined cells of hints.
DamageHints(v, d) ==
  LET cells == UNION {Between(v, Get(h).start, Get(h).end) : h \in Hints(d)}
      cols(l) == {p[2] : p \in {q \in cells : q[1] = l}}
  IN  [d EXCEPT !.frames[1].lines = [l \in DOMAIN @ |->
         IF cols(l) = {} THEN @[l]
         ELSE expand(@[l], CHOOSE c \in cols(l) : \A e \in cols(l) : c <= e,
                     CHOOSE c \in cols(l) : \A e \in cols(l) : c >= e)]]

\* A line of this frame and of the next.
DamageBoth(d, line, left, right) ==
  [d EXCEPT !.frames = <<DamageLine(@[1], line, left, right), DamageLine(@[2], line, left, right)>>]

\* Mutant: the indicator is damaged in this frame only.
draw_line_indicator_once(v, d) ==
  IF HasIndicator(v, d)
  THEN [d EXCEPT !.frames[1] = DamageLine(@, 0, IndicatorColumn(IndicatorLine(v)), LastColumn)] ELSE d

draw_line_indicator(v, d) ==
  IF HasIndicator(v, d)
  THEN DamageBoth(d, 0, IndicatorColumn(IndicatorLine(v)), LastColumn) ELSE d

draw_ime_preview(v, d) ==
  LET p == PreeditPoint(v, d)
  IN  IF d.preedit = 0 \/ p = None THEN d
      ELSE IF Get(p).line < v.lines THEN DamageBoth(d, Get(p).line, 0, WindowColumns) ELSE d

\* "Always damage message bar, since it could have messages of the same size in it."
DrawMessage(v, d) ==
  LET y == CellSize * MessageLine(v, d) + Padding
  IN  IF d.message = 0 THEN d
      ELSE [d EXCEPT !.frames[1].rects = @ \cup {Rect(0, 0, Width, Height - y)}]

draw_hyperlink_preview(v, d) ==
  LET lines == PreviewLines(v, d)
      damaged(f) == [f EXCEPT !.lines = [l \in DOMAIN @ |->
                       IF l \in lines THEN expand(@[l], 0, WindowColumns) ELSE @[l]]]
  IN  [d EXCEPT !.frames = <<damaged(@[1]), damaged(@[2])>>]

\* All damage of the frame, in the order of `draw`.
FrameDamage(v, d) ==
  LET hinted   == validate_hint_highlights(v, [d EXCEPT !.frames[1] = TermDamaged(v, @)])
      moved    == damage_selection(v, damage_vi_cursor(v, RequiresFull(hinted)))
      overlaid == draw_ime_preview(v, draw_line_indicator(v, DamageHints(v, moved)))
  IN  draw_hyperlink_preview(v, DrawMessage(v, overlaid))

\* The frame is presented: what the compositor does not take over stays as it was.
DrawFrame ==
  LET d      == FrameDamage(viewport, display)
      rects  == shape_frame_damage(d.frames[1])
      layers == Layers(viewport, d)
      text   == {<<p[1] + viewport.offset, p[2]>> : p \in viewport.changed}
      differ == text \cup {x[1] : x \in (layers \ display.shown) \cup (display.shown \ layers)}
  IN  /\ viewport' = [viewport EXCEPT !.full = FALSE, !.damage = NoDamage(viewport.lines),
                                      !.last_cursor = viewport.cursor, !.changed = {}]
      /\ display' = [swap_damage(d, viewport.lines) EXCEPT
                       !.shown = layers,
                       !.stale = {p \in (@ \cup differ) \cap WindowCells : ~InRects(p, rects)}]

-----------------------------------------------------------------------------
(* The terminal.                                                           *)

Clamp(x, low, high) == Smaller(Larger(x, low), high)

\* The vi cursor stays in the viewport.
ViClamped(v) ==
  [v EXCEPT !.vi = IF @ = None THEN None
                   ELSE Some([Get(@) EXCEPT !.line = Clamp(@, -v.offset, v.lines - 1 - v.offset)])]

Does(kind) == kind \in kinds

\* A cell is written: the damage that is recorded has it, or the cell beside it that
\* is the other half of a wide character.
Output ==
  /\ viewport.changed = {}
  /\ \E line \in 0 .. (viewport.lines - 1), c, e \in 0 .. LastColumn :
       /\ e \in (c - 1) .. (c + 1)
       /\ viewport' = [viewport EXCEPT !.changed = @ \cup {<<line, c>>},
                                       !.damage[line] = expand(@, e, e)]
  /\ UNCHANGED display

MoveTextCursor ==
  /\ \E line \in 0 .. (viewport.lines - 1), c \in {0, LastColumn} :
       viewport' = [viewport EXCEPT !.cursor = Point(line, c)]
  /\ UNCHANGED display

\* The lines go up by one; what is displayed of the history stays, as far as it goes.
ScrollText ==
  /\ ~viewport.full
  /\ LET v == viewport
         up(p) == [p EXCEPT !.line = @ - 1]
     IN  viewport' = ViClamped(
           [v EXCEPT !.full = TRUE, !.changed = (0 .. (v.lines - 1)) \X (0 .. LastColumn),
                     !.offset = IF @ = 0 THEN 0 ELSE Smaller(@ + 1, HistoryLines),
                     !.vi = IF @ = None THEN None ELSE Some(up(Get(@))),
                     !.selection = IF @ = None THEN None
                                   ELSE IF Get(@).start.line - 1 < -HistoryLines THEN None
                                   ELSE Some([start |-> up(Get(@).start), end |-> up(Get(@).end)])])
  /\ UNCHANGED display

TerminalStep == (Does("text") /\ (Output \/ MoveTextCursor)) \/ (Does("scroll") /\ ScrollText)

-----------------------------------------------------------------------------
(* Events of the window, and what follows a batch of them.                 *)

\* Display::handle_update and Term::resize.
HandleUpdate(v, d) ==
  LET lines == Larger(WindowLines - (IF d.search THEN 1 ELSE 0) - (IF d.message > 0 THEN 1 ELSE 0), 1)
  IN  IF lines = v.lines THEN [v |-> v, d |-> d]
      ELSE [v |-> ViClamped([v EXCEPT !.lines = lines, !.full = TRUE, !.damage = NoDamage(lines),
                                      !.last_cursor = Point(0, 0), !.changed = {},
                                      !.cursor.line = Smaller(@, lines - 1),
                                      !.selection = IF @ = None THEN None
                                                    ELSE IF Get(@).end.line >= lines THEN None ELSE @]),
            d |-> TrackerResized(d, lines)]

\* The mouse is not over the text, or there is a selection.
NotHovered(d) ==
  IF d.hint = None THEN d ELSE [d EXCEPT !.hint = None, !.frames[1] = FullFrame(@)]

Hovered(d, hint) ==
  LET moved == [d EXCEPT !.hint = hint, !.hint_age = 0,
                         !.mouse = IF hint # None THEN Some(Get(hint).start.line)
                                   ELSE IF d.hint # None THEN None ELSE @]
  IN  IF d.hint # hint THEN [moved EXCEPT !.frames[1] = FullFrame(@)] ELSE moved

update_highlighted_hints(d, viHint, hint, inside) ==
  LET vi == [d EXCEPT !.vi_hint = viHint, !.vi_hint_age = 0,
                      !.frames[1] = IF d.vi_hint # viHint THEN FullFrame(@) ELSE @]
  IN  IF inside THEN Hovered(vi, hint) ELSE NotHovered(vi)

\* The hint of a line: a link on the even lines, a match of a regex on the others.
HintOn(line) ==
  Some([start |-> Point(line, 0), end |-> Point(line, WindowColumns - 2), link |-> line % 2 = 0])

\* The update that is pending, then the hints at the vi cursor and at the mouse.
Batch(v1, d1) ==
  LET u == HandleUpdate(v1, d1)
      v == u.v
      visible == (-v.offset) .. (v.lines - 1 - v.offset)
  IN  /\ viewport' = v
      /\ IF ~Does("hint") THEN display' = u.d
         ELSE \E viHint \in {None} \cup (IF v.vi = None THEN {} ELSE {HintOn(Get(v.vi).line)}),
                 hint \in {None} \cup {HintOn(l) : l \in visible}, inside \in BOOLEAN :
                /\ hint # None => inside
                /\ inside => v.selection = None
                /\ display' = update_highlighted_hints(u.d, viHint, hint, inside)

MouseMoved == Does("hint") /\ Batch(viewport, display)

\* Term::scroll_display.
ScrollDisplay ==
  /\ Does("display")
  /\ \E offset \in 0 .. HistoryLines :
       /\ offset # viewport.offset
       /\ Batch(ViClamped([viewport EXCEPT !.offset = offset, !.full = TRUE]), display)

\* Term::toggle_vi_mode.
ToggleViMode ==
  /\ Does("vi")
  /\ LET v == viewport
         at == IF v.cursor.line > v.lines - 1 - v.offset THEN Point(-v.offset, 0) ELSE v.cursor
     IN  Batch([v EXCEPT !.vi = IF @ = None THEN Some(at) ELSE None], display)

ViMotion ==
  /\ viewport.vi # None
  /\ \E line \in (-viewport.offset) .. (viewport.lines - 1 - viewport.offset),
        c \in {0, LastColumn} :
       Batch([viewport EXCEPT !.vi = Some(Point(line, c))], display)

Select ==
  /\ Does("select")
  /\ \/ Batch([viewport EXCEPT !.selection = None], display)
     \/ \E start, end \in (-HistoryLines) .. (viewport.lines - 1) :
          /\ start <= end
          /\ Batch([viewport EXCEPT !.selection = Some([start |-> Point(start, 1), end |-> Point(end, 1)])],
                   display)

Search == Does("search") /\ Batch(viewport, [display EXCEPT !.search = ~@])

Labels == Does("search") /\ Batch(viewport, [display EXCEPT !.labels = ~@])

Preedit ==
  /\ Does("ime")
  /\ \E n \in 0 .. 2 : Batch(viewport, [display EXCEPT !.preedit = n])

Message ==
  /\ Does("message")
  /\ \E id \in 0 .. 2 : Batch(viewport, [display EXCEPT !.message = id])

Ring == Does("bell") /\ Batch(viewport, [display EXCEPT !.bell = 2])

\* Time goes by.
Fade ==
  /\ display.bell > 0
  /\ display' = [display EXCEPT !.bell = @ - 1]
  /\ UNCHANGED viewport

\* A new font, or a graphics context that was lost.
NewRenderer ==
  /\ Does("bell")
  /\ display' = [display EXCEPT !.frames[1] = FullFrame(@)]
  /\ UNCHANGED viewport

FrameInit ==
  /\ viewport = [lines |-> WindowLines, offset |-> 0, cursor |-> Point(0, 0),
                 last_cursor |-> Point(0, 0), full |-> TRUE, damage |-> NoDamage(WindowLines),
                 vi |-> None, selection |-> None, changed |-> {}]
  /\ display = [frames |-> <<FullFrame(ResetFrame(WindowLines)), ResetFrame(WindowLines)>>,
                old_vi_cursor |-> None, old_selection |-> None,
                hint |-> None, hint_age |-> 0, vi_hint |-> None, vi_hint_age |-> 0,
                mouse |-> None, search |-> FALSE, labels |-> FALSE, bell |-> 0,
                preedit |-> 0, message |-> 0, shown |-> {}, stale |-> {}]

FrameStep ==
  \/ TerminalStep
  \/ MouseMoved \/ ScrollDisplay \/ ToggleViMode \/ ViMotion \/ Select
  \/ Search \/ Labels \/ Preedit \/ Message \/ Ring \/ Fade \/ NewRenderer
  \/ DrawFrame

-----------------------------------------------------------------------------
\* After every frame the compositor shows what was drawn: whatever changed since the
\* frame before, text, cursors, selection, highlights or bars, is inside the damage.
FrameShown == display.stale = {}

=============================================================================
