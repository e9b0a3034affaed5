------------------------------- MODULE Grid --------------------------------
(***************************************************************************)
(* The terminal grid's lines (grid/mod.rs, and the line half of            *)
(* grid/resize.rs): a screen of `lines` rows over a ring buffer, a         *)
(* scrollback of at most `max_scroll_limit` rows above it, and the offset  *)
(* `display_offset` of the displayed part.  Cursors are reduced to their   *)
(* line.  Columns, and the reflow a change of width causes, are left out.  *)
(*                                                                         *)
(* Inputs are those Term can pass: a scroll region inside the screen, and  *)
(* as many positions as Term::scroll_up_relative, scroll_down_relative,    *)
(* clear_viewport and the resize functions can ask for.                    *)
(***************************************************************************)
EXTENDS Storage

CONSTANTS MaxLines,        \* tallest screen
          HistoryLimits    \* values of the scrolling.history option

ASSUME LinesAssumption == MaxLines \in Nat \ {0}

ASSUME LimitsAssumption == HistoryLimits \subseteq Nat

VARIABLES raw,               \* Storage
          lines,             \* number of visible lines
          display_offset,    \* lines the display is scrolled back
          max_scroll_limit,  \* maximum number of lines in history
          cursor,            \* cursor.point.line
          saved_cursor       \* saved_cursor.point.line

vars == <<raw, lines, display_offset, max_scroll_limit, cursor, saved_cursor>>

cursors == <<cursor, saved_cursor>>

\* raw.len() - lines, saturating
HistorySize(s, n) == Larger(s.len - n, 0)

history_size == HistorySize(raw, lines)

Init ==
  /\ lines \in 1 .. MaxLines
  /\ raw = with_capacity(lines)
  /\ display_offset = 0
  /\ max_scroll_limit \in HistoryLimits
  /\ cursor = 0
  /\ saved_cursor = 0

-----------------------------------------------------------------------------
(* Scrolling.                                                              *)

increase_scroll_limit(s, n, count) ==
  LET more == Smaller(count, max_scroll_limit - HistorySize(s, n))
  IN  IF more # 0 THEN initialize(s, more) ELSE s

\* Mutant: the offset is not moved with the text.
FollowText_pinned(positions) == display_offset

\* display_offset after scrolling text up by `positions`.
FollowText(positions) ==
  IF display_offset # 0
  THEN Smaller(display_offset + positions, max_scroll_limit)
  ELSE 0

\* Mutant: the rows that enter the screen are not cleared.
ScrollRowsUp_uncleared(s, n, start, end, positions) ==
  IF start = 0
  THEN SwapEach(rotate(increase_scroll_limit(s, n, positions), -positions),
                LineRangeRev(end, n), -positions)
  ELSE SwapEach(s, LineRange(start, end - positions), positions)

\* The rows after scroll_up of region start..end on a screen of n lines.  Rows
\* enter the history only if the region starts at the top of the screen.
ScrollRowsUp(s, n, start, end, positions) ==
  LET rotated == rotate(increase_scroll_limit(s, n, positions), -positions)
      moved   == IF start = 0
                 THEN SwapEach(rotated, LineRangeRev(end, n), -positions)
                 ELSE SwapEach(s, LineRange(start, end - positions), positions)
  IN  ResetLines(moved, end - positions, end)

scroll_up(start, end, positions) ==
  /\ IF end - start <= positions /\ start # 0
     THEN /\ raw' = ResetLines(raw, start, end)
          /\ UNCHANGED display_offset
     ELSE /\ raw' = ScrollRowsUp(raw, lines, start, end, positions)
          /\ display_offset' = FollowText(positions)
  /\ UNCHANGED <<lines, max_scroll_limit, cursors>>

\* Without scrollback the whole buffer is rotated, with it rows are swapped.
ScrollRowsDown(start, end, positions) ==
  IF max_scroll_limit = 0
  THEN LET placed  == SwapEach(raw, LineRange(end, lines), -positions)
           rotated == rotate_down(placed, positions)
           cleared == ResetLines(rotated, 0, positions)
       IN  SwapEach(cleared, LineRange(0, start), positions)
  ELSE ResetLines(SwapEach(raw, LineRangeRev(start + positions, end),
                           -positions),
                  start, start + positions)

scroll_down(start, end, positions) ==
  /\ raw' = IF end - start <= positions
            THEN ResetLines(raw, start, end)
            ELSE ScrollRowsDown(start, end, positions)
  /\ UNCHANGED <<lines, display_offset, max_scroll_limit, cursors>>

-----------------------------------------------------------------------------
(* Display.                                                                *)

\* Scroll::Delta, PageUp, PageDown, Top and Bottom.
scroll_display(scroll) ==
  /\ display_offset' =
       CASE scroll = "PageUp"   -> Smaller(display_offset + lines, history_size)
         [] scroll = "PageDown" -> Larger(display_offset - lines, 0)
         [] scroll = "Top"      -> history_size
         [] scroll = "Bottom"   -> 0
         [] scroll = "LineUp"   -> Smaller(display_offset + 1, history_size)
         [] scroll = "LineDown" -> Smaller(Larger(display_offset - 1, 0),
                                           history_size)
  /\ UNCHANGED <<raw, lines, max_scroll_limit, cursors>>

Scrolls == {"PageUp", "PageDown", "Top", "Bottom", "LineUp", "LineDown"}

update_history(limit) ==
  /\ raw' = IF history_size > limit
            THEN shrink_lines(raw, history_size - limit)
            ELSE raw
  /\ display_offset' = Smaller(display_offset, limit)
  /\ max_scroll_limit' = limit
  /\ UNCHANGED <<lines, cursors>>

clear_history ==
  /\ raw' = shrink_lines(raw, history_size)
  /\ display_offset' = 0
  /\ UNCHANGED <<lines, max_scroll_limit, cursors>>

-----------------------------------------------------------------------------
(* Clearing.                                                               *)

reset_region(start, end) ==
  /\ raw' = ResetLines(raw, start, end)
  /\ UNCHANGED <<lines, display_offset, max_scroll_limit, cursors>>

TextLines == {i \in 0 .. (lines - 1) : RowAt(raw, i) # Blank}

\* The iterator goes back from the last cell to the first cell with text, or
\* to the line above the screen, or to the first cell of the whole grid.
ViewportPositions ==
  IF TextLines # {}
  THEN 1 + CHOOSE i \in TextLines : \A j \in TextLines : j <= i
  ELSE IF history_size > 0 THEN 0 ELSE 1

clear_viewport ==
  /\ raw' = LET up == ScrollRowsUp(raw, lines, 0, lines, ViewportPositions)
            IN  ResetLines(up, 0, lines - ViewportPositions)
  /\ display_offset' = FollowText(ViewportPositions)
  /\ UNCHANGED <<lines, max_scroll_limit, cursors>>

reset ==
  /\ raw' = LET s == shrink_lines(raw, history_size)
            IN  ResetLines(s, -HistorySize(s, lines), lines)
  /\ display_offset' = 0
  /\ cursor' = 0
  /\ saved_cursor' = 0
  /\ UNCHANGED <<lines, max_scroll_limit>>

-----------------------------------------------------------------------------
(* Change of height.                                                       *)

grow_lines(target) ==
  LET lines_added  == target - lines
      grown        == grow_visible_lines(raw, target)
      from_history == Smaller(HistorySize(grown, target), lines_added)
      delta        == lines_added - from_history
      scrolled     == IF delta # 0
                      THEN ScrollRowsUp(grown, target, 0, target, delta)
                      ELSE grown
      offset       == IF delta # 0 THEN FollowText(delta) ELSE display_offset
      count        == Smaller(lines_added, HistorySize(scrolled, target))
      shrunk       == IF count # 0 THEN shrink_lines(scrolled, count) ELSE scrolled
      lowered      == Larger(offset - lines_added, 0)
  IN  /\ raw' = shrunk
      /\ lines' = target
      /\ cursor' = cursor + from_history
      /\ saved_cursor' = saved_cursor + from_history
      /\ display_offset' = IF count # 0
                           THEN Smaller(lowered, HistorySize(shrunk, target))
                           ELSE lowered
      /\ UNCHANGED max_scroll_limit

\* Mutant: the cursor is clamped, and the rows above it stay where they are.
shrink_screen_unscrolled(target) ==
  /\ raw' = shrink_visible_lines(rotate(raw, lines - target), target)
  /\ lines' = target
  /\ cursor' = Smaller(cursor, target - 1)
  /\ saved_cursor' = Smaller(saved_cursor, target - 1)
  /\ UNCHANGED <<display_offset, max_scroll_limit>>

shrink_screen(target) ==
  LET required == Larger(cursor + 1 - target, 0)
      scrolled == IF required > 0
                  THEN ScrollRowsUp(raw, lines, 0, lines, required)
                  ELSE raw
  IN  /\ raw' = shrink_visible_lines(rotate(scrolled, lines - target), target)
      /\ lines' = target
      /\ cursor' = IF required > 0 THEN Smaller(cursor, target - 1) ELSE cursor
      /\ saved_cursor' = Smaller(saved_cursor, target - 1)
      /\ display_offset' = IF required > 0 THEN FollowText(required)
                                           ELSE display_offset
      /\ UNCHANGED max_scroll_limit

resize(target) ==
  \/ lines < target /\ grow_lines(target)
  \/ lines > target /\ shrink_screen(target)

-----------------------------------------------------------------------------
(* The cursor and what the terminal writes at it.                          *)

write(row) ==
  /\ raw' = SetRow(raw, cursor, row)
  /\ UNCHANGED <<lines, display_offset, max_scroll_limit, cursors>>

goto(line) ==
  /\ cursor' = line
  /\ UNCHANGED <<raw, lines, display_offset, max_scroll_limit, saved_cursor>>

save_cursor_position ==
  /\ saved_cursor' = cursor
  /\ UNCHANGED <<raw, lines, display_offset, max_scroll_limit, cursor>>

restore_cursor_position ==
  /\ cursor' = saved_cursor
  /\ UNCHANGED <<raw, lines, display_offset, max_scroll_limit, saved_cursor>>

Next ==
  \/ \E end \in 1 .. lines : \E start \in 0 .. (end - 1), p \in 0 .. end :
       scroll_up(start, end, p)
  \/ \E end \in 1 .. lines : \E start \in 0 .. (end - 1) : \E p \in 0 .. (end - start) :
       scroll_down(start, end, p)
  \/ \E scroll \in Scrolls : scroll_display(scroll)
  \/ \E limit \in HistoryLimits : update_history(limit)
  \/ clear_history
  \/ \E end \in 1 .. lines : \E start \in 0 .. end : reset_region(start, end)
  \/ clear_viewport
  \/ reset
  \/ \E target \in 1 .. MaxLines : resize(target)
  \/ \E row \in Rows : write(row)
  \/ \E line \in 0 .. (lines - 1) : goto(line)
  \/ save_cursor_position
  \/ restore_cursor_position

Spec == Init /\ [][Next]_vars

-----------------------------------------------------------------------------
(* Properties.                                                             *)

\* Every number has its type.
TypeOK ==
  /\ raw.cap \in Nat
  /\ raw.zero \in Nat
  /\ raw.visible_lines \in Nat
  /\ raw.len \in Nat
  /\ lines \in 1 .. MaxLines
  /\ display_offset \in Nat
  /\ max_scroll_limit \in HistoryLimits
  /\ cursor \in Nat
  /\ saved_cursor \in Nat

\* compute_index stays inside the buffer for every line of the grid, and two
\* lines never share a slot.  The unsafe pointer swap of Storage::swap relies on
\* the first part, every write to a row on the second.
SlotsDistinct ==
  LET all == (-history_size) .. (lines - 1)
  IN  /\ \A i \in all : compute_index(raw, i) \in 0 .. (raw.cap - 1)
      /\ \A i, j \in all :
           compute_index(raw, i) = compute_index(raw, j) => i = j

\* The history never outgrows its limit.  increase_scroll_limit subtracts the one
\* from the other, in usize.
HistoryWithinLimit == history_size <= max_scroll_limit

\* Both cursors stay on the screen through every scroll, reset and resize; rows
\* are indexed by them without a further check.
CursorsOnScreen == cursor < lines /\ saved_cursor < lines

\* "Maximum number of buffered lines outside of the grid": shrinking frees rows
\* often enough for the cache never to hold more.
CacheBounded == raw.cap <= raw.len + MAX_CACHE_SIZE

\* The display never reaches above the history.  Storage::compute_index asserts
\* it of every line that display_iter visits.
DisplayWithinHistory == display_offset <= history_size

\* Line i of the screen with the display scrolled back.
DisplayedRow(i) == RowAt(raw, i - display_offset)

\* A display that is scrolled back stays stationary while text scrolls into the
\* history, as long as the history has room for it (Grid::display_offset).
DisplayStationary ==
  [][\A end \in 1 .. lines, p \in 1 .. lines :
       /\ p <= end
       /\ scroll_up(0, end, p)
       /\ display_offset \in 1 .. history_size
       /\ display_offset + p <= max_scroll_limit
       => \A i \in 0 .. (Smaller(display_offset, lines) - 1) :
            DisplayedRow(i)' = DisplayedRow(i)]_vars

\* Changing the height moves the cursor with the row it is on, whether rows come
\* from the history, go to it, or fall off the bottom.
CursorKeepsRow ==
  [][lines' # lines => RowAt(raw', cursor') = RowAt(raw, cursor)]_vars

-----------------------------------------------------------------------------
(* The grid implements the scrollback: the ring buffer, its cached rows    *)
(* and the swaps are invisible.                                            *)

HistoryRows == [k \in 1 .. history_size |-> RowAt(raw, k - 1 - history_size)]

ScreenRows == [k \in 1 .. lines |-> RowAt(raw, k - 1)]

S == INSTANCE Scrollback WITH history <- HistoryRows, screen <- ScreenRows,
                              limit <- max_scroll_limit

\* No row is lost, duplicated, misplaced or revived from the cache: every
\* operation has the effect the same operation has on two plain sequences.
ImplementsScrollback == S!Spec

Z == INSTANCE GridSize

Sizes == Z!MkGrid(max_scroll_limit, history_size, display_offset, lines,
                  cursor, saved_cursor)

\* The numbers Term computes with are those of the grid: whatever the rows, an
\* operation moves the history, the offset and the cursors as GridSize says.
SizesFollow ==
  [][Z!GridStep(Sizes, Sizes', 1 .. MaxLines, HistoryLimits)]_vars
=============================================================================
