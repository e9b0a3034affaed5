--------------------------- MODULE GridSizeProofs ---------------------------
(***************************************************************************)
(* The grid moves its sizes as GridSize says, for every screen height,     *)
(* every set of history limits, every cache bound and whatever the rows.   *)
(* Term is a specification over these sizes: with this theorem, what       *)
(* TermProofs shows holds of terminals over real grids.                    *)
(*                                                                         *)
(* GridInv bounds the length of the storage; here the exact number of rows *)
(* that every operation leaves in the history is needed.                   *)
(***************************************************************************)
EXTENDS GridProofs

\* The sizes after a step.
LEMMA SizesAre ==
  /\ Sizes = Z!MkGrid(max_scroll_limit, history_size, display_offset, lines,
                      cursor, saved_cursor)
  /\ Sizes' = Z!MkGrid(max_scroll_limit', history_size', display_offset', lines',
                       cursor', saved_cursor')
  BY DEF Sizes

\* The fields of the sizes.
LEMMA SizesFields ==
  /\ Sizes.limit = max_scroll_limit /\ Sizes.history = history_size
  /\ Sizes.offset = display_offset /\ Sizes.lines = lines
  /\ Sizes.cursor = cursor /\ Sizes.saved = saved_cursor
  BY DEF Sizes, Z!MkGrid

\* The operations of GridSize on the sizes of the grid.
LEMMA SizesOf ==
  ASSUME NEW x
  PROVE  /\ Z!CursorAt(Sizes, x)
              = Z!MkGrid(max_scroll_limit, history_size, display_offset, lines, x,
                         saved_cursor)
         /\ [Sizes EXCEPT !.offset = x]
              = Z!MkGrid(max_scroll_limit, history_size, x, lines, cursor, saved_cursor)
         /\ [Sizes EXCEPT !.saved = x]
              = Z!MkGrid(max_scroll_limit, history_size, display_offset, lines, cursor, x)
         /\ Z!WithHistory(Sizes, x)
              = Z!MkGrid(x, Z!Least(history_size, x), Z!Least(display_offset, x), lines,
                         cursor, saved_cursor)
         /\ Z!WithoutHistory(Sizes)
              = Z!MkGrid(max_scroll_limit, 0, 0, lines, cursor, saved_cursor)
         /\ Z!Blanked(Sizes) = Z!MkGrid(max_scroll_limit, 0, 0, lines, 0, 0)
  <1>1. /\ Z!CursorAt(Sizes, x)
             = Z!MkGrid(max_scroll_limit, history_size, display_offset, lines, x,
                        saved_cursor)
        /\ [Sizes EXCEPT !.offset = x]
             = Z!MkGrid(max_scroll_limit, history_size, x, lines, cursor, saved_cursor)
        /\ [Sizes EXCEPT !.saved = x]
             = Z!MkGrid(max_scroll_limit, history_size, display_offset, lines, cursor, x)
    BY DEF Sizes, Z!MkGrid, Z!CursorAt
  <1> DEFINE h  == Z!Least(history_size, x)
             o  == Z!Least(display_offset, x)
             g1 == [Sizes EXCEPT !.limit = x]
             g2 == [g1 EXCEPT !.history = h]
             g3 == [Sizes EXCEPT !.history = 0]
             g4 == Z!WithoutHistory(Sizes)
             g5 == [g4 EXCEPT !.cursor = 0]
  <1>2. g1 = Z!MkGrid(x, history_size, display_offset, lines, cursor, saved_cursor)
    BY DEF Sizes, Z!MkGrid
  <1>3. Z!WithHistory(Sizes, x) = [g2 EXCEPT !.offset = o]
    BY SizesFields DEF Z!WithHistory
  <1>4. g4 = [g3 EXCEPT !.offset = 0]
    BY DEF Z!WithoutHistory
  <1>5. Z!Blanked(Sizes) = [g5 EXCEPT !.saved = 0]
    BY DEF Z!Blanked
  <1>6. g3 = Z!MkGrid(max_scroll_limit, 0, display_offset, lines, cursor, saved_cursor)
    BY DEF Sizes, Z!MkGrid
  <1> HIDE DEF h, o, g1, g3
  <1>7. g2 = Z!MkGrid(x, h, display_offset, lines, cursor, saved_cursor)
    BY <1>2 DEF Z!MkGrid
  <1> HIDE DEF g2, g4
  <1>8. Z!WithHistory(Sizes, x) = Z!MkGrid(x, h, o, lines, cursor, saved_cursor)
    BY <1>3, <1>7 DEF Z!MkGrid
  <1>9. g4 = Z!MkGrid(max_scroll_limit, 0, 0, lines, cursor, saved_cursor)
    BY <1>4, <1>6 DEF Z!MkGrid
  <1>10. g5 = Z!MkGrid(max_scroll_limit, 0, 0, lines, 0, saved_cursor)
    BY <1>9 DEF Z!MkGrid
  <1> HIDE DEF g5
  <1>11. Z!Blanked(Sizes) = Z!MkGrid(max_scroll_limit, 0, 0, lines, 0, 0)
    BY <1>5, <1>10 DEF Z!MkGrid
  <1> QED
    BY <1>1, <1>8, <1>9, <1>11 DEF h, o, g4

\* The operations on the display.
LEMMA DisplayOf ==
  ASSUME NEW count
  PROVE  /\ Z!Displayed(Sizes, count)
              = Z!MkGrid(max_scroll_limit, history_size,
                         Z!Least(Z!Greatest(display_offset + count, 0), history_size),
                         lines, cursor, saved_cursor)
         /\ Z!PagedDown(Sizes)
              = Z!MkGrid(max_scroll_limit, history_size,
                         Z!Greatest(display_offset - lines, 0),
                         lines, cursor, saved_cursor)
  BY SizesFields, SizesOf DEF Z!Displayed, Z!PagedDown

\* Scrolling, in the case that text moves.
LEMMA ScrolledUpOf ==
  ASSUME NEW start, NEW end, NEW p, ~(end - start <= p /\ start # 0)
  PROVE  Z!ScrolledUp(Sizes, start, end, p)
           = Z!MkGrid(max_scroll_limit,
                      IF start = 0 THEN Z!Least(history_size + p, max_scroll_limit)
                                   ELSE history_size,
                      IF display_offset # 0
                      THEN Z!Least(display_offset + p, max_scroll_limit) ELSE 0,
                      lines, cursor, saved_cursor)
  <1> DEFINE h  == IF start = 0 THEN Z!Least(history_size + p, max_scroll_limit)
                                ELSE history_size
             o  == IF display_offset # 0
                   THEN Z!Least(display_offset + p, max_scroll_limit) ELSE 0
             g1 == [Sizes EXCEPT !.history = h]
  <1>1. Z!ScrolledUp(Sizes, start, end, p) = [g1 EXCEPT !.offset = o]
    BY SizesFields DEF Z!ScrolledUp
  <1> HIDE DEF h, o
  <1>2. g1 = Z!MkGrid(max_scroll_limit, h, display_offset, lines, cursor, saved_cursor)
    BY DEF Sizes, Z!MkGrid
  <1> HIDE DEF g1
  <1>3. Z!ScrolledUp(Sizes, start, end, p)
          = Z!MkGrid(max_scroll_limit, h, o, lines, cursor, saved_cursor)
    BY <1>1, <1>2 DEF Z!MkGrid
  <1> QED
    BY <1>3 DEF h, o

Follows == Z!GridStep(Sizes, Sizes', 1 .. MaxLines, HistoryLimits)

\* A step that keeps the height and the limit and moves the history and the offset
\* like ScrolledUp is one of GridSize.
LEMMA ScrollUpFollows ==
  ASSUME GridInv, GridInv', NEW end \in 1 .. lines, NEW start \in 0 .. (end - 1),
         NEW p \in 0 .. end, scroll_up(start, end, p)
  PROVE  Follows
  <1> USE GridInvFacts
  <1>1. Backs(raw, lines, max_scroll_limit)
    BY DEF GridInv
  <1>2. history_size' = raw'.len - lines
    BY HistoryAfter DEF scroll_up
  <1>3. Sizes' = Z!ScrolledUp(Sizes, start, end, p)
    <2>1. CASE end - start <= p /\ start # 0
      <3>1. raw'.len = raw.len
        BY <2>1, ResetLength DEF scroll_up
      <3>2. history_size' = history_size
        BY <1>2, <3>1
      <3>3. Sizes' = Sizes
        BY <2>1, <3>2, SizesAre DEF scroll_up, cursors
      <3> QED
        BY <2>1, <3>3 DEF Z!ScrolledUp
    <2>2. CASE ~(end - start <= p /\ start # 0)
      <3>1. raw'.len - lines
              = IF start = 0 THEN Smaller(raw.len - lines + p, max_scroll_limit)
                             ELSE raw.len - lines
        <4>1. raw' = ScrollRowsUp(raw, lines, start, end, p)
          BY <2>2 DEF scroll_up
        <4>2. lines \in Nat /\ start \in Nat /\ end \in Nat /\ p \in Nat /\ p <= lines
          OBVIOUS
        <4>3. ScrollRowsUp(raw, lines, start, end, p).len - lines
                = IF start = 0 THEN Smaller(raw.len - lines + p, max_scroll_limit)
                               ELSE raw.len - lines
          BY <1>1, <4>2, ScrollUpLength
        <4> QED
          BY <4>1, <4>3
      <3>2. history_size' = IF start = 0
                            THEN Smaller(history_size + p, max_scroll_limit)
                            ELSE history_size
        BY <1>2, <3>1
      <3>3. display_offset' = IF display_offset # 0
                              THEN Smaller(display_offset + p, max_scroll_limit)
                              ELSE 0
        BY <2>2 DEF scroll_up, FollowText
      <3> QED
        BY <2>2, <3>2, <3>3, SizesAre, ScrolledUpOf
        DEF Z!Least, Smaller, scroll_up, cursors
    <2> QED
      BY <2>1, <2>2
  <1> QED
    BY <1>3, SizesFields DEF Follows, Z!GridStep

\* A step that moves none of the sizes is one of GridSize: the cursor
\* goes to the line it is on.
LEMMA SameSizesFollow ==
  ASSUME GridInv, Sizes' = Sizes
  PROVE  Follows
  <1> USE GridInvFacts
  <1>1. Sizes.lines = lines
    BY SizesFields
  <1>2. Sizes = Z!CursorAt(Sizes, cursor)
    BY SizesAre, SizesOf
  <1> QED
    BY <1>1, <1>2 DEF Follows, Z!GridStep

\* Rows change and no size does.
LEMMA RowsFollow ==
  ASSUME GridInv, GridInv', raw'.len = raw.len,
         UNCHANGED <<lines, display_offset, max_scroll_limit, cursors>>
  PROVE  Follows
  <1> USE GridInvFacts
  <1>1. history_size' = history_size
    BY HistoryAfter
  <1>2. Sizes' = Sizes
    BY <1>1, SizesAre DEF cursors
  <1> QED
    BY <1>2, SameSizesFollow

\* scroll_down keeps the number of rows, on either of its two paths.
LEMMA ScrollDownFollows ==
  ASSUME GridInv, GridInv', NEW end, NEW start, NEW p, scroll_down(start, end, p)
  PROVE  Follows
  <1> DEFINE placed  == SwapEach(raw, LineRange(end, lines), -p)
             rotated == rotate_down(placed, p)
             cleared == ResetLines(rotated, 0, p)
             swapped == SwapEach(raw, LineRangeRev(start + p, end), -p)
  <1>1. placed.len = raw.len /\ swapped.len = raw.len
    BY SwapLength
  <1>2. rotated.len = placed.len
    BY DEF rotate_down, MkStorage
  <1>3. SwapEach(cleared, LineRange(0, start), p).len = rotated.len
    BY ResetLength, SwapLength
  <1>4. ScrollRowsDown(start, end, p).len = raw.len
    BY <1>1, <1>2, <1>3, ResetLength DEF ScrollRowsDown
  <1>5. raw'.len = raw.len
    BY <1>4, ResetLength DEF scroll_down
  <1> QED
    BY <1>5, RowsFollow DEF scroll_down

\* Scrolling the display changes the offset by a delta, a page or all the way.
LEMMA DisplayFollows ==
  ASSUME GridInv, GridInv', NEW scroll \in Scrolls, scroll_display(scroll)
  PROVE  Follows
  <1> USE GridInvFacts
  <1>1. Sizes' = [Sizes EXCEPT !.offset = display_offset']
    <2>1. history_size' = history_size
      BY DEF scroll_display, history_size
    <2> QED
      BY <2>1, SizesAre, SizesOf DEF scroll_display, cursors
  <1>2. /\ scroll = "PageUp" => Sizes' = Z!Displayed(Sizes, Sizes.lines)
        /\ scroll = "LineUp" => Sizes' = Z!Displayed(Sizes, 1)
        /\ scroll = "LineDown" => Sizes' = Z!Displayed(Sizes, -1)
        /\ scroll = "Top" => Sizes' = Z!Displayed(Sizes, Sizes.history)
        /\ scroll = "PageDown" => Sizes' = Z!PagedDown(Sizes)
        /\ scroll = "Bottom" => Sizes' = [Sizes EXCEPT !.offset = 0]
    BY <1>1, SizesAre, SizesOf, DisplayOf, SizesFields
    DEF scroll_display, Z!Least, Z!Greatest, Smaller, Larger
  <1> QED
    BY <1>2 DEF Scrolls, Follows, Z!GridStep

\* A new limit cuts the history and the offset.
LEMMA UpdateHistoryFollows ==
  ASSUME GridInv, GridInv', NEW limit \in HistoryLimits, update_history(limit)
  PROVE  Follows
  <1> USE GridInvFacts, LimitsAssumption
  <1>1. raw'.len - lines = Smaller(history_size, limit)
    <2>1. CASE history_size > limit
      <3> DEFINE k == history_size - limit
      <3>1. k \in Nat /\ k < raw.len /\ limit \in Nat
        BY <2>1
      <3>2. Shape(raw)
        BY DEF GridInv, Backs
      <3>3. raw' = shrink_lines(raw, k)
        BY <2>1 DEF update_history
      <3> HIDE DEF k
      <3>4. raw'.len = raw.len - k
        BY <3>1, <3>2, <3>3, ShrinkShape
      <3> QED
        BY <2>1, <3>4 DEF k, Smaller
    <2>2. CASE ~(history_size > limit)
      BY <2>2 DEF update_history, Smaller
    <2> QED
      BY <2>1, <2>2
  <1>2. history_size' = Smaller(history_size, limit)
    BY <1>1, HistoryAfter DEF update_history
  <1>3. Sizes' = Z!WithHistory(Sizes, limit)
    BY <1>2, SizesAre, SizesOf DEF update_history, cursors, Z!Least, Smaller
  <1> QED
    BY <1>3 DEF Follows, Z!GridStep

\* Clearing the history, alone or with the screen and the cursors.
LEMMA ClearHistoryFollows ==
  ASSUME GridInv, GridInv', clear_history \/ reset
  PROVE  Follows
  <1> USE GridInvFacts
  <1> DEFINE s == shrink_lines(raw, history_size)
  <1>1. history_size \in Nat /\ history_size < raw.len /\ Shape(raw)
    BY DEF GridInv, Backs
  <1>2. s.len = raw.len - history_size
    BY <1>1, ShrinkShape
  <1> HIDE DEF s
  <1>3. raw'.len = s.len
    BY ResetLength DEF clear_history, reset, s
  <1>4. history_size' = 0
    BY <1>2, <1>3, HistoryAfter DEF clear_history, reset
  <1>5. CASE clear_history
    <2>1. Sizes' = Z!WithoutHistory(Sizes)
      BY <1>4, <1>5, SizesAre, SizesOf DEF clear_history, cursors
    <2> QED
      BY <2>1 DEF Follows, Z!GridStep
  <1>6. CASE reset
    <2>1. Sizes' = Z!Blanked(Sizes)
      BY <1>4, <1>6, SizesAre, SizesOf DEF reset
    <2> QED
      BY <2>1 DEF Follows, Z!GridStep
  <1> QED
    BY <1>5, <1>6

\* clear_viewport scrolls the whole screen by the lines with text.
LEMMA ClearViewportFollows ==
  ASSUME GridInv, GridInv', clear_viewport
  PROVE  Follows
  <1> USE GridInvFacts
  <1> DEFINE p  == ViewportPositions
             up == ScrollRowsUp(raw, lines, 0, lines, p)
  <1>1. p \in 0 .. lines
    BY ViewportBound
  <1>2. raw'.len = up.len
    BY ResetLength DEF clear_viewport
  <1>3. display_offset' = FollowText(p)
    BY DEF clear_viewport
  <1> HIDE DEF p
  <1>4. Backs(raw, lines, max_scroll_limit) /\ p \in Nat /\ p <= lines
        /\ 0 \in Nat /\ lines \in Nat
    BY <1>1 DEF GridInv
  <1>5. up.len - lines = Smaller(raw.len - lines + p, max_scroll_limit)
    BY <1>4, ScrollUpLength
  <1> HIDE DEF up
  <1>6. history_size' = Smaller(history_size + p, max_scroll_limit)
    BY <1>2, <1>5, HistoryAfter DEF clear_viewport
  <1>7. Sizes' = Z!Cleared(Sizes, p)
    BY <1>1, <1>3, <1>6, SizesAre, ScrolledUpOf
    DEF clear_viewport, cursors, FollowText, Z!Cleared, Z!Least, Smaller
  <1>8. Sizes.lines = lines
    BY SizesFields
  <1> QED
    BY <1>1, <1>7, <1>8 DEF Follows, Z!GridStep

\* A taller screen.  The rows that fill it come from the history; if there are too
\* few of them, what scrolling the rest in adds to the history is dropped again, and
\* the display is back at the bottom.
LEMMA GrowFollows ==
  ASSUME GridInv, GridInv', NEW target \in 1 .. MaxLines, lines < target,
         grow_lines(target)
  PROVE  Follows
  <1> USE GridInvFacts, LinesAssumption
  <1> DEFINE m            == max_scroll_limit
             h            == history_size
             lines_added  == target - lines
             grown        == grow_visible_lines(raw, target)
             from_history == Smaller(HistorySize(grown, target), lines_added)
             delta        == lines_added - from_history
             up           == ScrollRowsUp(grown, target, 0, target, delta)
             scrolled     == IF delta # 0 THEN up ELSE grown
             offset       == IF delta # 0 THEN FollowText(delta) ELSE display_offset
             count        == Smaller(lines_added, HistorySize(scrolled, target))
             shrunk       == IF count # 0 THEN shrink_lines(scrolled, count)
                                          ELSE scrolled
             lowered      == Larger(offset - lines_added, 0)
             pulled       == Z!Least(h, lines_added)
  <1>1. target \in Nat \ {0} /\ lines_added \in Nat \ {0}
    OBVIOUS
  <1>2. Backs(grown, target, m) /\ grown.len - target = h
    BY <1>1, GrowVisibleBacks DEF GridInv
  <1>3. HistorySize(grown, target) = h
    BY <1>1, <1>2, HistoryOfBacks
  <1>4. from_history = pulled /\ pulled \in 0 .. lines_added /\ pulled <= h
    BY <1>1, <1>3 DEF Smaller, Z!Least
  <1> HIDE DEF from_history
  <1>5. delta \in Nat /\ delta <= target
    BY <1>1, <1>4
  <1> HIDE DEF delta
  <1>6. Backs(up, target, m) /\ up.len - target = Smaller(h + delta, m)
    <2>1. 0 \in Nat /\ target \in Nat
      BY <1>1
    <2>2. up.len - target = Smaller(grown.len - target + delta, m)
      BY <1>2, <1>5, <2>1, ScrollUpLength
    <2> QED
      BY <1>2, <1>5, <2>1, <2>2, ScrollUpBacks
  <1>7. /\ Backs(scrolled, target, m)
        /\ scrolled.len - target = IF delta # 0 THEN Smaller(h + delta, m) ELSE h
        /\ scrolled.len \in Nat
    <2>1. Backs(scrolled, target, m)
      BY <1>2, <1>6
    <2> QED
      BY <2>1, <1>2, <1>6 DEF Backs, Shape
  <1> HIDE DEF scrolled, up, grown
  <1>8. HistorySize(scrolled, target) = scrolled.len - target
        /\ scrolled.len - target \in Nat
    BY <1>1, <1>7, HistoryOfBacks
  <1>9. count \in Nat /\ count <= scrolled.len - target
    BY <1>1, <1>8 DEF Smaller
  <1>10. shrunk.len = scrolled.len - count
    <2>1. CASE count # 0
      <3> HIDE DEF count
      <3>1. count < scrolled.len /\ Shape(scrolled)
        BY <1>1, <1>7, <1>9 DEF Backs
      <3>2. shrink_lines(scrolled, count).len = scrolled.len - count
        BY <1>9, <3>1, ShrinkShape
      <3> QED
        BY <2>1, <3>2
    <2>2. CASE count = 0
      BY <1>7, <2>2
    <2> QED
      BY <2>1, <2>2
  <1>11. /\ raw' = shrunk
         /\ lines' = target
         /\ cursor' = cursor + from_history
         /\ saved_cursor' = saved_cursor + from_history
         /\ display_offset' = IF count # 0
                              THEN Smaller(lowered, HistorySize(shrunk, target))
                              ELSE lowered
         /\ max_scroll_limit' = m
    BY DEF grow_lines, from_history, delta, scrolled, up, grown
  <1>12. history_size' = shrunk.len - target /\ HistorySize(shrunk, target) = history_size'
    BY <1>11, HistoryAfter DEF history_size
  <1>13. offset = IF delta # 0
                  THEN IF display_offset # 0 THEN Smaller(display_offset + delta, m) ELSE 0
                  ELSE display_offset
    BY DEF FollowText
  <1> HIDE DEF shrunk, offset
  <1>14. count = Smaller(lines_added, scrolled.len - target)
    BY <1>8
  <1> HIDE DEF count
  <1>15. delta = lines_added - pulled
    BY <1>4 DEF delta
  <1>16. history_size' = h - pulled
    BY <1>1, <1>4, <1>5, <1>7, <1>10, <1>12, <1>14, <1>15 DEF Smaller, Z!Least
  <1>17. display_offset'
           = Z!Least(Z!Greatest(display_offset - lines_added, 0), h - pulled)
    <2>1. CASE delta = 0
      <3>1. count = lines_added /\ offset = display_offset
        BY <1>1, <1>4, <1>7, <1>13, <1>14, <1>15, <2>1 DEF Smaller, Z!Least
      <3> QED
        BY <1>1, <1>11, <1>12, <1>16, <3>1 DEF Smaller, Larger, Z!Least, Z!Greatest
    <2>2. CASE delta # 0
      <3>1. h - pulled = 0
        BY <1>1, <1>15, <2>2 DEF Z!Least
      <3>2. count = 0 => offset = 0
        BY <1>1, <1>5, <1>7, <1>13, <1>14, <2>2 DEF Smaller
      <3>3. offset \in Nat
        BY <1>5, <1>13 DEF Smaller
      <3>4. lowered \in Nat /\ (count = 0 => lowered = 0)
        BY <1>1, <3>2, <3>3 DEF Larger
      <3>5. display_offset' = 0
        BY <1>11, <1>12, <1>16, <3>1, <3>4 DEF Smaller
      <3> QED
        BY <1>1, <3>1, <3>5 DEF Z!Least, Z!Greatest
    <2> QED
      BY <2>1, <2>2
  <1>18. Sizes' = Z!Taller(Sizes, target)
    BY <1>4, <1>11, <1>16, <1>17, SizesAre, SizesFields DEF Z!Taller
  <1>19. Sizes' = Z!Resized(Sizes, target)
    BY <1>18, SizesFields DEF Z!Resized
  <1> QED
    BY <1>19 DEF Follows, Z!GridStep

\* A shorter screen: the rows that the cursor needs are scrolled out, the others are
\* cut off at the bottom.
LEMMA ShrinkFollows ==
  ASSUME GridInv, GridInv', NEW target \in 1 .. MaxLines, lines > target,
         shrink_screen(target)
  PROVE  Follows
  <1> USE GridInvFacts, LinesAssumption
  <1> DEFINE m        == max_scroll_limit
             required == Larger(cursor + 1 - target, 0)
             up       == ScrollRowsUp(raw, lines, 0, lines, required)
             scrolled == IF required > 0 THEN up ELSE raw
             rotated  == rotate(scrolled, lines - target)
             g        == IF required > 0
                         THEN Z!ScrolledUp(Sizes, 0, Sizes.lines, required)
                         ELSE Sizes
             o        == IF required > 0 THEN FollowText(required) ELSE display_offset
             hh       == IF required > 0 THEN Smaller(history_size + required, m)
                                         ELSE history_size
  <1>1. target \in Nat \ {0} /\ required \in 0 .. lines
    BY DEF Larger
  <1>2. Backs(raw, lines, m)
    BY DEF GridInv
  <1> HIDE DEF required
  <1>3. required \in Nat /\ required <= lines /\ 0 \in Nat /\ lines \in Nat
    BY <1>1
  <1>4. up.len - lines = Smaller(raw.len - lines + required, m)
    BY <1>2, <1>3, ScrollUpLength
  <1>5. Backs(up, lines, m)
    BY <1>2, <1>3, ScrollUpBacks
  <1>6. Backs(scrolled, lines, m) /\ scrolled.len - lines = hh
    BY <1>2, <1>4, <1>5
  <1> HIDE DEF scrolled, up
  <1>7. Shape(rotated) /\ rotated.len = scrolled.len /\ rotated.visible_lines = lines
    <2>1. /\ Shape(scrolled)
          /\ lines - target \in Int
          /\ lines - target <= scrolled.cap
          /\ -(lines - target) <= scrolled.cap
      BY <1>1, <1>6 DEF Backs, Shape
    <2> QED
      BY <1>6, <2>1, RotateShape DEF Backs
  <1> HIDE DEF rotated
  <1>8. shrink_visible_lines(rotated, target).len = scrolled.len - (lines - target)
    <2> DEFINE k == rotated.visible_lines - target
    <2>1. k \in Nat /\ k < rotated.len /\ k = lines - target
      BY <1>1, <1>6, <1>7 DEF Backs, Shape
    <2>2. shrink_lines(rotated, k).len = rotated.len - k
      BY <1>7, <2>1, ShrinkShape
    <2>3. shrink_visible_lines(rotated, target).len = shrink_lines(rotated, k).len
      BY DEF shrink_visible_lines, WithVisibleLines, MkStorage
    <2> QED
      BY <1>7, <2>1, <2>2, <2>3
  <1>9. /\ raw' = shrink_visible_lines(rotated, target)
        /\ lines' = target
        /\ cursor' = IF required > 0 THEN Smaller(cursor, target - 1) ELSE cursor
        /\ saved_cursor' = Smaller(saved_cursor, target - 1)
        /\ display_offset' = o
        /\ max_scroll_limit' = m
    BY DEF shrink_screen, rotated, scrolled, up, required
  <1>10. history_size' = hh
    <2>1. scrolled.len \in Nat
      BY <1>6 DEF Backs, Shape
    <2> QED
      BY <1>1, <1>6, <1>8, <1>9, <2>1, HistoryAfter
  <1>11. g = Z!MkGrid(m, hh, o, lines, cursor, saved_cursor)
    BY <1>1, SizesAre, SizesFields, ScrolledUpOf DEF FollowText, Smaller, Z!Least
  <1>12. cursor' = Z!Least(cursor, target - 1)
    BY <1>1, <1>9 DEF required, Larger, Smaller, Z!Least
  <1>13. saved_cursor' = Z!Least(saved_cursor, target - 1)
    BY <1>9 DEF Smaller, Z!Least
  <1> DEFINE g1 == [g EXCEPT !.lines = target]
             g2 == [g1 EXCEPT !.cursor = cursor']
  <1>14. required = Z!Greatest(Sizes.cursor + 1 - target, 0)
    BY SizesFields DEF required, Larger, Z!Greatest
  <1> HIDE DEF g, hh, o
  <1>15. g.cursor = cursor /\ g.saved = saved_cursor
    BY <1>11 DEF Z!MkGrid
  <1>16. Z!Shorter(Sizes, target) = [g2 EXCEPT !.saved = saved_cursor']
    BY <1>12, <1>13, <1>14, <1>15 DEF Z!Shorter, g
  <1>17. g1 = Z!MkGrid(m, hh, o, target, cursor, saved_cursor)
    BY <1>11 DEF Z!MkGrid
  <1> HIDE DEF g1
  <1>18. g2 = Z!MkGrid(m, hh, o, target, cursor', saved_cursor)
    BY <1>17 DEF Z!MkGrid
  <1> HIDE DEF g2
  <1>19. Z!Shorter(Sizes, target) = Z!MkGrid(m, hh, o, target, cursor', saved_cursor')
    BY <1>16, <1>18 DEF Z!MkGrid
  <1>20. Sizes' = Z!Shorter(Sizes, target)
    BY <1>9, <1>10, <1>19, SizesAre
  <1>21. Sizes' = Z!Resized(Sizes, target)
    BY <1>20, SizesFields DEF Z!Resized
  <1> QED
    BY <1>21 DEF Follows, Z!GridStep

\* Every step of the grid is a step of its sizes.
LEMMA StepFollows == GridInv /\ GridInv' /\ Next => Follows
  <1> SUFFICES ASSUME GridInv, GridInv', Next PROVE Follows
    OBVIOUS
  <1> USE GridInvFacts
  <1>1. ASSUME NEW end \in 1 .. lines, NEW start \in 0 .. (end - 1),
               NEW p \in 0 .. end, scroll_up(start, end, p)
        PROVE  Follows
    BY <1>1, ScrollUpFollows
  <1>2. ASSUME NEW end \in 1 .. lines, NEW start \in 0 .. (end - 1),
               NEW p \in 0 .. (end - start), scroll_down(start, end, p)
        PROVE  Follows
    BY <1>2, ScrollDownFollows
  <1>3. ASSUME NEW scroll \in Scrolls, scroll_display(scroll) PROVE Follows
    BY <1>3, DisplayFollows
  <1>4. ASSUME NEW limit \in HistoryLimits, update_history(limit) PROVE Follows
    BY <1>4, UpdateHistoryFollows
  <1>5. CASE clear_history \/ reset
    BY <1>5, ClearHistoryFollows
  <1>6. ASSUME NEW end, NEW start, reset_region(start, end)
        PROVE  Follows
    BY <1>6, ResetLength, RowsFollow DEF reset_region
  <1>7. CASE clear_viewport
    BY <1>7, ClearViewportFollows
  <1>8. ASSUME NEW target \in 1 .. MaxLines, resize(target) PROVE Follows
    BY <1>8, GrowFollows, ShrinkFollows DEF resize
  <1>9. ASSUME NEW row, write(row) PROVE Follows
    <2>1. raw'.len = raw.len
      BY <1>9 DEF write, SetRow, WithRows, MkStorage
    <2> QED
      BY <1>9, <2>1, RowsFollow DEF write
  <1>10. ASSUME NEW line \in 0 .. (lines - 1), goto(line) PROVE Follows
    <2>1. history_size' = history_size
      BY <1>10 DEF goto, history_size
    <2>2. Sizes' = Z!CursorAt(Sizes, line)
      BY <1>10, <2>1, SizesAre, SizesOf DEF goto
    <2> QED
      BY <2>2, SizesFields DEF Follows, Z!GridStep
  <1>11. CASE save_cursor_position
    <2>1. history_size' = history_size
      BY <1>11 DEF save_cursor_position, history_size
    <2>2. Sizes' = [Sizes EXCEPT !.saved = cursor]
      BY <1>11, <2>1, SizesAre, SizesOf DEF save_cursor_position
    <2> QED
      BY <2>2, SizesFields DEF Follows, Z!GridStep
  <1>12. CASE restore_cursor_position
    <2>1. history_size' = history_size
      BY <1>12 DEF restore_cursor_position, history_size
    <2>2. Sizes' = Z!CursorAt(Sizes, saved_cursor)
      BY <1>12, <2>1, SizesAre, SizesOf DEF restore_cursor_position
    <2> QED
      BY <2>2, SizesFields DEF Follows, Z!GridStep
  <1> QED
    BY <1>1, <1>2, <1>3, <1>4, <1>5, <1>6, <1>7, <1>8, <1>9, <1>10, <1>11, <1>12
    DEF Next

\* Whatever the rows, every operation moves the history, the offset, the height and
\* the cursors as GridSize, and with it Term, says.
THEOREM SizesAlwaysFollow == Spec => SizesFollow
  <1>1. GridInv /\ GridInv' /\ [Next]_vars
          => [Z!GridStep(Sizes, Sizes', 1 .. MaxLines, HistoryLimits)]_vars
    BY StepFollows DEF Follows
  <1>2. Spec => []GridInv
    BY GridInvInit, GridInvStep, PTL DEF Spec
  <1> QED
    BY <1>1, <1>2, PTL DEF Spec, SizesFollow
=============================================================================
