----------------------------- MODULE GridProofs -----------------------------
(***************************************************************************)
(* The grid's safety invariants hold for every screen height, every set of *)
(* history limits and every cache bound.                                   *)
(*                                                                         *)
(* None of HistoryWithinLimit, CursorsOnScreen, CacheBounded and           *)
(* SlotsDistinct is inductive alone: all of them need that the storage and *)
(* the grid agree on the number of visible lines and that the screen fits  *)
(* in the active lines.  GridInv adds this.                                *)
(***************************************************************************)
EXTENDS Grid, StorageProofs

\* A storage that backs a screen of n lines and a history below the limit m.
Backs(s, n, m) ==
  /\ Shape(s)
  /\ s.visible_lines = n
  /\ n <= s.len
  /\ s.len - n <= m

\* The inductive invariant.
GridInv ==
  /\ TypeOK
  /\ Backs(raw, lines, max_scroll_limit)
  /\ CursorsOnScreen

\* With a storage that backs the screen, history_size does not saturate.
LEMMA HistoryOfBacks ==
  ASSUME NEW s, NEW n \in Nat, NEW m \in Nat, Backs(s, n, m)
  PROVE  /\ HistorySize(s, n) = s.len - n
         /\ HistorySize(s, n) \in 0 .. m
  BY DEF Backs, Shape, HistorySize, Larger

\* Resetting lines changes no bound.
LEMMA ResetBacks ==
  ASSUME NEW s, NEW n \in Nat, NEW m \in Nat, Backs(s, n, m),
         NEW first, NEW end
  PROVE  Backs(ResetLines(s, first, end), n, m)
  BY RowsShape DEF Backs, ResetLines

\* Swapping lines changes no bound.
LEMMA SwapBacks ==
  ASSUME NEW s, NEW n \in Nat, NEW m \in Nat, Backs(s, n, m),
         NEW seq, NEW d
  PROVE  Backs(SwapEach(s, seq, d), n, m)
  BY RowsShape DEF Backs, SwapEach

\* scroll_up grows the history to its limit and not past it.
LEMMA ScrollUpBacks ==
  ASSUME NEW s, NEW n \in Nat, max_scroll_limit \in Nat,
         Backs(s, n, max_scroll_limit),
         NEW start \in Nat, NEW end \in Nat, NEW p \in Nat, p <= n
  PROVE  Backs(ScrollRowsUp(s, n, start, end, p), n, max_scroll_limit)
  <1> DEFINE m == max_scroll_limit
             grown == increase_scroll_limit(s, n, p)
             rotated == rotate(grown, -p)
  <1>1. Backs(grown, n, m)
    <2> DEFINE more == Smaller(p, m - HistorySize(s, n))
    <2>1. more \in Nat /\ more <= m - (s.len - n)
      BY HistoryOfBacks DEF Smaller
    <2>2. CASE more # 0
      <3>1. grown = initialize(s, more)
        BY <2>2 DEF increase_scroll_limit
      <3> QED
        BY <2>1, <3>1, InitializeShape DEF Backs, Shape
    <2>3. CASE more = 0
      BY <2>3 DEF increase_scroll_limit
    <2> QED
      BY <2>2, <2>3
  <1>2. Backs(rotated, n, m)
    <2>1. -p \in Int /\ -p <= grown.cap /\ -(-p) <= grown.cap
      BY <1>1 DEF Backs, Shape
    <2> QED
      BY <1>1, <2>1, RotateShape DEF Backs
  <1> DEFINE moved == IF start = 0
                      THEN SwapEach(rotated, LineRangeRev(end, n), -p)
                      ELSE SwapEach(s, LineRange(start, end - p), p)
  <1>3. Backs(moved, n, m)
    BY <1>2, SwapBacks
  <1> QED
    BY <1>3, ResetBacks DEF ScrollRowsUp

\* display_offset stays a natural number.
LEMMA FollowTextType ==
  ASSUME display_offset \in Nat, max_scroll_limit \in Nat, NEW p \in Nat
  PROVE  FollowText(p) \in Nat
  BY DEF FollowText, Smaller

\* A screen with text has a last line of text.
LEMMA LastTextLine ==
  ASSUME lines \in Nat \ {0}, TextLines # {}
  PROVE  \E i \in TextLines : \A j \in TextLines : j <= i
  <1> DEFINE Above == {k \in Nat : \A j \in TextLines : j <= k}
  <1>1. lines - 1 \in Above
    BY DEF TextLines
  <1>2. PICK k \in Above : \A m \in Above : k <= m
    BY <1>1, LeastNumber
  <1>3. k \in TextLines
    <2>1. SUFFICES ASSUME k \notin TextLines PROVE FALSE
      OBVIOUS
    <2>2. PICK j \in TextLines : TRUE
      OBVIOUS
    <2>3. j < k
      BY <2>1 DEF TextLines
    <2>4. k - 1 \in Above
      BY <2>1, <2>3 DEF TextLines
    <2> QED
      BY <2>4, <1>2
  <1> QED
    BY <1>2, <1>3

\* clear_viewport scrolls by no more than the screen.
LEMMA ViewportBound ==
  ASSUME lines \in Nat \ {0}
  PROVE  ViewportPositions \in 0 .. lines
  <1>1. CASE TextLines = {}
    BY <1>1 DEF ViewportPositions
  <1>2. CASE TextLines # {}
    <2> DEFINE last == CHOOSE i \in TextLines : \A j \in TextLines : j <= i
    <2>1. last \in TextLines
      BY <1>2, LastTextLine
    <2>2. last \in 0 .. (lines - 1)
      BY <2>1 DEF TextLines
    <2> QED
      BY <1>2, <2>2 DEF ViewportPositions
  <1> QED
    BY <1>1, <1>2

\* The initial grid, Grid::new, satisfies the invariant.
LEMMA GridInvInit == Init => GridInv
  <1> SUFFICES ASSUME Init PROVE GridInv
    OBVIOUS
  <1>1. lines \in Nat \ {0} /\ raw = with_capacity(lines)
    BY LinesAssumption DEF Init
  <1>2. max_scroll_limit \in Nat
    BY LimitsAssumption DEF Init
  <1>3. Backs(raw, lines, max_scroll_limit)
    BY <1>1, <1>2, CapacityShape DEF Backs
  <1> QED
    BY <1>1, <1>3 DEF Init, GridInv, TypeOK, CursorsOnScreen, Backs, Shape

\* What the invariant says of the numbers the actions compute with.
LEMMA GridInvFacts ==
  ASSUME GridInv
  PROVE  /\ lines \in Nat \ {0}
         /\ max_scroll_limit \in Nat
         /\ display_offset \in Nat
         /\ cursor \in 0 .. (lines - 1)
         /\ saved_cursor \in 0 .. (lines - 1)
         /\ raw.len \in Nat
         /\ raw.cap \in Nat
         /\ history_size = raw.len - lines
         /\ history_size \in 0 .. max_scroll_limit
  <1>1. lines \in Nat \ {0} /\ max_scroll_limit \in Nat
    BY LinesAssumption, LimitsAssumption DEF GridInv, TypeOK
  <1>2. history_size = raw.len - lines /\ history_size \in 0 .. max_scroll_limit
    BY <1>1, HistoryOfBacks DEF GridInv, history_size
  <1> QED
    BY <1>1, <1>2 DEF GridInv, TypeOK, CursorsOnScreen

\* The invariant from its parts, for actions that keep the height and the limit.
LEMMA SameHeight ==
  ASSUME GridInv, UNCHANGED <<lines, max_scroll_limit>>,
         Backs(raw', lines, max_scroll_limit),
         display_offset' \in Nat,
         cursor' \in 0 .. (lines - 1), saved_cursor' \in 0 .. (lines - 1)
  PROVE  GridInv'
  BY GridInvFacts DEF GridInv, TypeOK, CursorsOnScreen, Backs, Shape

\* Lines dropped from the history, down to the limit m.
LEMMA ShrinkBacks ==
  ASSUME NEW s, NEW n \in Nat \ {0}, NEW m \in Nat, NEW k \in Nat, NEW mm \in Nat,
         Backs(s, n, m), k <= s.len - n, s.len - n - k <= mm
  PROVE  Backs(shrink_lines(s, k), n, mm)
  <1>1. Shape(s) /\ k < s.len /\ s.len \in Nat /\ n <= s.len
    BY DEF Backs, Shape
  <1>2. /\ Shape(shrink_lines(s, k))
        /\ shrink_lines(s, k).len = s.len - k
        /\ shrink_lines(s, k).visible_lines = s.visible_lines
    BY <1>1, ShrinkShape
  <1> QED
    BY <1>1, <1>2 DEF Backs

\* scroll_up keeps the invariant.
LEMMA ScrollUpKeeps ==
  ASSUME GridInv, NEW end \in 1 .. lines, NEW start \in 0 .. (end - 1),
         NEW p \in 0 .. end, scroll_up(start, end, p)
  PROVE  GridInv'
  <1> USE GridInvFacts
  <1>1. Backs(raw, lines, max_scroll_limit)
    BY DEF GridInv
  <1>2. Backs(raw', lines, max_scroll_limit)
    <2>1. CASE end - start <= p /\ start # 0
      BY <1>1, <2>1, ResetBacks DEF scroll_up
    <2>2. CASE ~(end - start <= p /\ start # 0)
      BY <1>1, <2>2, ScrollUpBacks DEF scroll_up
    <2> QED
      BY <2>1, <2>2
  <1>3. display_offset' \in Nat
    BY FollowTextType DEF scroll_up
  <1> QED
    BY <1>2, <1>3, SameHeight DEF scroll_up, cursors

\* scroll_down keeps the invariant, on either of its two paths.
LEMMA ScrollDownKeeps ==
  ASSUME GridInv, NEW end \in 1 .. lines, NEW start \in 0 .. (end - 1),
         NEW p \in 0 .. (end - start), scroll_down(start, end, p)
  PROVE  GridInv'
  <1> USE GridInvFacts
  <1> DEFINE n == lines
             m == max_scroll_limit
             placed  == SwapEach(raw, LineRange(end, lines), -p)
             rotated == rotate_down(placed, p)
             cleared == ResetLines(rotated, 0, p)
             swapped == SwapEach(raw, LineRangeRev(start + p, end), -p)
  <1>1. Backs(raw, n, m)
    BY DEF GridInv
  <1>2. Backs(placed, n, m) /\ Backs(swapped, n, m)
    BY <1>1, SwapBacks
  <1>3. Backs(rotated, n, m)
    BY <1>2, RotateDownShape DEF Backs
  <1>4. Backs(SwapEach(cleared, LineRange(0, start), p), n, m)
    BY <1>3, ResetBacks, SwapBacks
  <1>5. Backs(ResetLines(swapped, start, start + p), n, m)
    BY <1>2, ResetBacks
  <1>6. Backs(ScrollRowsDown(start, end, p), n, m)
    BY <1>4, <1>5 DEF ScrollRowsDown
  <1>7. Backs(raw', n, m)
    BY <1>1, <1>6, ResetBacks DEF scroll_down
  <1> QED
    BY <1>7, SameHeight DEF scroll_down, cursors

\* A taller screen: the history keeps its size until the new lines are filled.
LEMMA GrowVisibleBacks ==
  ASSUME NEW s, NEW n \in Nat, NEW m \in Nat, NEW t \in Nat,
         Backs(s, n, m), n < t
  PROVE  /\ Backs(grow_visible_lines(s, t), t, m)
         /\ grow_visible_lines(s, t).len - t = s.len - n
  <1>1. t - s.visible_lines \in Nat /\ Shape(s) /\ s.visible_lines = n
    BY DEF Backs
  <1> DEFINE i == initialize(s, t - s.visible_lines)
  <1>2. Shape(i) /\ i.len = s.len + (t - n)
    BY <1>1, InitializeShape
  <1> HIDE DEF i
  <1>3. /\ Shape(WithVisibleLines(i, t))
        /\ WithVisibleLines(i, t).visible_lines = t
        /\ WithVisibleLines(i, t).len = s.len + (t - n)
    BY <1>2 DEF WithVisibleLines, MkStorage, Shape
  <1>4. grow_visible_lines(s, t) = WithVisibleLines(i, t)
    BY DEF grow_visible_lines, i
  <1> QED
    BY <1>3, <1>4 DEF Backs, Shape

\* A shorter screen: as many lines leave the storage as leave the screen.
LEMMA ShrinkVisibleBacks ==
  ASSUME NEW s, NEW n \in Nat, NEW m \in Nat, NEW t \in Nat \ {0},
         Backs(s, n, m), t < n
  PROVE  Backs(shrink_visible_lines(s, t), t, m)
  <1>1. /\ s.visible_lines - t \in Nat
        /\ Shape(s)
        /\ s.visible_lines = n
        /\ s.visible_lines - t < s.len
    BY DEF Backs, Shape
  <1> DEFINE i == shrink_lines(s, s.visible_lines - t)
  <1>2. Shape(i) /\ i.len = s.len - (n - t)
    BY <1>1, ShrinkShape
  <1> HIDE DEF i
  <1>3. /\ Shape(WithVisibleLines(i, t))
        /\ WithVisibleLines(i, t).visible_lines = t
        /\ WithVisibleLines(i, t).len = s.len - (n - t)
    BY <1>2 DEF WithVisibleLines, MkStorage, Shape
  <1>4. shrink_visible_lines(s, t) = WithVisibleLines(i, t)
    BY DEF shrink_visible_lines, i
  <1> QED
    BY <1>3, <1>4 DEF Backs, Shape

\* grow_lines keeps the invariant: the cursors move down by no more lines than
\* the screen gained.
LEMMA GrowKeeps ==
  ASSUME GridInv, NEW target \in 1 .. MaxLines, lines < target, grow_lines(target)
  PROVE  GridInv'
  <1> USE GridInvFacts, LinesAssumption
  <1> DEFINE m            == max_scroll_limit
             lines_added  == target - lines
             grown        == grow_visible_lines(raw, target)
             from_history == Smaller(HistorySize(grown, target), lines_added)
             delta        == lines_added - from_history
             scrolled     == IF delta # 0
                             THEN ScrollRowsUp(grown, target, 0, target, delta)
                             ELSE grown
             offset       == IF delta # 0 THEN FollowText(delta) ELSE display_offset
             count        == Smaller(lines_added, HistorySize(scrolled, target))
             shrunk       == IF count # 0 THEN shrink_lines(scrolled, count)
                                          ELSE scrolled
             lowered      == Larger(offset - lines_added, 0)
  <1>1. target \in Nat \ {0} /\ lines_added \in Nat
    OBVIOUS
  <1>2. Backs(grown, target, m)
    BY <1>1, GrowVisibleBacks DEF GridInv
  <1>3. HistorySize(grown, target) \in Nat
    BY <1>1, <1>2, HistoryOfBacks
  <1>4. from_history \in 0 .. lines_added /\ delta \in 0 .. lines_added
    BY <1>1, <1>3 DEF Smaller
  <1>5. Backs(scrolled, target, m)
    <2>1. Backs(ScrollRowsUp(grown, target, 0, target, delta), target, m)
      BY <1>1, <1>2, <1>4, ScrollUpBacks
    <2> QED
      BY <1>2, <2>1
  <1>6. /\ HistorySize(scrolled, target) \in Nat
        /\ HistorySize(scrolled, target) = scrolled.len - target
        /\ HistorySize(scrolled, target) <= m
    BY <1>1, <1>5, HistoryOfBacks
  <1>7. count \in Nat /\ count <= HistorySize(scrolled, target)
    BY <1>1, <1>6 DEF Smaller
  <1>8. Backs(shrunk, target, m)
    <2>1. Backs(shrink_lines(scrolled, count), target, m)
      <3> HIDE DEF scrolled, count
      <3>1. count <= scrolled.len - target /\ scrolled.len - target - count <= m
        BY <1>6, <1>7, <1>1
      <3> QED
        BY <1>1, <1>5, <1>7, <3>1, ShrinkBacks
    <2> QED
      BY <1>5, <2>1
  <1>9. offset \in Nat
    BY <1>4, FollowTextType
  <1>10. lowered \in Nat
    BY <1>1, <1>9 DEF Larger
  <1>11. /\ raw' = shrunk
         /\ lines' = target
         /\ cursor' = cursor + from_history
         /\ saved_cursor' = saved_cursor + from_history
         /\ display_offset' = IF count # 0
                              THEN Smaller(lowered, HistorySize(shrunk, target))
                              ELSE lowered
         /\ max_scroll_limit' = m
    BY DEF grow_lines
  <1>12. HistorySize(shrunk, target) \in Nat
    BY <1>1, <1>8, HistoryOfBacks
  <1> HIDE DEF shrunk, lowered, count, from_history
  <1>13. display_offset' \in Nat
    BY <1>10, <1>11, <1>12 DEF Smaller
  <1>14. cursor' \in 0 .. (target - 1) /\ saved_cursor' \in 0 .. (target - 1)
    BY <1>4, <1>11
  <1>15. max_scroll_limit \in HistoryLimits
    BY DEF GridInv, TypeOK
  <1> QED
    BY <1>1, <1>8, <1>11, <1>13, <1>14, <1>15
    DEF GridInv, TypeOK, CursorsOnScreen, Backs, Shape

\* shrink_lines keeps the invariant: scrolling brings the cursor back onto the
\* shorter screen before the bottom lines are rotated away.
LEMMA ShrinkKeeps ==
  ASSUME GridInv, NEW target \in 1 .. MaxLines, lines > target,
         shrink_screen(target)
  PROVE  GridInv'
  <1> USE GridInvFacts, LinesAssumption
  <1> DEFINE m        == max_scroll_limit
             required == Larger(cursor + 1 - target, 0)
             scrolled == IF required > 0
                         THEN ScrollRowsUp(raw, lines, 0, lines, required)
                         ELSE raw
             rotated  == rotate(scrolled, lines - target)
  <1>1. target \in Nat \ {0} /\ required \in 0 .. lines
    BY DEF Larger
  <1>2. Backs(raw, lines, m)
    BY DEF GridInv
  <1>3. Backs(scrolled, lines, m)
    <2>1. Backs(ScrollRowsUp(raw, lines, 0, lines, required), lines, m)
      BY <1>1, <1>2, ScrollUpBacks
    <2> QED
      BY <1>2, <2>1
  <1>4. Backs(rotated, lines, m)
    <2> HIDE DEF scrolled
    <2>1. /\ Shape(scrolled)
          /\ lines - target \in Int
          /\ lines - target <= scrolled.cap
          /\ -(lines - target) <= scrolled.cap
      BY <1>1, <1>3 DEF Backs, Shape
    <2> QED
      BY <1>3, <2>1, RotateShape DEF Backs
  <1>5. Backs(shrink_visible_lines(rotated, target), target, m)
    BY <1>1, <1>4, ShrinkVisibleBacks
  <1>6. FollowText(required) \in Nat
    BY <1>1, FollowTextType
  <1>7. /\ raw' = shrink_visible_lines(rotated, target)
        /\ lines' = target
        /\ cursor' = IF required > 0 THEN Smaller(cursor, target - 1) ELSE cursor
        /\ saved_cursor' = Smaller(saved_cursor, target - 1)
        /\ display_offset' = IF required > 0 THEN FollowText(required)
                                             ELSE display_offset
        /\ max_scroll_limit' = m
    BY DEF shrink_screen
  <1>8. cursor' \in 0 .. (target - 1) /\ saved_cursor' \in 0 .. (target - 1)
    BY <1>1, <1>7 DEF Smaller, Larger
  <1>9. display_offset' \in Nat
    BY <1>6, <1>7
  <1>10. max_scroll_limit \in HistoryLimits
    BY DEF GridInv, TypeOK
  <1> QED
    BY <1>1, <1>5, <1>7, <1>8, <1>9, <1>10
    DEF GridInv, TypeOK, CursorsOnScreen, Backs, Shape

\* clear_viewport keeps the invariant.
LEMMA ClearViewportKeeps ==
  ASSUME GridInv, clear_viewport
  PROVE  GridInv'
  <1> USE GridInvFacts
  <1> DEFINE p  == ViewportPositions
             up == ScrollRowsUp(raw, lines, 0, lines, p)
  <1>1. p \in 0 .. lines
    BY ViewportBound
  <1> HIDE DEF p
  <1>2. Backs(up, lines, max_scroll_limit)
    BY <1>1, ScrollUpBacks DEF GridInv
  <1>3. Backs(raw', lines, max_scroll_limit)
    BY <1>2, ResetBacks DEF clear_viewport, p
  <1>4. display_offset' \in Nat
    BY <1>1, FollowTextType DEF clear_viewport, p
  <1> QED
    BY <1>3, <1>4, SameHeight DEF clear_viewport, cursors

\* Clearing the history, alone or as part of a reset, keeps the invariant.
LEMMA ClearHistoryKeeps ==
  ASSUME GridInv, clear_history \/ reset
  PROVE  GridInv'
  <1> USE GridInvFacts
  <1> DEFINE s == shrink_lines(raw, history_size)
  <1>1. Backs(s, lines, max_scroll_limit)
    <2>1. /\ history_size \in Nat
          /\ history_size <= raw.len - lines
          /\ raw.len - lines - history_size <= max_scroll_limit
      OBVIOUS
    <2> QED
      BY <2>1, ShrinkBacks DEF GridInv
  <1> HIDE DEF s
  <1>2. Backs(raw', lines, max_scroll_limit)
    BY <1>1, ResetBacks DEF clear_history, reset, s
  <1> QED
    BY <1>2, SameHeight DEF clear_history, reset, cursors

\* A new limit takes effect at once, also when it is below the history's size.
LEMMA UpdateHistoryKeeps ==
  ASSUME GridInv, NEW limit \in HistoryLimits, update_history(limit)
  PROVE  GridInv'
  <1> USE GridInvFacts, LimitsAssumption
  <1>1. Backs(raw', lines, limit)
    <2>1. CASE history_size > limit
      <3>1. raw' = shrink_lines(raw, history_size - limit)
        BY <2>1 DEF update_history
      <3> DEFINE k == history_size - limit
      <3>2. /\ k \in Nat
            /\ limit \in Nat
            /\ k <= raw.len - lines
            /\ raw.len - lines - k <= limit
        BY <2>1
      <3> HIDE DEF k
      <3>3. Backs(shrink_lines(raw, k), lines, limit)
        BY <3>2, ShrinkBacks DEF GridInv
      <3> QED
        BY <3>1, <3>3 DEF k
    <2>2. CASE ~(history_size > limit)
      BY <2>2 DEF update_history, GridInv, Backs
    <2> QED
      BY <2>1, <2>2
  <1>2. display_offset' \in Nat
    BY DEF update_history, Smaller
  <1>3. UNCHANGED <<lines, cursor, saved_cursor>> /\ max_scroll_limit' = limit
    BY DEF update_history, cursors
  <1> QED
    BY <1>1, <1>2, <1>3 DEF GridInv, TypeOK, CursorsOnScreen, Backs, Shape

\* Scrolling the display moves nothing but the offset.
LEMMA ScrollDisplayKeeps ==
  ASSUME GridInv, NEW scroll \in Scrolls, scroll_display(scroll)
  PROVE  GridInv'
  <1> USE GridInvFacts
  <1>1. display_offset' \in Nat
    BY DEF scroll_display, Scrolls, Smaller, Larger
  <1> QED
    BY <1>1, SameHeight DEF scroll_display, cursors, GridInv

\* Every step of the grid keeps the invariant.
LEMMA GridInvStep == GridInv /\ [Next]_vars => GridInv'
  <1> SUFFICES ASSUME GridInv, [Next]_vars PROVE GridInv'
    OBVIOUS
  <1> USE GridInvFacts
  <1>1. ASSUME NEW end \in 1 .. lines, NEW start \in 0 .. (end - 1),
               NEW p \in 0 .. end, scroll_up(start, end, p)
        PROVE  GridInv'
    BY <1>1, ScrollUpKeeps
  <1>2. ASSUME NEW end \in 1 .. lines, NEW start \in 0 .. (end - 1),
               NEW p \in 0 .. (end - start), scroll_down(start, end, p)
        PROVE  GridInv'
    BY <1>2, ScrollDownKeeps
  <1>3. ASSUME NEW scroll \in Scrolls, scroll_display(scroll) PROVE GridInv'
    BY <1>3, ScrollDisplayKeeps
  <1>4. ASSUME NEW limit \in HistoryLimits, update_history(limit) PROVE GridInv'
    BY <1>4, UpdateHistoryKeeps
  <1>5. CASE clear_history
    BY <1>5, ClearHistoryKeeps
  <1>6. ASSUME NEW end \in 1 .. lines, NEW start \in 0 .. end,
               reset_region(start, end)
        PROVE  GridInv'
    <2>1. Backs(raw', lines, max_scroll_limit)
      BY <1>6, ResetBacks DEF reset_region, GridInv
    <2> QED
      BY <1>6, <2>1, SameHeight DEF reset_region, cursors
  <1>7. CASE clear_viewport
    BY <1>7, ClearViewportKeeps
  <1>8. CASE reset
    BY <1>8, ClearHistoryKeeps
  <1>9. ASSUME NEW target \in 1 .. MaxLines, resize(target) PROVE GridInv'
    BY <1>9, GrowKeeps, ShrinkKeeps DEF resize
  <1>10. ASSUME NEW row \in Rows, write(row) PROVE GridInv'
    <2>1. Backs(raw', lines, max_scroll_limit)
      BY <1>10, RowsShape DEF write, SetRow, GridInv, Backs
    <2> QED
      BY <1>10, <2>1, SameHeight DEF write, cursors
  <1>11. ASSUME NEW line \in 0 .. (lines - 1), goto(line) PROVE GridInv'
    BY <1>11, SameHeight DEF goto, GridInv
  <1>12. CASE save_cursor_position
    BY <1>12, SameHeight DEF save_cursor_position, GridInv
  <1>13. CASE restore_cursor_position
    BY <1>13, SameHeight DEF restore_cursor_position, GridInv
  <1>14. CASE UNCHANGED vars
    BY <1>14, SameHeight DEF vars, GridInv
  <1> QED
    BY <1>1, <1>2, <1>3, <1>4, <1>5, <1>6, <1>7, <1>8, <1>9, <1>10, <1>11,
       <1>12, <1>13, <1>14 DEF Next

\* The invariant implies the four safety properties.
LEMMA GridInvImplies ==
  GridInv => HistoryWithinLimit /\ CursorsOnScreen /\ CacheBounded /\ SlotsDistinct
  <1> SUFFICES ASSUME GridInv
               PROVE  HistoryWithinLimit /\ CursorsOnScreen /\ CacheBounded
                        /\ SlotsDistinct
    OBVIOUS
  <1> USE GridInvFacts
  <1>1. HistoryWithinLimit /\ CursorsOnScreen /\ CacheBounded
    BY DEF GridInv, HistoryWithinLimit, CacheBounded, Backs, Shape
  <1>2. Shape(raw) /\ raw.visible_lines = lines
    BY DEF GridInv, Backs
  <1>3. \A i, j \in (-history_size) .. (lines - 1) :
          /\ compute_index(raw, i) \in 0 .. (raw.cap - 1)
          /\ compute_index(raw, i) = compute_index(raw, j) => i = j
    <2> SUFFICES ASSUME NEW i \in (-history_size) .. (lines - 1),
                        NEW j \in (-history_size) .. (lines - 1)
                 PROVE  /\ compute_index(raw, i) \in 0 .. (raw.cap - 1)
                        /\ compute_index(raw, i) = compute_index(raw, j) => i = j
      OBVIOUS
    <2>1. i \in Ring(raw) /\ j \in Ring(raw)
      BY <1>2 DEF Ring, Shape
    <2> QED
      BY <1>2, <2>1, SlotOfLine
  <1> QED
    BY <1>1, <1>3 DEF SlotsDistinct

\* Type correctness of the grid.
THEOREM TypeCorrect == Spec => []TypeOK
  <1>1. GridInv => TypeOK
    BY DEF GridInv
  <1> QED
    BY <1>1, GridInvInit, GridInvStep, PTL DEF Spec

\* compute_index is in range for every line of the grid and gives every line a
\* slot of its own, for every height, history limit and cache bound.
THEOREM SlotsAlwaysDistinct == Spec => []SlotsDistinct
  BY GridInvInit, GridInvStep, GridInvImplies, PTL DEF Spec

\* The history never outgrows its limit: increase_scroll_limit cannot underflow.
THEOREM HistoryAlwaysWithinLimit == Spec => []HistoryWithinLimit
  BY GridInvInit, GridInvStep, GridInvImplies, PTL DEF Spec

\* Both cursors stay on the screen through every scroll, reset and resize.
THEOREM CursorsAlwaysOnScreen == Spec => []CursorsOnScreen
  BY GridInvInit, GridInvStep, GridInvImplies, PTL DEF Spec

\* No more than MAX_CACHE_SIZE rows are ever kept outside of the grid.
THEOREM CacheAlwaysBounded == Spec => []CacheBounded
  BY GridInvInit, GridInvStep, GridInvImplies, PTL DEF Spec

-----------------------------------------------------------------------------
(* The exact number of rows, for the modules that follow the grid closer.  *)

\* Replacing rows leaves the number of active lines alone.
LEMMA ResetLength ==
  ASSUME NEW s, NEW first, NEW end
  PROVE  ResetLines(s, first, end).len = s.len
  BY DEF ResetLines, WithRows, MkStorage

\* So does swapping them.
LEMMA SwapLength ==
  ASSUME NEW s, NEW seq, NEW d
  PROVE  SwapEach(s, seq, d).len = s.len
  BY DEF SwapEach, WithRows, MkStorage

\* A region that starts at the top adds as many rows to the history as there is
\* room for; any other region adds none.
LEMMA ScrollUpLength ==
  ASSUME NEW s, NEW n \in Nat, max_scroll_limit \in Nat,
         Backs(s, n, max_scroll_limit),
         NEW start \in Nat, NEW end \in Nat, NEW p \in Nat, p <= n
  PROVE  ScrollRowsUp(s, n, start, end, p).len - n
           = IF start = 0 THEN Smaller(s.len - n + p, max_scroll_limit) ELSE s.len - n
  <1> DEFINE m == max_scroll_limit
             grown == increase_scroll_limit(s, n, p)
             rotated == rotate(grown, -p)
             more == Smaller(p, m - HistorySize(s, n))
             moved == IF start = 0
                      THEN SwapEach(rotated, LineRangeRev(end, n), -p)
                      ELSE SwapEach(s, LineRange(start, end - p), p)
  <1>1. s.len \in Nat /\ HistorySize(s, n) = s.len - n /\ s.len - n \in 0 .. m
    BY HistoryOfBacks DEF Backs, Shape
  <1>2. more \in Nat
    BY <1>1 DEF Smaller
  <1>3. grown.len = s.len + more
    <2>1. CASE more # 0
      <3>1. grown = initialize(s, more)
        BY <2>1 DEF increase_scroll_limit
      <3> QED
        BY <1>2, <3>1, InitializeShape DEF Backs
    <2>2. CASE more = 0
      BY <1>1, <2>2 DEF increase_scroll_limit
    <2> QED
      BY <2>1, <2>2
  <1>4. rotated.len = grown.len
    BY DEF rotate, MkStorage
  <1>5. moved.len = IF start = 0 THEN grown.len ELSE s.len
    BY <1>4, SwapLength
  <1>6. ScrollRowsUp(s, n, start, end, p).len = moved.len
    BY ResetLength DEF ScrollRowsUp
  <1> HIDE DEF grown, moved
  <1> QED
    BY <1>1, <1>3, <1>5, <1>6 DEF Smaller

\* The size of the history after a step, from the length of the storage.
LEMMA HistoryAfter ==
  ASSUME GridInv, GridInv'
  PROVE  history_size' = raw'.len - lines'
  <1>1. HistorySize(raw', lines') = raw'.len - lines'
    BY LinesAssumption DEF GridInv, TypeOK, Backs, HistorySize, Larger, Shape
  <1> QED
    BY <1>1 DEF history_size
=============================================================================
