--------------------------- MODULE GridRowProofs ----------------------------
(***************************************************************************)
(* Where the operations of the grid leave each row.  The lemmas follow a   *)
(* line through the rotations, swaps and resets of an operation, for every *)
(* height, history and content of the cache.  After them come facts about  *)
(* sequences of rows: the parts and joins that Scrollback is written with, *)
(* and how the lines of a storage determine a sequence.                    *)
(***************************************************************************)
EXTENDS GridProofs

-----------------------------------------------------------------------------
(* Lines.                                                                  *)

\* Growing the history keeps every row.
LEMMA IncreaseAt ==
  ASSUME NEW s, NEW n \in Nat, max_scroll_limit \in Nat,
         Backs(s, n, max_scroll_limit), Filled(s), NEW p \in Nat
  PROVE  /\ Backs(increase_scroll_limit(s, n, p), n, max_scroll_limit)
         /\ Filled(increase_scroll_limit(s, n, p))
         /\ s.cap <= increase_scroll_limit(s, n, p).cap
         /\ \A i \in Ring(s) : RowAt(increase_scroll_limit(s, n, p), i) = RowAt(s, i)
  <1> DEFINE m == max_scroll_limit
             grown == increase_scroll_limit(s, n, p)
             more == Smaller(p, m - HistorySize(s, n))
  <1>1. more \in Nat /\ more <= m - (s.len - n)
    BY HistoryOfBacks DEF Smaller
  <1>2. Shape(s)
    BY DEF Backs
  <1>3. CASE more # 0
    <2>1. grown = initialize(s, more)
      BY <1>3 DEF increase_scroll_limit
    <2> HIDE DEF grown, more
    <2>2. Backs(grown, n, m)
      BY <1>1, <2>1, InitializeShape DEF Backs, Shape
    <2>3. ASSUME NEW i \in Ring(s)
          PROVE  Filled(grown) /\ s.cap <= grown.cap /\ RowAt(grown, i) = RowAt(s, i)
      BY <1>1, <1>2, <2>1, InitializeAt
    <2>4. s.visible_lines - 1 \in Ring(s)
      BY <1>2 DEF Shape, Ring
    <2>5. Filled(grown) /\ s.cap <= grown.cap
      BY <2>3, <2>4
    <2> QED
      BY <2>2, <2>3, <2>5 DEF grown
  <1>4. CASE more = 0
    <2>1. grown = s
      BY <1>4 DEF increase_scroll_limit
    <2> QED
      BY <1>2, <2>1 DEF Shape
  <1> QED
    BY <1>3, <1>4

\* scroll_up of a region at the top of the screen: the lines below it stay, blank
\* lines enter it, everything above moves up by p, into the history.
LEMMA ScrollTopAt ==
  ASSUME NEW s, NEW n \in Nat, max_scroll_limit \in Nat,
         Backs(s, n, max_scroll_limit), Filled(s),
         NEW end \in Nat, end <= n, NEW p \in Nat, p <= end,
         NEW t, t = ScrollRowsUp(s, n, 0, end, p), NEW i \in Ring(t)
  PROVE  /\ Filled(t)
         /\ s.cap <= t.cap
         /\ end <= i => RowAt(t, i) = RowAt(s, i)
         /\ end - p <= i /\ i < end => RowAt(t, i) = Blank
         /\ i < end - p /\ i + p \in Ring(s) => RowAt(t, i) = RowAt(s, i + p)
  <1> DEFINE m == max_scroll_limit
             grown == increase_scroll_limit(s, n, p)
             rotated == rotate(grown, -p)
             seq == LineRangeRev(end, n)
             moved == SwapEach(rotated, seq, -p)
  <1>1. t = ResetLines(moved, end - p, end)
    BY DEF ScrollRowsUp
  <1>2. /\ Backs(grown, n, m) /\ Filled(grown) /\ s.cap <= grown.cap
        /\ \A j \in Ring(s) : RowAt(grown, j) = RowAt(s, j)
    BY IncreaseAt
  <1> HIDE DEF grown
  <1>3. Shape(grown) /\ p <= grown.cap /\ -p \in Int /\ -p <= grown.cap /\ -(-p) <= grown.cap
    BY <1>2 DEF Backs, Shape
  <1>4. Shape(rotated) /\ rotated.visible_lines = n /\ rotated.len = grown.len
    BY <1>2, <1>3, RotateShape DEF Backs
  <1>5. Filled(rotated) /\ rotated.cap = grown.cap
    BY <1>2, RotateFilled
  <1>6. ASSUME NEW j \in Ring(grown), j + p < n
        PROVE  RowAt(rotated, j) = RowAt(grown, j + p)
    <2>1. j + p < grown.visible_lines
      BY <1>2, <1>6 DEF Backs
    <2> QED
      BY <1>2, <1>3, <2>1, RotateUpAt
  <1> HIDE DEF rotated
  <1>7. /\ n <= grown.cap /\ grown.cap \in Nat /\ grown.visible_lines = n
        /\ s.cap \in Nat /\ s.visible_lines = n /\ n <= s.cap
    BY <1>2 DEF Backs, Shape
  <1>8. Descending(seq, end, n)
    BY LineRanges
  <1> HIDE DEF seq
  <1>9. Ring(rotated) = (n - grown.cap) .. (n - 1) /\ Ring(grown) = (n - grown.cap) .. (n - 1)
    BY <1>4, <1>5, <1>7 DEF Ring
  <1>10. n <= rotated.visible_lines /\ rotated.visible_lines - rotated.cap <= end - p
    BY <1>4, <1>5, <1>7
  <1>11. ASSUME NEW j \in Ring(rotated)
         PROVE  /\ Filled(moved) /\ moved.cap = rotated.cap
                /\ j < end - p => RowAt(moved, j) = RowAt(rotated, j)
                /\ end <= j => RowAt(moved, j) = RowAt(rotated, j - p)
    <2>1. j \in Int /\ j < n
      BY <1>7, <1>9
    <2>2. end \in Int /\ n \in Int
      OBVIOUS
    <2> QED
      BY <1>4, <1>5, <1>8, <1>10, <2>1, <2>2, SwapDownAt
  <1>12. Shape(moved) /\ moved.visible_lines = n
    BY <1>4, RowsShape DEF SwapEach
  <1>13. n - 1 \in Ring(rotated)
    BY <1>3, <1>7, <1>9 DEF Shape
  <1>14. Filled(moved) /\ moved.cap = grown.cap
    BY <1>5, <1>11, <1>13
  <1> HIDE DEF moved
  <1>15. t.cap = grown.cap /\ t.visible_lines = n
    BY <1>1, <1>12, <1>14 DEF ResetLines, WithRows, MkStorage
  <1>16. i \in Ring(moved) /\ i \in Ring(rotated) /\ i \in Ring(grown) /\ i \in Int /\ i < n
    <2>1. Ring(moved) = (n - grown.cap) .. (n - 1) /\ Ring(t) = (n - grown.cap) .. (n - 1)
      BY <1>12, <1>14, <1>15 DEF Ring
    <2> QED
      BY <1>7, <1>9, <2>1
  <1>17. /\ Filled(t)
         /\ end - p <= i /\ i < end => RowAt(t, i) = Blank
         /\ i < end - p \/ i >= end => RowAt(t, i) = RowAt(moved, i)
    <2>1. end - p \in Int /\ end \in Int
      OBVIOUS
    <2>2. moved.visible_lines - moved.cap <= end - p /\ end <= moved.visible_lines
      BY <1>7, <1>12, <1>14
    <2> QED
      BY <1>1, <1>12, <1>14, <1>16, <2>1, <2>2, ResetRowAt
  <1>18. ASSUME end <= i PROVE RowAt(t, i) = RowAt(s, i)
    <2>1. RowAt(t, i) = RowAt(rotated, i - p)
      BY <1>11, <1>16, <1>17, <1>18
    <2>2. i - p \in Ring(grown) /\ (i - p) + p = i /\ i \in Ring(s)
      BY <1>7, <1>16, <1>18 DEF Ring
    <2>3. RowAt(rotated, i - p) = RowAt(grown, (i - p) + p)
      BY <1>6, <1>16, <2>2
    <2> QED
      BY <1>2, <2>1, <2>2, <2>3
  <1>19. ASSUME i < end - p, i + p \in Ring(s) PROVE RowAt(t, i) = RowAt(s, i + p)
    <2>1. RowAt(t, i) = RowAt(rotated, i)
      BY <1>11, <1>16, <1>17, <1>19
    <2>2. i + p < n
      BY <1>16, <1>19
    <2>3. RowAt(rotated, i) = RowAt(grown, i + p)
      BY <1>6, <1>16, <2>2
    <2> QED
      BY <1>2, <1>19, <2>1, <2>3
  <1>20. i >= end <=> end <= i
    BY <1>16
  <1>21. s.cap <= t.cap
    BY <1>2, <1>15
  <1> QED
    BY <1>17, <1>18, <1>19, <1>21

\* scroll_up of a region below the top: rows move inside the region only.
LEMMA ScrollRegionAt ==
  ASSUME NEW s, NEW n \in Nat, NEW m \in Nat, Backs(s, n, m), Filled(s),
         NEW start \in Nat \ {0}, NEW end \in Nat, end <= n,
         NEW p \in Nat, p < end - start,
         NEW t, t = ScrollRowsUp(s, n, start, end, p), NEW i \in Ring(s)
  PROVE  /\ Filled(t)
         /\ i < start \/ i >= end => RowAt(t, i) = RowAt(s, i)
         /\ start <= i /\ i < end - p => RowAt(t, i) = RowAt(s, i + p)
         /\ end - p <= i /\ i < end => RowAt(t, i) = Blank
  <1> DEFINE seq == LineRange(start, end - p)
             moved == SwapEach(s, seq, p)
  <1>1. t = ResetLines(moved, end - p, end)
    BY DEF ScrollRowsUp
  <1>2. /\ Shape(s) /\ s.visible_lines = n /\ n <= s.cap /\ s.cap \in Nat
        /\ i \in Int /\ i < n
    BY DEF Backs, Shape, Ring
  <1>3. start \in Int /\ end - p \in Int /\ start <= end - p
    OBVIOUS
  <1>4. PICK e \in Int : e = end - p
    BY <1>3
  <1>5. Ascending(seq, p, start, e, p)
    BY <1>3, <1>4, LineRanges
  <1> HIDE DEF seq
  <1>6. s.visible_lines - s.cap <= start /\ e + p <= s.visible_lines
    BY <1>2, <1>4
  <1>7. /\ Filled(moved) /\ moved.cap = s.cap
        /\ i < start \/ i >= e + p => RowAt(moved, i) = RowAt(s, i)
        /\ start <= i /\ i < e => RowAt(moved, i) = RowAt(s, i + p)
    BY <1>2, <1>3, <1>5, <1>6, SwapUpAt
  <1>8. Shape(moved) /\ moved.visible_lines = n
    BY <1>2, RowsShape DEF SwapEach
  <1> HIDE DEF moved
  <1>9. e + p = end
    BY <1>4
  <1>10. /\ Filled(t)
         /\ end - p <= i /\ i < end => RowAt(t, i) = Blank
         /\ i < end - p \/ i >= end => RowAt(t, i) = RowAt(moved, i)
    <2>1. i \in Ring(moved) /\ end \in Int
      BY <1>2, <1>7, <1>8 DEF Ring
    <2>2. moved.visible_lines - moved.cap <= end - p /\ end <= moved.visible_lines
      BY <1>2, <1>7, <1>8
    <2> QED
      BY <1>1, <1>3, <1>7, <1>8, <2>1, <2>2, ResetRowAt
  <1>11. i < start => i < end - p
    BY <1>2
  <1> QED
    BY <1>4, <1>7, <1>9, <1>10, <1>11

\* scroll_down with scrollback: rows are swapped inside the region only.
LEMMA ScrollDownSwapAt ==
  ASSUME NEW s, NEW n \in Nat, NEW m \in Nat, Backs(s, n, m), Filled(s),
         NEW start \in Nat, NEW end \in Nat, end <= n,
         NEW p \in Nat, p < end - start,
         NEW t, t = ResetLines(SwapEach(s, LineRangeRev(start + p, end), -p),
                               start, start + p),
         NEW i \in Ring(s)
  PROVE  /\ Filled(t)
         /\ i < start \/ i >= end => RowAt(t, i) = RowAt(s, i)
         /\ start <= i /\ i < start + p => RowAt(t, i) = Blank
         /\ start + p <= i /\ i < end => RowAt(t, i) = RowAt(s, i - p)
  <1> DEFINE seq == LineRangeRev(start + p, end)
             moved == SwapEach(s, seq, -p)
  <1>1. t = ResetLines(moved, start, start + p)
    OBVIOUS
  <1>2. /\ Shape(s) /\ s.visible_lines = n /\ n <= s.cap /\ s.cap \in Nat
        /\ i \in Int /\ i < n
    BY DEF Backs, Shape, Ring
  <1>3. start + p \in Int /\ end \in Int /\ start + p <= end
    OBVIOUS
  <1>4. PICK e \in Int : e = start + p
    BY <1>3
  <1>5. Descending(seq, e, end)
    BY <1>3, <1>4, LineRanges
  <1> HIDE DEF seq
  <1>6. end <= s.visible_lines /\ s.visible_lines - s.cap <= e - p
    BY <1>2, <1>4
  <1>7. /\ Filled(moved) /\ moved.cap = s.cap
        /\ i >= end \/ i < e - p => RowAt(moved, i) = RowAt(s, i)
        /\ e <= i /\ i < end => RowAt(moved, i) = RowAt(s, i - p)
    BY <1>2, <1>3, <1>5, <1>6, SwapDownAt
  <1>8. Shape(moved) /\ moved.visible_lines = n
    BY <1>2, RowsShape DEF SwapEach
  <1> HIDE DEF moved
  <1>9. /\ Filled(t)
        /\ start <= i /\ i < start + p => RowAt(t, i) = Blank
        /\ i < start \/ i >= start + p => RowAt(t, i) = RowAt(moved, i)
    <2>1. i \in Ring(moved) /\ start \in Int
      BY <1>2, <1>7, <1>8 DEF Ring
    <2>2. moved.visible_lines - moved.cap <= start /\ start + p <= moved.visible_lines
      BY <1>2, <1>7, <1>8
    <2> QED
      BY <1>1, <1>3, <1>7, <1>8, <2>1, <2>2, ResetRowAt
  <1>10. i >= end => i >= start + p
    BY <1>2
  <1>11. e - p = start
    BY <1>4
  <1> QED
    BY <1>2, <1>4, <1>7, <1>9, <1>10, <1>11

\* scroll_down without scrollback: the fixed lines below the region are moved out of
\* the way, everything is rotated down, and the fixed lines above it are moved back.
\* The rows the second loop carries into the region are the blank ones.
LEMMA ScrollDownRotateAt ==
  ASSUME NEW s, NEW n \in Nat, NEW m \in Nat, Backs(s, n, m), Filled(s),
         NEW start \in Nat, NEW end \in Nat, end <= n,
         NEW p \in Nat, p < end - start,
         NEW t,
         t = SwapEach(ResetLines(rotate_down(SwapEach(s, LineRange(end, n), -p), p), 0, p),
                      LineRange(0, start), p),
         NEW i \in 0 .. (n - 1)
  PROVE  /\ Filled(t)
         /\ i < start \/ i >= end => RowAt(t, i) = RowAt(s, i)
         /\ start <= i /\ i < start + p => RowAt(t, i) = Blank
         /\ start + p <= i /\ i < end => RowAt(t, i) = RowAt(s, i - p)
  <1> DEFINE below == LineRange(end, n)
             placed == SwapEach(s, below, -p)
             rotated == rotate_down(placed, p)
             cleared == ResetLines(rotated, 0, p)
             above == LineRange(0, start)
  <1>1. t = SwapEach(cleared, above, p)
    OBVIOUS
  <1>2. Shape(s) /\ s.visible_lines = n /\ n <= s.cap /\ s.cap \in Nat
    BY DEF Backs, Shape
  <1>3. PICK a \in Int, e \in Int : a = end - p /\ e = n - p
    OBVIOUS
  <1>4. Ascending(below, -p, a, e, p)
    BY <1>3, LineRanges
  <1>5. Ascending(above, p, 0, start, p)
    BY LineRanges
  <1> HIDE DEF below, above
  <1>6. s.visible_lines - s.cap <= a /\ e + p <= s.visible_lines
    BY <1>2, <1>3
  <1>7. ASSUME NEW j \in Ring(s)
        PROVE  /\ Filled(placed) /\ placed.cap = s.cap
               /\ j < a => RowAt(placed, j) = RowAt(s, j)
               /\ a <= j /\ j < e => RowAt(placed, j) = RowAt(s, j + p)
    BY <1>2, <1>4, <1>6, SwapUpAt
  <1>8. Ring(s) = (n - s.cap) .. (n - 1) /\ n - 1 \in Ring(s)
    BY <1>2 DEF Ring, Shape
  <1>9. Filled(placed) /\ placed.cap = s.cap
    BY <1>7, <1>8
  <1>10. Shape(placed) /\ placed.visible_lines = n
    BY <1>2, RowsShape DEF SwapEach
  <1> HIDE DEF placed
  <1>11. /\ Shape(rotated) /\ Filled(rotated) /\ rotated.visible_lines = n
         /\ rotated.cap = s.cap
    BY <1>9, <1>10, RotateDownShape, RotateFilled
  <1>12. ASSUME NEW j \in p .. (n - 1)
         PROVE  RowAt(rotated, j) = RowAt(placed, j - p)
    <2>1. p <= placed.cap
      BY <1>2, <1>9
    <2>2. j \in Ring(placed) /\ j - p \in Ring(placed)
      BY <1>2, <1>9, <1>10 DEF Ring
    <2> QED
      BY <1>9, <1>10, <2>1, <2>2, RotateBackAt
  <1> HIDE DEF rotated
  <1>13. ASSUME NEW j \in p .. (n - 1)
         PROVE  /\ j < end => RowAt(rotated, j) = RowAt(s, j - p)
                /\ end <= j => RowAt(rotated, j) = RowAt(s, j)
    <2>1. j - p \in Ring(s) /\ j \in Int
      BY <1>2, <1>8
    <2>2. j < end => j - p < a
      BY <1>3, <2>1
    <2>3. end <= j => a <= j - p /\ j - p < e /\ (j - p) + p = j
      BY <1>3, <2>1
    <2>4. /\ j - p < a => RowAt(placed, j - p) = RowAt(s, j - p)
          /\ a <= j - p /\ j - p < e => RowAt(placed, j - p) = RowAt(s, (j - p) + p)
      BY <1>7, <2>1
    <2> QED
      BY <1>12, <2>2, <2>3, <2>4
  <1>14. ASSUME NEW j \in 0 .. (n - 1)
         PROVE  /\ Filled(cleared)
                /\ j < p => RowAt(cleared, j) = Blank
                /\ p <= j => RowAt(cleared, j) = RowAt(rotated, j)
    <2>1. j \in Ring(rotated) /\ j \in Int
      BY <1>2, <1>11 DEF Ring
    <2>2. rotated.visible_lines - rotated.cap <= 0 /\ p <= rotated.visible_lines
      BY <1>2, <1>11
    <2> QED
      BY <1>11, <2>1, <2>2, ResetRowAt
  <1>15. Filled(cleared)
    BY <1>14
  <1>16. Shape(cleared) /\ cleared.visible_lines = n /\ cleared.cap = s.cap
    BY <1>11, RowsShape DEF ResetLines, WithRows, MkStorage
  <1> HIDE DEF cleared
  <1>17. /\ Filled(t)
         /\ i >= start + p => RowAt(t, i) = RowAt(cleared, i)
         /\ i < start => RowAt(t, i) = RowAt(cleared, i + p)
         /\ start <= i /\ i < start + p
              => \E j \in 0 .. (0 + p - 1) : RowAt(t, i) = RowAt(cleared, j)
    <2>1. i \in Ring(cleared) /\ 0 <= i
      BY <1>2, <1>16 DEF Ring
    <2>2. /\ cleared.visible_lines - cleared.cap <= 0
          /\ start + p <= cleared.visible_lines
          /\ 0 \in Int /\ start \in Int
      BY <1>2, <1>16
    <2> QED
      BY <1>1, <1>5, <1>15, <1>16, <2>1, <2>2, SwapUpAt
  <1>18. ASSUME i < start PROVE RowAt(t, i) = RowAt(s, i)
    <2>1. /\ i + p \in p .. (n - 1) /\ i + p \in 0 .. (n - 1)
          /\ p <= i + p /\ i + p < end /\ (i + p) - p = i
      BY <1>18
    <2>2. RowAt(t, i) = RowAt(rotated, i + p)
      BY <1>14, <1>17, <1>18, <2>1
    <2>3. RowAt(rotated, i + p) = RowAt(s, (i + p) - p)
      BY <1>13, <2>1
    <2> QED
      BY <2>1, <2>2, <2>3
  <1>19. ASSUME start <= i, i < start + p PROVE RowAt(t, i) = Blank
    <2>1. PICK j \in 0 .. (0 + p - 1) : RowAt(t, i) = RowAt(cleared, j)
      BY <1>17, <1>19
    <2>2. j \in 0 .. (n - 1) /\ j < p
      OBVIOUS
    <2> QED
      BY <1>14, <2>1, <2>2
  <1>20. ASSUME start + p <= i
         PROVE  /\ i >= end => RowAt(t, i) = RowAt(s, i)
                /\ i < end => RowAt(t, i) = RowAt(s, i - p)
    <2>1. i \in p .. (n - 1) /\ p <= i /\ i >= start + p
      BY <1>20
    <2>2. RowAt(t, i) = RowAt(rotated, i)
      BY <1>14, <1>17, <2>1
    <2> QED
      BY <1>13, <2>1, <2>2
  <1>21. i >= end => start + p <= i
    OBVIOUS
  <1> QED
    BY <1>17, <1>18, <1>19, <1>20, <1>21

\* What scroll_down does to the active rows, either way.
LEMMA ScrollDownAt ==
  ASSUME GridInv, Filled(raw),
         NEW start \in Nat, NEW end \in Nat, end <= lines,
         NEW p \in Nat, p < end - start,
         NEW t, t = ScrollRowsDown(start, end, p),
         NEW i \in (-history_size) .. (lines - 1)
  PROVE  /\ Filled(t)
         /\ i < start \/ i >= end => RowAt(t, i) = RowAt(raw, i)
         /\ start <= i /\ i < start + p => RowAt(t, i) = Blank
         /\ start + p <= i /\ i < end => RowAt(t, i) = RowAt(raw, i - p)
  <1> USE GridInvFacts
  <1>1. Backs(raw, lines, max_scroll_limit) /\ lines \in Nat /\ max_scroll_limit \in Nat
    BY DEF GridInv
  <1>2. CASE max_scroll_limit = 0
    <2>1. i \in 0 .. (lines - 1)
      BY <1>1, <1>2, HistoryOfBacks DEF history_size
    <2>2. t = SwapEach(ResetLines(rotate_down(SwapEach(raw, LineRange(end, lines), -p), p),
                                  0, p),
                       LineRange(0, start), p)
      BY <1>2 DEF ScrollRowsDown
    <2> QED
      BY <1>1, <2>1, <2>2, ScrollDownRotateAt
  <1>3. CASE max_scroll_limit # 0
    <2>1. i \in Ring(raw)
      BY <1>1, HistoryOfBacks DEF history_size, Ring, Backs, Shape
    <2>2. t = ResetLines(SwapEach(raw, LineRangeRev(start + p, end), -p),
                         start, start + p)
      BY <1>3 DEF ScrollRowsDown
    <2> QED
      BY <1>1, <2>1, <2>2, ScrollDownSwapAt
  <1> QED
    BY <1>2, <1>3

\* The active lines have slots.
LEMMA ActiveLines ==
  ASSUME GridInv, NEW i \in (-history_size) .. (lines - 1)
  PROVE  /\ i \in Ring(raw) /\ i \in Int
         /\ Shape(raw) /\ raw.visible_lines = lines /\ lines <= raw.cap
  <1> USE GridInvFacts
  <1>1. Shape(raw) /\ raw.visible_lines = lines
    BY DEF GridInv, Backs
  <1> QED
    BY <1>1 DEF Ring, Shape

\* The active lines of a storage.
LEMMA RingOf ==
  ASSUME NEW s, NEW n \in Nat, NEW g \in Nat, Shape(s), s.visible_lines = n,
         n + g <= s.len, NEW i \in (-g) .. (n - 1)
  PROVE  i \in Ring(s) /\ i \in Int
  BY DEF Ring, Shape

\* And after a step.
LEMMA ActiveAfter ==
  ASSUME GridInv, GridInv', NEW g, g = history_size', NEW i \in (-g) .. (lines' - 1)
  PROVE  i \in Ring(raw') /\ i \in Int
  <1>1. history_size' = raw'.len - lines'
    BY HistoryAfter
  <1>2. /\ Shape(raw') /\ raw'.visible_lines = lines' /\ lines' <= raw'.len
        /\ lines' \in Nat
    BY LinesAssumption DEF GridInv, Backs, TypeOK
  <1>3. g \in Nat /\ lines' + g <= raw'.len
    BY <1>1, <1>2 DEF Shape
  <1> QED
    BY <1>2, <1>3, RingOf

\* Dropping the oldest lines leaves the others.
LEMMA DropAt ==
  ASSUME GridInv, Filled(raw), NEW n \in Nat, n <= history_size,
         NEW t, t = shrink_lines(raw, n),
         NEW i \in (n - history_size) .. (lines - 1)
  PROVE  Filled(t) /\ RowAt(t, i) = RowAt(raw, i)
  <1> USE GridInvFacts
  <1>1. Shape(raw) /\ raw.visible_lines = lines /\ history_size = raw.len - lines
    BY HistoryOfBacks DEF GridInv, Backs, history_size
  <1>2. n < raw.len /\ i \in (raw.visible_lines - (raw.len - n)) .. (raw.visible_lines - 1)
    BY <1>1 DEF Shape
  <1> HIDE GridInvFacts
  <1> QED
    BY <1>1, <1>2, ShrinkAt

\* What is left of a history.
LEMMA DropLength ==
  ASSUME GridInv, GridInv', NEW n \in Nat, n <= history_size, lines' = lines,
         raw' = shrink_lines(raw, n)
  PROVE  history_size' = history_size - n
  <1> USE GridInvFacts
  <1>1. Shape(raw) /\ history_size = raw.len - lines
    BY HistoryOfBacks DEF GridInv, Backs, history_size
  <1>2. n < raw.len
    BY <1>1 DEF Shape
  <1>3. raw'.len = raw.len - n
    BY <1>1, <1>2, ShrinkShape
  <1>4. history_size' = raw'.len - lines'
    BY HistoryAfter
  <1> QED
    BY <1>1, <1>3, <1>4 DEF Shape

\* A taller storage: its lines move down by as many as the screen gains.
LEMMA GrownAt ==
  ASSUME NEW s, NEW n \in Nat, NEW t \in Nat, n < t, Shape(s), Filled(s),
         s.visible_lines = n, NEW j \in Ring(s), NEW i, i = j + (t - n)
  PROVE  /\ Filled(grow_visible_lines(s, t))
         /\ RowAt(grow_visible_lines(s, t), i) = RowAt(s, j)
         /\ s.cap <= grow_visible_lines(s, t).cap
  <1> DEFINE x == initialize(s, t - n)
  <1>1. t - n \in Nat /\ j \in Int /\ i \in Int /\ i - (t - n) = j
    BY DEF Ring, Shape
  <1>2. Shape(x) /\ x.visible_lines = n
    BY <1>1, InitializeShape
  <1>3. Filled(x) /\ s.cap <= x.cap /\ RowAt(x, j) = RowAt(s, j)
    BY <1>1, InitializeAt
  <1>4. grow_visible_lines(s, t) = WithVisibleLines(x, t)
    BY DEF grow_visible_lines
  <1> HIDE DEF x
  <1>5. /\ Filled(WithVisibleLines(x, t))
        /\ RowAt(WithVisibleLines(x, t), i) = RowAt(x, i - (t - x.visible_lines))
    BY <1>1, <1>2, <1>3, VisibleAt
  <1>6. WithVisibleLines(x, t).cap = x.cap
    BY DEF WithVisibleLines, MkStorage
  <1> QED
    BY <1>1, <1>2, <1>3, <1>4, <1>5, <1>6

\* The lines after grow_lines: `pulled` lines of the history are on the screen, and
\* the lines below the old screen are blank.
LEMMA GrowRows ==
  ASSUME GridInv, GridInv', Filled(raw), NEW target \in 1 .. MaxLines, lines < target,
         grow_lines(target), NEW pulled, pulled = Smaller(history_size, target - lines),
         NEW i \in (pulled - history_size) .. (target - 1)
  PROVE  /\ Filled(raw')
         /\ lines' = target /\ max_scroll_limit' = max_scroll_limit
         /\ cursor' = cursor + pulled /\ saved_cursor' = saved_cursor + pulled
         /\ history_size' = history_size - pulled
         /\ i < lines + pulled => RowAt(raw', i) = RowAt(raw, i - pulled)
         /\ i >= lines + pulled => RowAt(raw', i) = Blank
  <1> DEFINE m        == max_scroll_limit
             h        == history_size
             added    == target - lines
             grown    == grow_visible_lines(raw, target)
             delta    == added - pulled
             up       == ScrollRowsUp(grown, target, 0, target, delta)
             scrolled == IF delta # 0 THEN up ELSE grown
             count    == Smaller(added, HistorySize(scrolled, target))
             shrunk   == IF count # 0 THEN shrink_lines(scrolled, count) ELSE scrolled
  <1>1. /\ lines \in Nat \ {0} /\ target \in Nat \ {0} /\ added \in Nat \ {0}
        /\ h \in Nat /\ m \in Nat /\ h <= m
        /\ pulled \in Nat /\ pulled <= added /\ pulled <= h /\ delta \in Nat /\ delta <= target
        /\ i \in Int
    BY GridInvFacts, LinesAssumption DEF Smaller
  <1>2. Backs(raw, lines, m)
    BY DEF GridInv
  <1>3. Backs(grown, target, m) /\ grown.len - target = h
    BY <1>1, <1>2, GrowVisibleBacks, GridInvFacts
  <1>4. HistorySize(grown, target) = h
    BY <1>1, <1>3, HistoryOfBacks
  <1>5. /\ raw' = shrunk /\ lines' = target /\ max_scroll_limit' = m
        /\ cursor' = cursor + pulled /\ saved_cursor' = saved_cursor + pulled
    BY <1>4 DEF grow_lines
  <1>6. Backs(up, target, m) /\ up.len - target = Smaller(h + delta, m)
    <2> HIDE DEF grown, delta
    <2>1. 0 \in Nat /\ target \in Nat
      BY <1>1
    <2>2. up.len - target = Smaller(grown.len - target + delta, m)
      BY <1>1, <1>3, <2>1, ScrollUpLength
    <2>3. Backs(up, target, m)
      BY <1>1, <1>3, <2>1, ScrollUpBacks
    <2> QED
      BY <1>3, <2>2, <2>3
  <1>7. Shape(raw) /\ raw.visible_lines = lines /\ lines <= raw.len
    BY <1>2 DEF Backs
  <1>8. ASSUME NEW j \in Ring(raw)
        PROVE  Filled(grown) /\ RowAt(grown, j + added) = RowAt(raw, j)
    <2>1. PICK k : k = j + added
      OBVIOUS
    <2>2. Filled(grown) /\ RowAt(grown, k) = RowAt(raw, j)
      BY <1>1, <1>7, <2>1, GrownAt
    <2> QED
      BY <2>1, <2>2
  <1>9. Filled(grown)
    <2>1. 0 \in Ring(raw)
      BY <1>1, <1>7 DEF Ring, Shape
    <2> QED
      BY <1>8, <2>1
  <1> HIDE DEF grown
  <1>10. /\ Backs(scrolled, target, m)
         /\ scrolled.len - target = IF delta # 0 THEN Smaller(h + delta, m) ELSE h
         /\ scrolled.len \in Nat
    <2>1. Backs(scrolled, target, m)
      BY <1>3, <1>6
    <2> QED
      BY <2>1, <1>3, <1>6 DEF Backs, Shape
  <1>11. i < lines + pulled => i - pulled \in Ring(raw)
    <2>1. i < lines + pulled => i - pulled \in (-history_size) .. (lines - 1)
      BY <1>1
    <2> QED
      BY <2>1, ActiveLines
  <1>12. i \in Ring(scrolled)
    <2>1. h - pulled <= scrolled.len - target
      BY <1>1, <1>10 DEF Smaller
    <2> HIDE DEF scrolled
    <2> QED
      BY <1>1, <1>10, <2>1 DEF Backs, Shape, Ring
  <1>13. /\ Filled(scrolled)
         /\ i < lines + pulled => RowAt(scrolled, i) = RowAt(raw, i - pulled)
         /\ i >= lines + pulled => RowAt(scrolled, i) = Blank
    <2>1. CASE delta = 0
      <3>1. pulled = added /\ scrolled = grown
        BY <1>1, <2>1
      <3>2. i < lines + pulled /\ (i - pulled) + added = i
        BY <1>1, <3>1
      <3> HIDE DEF added, scrolled
      <3> QED
        BY <1>1, <1>8, <1>9, <1>11, <3>1, <3>2
    <2>2. CASE delta # 0
      <3>1. scrolled = up
        BY <2>2
      <3> HIDE DEF scrolled
      <3>2. i \in Ring(up)
        BY <1>12, <3>1
      <3> HIDE DEF delta
      <3>3. /\ Filled(up)
            /\ target - delta <= i /\ i < target => RowAt(up, i) = Blank
            /\ i < target - delta /\ i + delta \in Ring(grown)
                 => RowAt(up, i) = RowAt(grown, i + delta)
        BY <1>1, <1>3, <1>9, <3>2, ScrollTopAt
      <3>4. target - delta = lines + pulled
        BY <1>1 DEF delta
      <3>5. ASSUME i < lines + pulled
            PROVE  i + delta \in Ring(grown) /\ RowAt(grown, i + delta) = RowAt(raw, i - pulled)
        <4>1. (i - pulled) + added = i + delta
          BY <1>1 DEF delta
        <4>2. i + delta \in Ring(grown)
          BY <1>1, <1>3, <3>5 DEF Backs, Shape, Ring, delta
        <4>3. RowAt(grown, (i - pulled) + added) = RowAt(raw, i - pulled)
          <5> HIDE DEF added
          <5> QED
            BY <1>8, <1>11, <3>5
        <4> QED
          BY <4>1, <4>2, <4>3
      <3>6. i < target /\ (i >= lines + pulled => target - delta <= i)
            /\ (i < lines + pulled => i < target - delta)
        BY <1>1, <3>4
      <3> QED
        BY <3>1, <3>3, <3>5, <3>6
    <2> QED
      BY <2>1, <2>2
  <1>14. count \in Nat /\ scrolled.len - count = target + (h - pulled) /\ count < scrolled.len
    <2>1. HistorySize(scrolled, target) = scrolled.len - target
      BY <1>1, <1>10, HistoryOfBacks
    <2> HIDE DEF scrolled
    <2> QED
      BY <1>1, <1>10, <2>1 DEF Smaller
  <1>15. /\ Filled(shrunk) /\ RowAt(shrunk, i) = RowAt(scrolled, i)
         /\ shrunk.len = scrolled.len - count
    <2> HIDE DEF scrolled, count
    <2>1. CASE count # 0
      <3>1. Shape(scrolled) /\ scrolled.visible_lines = target
        BY <1>10 DEF Backs
      <3>2. i \in (scrolled.visible_lines - (scrolled.len - count))
                    .. (scrolled.visible_lines - 1)
        BY <1>1, <1>14, <3>1
      <3>3. shrunk = shrink_lines(scrolled, count)
        BY <2>1
      <3>4. shrunk.len = scrolled.len - count
        BY <1>14, <3>1, <3>3, ShrinkShape
      <3> QED
        BY <1>13, <1>14, <3>1, <3>2, <3>3, <3>4, ShrinkAt
    <2>2. CASE count = 0
      BY <1>10, <1>13, <2>2
    <2> QED
      BY <2>1, <2>2
  <1> HIDE DEF shrunk, scrolled, count
  <1>16. history_size' = h - pulled
    <2>1. history_size' = raw'.len - lines'
      BY HistoryAfter
    <2> QED
      BY <1>1, <1>5, <1>14, <1>15, <2>1
  <1> QED
    BY <1>5, <1>13, <1>15, <1>16

\* Rotating by d and dropping d lines takes them off the bottom of the screen.
LEMMA CutAt ==
  ASSUME NEW s, NEW n \in Nat, NEW m \in Nat, NEW t \in Nat \ {0}, t < n,
         Backs(s, n, m), Filled(s), NEW r, r = rotate(s, n - t),
         NEW i \in (n - s.len) .. (t - 1)
  PROVE  /\ Filled(shrink_visible_lines(r, t))
         /\ RowAt(shrink_visible_lines(r, t), i) = RowAt(s, i)
         /\ shrink_visible_lines(r, t).len - t = s.len - n
  <1> DEFINE d == n - t
             x == shrink_lines(r, d)
  <1>1. /\ Shape(s) /\ s.visible_lines = n /\ s.len \in Nat /\ s.cap \in Nat /\ n <= s.len
        /\ s.len <= s.cap /\ d \in Nat /\ d <= s.cap /\ -d <= s.cap /\ d \in Int
        /\ r = rotate(s, d) /\ d < s.len
    BY DEF Backs, Shape
  <1>2. PICK j : j = i + d
    OBVIOUS
  <1>3. /\ i \in Ring(s) /\ j \in Ring(s) /\ j - d = i /\ j \in Int /\ i \in Int
        /\ j \in (n - (s.len - d)) .. (n - 1) /\ j - d \in Ring(s)
        /\ i - (t - n) = j
    BY <1>1, <1>2 DEF Ring
  <1> HIDE DEF d
  <1>4. Shape(r) /\ r.len = s.len /\ r.visible_lines = n
    BY <1>1, RotateShape
  <1>5. Filled(r) /\ RowAt(r, j) = RowAt(s, i)
    BY <1>1, <1>3, RotateFilled, RotateBackAt
  <1>6. Shape(x) /\ x.len = s.len - d /\ x.visible_lines = n
    BY <1>1, <1>4, ShrinkShape
  <1>7. Filled(x) /\ RowAt(x, j) = RowAt(r, j)
    <2>1. /\ d < r.len
          /\ j \in (r.visible_lines - (r.len - d)) .. (r.visible_lines - 1)
      BY <1>1, <1>3, <1>4
    <2> QED
      BY <1>1, <1>4, <1>5, <2>1, ShrinkAt
  <1>8. shrink_visible_lines(r, t) = WithVisibleLines(x, t)
    BY <1>4 DEF shrink_visible_lines, d
  <1> HIDE DEF x
  <1>9. /\ Filled(WithVisibleLines(x, t))
        /\ RowAt(WithVisibleLines(x, t), i) = RowAt(x, i - (t - x.visible_lines))
    BY <1>3, <1>6, <1>7, VisibleAt
  <1>10. WithVisibleLines(x, t).len = x.len
    BY DEF WithVisibleLines, MkStorage
  <1>11. x.len - t = s.len - n
    BY <1>1, <1>6 DEF d
  <1> QED
    BY <1>3, <1>5, <1>6, <1>7, <1>8, <1>9, <1>10, <1>11

\* The lines after shrink_lines: `pushed` lines of the screen are in the history.
LEMMA ShrinkRows ==
  ASSUME GridInv, GridInv', Filled(raw), NEW target \in 1 .. MaxLines, lines > target,
         shrink_screen(target), NEW pushed, pushed = Larger(cursor + 1 - target, 0),
         NEW g, g = history_size', NEW i \in (-g) .. (target - 1)
  PROVE  /\ Filled(raw')
         /\ g = Smaller(history_size + pushed, max_scroll_limit)
         /\ RowAt(raw', i) = RowAt(raw, i + pushed)
  <1> DEFINE m        == max_scroll_limit
             up       == ScrollRowsUp(raw, lines, 0, lines, pushed)
             scrolled == IF pushed > 0 THEN up ELSE raw
             rotated  == rotate(scrolled, lines - target)
  <1>1. /\ lines \in Nat \ {0} /\ target \in Nat \ {0} /\ m \in Nat /\ history_size \in 0 .. m
        /\ pushed \in Nat /\ pushed <= lines /\ target + pushed <= lines
        /\ history_size = raw.len - lines
    BY GridInvFacts, LinesAssumption DEF Larger
  <1>2. Backs(raw, lines, m) /\ Shape(raw) /\ raw.len \in Nat
    BY DEF GridInv, Backs, Shape
  <1>3. lines' = target /\ raw' = shrink_visible_lines(rotated, target)
    BY DEF shrink_screen
  <1>4. Backs(up, lines, m) /\ up.len - lines = Smaller(history_size + pushed, m)
    <2>1. 0 \in Nat /\ lines \in Nat
      BY <1>1
    <2>2. Backs(up, lines, m)
      BY <1>1, <1>2, <2>1, ScrollUpBacks
    <2>3. up.len - lines = Smaller(raw.len - lines + pushed, m)
      BY <1>1, <1>2, <2>1, ScrollUpLength
    <2>4. raw.len - lines + pushed = history_size + pushed
      BY <1>1
    <2> QED
      BY <2>2, <2>3, <2>4
  <1>5. Backs(scrolled, lines, m) /\ scrolled.len - lines = Smaller(history_size + pushed, m)
    <2>1. CASE pushed > 0
      BY <1>4, <2>1
    <2>2. CASE ~(pushed > 0)
      <3>1. scrolled = raw /\ pushed = 0
        BY <1>1, <2>2
      <3> HIDE DEF scrolled
      <3> QED
        BY <1>1, <1>2, <3>1 DEF Smaller
    <2> QED
      BY <2>1, <2>2
  <1>6. Filled(scrolled)
    <2>1. CASE pushed > 0
      <3>1. 0 \in Ring(up)
        BY <1>1, <1>4 DEF Backs, Shape, Ring
      <3>2. lines \in Nat
        BY <1>1
      <3>3. Filled(up)
        BY <1>1, <1>2, <3>1, <3>2, ScrollTopAt
      <3> QED
        BY <2>1, <3>3
    <2>2. CASE ~(pushed > 0)
      BY <2>2
    <2> QED
      BY <2>1, <2>2
  <1> HIDE DEF scrolled
  <1>7. g = scrolled.len - lines /\ g \in Nat /\ scrolled.len \in Nat
    <2>1. 0 \in (lines - scrolled.len) .. (target - 1)
      BY <1>1, <1>5 DEF Backs, Shape
    <2>2. raw'.len - target = scrolled.len - lines
      BY <1>1, <1>3, <1>5, <1>6, <2>1, CutAt
    <2>3. history_size' = raw'.len - lines'
      BY HistoryAfter
    <2> QED
      BY <1>1, <1>3, <1>5, <2>2, <2>3 DEF Backs, Shape
  <1>8. i \in (lines - scrolled.len) .. (target - 1)
    BY <1>1, <1>7
  <1>9. Filled(raw') /\ RowAt(raw', i) = RowAt(scrolled, i)
    BY <1>1, <1>3, <1>5, <1>6, <1>8, CutAt
  <1>10. RowAt(scrolled, i) = RowAt(raw, i + pushed)
    <2>1. CASE pushed > 0
      <3>1. scrolled = up
        BY <2>1 DEF scrolled
      <3>2. i \in Ring(up) /\ i \in Int
        BY <1>1, <1>5, <1>7, <3>1 DEF Backs, Shape, Ring
      <3>3. i + pushed \in (-history_size) .. (lines - 1) /\ i < lines - pushed
        BY <1>1, <1>5, <1>7 DEF Smaller
      <3>4. i + pushed \in Ring(raw)
        BY <3>3, ActiveLines
      <3>5. lines \in Nat
        BY <1>1
      <3>6. i < lines - pushed /\ i + pushed \in Ring(raw) => RowAt(up, i) = RowAt(raw, i + pushed)
        BY <1>1, <1>2, <3>2, <3>5, ScrollTopAt
      <3> QED
        BY <3>1, <3>3, <3>4, <3>6
    <2>2. CASE ~(pushed > 0)
      <3>1. scrolled = raw /\ i + pushed = i
        BY <1>1, <1>7, <2>2 DEF scrolled
      <3> QED
        BY <3>1
    <2> QED
      BY <2>1, <2>2
  <1> QED
    BY <1>5, <1>7, <1>9, <1>10

-----------------------------------------------------------------------------
(* Sequences of rows.                                                      *)

\* Two sequences are the same when they have the same length and the same elements.
LEMMA SameRows ==
  ASSUME NEW u \in Seq(Rows), NEW w \in Seq(Rows), Len(u) = Len(w),
         \A k \in 1 .. Len(u) : u[k] = w[k]
  PROVE  u = w
  OBVIOUS

\* The rows a + 1 to b of a sequence.
LEMMA PartIs ==
  ASSUME NEW q \in Seq(Rows), NEW a \in Nat, NEW b \in Nat, a <= b, b <= Len(q)
  PROVE  /\ SubSeq(q, a + 1, b) \in Seq(Rows)
         /\ Len(SubSeq(q, a + 1, b)) = b - a
         /\ \A k \in 1 .. (b - a) : SubSeq(q, a + 1, b)[k] = q[a + k]
  OBVIOUS

\* Blank rows.
LEMMA BlanksAre ==
  ASSUME NEW n \in Nat
  PROVE  /\ S!Blanks(n) \in Seq(Rows)
         /\ Len(S!Blanks(n)) = n
         /\ \A k \in 1 .. n : S!Blanks(n)[k] = Blank
  BY DEF S!Blanks, S!EmptyRow, Blank, Rows

\* Two sequences, one after the other.
LEMMA JoinIs ==
  ASSUME NEW x \in Seq(Rows), NEW y \in Seq(Rows)
  PROVE  /\ x \o y \in Seq(Rows)
         /\ Len(x \o y) = Len(x) + Len(y)
         /\ \A k \in 1 .. Len(x) : (x \o y)[k] = x[k]
         /\ \A k \in 1 .. Len(y) : (x \o y)[Len(x) + k] = y[k]
  OBVIOUS

\* Nothing, after a sequence.
LEMMA NothingAfter ==
  ASSUME NEW x \in Seq(Rows)
  PROVE  x \o << >> = x
  <1> DEFINE e == << >>
  <1>1. e \in Seq(Rows) /\ Len(e) = 0
    OBVIOUS
  <1> HIDE DEF e
  <1>2. /\ x \o e \in Seq(Rows) /\ Len(x \o e) = Len(x)
        /\ \A k \in 1 .. Len(x) : (x \o e)[k] = x[k]
    BY <1>1, JoinIs
  <1>3. x \o e = x
    BY <1>2, SameRows
  <1> QED
    BY <1>3 DEF e

\* u has the rows of w, x, y and z, in this order.
Joins(u, w, x, y, z) ==
  /\ Len(u) = Len(w) + Len(x) + Len(y) + Len(z)
  /\ \A k \in 1 .. Len(w) : u[k] = w[k]
  /\ \A k \in 1 .. Len(x) : u[Len(w) + k] = x[k]
  /\ \A k \in 1 .. Len(y) : u[Len(w) + Len(x) + k] = y[k]
  /\ \A k \in 1 .. Len(z) : u[Len(w) + Len(x) + Len(y) + k] = z[k]

\* A sequence made of four others.
LEMMA FourParts ==
  ASSUME NEW w \in Seq(Rows), NEW x \in Seq(Rows), NEW y \in Seq(Rows), NEW z \in Seq(Rows),
         NEW u \in Seq(Rows), Joins(u, w, x, y, z)
  PROVE  u = w \o x \o y \o z
  <1> DEFINE wx  == w \o x
             wxy == wx \o y
             all == wxy \o z
  <1>1. /\ wx \in Seq(Rows) /\ Len(wx) = Len(w) + Len(x)
        /\ \A k \in 1 .. Len(w) : wx[k] = w[k]
        /\ \A k \in 1 .. Len(x) : wx[Len(w) + k] = x[k]
    BY JoinIs
  <1> HIDE DEF wx
  <1>2. /\ wxy \in Seq(Rows) /\ Len(wxy) = Len(wx) + Len(y)
        /\ \A k \in 1 .. Len(wx) : wxy[k] = wx[k]
        /\ \A k \in 1 .. Len(y) : wxy[Len(wx) + k] = y[k]
    BY <1>1, JoinIs
  <1> HIDE DEF wxy
  <1>3. /\ all \in Seq(Rows) /\ Len(all) = Len(wxy) + Len(z)
        /\ \A k \in 1 .. Len(wxy) : all[k] = wxy[k]
        /\ \A k \in 1 .. Len(z) : all[Len(wxy) + k] = z[k]
    BY <1>2, JoinIs
  <1> HIDE DEF all
  <1>4. /\ Len(w) \in Nat /\ Len(x) \in Nat /\ Len(y) \in Nat /\ Len(z) \in Nat
        /\ Len(all) = Len(u)
    BY <1>1, <1>2, <1>3 DEF Joins
  <1>5. ASSUME NEW k \in 1 .. Len(u) PROVE u[k] = all[k]
    <2>1. CASE k <= Len(w)
      <3>1. k \in 1 .. Len(w) /\ k \in 1 .. Len(wx) /\ k \in 1 .. Len(wxy)
        BY <1>1, <1>2, <1>4, <2>1
      <3> QED
        BY <1>1, <1>2, <1>3, <3>1 DEF Joins
    <2>2. CASE Len(w) < k /\ k <= Len(wx)
      <3>1. PICK j \in 1 .. Len(x) : k = Len(w) + j
        <4>1. k - Len(w) \in 1 .. Len(x) /\ k = Len(w) + (k - Len(w))
          BY <1>1, <1>4, <2>2
        <4> QED
          BY <4>1
      <3>2. k \in 1 .. Len(wx) /\ k \in 1 .. Len(wxy)
        BY <1>1, <1>2, <1>4, <2>2
      <3> QED
        BY <1>1, <1>2, <1>3, <3>1, <3>2 DEF Joins
    <2>3. CASE Len(wx) < k /\ k <= Len(wxy)
      <3>1. PICK j \in 1 .. Len(y) : k = Len(wx) + j
        <4>1. k - Len(wx) \in 1 .. Len(y) /\ k = Len(wx) + (k - Len(wx))
          BY <1>1, <1>2, <1>4, <2>3
        <4> QED
          BY <4>1
      <3>2. k \in 1 .. Len(wxy)
        BY <1>1, <1>2, <1>4, <2>3
      <3>3. u[k] = y[j]
        BY <1>1, <3>1 DEF Joins
      <3> QED
        BY <1>2, <1>3, <3>1, <3>2, <3>3
    <2>4. CASE Len(wxy) < k
      <3>1. PICK j \in 1 .. Len(z) : k = Len(wxy) + j
        <4>1. k - Len(wxy) \in 1 .. Len(z) /\ k = Len(wxy) + (k - Len(wxy))
          BY <1>1, <1>2, <1>3, <1>4, <2>4
        <4> QED
          BY <4>1
      <3>2. u[k] = z[j]
        BY <1>1, <1>2, <3>1 DEF Joins
      <3> QED
        BY <1>3, <3>1, <3>2
    <2> QED
      BY <1>1, <1>2, <1>4, <2>1, <2>2, <2>3, <2>4
  <1>6. u = all
    BY <1>3, <1>4, <1>5, SameRows
  <1> QED
    BY <1>6 DEF all, wxy, wx

\* The same with an empty sequence at the end.
LEMMA ThreeParts ==
  ASSUME NEW w \in Seq(Rows), NEW x \in Seq(Rows), NEW y \in Seq(Rows),
         NEW u \in Seq(Rows), Joins(u, w, x, y, << >>)
  PROVE  u = w \o x \o y
  <1> DEFINE e == << >>
  <1>1. e \in Seq(Rows) /\ Joins(u, w, x, y, e)
    OBVIOUS
  <1> HIDE DEF e
  <1>2. u = w \o x \o y \o e
    BY <1>1, FourParts
  <1>3. w \o x \o y \in Seq(Rows)
    BY JoinIs
  <1> QED
    BY <1>2, <1>3, NothingAfter DEF e

\* u has the last n rows of q.
IsLast(u, q, n) ==
  /\ Len(u) = Smaller(Len(q), n)
  /\ \A k \in 1 .. Len(u) : u[k] = q[k + (Len(q) - Len(u))]

\* The last rows of a sequence.
LEMMA LastRowsAre ==
  ASSUME NEW q \in Seq(Rows), NEW n \in Nat, NEW u \in Seq(Rows), IsLast(u, q, n)
  PROVE  u = S!LastRows(q, n)
  <1> DEFINE a == Len(q) - Len(u)
             b == Len(q)
             w == SubSeq(q, a + 1, b)
  <1>1. a \in Nat /\ b \in Nat /\ a <= b /\ b <= Len(q) /\ b - a = Len(u)
    BY DEF Smaller, IsLast
  <1>2. w \in Seq(Rows) /\ Len(w) = b - a /\ \A k \in 1 .. (b - a) : w[k] = q[a + k]
    BY <1>1, PartIs
  <1>3. Len(q) - S!Smallest(n, Len(q)) = a
    BY DEF S!Smallest, Smaller, IsLast
  <1>4. S!LastRows(q, n) = w
    BY <1>3 DEF S!LastRows
  <1>5. ASSUME NEW k \in 1 .. Len(u) PROVE u[k] = w[k]
    <2>1. k \in 1 .. (b - a) /\ k + a = a + k
      BY <1>1
    <2>2. u[k] = q[k + a]
      BY DEF IsLast
    <2> QED
      BY <1>2, <2>1, <2>2
  <1> HIDE DEF w
  <1>6. u = w
    BY <1>1, <1>2, <1>5, SameRows
  <1> QED
    BY <1>4, <1>6

\* u has the last n rows of q followed by r.
IsPushed(u, q, r, n) ==
  /\ Len(u) = Smaller(Len(q) + Len(r), n)
  /\ \A k \in 1 .. Len(u) :
       LET i == k + (Len(q) + Len(r) - Len(u))
       IN  /\ i <= Len(q) => u[k] = q[i]
           /\ i > Len(q) => u[k] = r[i - Len(q)]

\* What a history is after rows were pushed into it.
LEMMA PushedRows ==
  ASSUME NEW q \in Seq(Rows), NEW r \in Seq(Rows), NEW n \in Nat, NEW u \in Seq(Rows),
         IsPushed(u, q, r, n)
  PROVE  u = S!LastRows(q \o r, n)
  <1> DEFINE w == q \o r
             lost == Len(q) + Len(r) - Len(u)
  <1>1. /\ w \in Seq(Rows) /\ Len(w) = Len(q) + Len(r)
        /\ \A k \in 1 .. Len(q) : w[k] = q[k]
        /\ \A k \in 1 .. Len(r) : w[Len(q) + k] = r[k]
    BY JoinIs
  <1> HIDE DEF w
  <1>2. /\ Len(w) - Len(u) = lost /\ Len(u) = Smaller(Len(w), n)
        /\ lost \in Nat /\ Len(u) + lost = Len(q) + Len(r)
    BY <1>1 DEF IsPushed, Smaller
  <1>3. ASSUME NEW k \in 1 .. Len(u) PROVE u[k] = w[k + lost]
    <2>1. /\ k + lost <= Len(q) => u[k] = q[k + lost]
          /\ k + lost > Len(q) => u[k] = r[k + lost - Len(q)]
      BY DEF IsPushed
    <2> HIDE DEF lost
    <2>2. CASE k + lost <= Len(q)
      <3>1. k + lost \in 1 .. Len(q)
        BY <1>2, <2>2
      <3> QED
        BY <1>1, <2>1, <2>2, <3>1
    <2>3. CASE k + lost > Len(q)
      <3>1. k + lost - Len(q) \in 1 .. Len(r) /\ Len(q) + (k + lost - Len(q)) = k + lost
        BY <1>2, <2>3
      <3>2. w[Len(q) + (k + lost - Len(q))] = r[k + lost - Len(q)]
        BY <1>1, <3>1
      <3> QED
        BY <2>1, <2>3, <3>1, <3>2
    <2> QED
      BY <1>2, <2>2, <2>3
  <1> HIDE DEF lost
  <1>4. IsLast(u, w, n)
    BY <1>2, <1>3 DEF IsLast
  <1>5. u = S!LastRows(w, n)
    BY <1>1, <1>4, LastRowsAre
  <1> QED
    BY <1>5 DEF w

-----------------------------------------------------------------------------
(* From lines to sequences.                                                *)

\* q has the lines of a screen of n lines.
IsScreen(q, s, n) ==
  /\ q \in Seq(Rows)
  /\ Len(q) = n
  /\ \A k \in 1 .. n : q[k] = RowAt(s, k - 1)

\* q has the lines of a history of h lines.
IsHistory(q, s, h) ==
  /\ q \in Seq(Rows)
  /\ Len(q) = h
  /\ \A k \in 1 .. h : q[k] = RowAt(s, k - 1 - h)

\* The lines a + 1 to b of a screen.
PartOf(q, a, b) == SubSeq(q, a + 1, b)

\* They are lines a to b - 1.
LEMMA PartOfScreen ==
  ASSUME NEW s, NEW n \in Nat, NEW q, IsScreen(q, s, n),
         NEW a \in Nat, NEW b \in Nat, a <= b, b <= n
  PROVE  /\ PartOf(q, a, b) \in Seq(Rows)
         /\ Len(PartOf(q, a, b)) = b - a
         /\ \A k \in 1 .. (b - a) : PartOf(q, a, b)[k] = RowAt(s, a + k - 1)
  <1>1. q \in Seq(Rows) /\ b <= Len(q)
    BY DEF IsScreen
  <1>2. /\ PartOf(q, a, b) \in Seq(Rows)
        /\ Len(PartOf(q, a, b)) = b - a
        /\ \A k \in 1 .. (b - a) : PartOf(q, a, b)[k] = q[a + k]
    BY <1>1, PartIs DEF PartOf
  <1>3. ASSUME NEW k \in 1 .. (b - a) PROVE q[a + k] = RowAt(s, a + k - 1)
    <2>1. a + k \in 1 .. n
      OBVIOUS
    <2> QED
      BY <2>1 DEF IsScreen
  <1> QED
    BY <1>2, <1>3

\* The first lines of a screen.
LEMMA HeadOfScreen ==
  ASSUME NEW s, NEW n \in Nat, NEW q, IsScreen(q, s, n), NEW b \in Nat, b <= n
  PROVE  /\ PartOf(q, 0, b) \in Seq(Rows)
         /\ Len(PartOf(q, 0, b)) = b
         /\ \A k \in 1 .. b : PartOf(q, 0, b)[k] = RowAt(s, k - 1)
  <1> DEFINE a == 0
  <1>1. a \in Nat /\ a <= b
    OBVIOUS
  <1> HIDE DEF a
  <1>2. /\ PartOf(q, a, b) \in Seq(Rows) /\ Len(PartOf(q, a, b)) = b - a
        /\ \A k \in 1 .. (b - a) : PartOf(q, a, b)[k] = RowAt(s, a + k - 1)
    BY <1>1, PartOfScreen
  <1> QED
    BY <1>2 DEF a

\* Lines start to end - 1 have moved up by p, blank lines have entered.
UpRows(s, t, n, start, end, p) ==
  \A i \in 0 .. (n - 1) :
    /\ i < start \/ i >= end => RowAt(t, i) = RowAt(s, i)
    /\ start <= i /\ i < end - p => RowAt(t, i) = RowAt(s, i + p)
    /\ end - p <= i /\ i < end => RowAt(t, i) = Blank

\* Lines start to end - 1 have moved down by p.
DownRows(s, t, n, start, end, p) ==
  \A i \in 0 .. (n - 1) :
    /\ i < start \/ i >= end => RowAt(t, i) = RowAt(s, i)
    /\ start <= i /\ i < start + p => RowAt(t, i) = Blank
    /\ start + p <= i /\ i < end => RowAt(t, i) = RowAt(s, i - p)

\* The screen after lines moved up.
LEMMA UpScreen ==
  ASSUME NEW s, NEW t, NEW n \in Nat, NEW q, NEW u, IsScreen(q, s, n), IsScreen(u, t, n),
         NEW start \in Nat, NEW end \in Nat, NEW p \in Nat, start + p <= end, end <= n,
         UpRows(s, t, n, start, end, p)
  PROVE  u = PartOf(q, 0, start) \o PartOf(q, start + p, end) \o S!Blanks(p)
               \o PartOf(q, end, n)
  <1> DEFINE w == PartOf(q, 0, start)
             x == PartOf(q, start + p, end)
             y == S!Blanks(p)
             z == PartOf(q, end, n)
  <1>1. /\ w \in Seq(Rows) /\ Len(w) = start
        /\ \A k \in 1 .. start : w[k] = RowAt(s, k - 1)
    <2>1. start <= n
      OBVIOUS
    <2> QED
      BY <2>1, HeadOfScreen
  <1>2. /\ x \in Seq(Rows) /\ Len(x) = end - (start + p)
        /\ \A k \in 1 .. (end - (start + p)) : x[k] = RowAt(s, (start + p) + k - 1)
    <2> DEFINE a == start + p
    <2>1. a \in Nat /\ a <= end
      OBVIOUS
    <2> HIDE DEF a
    <2>2. /\ PartOf(q, a, end) \in Seq(Rows) /\ Len(PartOf(q, a, end)) = end - a
          /\ \A k \in 1 .. (end - a) : PartOf(q, a, end)[k] = RowAt(s, a + k - 1)
      BY <2>1, PartOfScreen
    <2> QED
      BY <2>2 DEF a
  <1>3. y \in Seq(Rows) /\ Len(y) = p /\ \A k \in 1 .. p : y[k] = Blank
    BY BlanksAre
  <1>4. /\ z \in Seq(Rows) /\ Len(z) = n - end
        /\ \A k \in 1 .. (n - end) : z[k] = RowAt(s, end + k - 1)
    <2>1. n <= n
      OBVIOUS
    <2> QED
      BY <2>1, PartOfScreen
  <1> HIDE DEF w, x, y, z
  <1>5. /\ u \in Seq(Rows) /\ Len(u) = n
        /\ \A k \in 1 .. n : u[k] = RowAt(t, k - 1)
    BY DEF IsScreen
  <1>6. ASSUME NEW k \in 1 .. Len(w) PROVE u[k] = w[k]
    <2>1. k \in 1 .. start /\ k \in 1 .. n /\ k - 1 \in 0 .. (n - 1) /\ k - 1 < start
      BY <1>1
    <2> QED
      BY <1>1, <1>5, <2>1 DEF UpRows
  <1>7. ASSUME NEW k \in 1 .. Len(x) PROVE u[Len(w) + k] = x[k]
    <2>1. PICK i \in 0 .. (n - 1) : i = start + k - 1
      BY <1>2
    <2>2. u[Len(w) + k] = RowAt(t, i)
      BY <1>1, <1>5, <2>1
    <2>3. start <= i /\ i < end - p /\ i + p = (start + p) + k - 1
      BY <1>2, <2>1
    <2>4. x[k] = RowAt(s, i + p)
      BY <1>2, <2>3
    <2>5. RowAt(t, i) = RowAt(s, i + p)
      BY <2>3 DEF UpRows
    <2> QED
      BY <2>2, <2>4, <2>5
  <1>8. ASSUME NEW k \in 1 .. Len(y) PROVE u[Len(w) + Len(x) + k] = y[k]
    <2>1. PICK i \in 0 .. (n - 1) : i = end - p + k - 1
      BY <1>3
    <2>2. u[Len(w) + Len(x) + k] = RowAt(t, i)
      BY <1>1, <1>2, <1>5, <2>1
    <2>3. end - p <= i /\ i < end
      BY <1>3, <2>1
    <2>4. RowAt(t, i) = Blank
      BY <2>3 DEF UpRows
    <2> QED
      BY <1>3, <2>2, <2>4
  <1>9. ASSUME NEW k \in 1 .. Len(z) PROVE u[Len(w) + Len(x) + Len(y) + k] = z[k]
    <2>1. PICK i \in 0 .. (n - 1) : i = end + k - 1
      BY <1>4
    <2>2. u[Len(w) + Len(x) + Len(y) + k] = RowAt(t, i)
      BY <1>1, <1>2, <1>3, <1>5, <2>1
    <2>3. i >= end
      BY <1>4, <2>1
    <2>4. RowAt(t, i) = RowAt(s, i)
      BY <2>3 DEF UpRows
    <2> QED
      BY <1>4, <2>1, <2>2, <2>4
  <1>10. Len(u) = Len(w) + Len(x) + Len(y) + Len(z)
    BY <1>1, <1>2, <1>3, <1>4, <1>5
  <1>11. Joins(u, w, x, y, z)
    BY <1>6, <1>7, <1>8, <1>9, <1>10 DEF Joins
  <1>12. u = w \o x \o y \o z
    BY <1>1, <1>2, <1>3, <1>4, <1>5, <1>11, FourParts
  <1> QED
    BY <1>12 DEF w, x, y, z

\* The screen after lines moved down.
LEMMA DownScreen ==
  ASSUME NEW s, NEW t, NEW n \in Nat, NEW q, NEW u, IsScreen(q, s, n), IsScreen(u, t, n),
         NEW start \in Nat, NEW end \in Nat, NEW p \in Nat, start + p <= end, end <= n,
         DownRows(s, t, n, start, end, p)
  PROVE  u = PartOf(q, 0, start) \o S!Blanks(p) \o PartOf(q, start, end - p)
               \o PartOf(q, end, n)
  <1> DEFINE w == PartOf(q, 0, start)
             x == S!Blanks(p)
             y == PartOf(q, start, end - p)
             z == PartOf(q, end, n)
  <1>1. /\ w \in Seq(Rows) /\ Len(w) = start
        /\ \A k \in 1 .. start : w[k] = RowAt(s, k - 1)
    <2>1. start <= n
      OBVIOUS
    <2> QED
      BY <2>1, HeadOfScreen
  <1>2. x \in Seq(Rows) /\ Len(x) = p /\ \A k \in 1 .. p : x[k] = Blank
    BY BlanksAre
  <1>3. /\ y \in Seq(Rows) /\ Len(y) = end - p - start
        /\ \A k \in 1 .. (end - p - start) : y[k] = RowAt(s, start + k - 1)
    <2> DEFINE b == end - p
    <2>1. b \in Nat /\ start <= b /\ b <= n
      OBVIOUS
    <2> HIDE DEF b
    <2>2. /\ PartOf(q, start, b) \in Seq(Rows) /\ Len(PartOf(q, start, b)) = b - start
          /\ \A k \in 1 .. (b - start) : PartOf(q, start, b)[k] = RowAt(s, start + k - 1)
      BY <2>1, PartOfScreen
    <2> QED
      BY <2>2 DEF b
  <1>4. /\ z \in Seq(Rows) /\ Len(z) = n - end
        /\ \A k \in 1 .. (n - end) : z[k] = RowAt(s, end + k - 1)
    <2>1. n <= n
      OBVIOUS
    <2> QED
      BY <2>1, PartOfScreen
  <1> HIDE DEF w, x, y, z
  <1>5. /\ u \in Seq(Rows) /\ Len(u) = n
        /\ \A k \in 1 .. n : u[k] = RowAt(t, k - 1)
    BY DEF IsScreen
  <1>6. ASSUME NEW k \in 1 .. Len(w) PROVE u[k] = w[k]
    <2>1. k \in 1 .. start /\ k \in 1 .. n /\ k - 1 \in 0 .. (n - 1) /\ k - 1 < start
      BY <1>1
    <2> QED
      BY <1>1, <1>5, <2>1 DEF DownRows
  <1>7. ASSUME NEW k \in 1 .. Len(x) PROVE u[Len(w) + k] = x[k]
    <2>1. PICK i \in 0 .. (n - 1) : i = start + k - 1
      BY <1>2
    <2>2. u[Len(w) + k] = RowAt(t, i)
      BY <1>1, <1>5, <2>1
    <2>3. start <= i /\ i < start + p
      BY <1>2, <2>1
    <2>4. RowAt(t, i) = Blank
      BY <2>3 DEF DownRows
    <2> QED
      BY <1>2, <2>2, <2>4
  <1>8. ASSUME NEW k \in 1 .. Len(y) PROVE u[Len(w) + Len(x) + k] = y[k]
    <2>1. PICK i \in 0 .. (n - 1) : i = start + p + k - 1
      BY <1>3
    <2>2. u[Len(w) + Len(x) + k] = RowAt(t, i)
      BY <1>1, <1>2, <1>5, <2>1
    <2>3. start + p <= i /\ i < end /\ i - p = start + k - 1
      BY <1>3, <2>1
    <2>4. y[k] = RowAt(s, i - p)
      BY <1>3, <2>3
    <2>5. RowAt(t, i) = RowAt(s, i - p)
      BY <2>3 DEF DownRows
    <2> QED
      BY <2>2, <2>4, <2>5
  <1>9. ASSUME NEW k \in 1 .. Len(z) PROVE u[Len(w) + Len(x) + Len(y) + k] = z[k]
    <2>1. PICK i \in 0 .. (n - 1) : i = end + k - 1
      BY <1>4
    <2>2. u[Len(w) + Len(x) + Len(y) + k] = RowAt(t, i)
      <3>1. /\ Len(w) + Len(x) + Len(y) + k = i + 1
            /\ i + 1 \in 1 .. n /\ (i + 1) - 1 = i
        BY <1>1, <1>2, <1>3, <1>4, <2>1
      <3>2. u[i + 1] = RowAt(t, (i + 1) - 1)
        BY <1>5, <3>1
      <3> QED
        BY <3>1, <3>2
    <2>3. i >= end
      BY <1>4, <2>1
    <2>4. RowAt(t, i) = RowAt(s, i)
      BY <2>3 DEF DownRows
    <2> QED
      BY <1>4, <2>1, <2>2, <2>4
  <1>10. Len(u) = Len(w) + Len(x) + Len(y) + Len(z)
    BY <1>1, <1>2, <1>3, <1>4, <1>5
  <1>11. Joins(u, w, x, y, z)
    BY <1>6, <1>7, <1>8, <1>9, <1>10 DEF Joins
  <1>12. u = w \o x \o y \o z
    BY <1>1, <1>2, <1>3, <1>4, <1>5, <1>11, FourParts
  <1> QED
    BY <1>12 DEF w, x, y, z

\* Lines start to end - 1 are blank.
ClearRows(s, t, n, start, end) ==
  \A i \in 0 .. (n - 1) :
    /\ i < start \/ i >= end => RowAt(t, i) = RowAt(s, i)
    /\ start <= i /\ i < end => RowAt(t, i) = Blank

\* The screen after lines were cleared.
LEMMA ClearScreen ==
  ASSUME NEW s, NEW t, NEW n \in Nat, NEW q, NEW u, IsScreen(q, s, n), IsScreen(u, t, n),
         NEW start \in Nat, NEW end \in Nat, start <= end, end <= n,
         ClearRows(s, t, n, start, end)
  PROVE  u = PartOf(q, 0, start) \o S!Blanks(end - start) \o PartOf(q, end, n)
  <1> DEFINE p == end - start
             w == PartOf(q, 0, start)
             x == S!Blanks(p)
             y == PartOf(q, end, n)
             z == << >>
  <1>1. /\ w \in Seq(Rows) /\ Len(w) = start
        /\ \A k \in 1 .. start : w[k] = RowAt(s, k - 1)
    <2>1. start <= n
      OBVIOUS
    <2> QED
      BY <2>1, HeadOfScreen
  <1>2. p \in Nat
    OBVIOUS
  <1>3. x \in Seq(Rows) /\ Len(x) = p /\ \A k \in 1 .. p : x[k] = Blank
    <2> HIDE DEF p
    <2> QED
      BY <1>2, BlanksAre
  <1>4. /\ y \in Seq(Rows) /\ Len(y) = n - end
        /\ \A k \in 1 .. (n - end) : y[k] = RowAt(s, end + k - 1)
    <2>1. n <= n
      OBVIOUS
    <2> QED
      BY <2>1, PartOfScreen
  <1> HIDE DEF w, x, y
  <1>5. /\ u \in Seq(Rows) /\ Len(u) = n
        /\ \A k \in 1 .. n : u[k] = RowAt(t, k - 1)
    BY DEF IsScreen
  <1>6. ASSUME NEW k \in 1 .. Len(w) PROVE u[k] = w[k]
    <2>1. k \in 1 .. start /\ k \in 1 .. n /\ k - 1 \in 0 .. (n - 1) /\ k - 1 < start
      BY <1>1
    <2> QED
      BY <1>1, <1>5, <2>1 DEF ClearRows
  <1>7. ASSUME NEW k \in 1 .. Len(x) PROVE u[Len(w) + k] = x[k]
    <2>1. PICK i \in 0 .. (n - 1) : i = start + k - 1
      BY <1>3
    <2>2. u[Len(w) + k] = RowAt(t, i)
      BY <1>1, <1>5, <2>1
    <2>3. start <= i /\ i < end
      BY <1>3, <2>1
    <2>4. RowAt(t, i) = Blank
      BY <2>3 DEF ClearRows
    <2> QED
      BY <1>3, <2>2, <2>4
  <1>8. ASSUME NEW k \in 1 .. Len(y) PROVE u[Len(w) + Len(x) + k] = y[k]
    <2>1. PICK i \in 0 .. (n - 1) : i = end + k - 1
      BY <1>4
    <2>2. u[Len(w) + Len(x) + k] = RowAt(t, i)
      BY <1>1, <1>3, <1>5, <2>1
    <2>3. i >= end
      BY <1>4, <2>1
    <2>4. RowAt(t, i) = RowAt(s, i)
      BY <2>3 DEF ClearRows
    <2> QED
      BY <1>4, <2>1, <2>2, <2>4
  <1>9. Len(z) = 0
    OBVIOUS
  <1>10. Len(u) = Len(w) + Len(x) + Len(y) + Len(z)
    BY <1>1, <1>3, <1>4, <1>5, <1>9
  <1>11. Joins(u, w, x, y, z)
    <2> HIDE DEF z
    <2> QED
      BY <1>6, <1>7, <1>8, <1>9, <1>10 DEF Joins
  <1>12. u = w \o x \o y
    BY <1>1, <1>3, <1>4, <1>5, <1>11, ThreeParts
  <1> QED
    BY <1>12 DEF w, x, y

\* The history after p lines of the screen moved into it.
LEMMA PushHistory ==
  ASSUME NEW s, NEW t, NEW n \in Nat, NEW h \in Nat, NEW g \in Nat, NEW m \in Nat,
         NEW q, NEW scr, NEW u,
         IsScreen(scr, s, n), IsHistory(q, s, h), IsHistory(u, t, g),
         NEW p \in Nat, p <= n, g = Smaller(h + p, m),
         \A i \in (-g) .. (-1) : RowAt(t, i) = RowAt(s, i + p)
  PROVE  u = S!LastRows(q \o PartOf(scr, 0, p), m)
  <1> DEFINE r == PartOf(scr, 0, p)
  <1>1. /\ r \in Seq(Rows) /\ Len(r) = p
        /\ \A k \in 1 .. p : r[k] = RowAt(s, k - 1)
    BY HeadOfScreen
  <1> HIDE DEF r
  <1>2. /\ q \in Seq(Rows) /\ Len(q) = h
        /\ \A k \in 1 .. h : q[k] = RowAt(s, k - 1 - h)
        /\ u \in Seq(Rows) /\ Len(u) = g
        /\ \A k \in 1 .. g : u[k] = RowAt(t, k - 1 - g)
    BY DEF IsHistory
  <1>3. ASSUME NEW k \in 1 .. g, NEW i, i = k + (h + p - g)
        PROVE  /\ i <= h => u[k] = q[i]
               /\ i > h => u[k] = r[i - h]
    <2>1. i \in Nat \ {0} /\ i <= h + p
      BY <1>3 DEF Smaller
    <2>2. PICK j \in (-g) .. (-1) : j = k - 1 - g
      OBVIOUS
    <2>3. u[k] = RowAt(s, j + p)
      BY <1>2, <2>2
    <2>4. ASSUME i <= h PROVE q[i] = RowAt(s, j + p)
      <3>1. i \in 1 .. h /\ i - 1 - h = j + p
        BY <1>3, <2>1, <2>2, <2>4
      <3> QED
        BY <1>2, <3>1
    <2>5. ASSUME i > h PROVE r[i - h] = RowAt(s, j + p)
      <3>1. i - h \in 1 .. p /\ (i - h) - 1 = j + p
        BY <1>3, <2>1, <2>2, <2>5
      <3> QED
        BY <1>1, <3>1
    <2> QED
      BY <2>3, <2>4, <2>5
  <1>4. IsPushed(u, q, r, m)
    BY <1>1, <1>2, <1>3 DEF IsPushed
  <1>5. u = S!LastRows(q \o r, m)
    BY <1>1, <1>2, <1>4, PushedRows
  <1> QED
    BY <1>5 DEF r

\* A history whose lines stay where they are.
LEMMA SameHistory ==
  ASSUME NEW s, NEW t, NEW h \in Nat, NEW q, NEW u, IsHistory(q, s, h), IsHistory(u, t, h),
         \A i \in (-h) .. (-1) : RowAt(t, i) = RowAt(s, i)
  PROVE  u = q
  <1>1. /\ q \in Seq(Rows) /\ Len(q) = h
        /\ \A k \in 1 .. h : q[k] = RowAt(s, k - 1 - h)
        /\ u \in Seq(Rows) /\ Len(u) = h
        /\ \A k \in 1 .. h : u[k] = RowAt(t, k - 1 - h)
    BY DEF IsHistory
  <1>2. ASSUME NEW k \in 1 .. h PROVE u[k] = q[k]
    <2>1. k - 1 - h \in (-h) .. (-1)
      OBVIOUS
    <2> QED
      BY <1>1, <2>1
  <1> QED
    BY <1>1, <1>2, SameRows

\* A screen whose lines stay where they are.
LEMMA SameScreen ==
  ASSUME NEW s, NEW t, NEW n \in Nat, NEW q, NEW u, IsScreen(q, s, n), IsScreen(u, t, n),
         \A i \in 0 .. (n - 1) : RowAt(t, i) = RowAt(s, i)
  PROVE  u = q
  <1>1. /\ q \in Seq(Rows) /\ Len(q) = n
        /\ \A k \in 1 .. n : q[k] = RowAt(s, k - 1)
        /\ u \in Seq(Rows) /\ Len(u) = n
        /\ \A k \in 1 .. n : u[k] = RowAt(t, k - 1)
    BY DEF IsScreen
  <1>2. ASSUME NEW k \in 1 .. n PROVE u[k] = q[k]
    <2>1. k - 1 \in 0 .. (n - 1)
      OBVIOUS
    <2> QED
      BY <1>1, <2>1
  <1> QED
    BY <1>1, <1>2, SameRows

\* A history without lines.
LEMMA EmptyHistory ==
  ASSUME NEW s, NEW u, IsHistory(u, s, 0)
  PROVE  u = <<>>
  BY DEF IsHistory

\* A history that keeps its last lines.
LEMMA LastHistory ==
  ASSUME NEW s, NEW t, NEW h \in Nat, NEW g \in Nat, NEW m \in Nat, NEW q, NEW u,
         IsHistory(q, s, h), IsHistory(u, t, g), g = Smaller(h, m),
         \A i \in (-g) .. (-1) : RowAt(t, i) = RowAt(s, i)
  PROVE  u = S!LastRows(q, m)
  <1>1. /\ q \in Seq(Rows) /\ Len(q) = h
        /\ \A k \in 1 .. h : q[k] = RowAt(s, k - 1 - h)
        /\ u \in Seq(Rows) /\ Len(u) = g
        /\ \A k \in 1 .. g : u[k] = RowAt(t, k - 1 - g)
    BY DEF IsHistory
  <1>2. ASSUME NEW k \in 1 .. g PROVE u[k] = q[k + (h - g)]
    <2>1. /\ k - 1 - g \in (-g) .. (-1) /\ k + (h - g) \in 1 .. h
          /\ (k + (h - g)) - 1 - h = k - 1 - g
      BY DEF Smaller
    <2> QED
      BY <1>1, <2>1
  <1>3. IsLast(u, q, m)
    BY <1>1, <1>2 DEF IsLast
  <1> QED
    BY <1>1, <1>3, LastRowsAre

\* A screen of blank lines.
LEMMA BlankScreen ==
  ASSUME NEW s, NEW n \in Nat, NEW q, IsScreen(q, s, n),
         \A i \in 0 .. (n - 1) : RowAt(s, i) = Blank
  PROVE  q = S!Blanks(n)
  <1>1. /\ q \in Seq(Rows) /\ Len(q) = n
        /\ \A k \in 1 .. n : q[k] = RowAt(s, k - 1)
    BY DEF IsScreen
  <1>2. /\ S!Blanks(n) \in Seq(Rows) /\ Len(S!Blanks(n)) = n
        /\ \A k \in 1 .. n : S!Blanks(n)[k] = Blank
    BY BlanksAre
  <1>3. ASSUME NEW k \in 1 .. n PROVE q[k] = S!Blanks(n)[k]
    <2>1. k - 1 \in 0 .. (n - 1)
      OBVIOUS
    <2> QED
      BY <1>1, <1>2, <2>1
  <1> QED
    BY <1>1, <1>2, <1>3, SameRows

\* The last p rows of a history of h rows.
LEMMA TailOfHistory ==
  ASSUME NEW s, NEW h \in Nat, NEW q, IsHistory(q, s, h), NEW p \in Nat, p <= h
  PROVE  /\ S!LastRows(q, p) \in Seq(Rows)
         /\ Len(S!LastRows(q, p)) = p
         /\ \A k \in 1 .. p : S!LastRows(q, p)[k] = RowAt(s, k - 1 - p)
  <1> DEFINE a == h - p
  <1>1. /\ q \in Seq(Rows) /\ Len(q) = h
        /\ \A k \in 1 .. h : q[k] = RowAt(s, k - 1 - h)
    BY DEF IsHistory
  <1>2. a \in Nat /\ a <= h /\ h <= Len(q) /\ h - a = p
    BY <1>1
  <1>3. S!LastRows(q, p) = SubSeq(q, a + 1, h)
    BY <1>1 DEF S!LastRows, S!Smallest
  <1> HIDE DEF a
  <1>4. /\ SubSeq(q, a + 1, h) \in Seq(Rows)
        /\ Len(SubSeq(q, a + 1, h)) = h - a
        /\ \A k \in 1 .. (h - a) : SubSeq(q, a + 1, h)[k] = q[a + k]
    BY <1>1, <1>2, PartIs
  <1>5. ASSUME NEW k \in 1 .. p PROVE q[a + k] = RowAt(s, k - 1 - p)
    <2>1. a + k \in 1 .. h /\ (a + k) - 1 - h = k - 1 - p
      BY <1>2 DEF a
    <2> QED
      BY <1>1, <2>1
  <1> QED
    BY <1>2, <1>3, <1>4, <1>5

\* Lines have moved down by p, n of them stay on the screen.
PulledRows(s, t, n, target, p) ==
  \A i \in 0 .. (target - 1) :
    /\ i < n + p => RowAt(t, i) = RowAt(s, i - p)
    /\ i >= n + p => RowAt(t, i) = Blank

\* u has the last p rows of r, those of q, and d blank ones.
IsGrown(u, q, r, p, d) == u = S!LastRows(r, p) \o q \o S!Blanks(d)

\* The screen after it grew by lines of the history and blank ones.
LEMMA GrowScreen ==
  ASSUME NEW s, NEW t, NEW n \in Nat, NEW h \in Nat, NEW target \in Nat,
         NEW p \in Nat, p <= h, n + p <= target,
         NEW q, IsScreen(q, s, n), NEW r, IsHistory(r, s, h), NEW u, IsScreen(u, t, target),
         PulledRows(s, t, n, target, p)
  PROVE  IsGrown(u, q, r, p, target - n - p)
  <1> DEFINE w == S!LastRows(r, p)
             d == target - n - p
             y == S!Blanks(d)
             z == << >>
  <1>1. d \in Nat /\ target = p + n + d
    OBVIOUS
  <1>2. w \in Seq(Rows) /\ Len(w) = p /\ \A k \in 1 .. p : w[k] = RowAt(s, k - 1 - p)
    BY TailOfHistory
  <1> HIDE DEF d
  <1>3. y \in Seq(Rows) /\ Len(y) = d /\ \A k \in 1 .. d : y[k] = Blank
    BY <1>1, BlanksAre
  <1> HIDE DEF w, y
  <1>4. q \in Seq(Rows) /\ Len(q) = n /\ \A k \in 1 .. n : q[k] = RowAt(s, k - 1)
    BY DEF IsScreen
  <1>5. /\ u \in Seq(Rows) /\ Len(u) = target
        /\ \A k \in 1 .. target : u[k] = RowAt(t, k - 1)
    BY DEF IsScreen
  <1>6. ASSUME NEW k \in 1 .. p PROVE u[k] = w[k]
    <2>1. /\ k \in 1 .. target /\ k - 1 \in 0 .. (target - 1) /\ k - 1 < n + p
          /\ (k - 1) - p = k - 1 - p
      BY <1>1
    <2> QED
      BY <1>2, <1>5, <2>1 DEF PulledRows
  <1>7. ASSUME NEW k \in 1 .. n PROVE u[p + k] = q[k]
    <2>1. PICK j : j = p + k
      OBVIOUS
    <2>2. /\ j \in 1 .. target /\ j - 1 \in 0 .. (target - 1) /\ j - 1 < n + p
          /\ (j - 1) - p = k - 1
      BY <1>1, <2>1
    <2>3. u[j] = RowAt(s, (j - 1) - p)
      BY <1>5, <2>2 DEF PulledRows
    <2> QED
      BY <1>4, <2>1, <2>2, <2>3
  <1>8. ASSUME NEW k \in 1 .. d PROVE u[p + n + k] = y[k]
    <2>1. PICK j : j = p + n + k
      OBVIOUS
    <2>2. j \in 1 .. target /\ j - 1 \in 0 .. (target - 1) /\ j - 1 >= n + p
      BY <1>1, <2>1
    <2>3. u[j] = Blank
      BY <1>5, <2>2 DEF PulledRows
    <2> QED
      BY <1>3, <2>1, <2>3
  <1>9. Len(z) = 0
    OBVIOUS
  <1>10. Len(u) = Len(w) + Len(q) + Len(y) + Len(z)
    BY <1>1, <1>2, <1>3, <1>4, <1>5, <1>9
  <1>11. Joins(u, w, q, y, z)
    <2> HIDE DEF z
    <2> QED
      BY <1>2, <1>3, <1>4, <1>6, <1>7, <1>8, <1>9, <1>10 DEF Joins
  <1>12. u = w \o q \o y
    BY <1>2, <1>3, <1>4, <1>5, <1>11, ThreeParts
  <1> QED
    BY <1>12 DEF IsGrown, w, y, d

\* The history after its last p rows left for the screen.
LEMMA PulledHistory ==
  ASSUME NEW s, NEW t, NEW h \in Nat, NEW p \in Nat, p <= h,
         NEW q, IsHistory(q, s, h), NEW u, IsHistory(u, t, h - p),
         \A i \in (p - h) .. (-1) : RowAt(t, i) = RowAt(s, i - p)
  PROVE  u = S!First(q, h - p)
  <1> DEFINE g == h - p
             w == SubSeq(q, 1, g)
  <1>1. g \in Nat /\ g <= h
    OBVIOUS
  <1>2. /\ q \in Seq(Rows) /\ Len(q) = h
        /\ \A k \in 1 .. h : q[k] = RowAt(s, k - 1 - h)
    BY DEF IsHistory
  <1>3. S!First(q, h - p) = w
    BY DEF S!First
  <1>4. /\ u \in Seq(Rows) /\ Len(u) = g
        /\ \A k \in 1 .. g : u[k] = RowAt(t, k - 1 - g)
    BY DEF IsHistory
  <1>5. ASSUME NEW k \in 1 .. g PROVE u[k] = q[k]
    <2>1. PICK i : i = k - 1 - g
      OBVIOUS
    <2>2. i \in (p - h) .. (-1) /\ i - p = k - 1 - h /\ k \in 1 .. h
      BY <1>1, <2>1
    <2> QED
      BY <1>2, <1>4, <2>1, <2>2
  <1> HIDE DEF g
  <1>6. w \in Seq(Rows) /\ Len(w) = g /\ \A k \in 1 .. g : w[k] = q[k]
    BY <1>1, <1>2
  <1> HIDE DEF w
  <1>7. u = w
    BY <1>4, <1>5, <1>6, SameRows
  <1> QED
    BY <1>3, <1>7

\* The screen after p lines left at the top.
LEMMA ShrunkScreen ==
  ASSUME NEW s, NEW t, NEW n \in Nat, NEW target \in Nat, NEW p \in Nat, p + target <= n,
         NEW q, IsScreen(q, s, n), NEW u, IsScreen(u, t, target),
         \A i \in 0 .. (target - 1) : RowAt(t, i) = RowAt(s, i + p)
  PROVE  u = PartOf(q, p, p + target)
  <1> DEFINE b == p + target
             w == PartOf(q, p, b)
  <1>1. b \in Nat /\ p <= b /\ b <= n /\ b - p = target
    OBVIOUS
  <1> HIDE DEF b
  <1>2. /\ w \in Seq(Rows) /\ Len(w) = b - p
        /\ \A k \in 1 .. (b - p) : w[k] = RowAt(s, p + k - 1)
    BY <1>1, PartOfScreen
  <1> HIDE DEF w
  <1>3. /\ u \in Seq(Rows) /\ Len(u) = target
        /\ \A k \in 1 .. target : u[k] = RowAt(t, k - 1)
    BY DEF IsScreen
  <1>4. ASSUME NEW k \in 1 .. target PROVE u[k] = w[k]
    <2>1. k - 1 \in 0 .. (target - 1) /\ (k - 1) + p = p + k - 1
      OBVIOUS
    <2> QED
      BY <1>1, <1>2, <1>3, <2>1
  <1>5. u = w
    BY <1>1, <1>2, <1>3, <1>4, SameRows
  <1> QED
    BY <1>5 DEF w, b
=============================================================================
