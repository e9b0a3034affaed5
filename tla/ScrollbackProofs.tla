-------------------------- MODULE ScrollbackProofs --------------------------
(***************************************************************************)
(* The grid implements the scrollback.  GridRowProofs says where each row  *)
(* is after an operation, and which sequences these rows make; here these  *)
(* are compared with what Scrollback does, one operation after the other.  *)
(***************************************************************************)
EXTENDS GridRowProofs

\* The rows of a storage as Grid names them.
LEMMA ViewOf ==
  ASSUME NEW s, NEW n \in Nat, NEW h \in Nat, Shape(s), Filled(s),
         s.visible_lines = n, n + h <= s.cap
  PROVE  /\ IsScreen([k \in 1 .. n |-> RowAt(s, k - 1)], s, n)
         /\ IsHistory([k \in 1 .. h |-> RowAt(s, k - 1 - h)], s, h)
  <1> DEFINE q == [k \in 1 .. n |-> RowAt(s, k - 1)]
             r == [k \in 1 .. h |-> RowAt(s, k - 1 - h)]
  <1>1. ASSUME NEW k \in 1 .. n PROVE RowAt(s, k - 1) \in Rows
    <2>1. k - 1 \in Ring(s)
      BY DEF Ring, Shape
    <2> QED
      BY <2>1, RowAtType
  <1>2. ASSUME NEW k \in 1 .. h PROVE RowAt(s, k - 1 - h) \in Rows
    <2>1. k - 1 - h \in Ring(s)
      BY DEF Ring, Shape
    <2> QED
      BY <2>1, RowAtType
  <1>3. q \in [1 .. n -> Rows] /\ r \in [1 .. h -> Rows]
    BY <1>1, <1>2
  <1>4. q \in Seq(Rows) /\ Len(q) = n /\ r \in Seq(Rows) /\ Len(r) = h
    BY <1>3
  <1>5. /\ \A k \in 1 .. n : q[k] = RowAt(s, k - 1)
        /\ \A k \in 1 .. h : r[k] = RowAt(s, k - 1 - h)
    OBVIOUS
  <1> HIDE DEF q, r
  <1>6. IsScreen(q, s, n) /\ IsHistory(r, s, h)
    BY <1>4, <1>5 DEF IsScreen, IsHistory
  <1> QED
    BY <1>6 DEF q, r

\* The rows of the screen before a step.
LEMMA ViewBefore ==
  ASSUME GridInv, Filled(raw)
  PROVE  IsScreen(ScreenRows, raw, lines) /\ IsHistory(HistoryRows, raw, history_size)
  <1> USE GridInvFacts
  <1>1. lines \in Nat /\ history_size \in Nat /\ Shape(raw) /\ raw.visible_lines = lines
    BY DEF GridInv, Backs
  <1>2. lines + history_size <= raw.cap
    BY DEF GridInv, Backs, Shape
  <1> HIDE GridInvFacts
  <1> QED
    BY <1>1, <1>2, ViewOf DEF ScreenRows, HistoryRows

\* And after it.
LEMMA ViewAfter ==
  ASSUME GridInv, GridInv', Filled(raw')
  PROVE  /\ IsScreen(ScreenRows', raw', lines')
         /\ IsHistory(HistoryRows', raw', history_size')
         /\ history_size' \in Nat
  <1>1. history_size' = raw'.len - lines'
    BY HistoryAfter
  <1>2. /\ Shape(raw') /\ raw'.visible_lines = lines' /\ lines' <= raw'.len
        /\ lines' \in Nat
    BY LinesAssumption DEF GridInv, Backs, TypeOK
  <1>3. history_size' \in Nat /\ lines' + history_size' <= raw'.cap
    BY <1>1, <1>2 DEF Shape
  <1>4. /\ ScreenRows' = [k \in 1 .. lines' |-> RowAt(raw', k - 1)]
        /\ HistoryRows' = [k \in 1 .. history_size' |-> RowAt(raw', k - 1 - history_size')]
    BY DEF ScreenRows, HistoryRows
  <1> QED
    BY <1>2, <1>3, <1>4, ViewOf

\* What the instance of Scrollback calls by other names.
LEMMA NamesOf ==
  ASSUME GridInv, Filled(raw)
  PROVE  /\ S!Height = lines
         /\ \A a, b : S!Part(a, b) = PartOf(ScreenRows, a, b)
         /\ \A rows : S!Push(rows)
              <=> HistoryRows' = S!LastRows(HistoryRows \o rows, max_scroll_limit)
  <1>1. S!Height = lines
    BY ViewBefore DEF S!Height, IsScreen
  <1>2. \A a, b : S!Part(a, b) = PartOf(ScreenRows, a, b)
    BY DEF S!Part, PartOf
  <1>3. \A rows : S!Push(rows)
          <=> HistoryRows' = S!LastRows(HistoryRows \o rows, max_scroll_limit)
    BY DEF S!Push
  <1> QED
    BY <1>1, <1>2, <1>3

\* scroll_up does what ScrollUp does to the two sequences.
LEMMA ScrollUpImplements ==
  ASSUME GridInv, GridInv', Filled(raw),
         NEW end \in 1 .. lines, NEW start \in 0 .. (end - 1), NEW p \in 0 .. end,
         scroll_up(start, end, p)
  PROVE  Filled(raw') /\ S!ScrollUp(start, end, p)
  <1> USE GridInvFacts
  <1>1. /\ lines \in Nat /\ start \in Nat /\ end \in Nat /\ p \in Nat /\ end <= lines
        /\ history_size \in Nat /\ max_scroll_limit \in Nat
    OBVIOUS
  <1>2. /\ lines' = lines /\ max_scroll_limit' = max_scroll_limit
        /\ cursor' = cursor /\ saved_cursor' = saved_cursor
    BY DEF scroll_up, cursors
  <1>3. Backs(raw, lines, max_scroll_limit)
    BY DEF GridInv
  <1>4. IsScreen(ScreenRows, raw, lines) /\ IsHistory(HistoryRows, raw, history_size)
    BY ViewBefore
  <1> DEFINE n == S!Smallest(p, end - start)
  <1> HIDE GridInvFacts
  <1>5. SUFFICES
          /\ Filled(raw')
          /\ ScreenRows' = PartOf(ScreenRows, 0, start) \o PartOf(ScreenRows, start + n, end)
                             \o S!Blanks(n) \o PartOf(ScreenRows, end, lines)
          /\ start = 0 => HistoryRows' = S!LastRows(HistoryRows \o PartOf(ScreenRows, 0, p),
                                                    max_scroll_limit)
          /\ start # 0 => HistoryRows' = HistoryRows
    BY <1>2, NamesOf DEF S!ScrollUp
  <1>6. CASE start # 0
    <2>1. history_size' = history_size
      <3>1. raw'.len - lines = raw.len - lines
        <4>1. CASE end - start <= p
          BY <1>6, <4>1, ResetLength DEF scroll_up
        <4>2. CASE ~(end - start <= p)
          <5>1. raw' = ScrollRowsUp(raw, lines, start, end, p) /\ p <= lines
            BY <1>1, <4>2 DEF scroll_up
          <5> QED
            BY <1>1, <1>3, <1>6, <5>1, ScrollUpLength
        <4> QED
          BY <4>1, <4>2
      <3> QED
        BY <1>2, <3>1, HistoryAfter, GridInvFacts
    <2>2. n \in Nat /\ start + n <= end
      BY <1>1 DEF S!Smallest
    <2>3. ASSUME NEW i \in (-history_size) .. (lines - 1)
          PROVE  /\ Filled(raw')
                 /\ i < start \/ i >= end => RowAt(raw', i) = RowAt(raw, i)
                 /\ start <= i /\ i < end - n => RowAt(raw', i) = RowAt(raw, i + n)
                 /\ end - n <= i /\ i < end => RowAt(raw', i) = Blank
      <3>1. /\ i \in Ring(raw) /\ i \in Int
            /\ Shape(raw) /\ raw.visible_lines = lines /\ lines <= raw.cap
        BY ActiveLines
      <3>2. CASE end - start <= p
        <4>1. raw' = ResetLines(raw, start, end) /\ n = end - start
          BY <1>1, <1>6, <3>2 DEF scroll_up, S!Smallest
        <4>2. raw.visible_lines - raw.cap <= start /\ end <= raw.visible_lines
          BY <1>1, <3>1 DEF Shape
        <4>3. /\ Filled(raw')
              /\ start <= i /\ i < end => RowAt(raw', i) = Blank
              /\ i < start \/ i >= end => RowAt(raw', i) = RowAt(raw, i)
          BY <1>1, <3>1, <4>1, <4>2, ResetRowAt
        <4>4. end - n = start
          BY <1>1, <4>1
        <4>5. ~(start <= i /\ i < end - n)
          BY <1>1, <3>1, <4>4
        <4> QED
          BY <4>3, <4>4, <4>5
      <3>3. CASE ~(end - start <= p)
        <4>1. raw' = ScrollRowsUp(raw, lines, start, end, p) /\ p < end - start /\ n = p
          BY <1>1, <3>3 DEF scroll_up, S!Smallest
        <4>2. start \in Nat \ {0}
          BY <1>1, <1>6
        <4> HIDE DEF n
        <4>3. /\ Filled(raw')
              /\ i < start \/ i >= end => RowAt(raw', i) = RowAt(raw, i)
              /\ start <= i /\ i < end - p => RowAt(raw', i) = RowAt(raw, i + p)
              /\ end - p <= i /\ i < end => RowAt(raw', i) = Blank
          BY <1>1, <1>3, <3>1, <4>1, <4>2, ScrollRegionAt
        <4> QED
          BY <4>1, <4>3
      <3> QED
        BY <3>2, <3>3
    <2>4. 0 \in (-history_size) .. (lines - 1)
      BY <1>1
    <2>5. Filled(raw')
      BY <2>3, <2>4
    <2>6. IsScreen(ScreenRows', raw', lines) /\ IsHistory(HistoryRows', raw', history_size)
      BY <1>2, <2>1, <2>5, ViewAfter
    <2> HIDE DEF n
    <2>7. UpRows(raw, raw', lines, start, end, n)
      <3>1. ASSUME NEW i \in 0 .. (lines - 1) PROVE i \in (-history_size) .. (lines - 1)
        BY <1>1
      <3> QED
        BY <2>3, <3>1 DEF UpRows
    <2>8. ScreenRows' = PartOf(ScreenRows, 0, start) \o PartOf(ScreenRows, start + n, end)
                          \o S!Blanks(n) \o PartOf(ScreenRows, end, lines)
      BY <1>1, <1>4, <2>2, <2>6, <2>7, UpScreen
    <2>9. ASSUME NEW i \in (-history_size) .. (-1) PROVE RowAt(raw', i) = RowAt(raw, i)
      <3>1. i \in (-history_size) .. (lines - 1) /\ i < start
        BY <1>1
      <3> QED
        BY <2>3, <3>1
    <2>10. HistoryRows' = HistoryRows
      BY <1>1, <1>4, <2>6, <2>9, SameHistory
    <2> QED
      BY <1>6, <2>5, <2>8, <2>10
  <1>7. CASE start = 0
    <2>1. raw' = ScrollRowsUp(raw, lines, 0, end, p) /\ n = p
      BY <1>1, <1>7 DEF scroll_up, S!Smallest
    <2> HIDE DEF n
    <2>2. PICK g : g = history_size'
      OBVIOUS
    <2>3. g = Smaller(history_size + p, max_scroll_limit)
      <3>1. p <= lines /\ 0 \in Nat
        BY <1>1
      <3>2. raw'.len - lines = Smaller(raw.len - lines + p, max_scroll_limit)
        BY <1>1, <1>3, <2>1, <3>1, ScrollUpLength
      <3> QED
        BY <1>2, <2>2, <3>2, HistoryAfter, GridInvFacts
    <2>4. p <= end
      BY <1>1
    <2>5. ASSUME NEW i \in (-g) .. (lines - 1)
          PROVE  /\ Filled(raw')
                 /\ end <= i => RowAt(raw', i) = RowAt(raw, i)
                 /\ end - p <= i /\ i < end => RowAt(raw', i) = Blank
                 /\ i < end - p => RowAt(raw', i) = RowAt(raw, i + p)
      <3>1. i \in Ring(raw') /\ i \in Int
        BY <1>2, <2>2, ActiveAfter
      <3>2. /\ Filled(raw')
            /\ end <= i => RowAt(raw', i) = RowAt(raw, i)
            /\ end - p <= i /\ i < end => RowAt(raw', i) = Blank
            /\ i < end - p /\ i + p \in Ring(raw) => RowAt(raw', i) = RowAt(raw, i + p)
        BY <1>1, <1>3, <2>1, <2>4, <3>1, ScrollTopAt
      <3>3. ASSUME i < end - p PROVE i + p \in Ring(raw)
        <4>1. i + p \in (-history_size) .. (lines - 1)
          BY <1>1, <2>3, <3>1, <3>3 DEF Smaller
        <4> QED
          BY <4>1, ActiveLines
      <3> QED
        BY <3>2, <3>3
    <2>6. g \in Nat
      BY <1>1, <2>3 DEF Smaller
    <2>7. 0 \in (-g) .. (lines - 1)
      BY <1>1, <2>6
    <2>8. Filled(raw')
      BY <2>5, <2>7
    <2>9. IsScreen(ScreenRows', raw', lines) /\ IsHistory(HistoryRows', raw', g)
      BY <1>2, <2>2, <2>8, ViewAfter
    <2>10. UpRows(raw, raw', lines, start, end, p)
      <3>1. ASSUME NEW i \in 0 .. (lines - 1)
            PROVE  /\ i \in (-g) .. (lines - 1) /\ ~(i < start)
                   /\ i >= end <=> end <= i
        BY <1>1, <1>7, <2>6
      <3> QED
        BY <2>5, <3>1 DEF UpRows
    <2>11. start + p <= end
      BY <1>1, <1>7
    <2>12. ScreenRows' = PartOf(ScreenRows, 0, start) \o PartOf(ScreenRows, start + p, end)
                           \o S!Blanks(p) \o PartOf(ScreenRows, end, lines)
      BY <1>1, <1>4, <2>9, <2>10, <2>11, UpScreen
    <2>13. ASSUME NEW i \in (-g) .. (-1)
           PROVE  RowAt(raw', i) = RowAt(raw, i + p)
      <3>1. i \in (-g) .. (lines - 1) /\ i < end - p
        BY <1>1, <2>6
      <3> QED
        BY <2>5, <3>1
    <2>14. p <= lines
      BY <1>1
    <2>15. HistoryRows' = S!LastRows(HistoryRows \o PartOf(ScreenRows, 0, p),
                                     max_scroll_limit)
      BY <1>1, <1>4, <2>3, <2>6, <2>9, <2>13, <2>14, PushHistory
    <2> QED
      BY <1>7, <2>1, <2>8, <2>12, <2>15
  <1> QED
    BY <1>6, <1>7

\* For a step that keeps the height, the limit and the history: the line facts that
\* give the new sequences.
LEMMA KeptHistory ==
  ASSUME GridInv, GridInv', Filled(raw), Filled(raw'), lines' = lines,
         raw'.len = raw.len,
         \A i \in (-history_size) .. (-1) : RowAt(raw', i) = RowAt(raw, i)
  PROVE  HistoryRows' = HistoryRows /\ IsScreen(ScreenRows', raw', lines)
  <1>1. history_size' = history_size /\ history_size \in Nat
    BY HistoryAfter, GridInvFacts
  <1>2. IsHistory(HistoryRows, raw, history_size)
    BY ViewBefore
  <1>3. IsScreen(ScreenRows', raw', lines) /\ IsHistory(HistoryRows', raw', history_size)
    BY <1>1, ViewAfter
  <1> QED
    BY <1>1, <1>2, <1>3, SameHistory

\* scroll_down does what ScrollDown does.
LEMMA ScrollDownImplements ==
  ASSUME GridInv, GridInv', Filled(raw),
         NEW end \in 1 .. lines, NEW start \in 0 .. (end - 1), NEW p \in 0 .. (end - start),
         scroll_down(start, end, p)
  PROVE  Filled(raw') /\ S!ScrollDown(start, end, p)
  <1>1. /\ lines \in Nat /\ start \in Nat /\ end \in Nat /\ p \in Nat /\ end <= lines
        /\ start + p <= end /\ start <= end
        /\ history_size \in Nat /\ max_scroll_limit \in Nat
    BY GridInvFacts
  <1>2. /\ lines' = lines /\ max_scroll_limit' = max_scroll_limit
        /\ cursor' = cursor /\ saved_cursor' = saved_cursor
    BY DEF scroll_down, cursors
  <1>3. IsScreen(ScreenRows, raw, lines)
    BY ViewBefore
  <1>4. ASSUME NEW i \in (-history_size) .. (lines - 1)
        PROVE  /\ Filled(raw')
               /\ i < start \/ i >= end => RowAt(raw', i) = RowAt(raw, i)
               /\ start <= i /\ i < start + p => RowAt(raw', i) = Blank
               /\ start + p <= i /\ i < end => RowAt(raw', i) = RowAt(raw, i - p)
    <2>1. /\ i \in Ring(raw) /\ i \in Int
          /\ Shape(raw) /\ raw.visible_lines = lines /\ lines <= raw.cap
      BY ActiveLines
    <2>2. CASE end - start <= p
      <3>1. raw' = ResetLines(raw, start, end) /\ start + p = end
        BY <1>1, <2>2 DEF scroll_down
      <3>2. raw.visible_lines - raw.cap <= start /\ end <= raw.visible_lines
        BY <1>1, <2>1 DEF Shape
      <3>3. /\ Filled(raw')
            /\ start <= i /\ i < end => RowAt(raw', i) = Blank
            /\ i < start \/ i >= end => RowAt(raw', i) = RowAt(raw, i)
        BY <1>1, <2>1, <3>1, <3>2, ResetRowAt
      <3>4. ~(start + p <= i /\ i < end)
        BY <1>1, <2>1, <3>1
      <3> QED
        BY <3>1, <3>3, <3>4
    <2>3. CASE ~(end - start <= p)
      <3>1. raw' = ScrollRowsDown(start, end, p) /\ p < end - start
        BY <1>1, <2>3 DEF scroll_down
      <3> QED
        BY <1>1, <3>1, ScrollDownAt
    <2> QED
      BY <2>2, <2>3
  <1>5. 0 \in (-history_size) .. (lines - 1)
    BY <1>1
  <1>6. Filled(raw')
    BY <1>4, <1>5
  <1>7. raw'.len = raw.len
    <2>1. CASE end - start <= p
      BY <2>1, ResetLength DEF scroll_down
    <2>2. CASE ~(end - start <= p) /\ max_scroll_limit = 0
      <3> DEFINE placed == SwapEach(raw, LineRange(end, lines), -p)
                 rotated == rotate_down(placed, p)
                 cleared == ResetLines(rotated, 0, p)
      <3>1. raw' = SwapEach(cleared, LineRange(0, start), p)
        BY <2>2 DEF scroll_down, ScrollRowsDown
      <3>2. placed.len = raw.len
        BY SwapLength
      <3> HIDE DEF placed
      <3>3. rotated.len = placed.len
        BY DEF rotate_down, MkStorage
      <3> HIDE DEF rotated
      <3>4. cleared.len = rotated.len
        BY ResetLength
      <3> HIDE DEF cleared
      <3> QED
        BY <3>1, <3>2, <3>3, <3>4, SwapLength
    <2>3. CASE ~(end - start <= p) /\ max_scroll_limit # 0
      <3> DEFINE moved == SwapEach(raw, LineRangeRev(start + p, end), -p)
      <3>1. raw' = ResetLines(moved, start, start + p)
        BY <2>3 DEF scroll_down, ScrollRowsDown
      <3>2. moved.len = raw.len
        BY SwapLength
      <3> HIDE DEF moved
      <3> QED
        BY <3>1, <3>2, ResetLength
    <2> QED
      BY <2>1, <2>2, <2>3
  <1>8. ASSUME NEW i \in (-history_size) .. (-1) PROVE RowAt(raw', i) = RowAt(raw, i)
    <2>1. i \in (-history_size) .. (lines - 1) /\ i < start
      BY <1>1
    <2> QED
      BY <1>4, <2>1
  <1>9. HistoryRows' = HistoryRows /\ IsScreen(ScreenRows', raw', lines)
    BY <1>2, <1>6, <1>7, <1>8, KeptHistory
  <1>10. DownRows(raw, raw', lines, start, end, p)
    <2>1. ASSUME NEW i \in 0 .. (lines - 1) PROVE i \in (-history_size) .. (lines - 1)
      BY <1>1
    <2> QED
      BY <1>4, <2>1 DEF DownRows
  <1>11. ScreenRows' = PartOf(ScreenRows, 0, start) \o S!Blanks(p)
                         \o PartOf(ScreenRows, start, end - p) \o PartOf(ScreenRows, end, lines)
    BY <1>1, <1>3, <1>9, <1>10, DownScreen
  <1> QED
    BY <1>2, <1>6, <1>9, <1>11, NamesOf DEF S!ScrollDown

\* reset_region does what Clear does.
LEMMA ClearImplements ==
  ASSUME GridInv, GridInv', Filled(raw),
         NEW end \in 1 .. lines, NEW start \in 0 .. end, reset_region(start, end)
  PROVE  Filled(raw') /\ S!Clear(start, end)
  <1>1. /\ lines \in Nat /\ start \in Nat /\ end \in Nat /\ end <= lines
        /\ start <= end /\ history_size \in Nat
    BY GridInvFacts
  <1>2. /\ lines' = lines /\ max_scroll_limit' = max_scroll_limit
        /\ cursor' = cursor /\ saved_cursor' = saved_cursor
        /\ raw' = ResetLines(raw, start, end)
    BY DEF reset_region, cursors
  <1>3. IsScreen(ScreenRows, raw, lines)
    BY ViewBefore
  <1>4. ASSUME NEW i \in (-history_size) .. (lines - 1)
        PROVE  /\ Filled(raw')
               /\ i < start \/ i >= end => RowAt(raw', i) = RowAt(raw, i)
               /\ start <= i /\ i < end => RowAt(raw', i) = Blank
    <2>1. /\ i \in Ring(raw) /\ i \in Int
          /\ Shape(raw) /\ raw.visible_lines = lines /\ lines <= raw.cap
      BY ActiveLines
    <2>2. raw.visible_lines - raw.cap <= start /\ end <= raw.visible_lines
      BY <1>1, <2>1 DEF Shape
    <2> QED
      BY <1>1, <1>2, <2>1, <2>2, ResetRowAt
  <1>5. 0 \in (-history_size) .. (lines - 1)
    BY <1>1
  <1>6. Filled(raw')
    BY <1>4, <1>5
  <1>7. raw'.len = raw.len
    BY <1>2, ResetLength
  <1>8. ASSUME NEW i \in (-history_size) .. (-1) PROVE RowAt(raw', i) = RowAt(raw, i)
    <2>1. i \in (-history_size) .. (lines - 1) /\ i < start
      BY <1>1
    <2> QED
      BY <1>4, <2>1
  <1>9. HistoryRows' = HistoryRows /\ IsScreen(ScreenRows', raw', lines)
    BY <1>2, <1>6, <1>7, <1>8, KeptHistory
  <1>10. ClearRows(raw, raw', lines, start, end)
    <2>1. ASSUME NEW i \in 0 .. (lines - 1) PROVE i \in (-history_size) .. (lines - 1)
      BY <1>1
    <2> QED
      BY <1>4, <2>1 DEF ClearRows
  <1>11. ScreenRows' = PartOf(ScreenRows, 0, start) \o S!Blanks(end - start)
                         \o PartOf(ScreenRows, end, lines)
    BY <1>1, <1>3, <1>9, <1>10, ClearScreen
  <1> QED
    BY <1>2, <1>6, <1>9, <1>11, NamesOf DEF S!Clear

\* write does what Write does.
LEMMA WriteImplements ==
  ASSUME GridInv, GridInv', Filled(raw), NEW row \in Rows, write(row)
  PROVE  Filled(raw') /\ S!Write(row)
  <1>1. lines \in Nat /\ history_size \in Nat /\ cursor \in 0 .. (lines - 1)
    BY GridInvFacts
  <1>2. /\ lines' = lines /\ max_scroll_limit' = max_scroll_limit
        /\ cursor' = cursor /\ saved_cursor' = saved_cursor
        /\ raw' = SetRow(raw, cursor, row)
    BY DEF write, cursors
  <1>3. IsScreen(ScreenRows, raw, lines)
    BY ViewBefore
  <1>4. ASSUME NEW i \in (-history_size) .. (lines - 1)
        PROVE  /\ Filled(raw')
               /\ i # cursor => RowAt(raw', i) = RowAt(raw, i)
               /\ i = cursor => RowAt(raw', i) = row
    <2>1. /\ i \in Ring(raw) /\ i \in Int /\ Shape(raw)
      BY ActiveLines
    <2>2. cursor \in (-history_size) .. (lines - 1)
      BY <1>1
    <2>3. cursor \in Ring(raw)
      BY <2>2, ActiveLines
    <2> QED
      BY <1>2, <2>1, <2>3, SetRowAt
  <1>5. 0 \in (-history_size) .. (lines - 1)
    BY <1>1
  <1>6. Filled(raw')
    BY <1>4, <1>5
  <1>7. raw'.len = raw.len
    BY <1>2 DEF SetRow, WithRows, MkStorage
  <1>8. ASSUME NEW i \in (-history_size) .. (-1) PROVE RowAt(raw', i) = RowAt(raw, i)
    <2>1. i \in (-history_size) .. (lines - 1) /\ i # cursor
      BY <1>1
    <2> QED
      BY <1>4, <2>1
  <1>9. HistoryRows' = HistoryRows /\ IsScreen(ScreenRows', raw', lines)
    BY <1>2, <1>6, <1>7, <1>8, KeptHistory
  <1> DEFINE u == [ScreenRows EXCEPT ![cursor + 1] = row]
  <1>10. /\ ScreenRows \in Seq(Rows) /\ Len(ScreenRows) = lines
         /\ \A k \in 1 .. lines : ScreenRows[k] = RowAt(raw, k - 1)
         /\ ScreenRows' \in Seq(Rows) /\ Len(ScreenRows') = lines
         /\ \A k \in 1 .. lines : ScreenRows'[k] = RowAt(raw', k - 1)
    BY <1>3, <1>9 DEF IsScreen
  <1>11. /\ u \in Seq(Rows) /\ Len(u) = lines
         /\ \A k \in 1 .. lines : u[k] = IF k = cursor + 1 THEN row ELSE ScreenRows[k]
    BY <1>1, <1>10
  <1> HIDE DEF u
  <1>12. ASSUME NEW k \in 1 .. lines PROVE ScreenRows'[k] = u[k]
    <2>1. k - 1 \in (-history_size) .. (lines - 1) /\ (k = cursor + 1 <=> k - 1 = cursor)
      BY <1>1
    <2>2. /\ k - 1 # cursor => RowAt(raw', k - 1) = RowAt(raw, k - 1)
          /\ k - 1 = cursor => RowAt(raw', k - 1) = row
      BY <1>4, <2>1
    <2> QED
      BY <1>10, <1>11, <2>1, <2>2
  <1>13. ScreenRows' = u
    BY <1>10, <1>11, <1>12, SameRows
  <1> QED
    BY <1>2, <1>6, <1>9, <1>13 DEF S!Write, u

\* update_history does what SetLimit does.
LEMMA SetLimitImplements ==
  ASSUME GridInv, GridInv', Filled(raw), NEW limit \in HistoryLimits, update_history(limit)
  PROVE  Filled(raw') /\ S!SetLimit(limit)
  <1>1. /\ lines \in Nat /\ lines > 0 /\ history_size \in Nat /\ limit \in Nat
    BY GridInvFacts, LimitsAssumption
  <1>2. /\ lines' = lines /\ max_scroll_limit' = limit
        /\ cursor' = cursor /\ saved_cursor' = saved_cursor
        /\ history_size > limit => raw' = shrink_lines(raw, history_size - limit)
        /\ ~(history_size > limit) => raw' = raw
    BY DEF update_history, cursors
  <1>3. IsScreen(ScreenRows, raw, lines) /\ IsHistory(HistoryRows, raw, history_size)
    BY ViewBefore
  <1>4. PICK g : g = history_size'
    OBVIOUS
  <1>5. /\ g = Smaller(history_size, limit) /\ g \in Nat
        /\ \A i \in (-g) .. (lines - 1) : Filled(raw') /\ RowAt(raw', i) = RowAt(raw, i)
    <2>1. CASE history_size > limit
      <3>1. PICK n \in Nat : n = history_size - limit
        BY <1>1, <2>1
      <3>2. raw' = shrink_lines(raw, n) /\ n <= history_size
        BY <1>1, <1>2, <2>1, <3>1
      <3>3. g = history_size - n
        BY <1>2, <1>4, <3>2, DropLength
      <3>4. g = limit
        BY <1>1, <3>1, <3>3
      <3>5. ASSUME NEW i \in (-g) .. (lines - 1)
            PROVE  Filled(raw') /\ RowAt(raw', i) = RowAt(raw, i)
        <4>1. i \in (n - history_size) .. (lines - 1)
          BY <1>1, <3>1, <3>4
        <4> QED
          BY <3>2, <4>1, DropAt
      <3> QED
        BY <1>1, <2>1, <3>4, <3>5 DEF Smaller
    <2>2. CASE ~(history_size > limit)
      <3>1. raw' = raw /\ history_size' = history_size
        BY <1>2, <2>2 DEF history_size
      <3> QED
        BY <1>1, <1>4, <2>2, <3>1 DEF Smaller
    <2> QED
      BY <2>1, <2>2
  <1>6. 0 \in (-g) .. (lines - 1)
    BY <1>1, <1>5
  <1>7. Filled(raw')
    BY <1>5, <1>6
  <1>8. IsScreen(ScreenRows', raw', lines) /\ IsHistory(HistoryRows', raw', g)
    BY <1>2, <1>4, <1>7, ViewAfter
  <1>9. ASSUME NEW i \in (-g) .. (-1) PROVE RowAt(raw', i) = RowAt(raw, i)
    <2>1. i \in (-g) .. (lines - 1)
      BY <1>1, <1>5
    <2> QED
      BY <1>5, <2>1
  <1>10. ASSUME NEW i \in 0 .. (lines - 1) PROVE RowAt(raw', i) = RowAt(raw, i)
    <2>1. i \in (-g) .. (lines - 1)
      BY <1>1, <1>5
    <2> QED
      BY <1>5, <2>1
  <1>11. HistoryRows' = S!LastRows(HistoryRows, limit)
    BY <1>1, <1>3, <1>5, <1>8, <1>9, LastHistory
  <1>12. ScreenRows' = ScreenRows
    BY <1>1, <1>3, <1>8, <1>10, SameScreen
  <1> QED
    BY <1>2, <1>7, <1>11, <1>12 DEF S!SetLimit

\* clear_history does what ClearHistory does.
LEMMA ClearHistoryImplements ==
  ASSUME GridInv, GridInv', Filled(raw), clear_history
  PROVE  Filled(raw') /\ S!ClearHistory
  <1>1. /\ lines \in Nat /\ lines > 0 /\ history_size \in Nat
    BY GridInvFacts
  <1>2. /\ lines' = lines /\ max_scroll_limit' = max_scroll_limit
        /\ cursor' = cursor /\ saved_cursor' = saved_cursor
        /\ raw' = shrink_lines(raw, history_size)
    BY DEF clear_history, cursors
  <1>3. IsScreen(ScreenRows, raw, lines)
    BY ViewBefore
  <1>4. PICK h \in Nat : h = history_size
    BY <1>1
  <1>5. history_size' = 0
    BY <1>2, <1>4, DropLength
  <1>6. ASSUME NEW i \in 0 .. (lines - 1)
        PROVE  Filled(raw') /\ RowAt(raw', i) = RowAt(raw, i)
    <2>1. i \in (h - history_size) .. (lines - 1)
      BY <1>1, <1>4
    <2> QED
      BY <1>2, <1>4, <2>1, DropAt
  <1>7. Filled(raw')
    BY <1>1, <1>6
  <1>8. IsScreen(ScreenRows', raw', lines) /\ IsHistory(HistoryRows', raw', 0)
    BY <1>2, <1>5, <1>7, ViewAfter
  <1>9. HistoryRows' = <<>>
    BY <1>8, EmptyHistory
  <1>10. ScreenRows' = ScreenRows
    BY <1>1, <1>3, <1>6, <1>8, SameScreen
  <1> QED
    BY <1>2, <1>7, <1>9, <1>10 DEF S!ClearHistory

\* reset does what Reset does.
LEMMA ResetImplements ==
  ASSUME GridInv, GridInv', Filled(raw), reset
  PROVE  Filled(raw') /\ S!Reset
  <1>1. /\ lines \in Nat /\ lines > 0 /\ history_size \in Nat
    BY GridInvFacts
  <1> DEFINE s == shrink_lines(raw, history_size)
  <1>2. /\ lines' = lines /\ max_scroll_limit' = max_scroll_limit
        /\ cursor' = 0 /\ saved_cursor' = 0
        /\ raw' = ResetLines(s, -HistorySize(s, lines), lines)
    BY DEF reset
  <1>3. Shape(raw) /\ raw.visible_lines = lines /\ history_size = raw.len - lines
    BY GridInvFacts, HistoryOfBacks DEF GridInv, Backs, history_size
  <1>4. history_size < raw.len
    BY <1>1, <1>3 DEF Shape
  <1>5. Shape(s) /\ s.len = lines /\ s.visible_lines = lines
    <2>1. Shape(s) /\ s.len = raw.len - history_size /\ s.visible_lines = raw.visible_lines
      BY <1>1, <1>3, <1>4, ShrinkShape
    <2> QED
      BY <1>1, <1>3, <2>1 DEF Shape
  <1>6. Filled(s)
    <2>1. PICK h \in Nat : h = history_size
      BY <1>1
    <2>2. 0 \in (h - history_size) .. (lines - 1)
      BY <1>1, <2>1
    <2> QED
      BY <2>1, <2>2, DropAt
  <1> HIDE DEF s
  <1>7. raw' = ResetLines(s, 0, lines)
    BY <1>1, <1>2, <1>5 DEF HistorySize, Larger
  <1>8. history_size' = 0
    <2>1. raw'.len = lines
      BY <1>5, <1>7, ResetLength
    <2>2. history_size' = raw'.len - lines'
      BY HistoryAfter
    <2> QED
      BY <1>1, <1>2, <2>1, <2>2
  <1>9. ASSUME NEW i \in 0 .. (lines - 1) PROVE Filled(raw') /\ RowAt(raw', i) = Blank
    <2>1. i \in Ring(s)
      BY <1>1, <1>5 DEF Ring, Shape
    <2>2. PICK first \in Int : first = 0
      OBVIOUS
    <2>3. s.visible_lines - s.cap <= first /\ lines <= s.visible_lines /\ lines \in Int
      BY <1>1, <1>5, <2>2 DEF Shape
    <2>4. raw' = ResetLines(s, first, lines) /\ first <= i /\ i < lines
      BY <1>1, <1>7, <2>2
    <2> QED
      BY <1>5, <1>6, <2>1, <2>3, <2>4, ResetRowAt
  <1>10. Filled(raw')
    BY <1>1, <1>9
  <1>11. IsScreen(ScreenRows', raw', lines) /\ IsHistory(HistoryRows', raw', 0)
    BY <1>2, <1>8, <1>10, ViewAfter
  <1>12. HistoryRows' = <<>>
    BY <1>11, EmptyHistory
  <1>13. ScreenRows' = S!Blanks(lines)
    BY <1>1, <1>9, <1>11, BlankScreen
  <1> QED
    BY <1>2, <1>10, <1>12, <1>13, NamesOf DEF S!Reset

\* A step that leaves the rows.
LEMMA RowsStay ==
  ASSUME UNCHANGED <<raw, lines>>
  PROVE  HistoryRows' = HistoryRows /\ ScreenRows' = ScreenRows
  <1>1. history_size' = history_size
    BY DEF history_size
  <1> QED
    BY <1>1 DEF HistoryRows, ScreenRows

\* scroll_display changes nothing of the two sequences.
LEMMA DisplayImplements ==
  ASSUME GridInv, Filled(raw), NEW scroll, scroll_display(scroll)
  PROVE  Filled(raw') /\ UNCHANGED S!svars
  <1>1. UNCHANGED <<raw, lines, max_scroll_limit, cursor, saved_cursor>>
    BY DEF scroll_display, cursors
  <1> QED
    BY <1>1, RowsStay DEF S!svars

\* goto, save_cursor_position and restore_cursor_position are MoveCursors.
LEMMA CursorsImplement ==
  ASSUME GridInv, Filled(raw), NEW line \in 0 .. (lines - 1),
         goto(line) \/ save_cursor_position \/ restore_cursor_position
  PROVE  Filled(raw') /\ S!MoveCursors
  <1>1. UNCHANGED <<raw, lines, max_scroll_limit>>
    BY DEF goto, save_cursor_position, restore_cursor_position
  <1>2. cursor \in 0 .. (lines - 1) /\ saved_cursor \in 0 .. (lines - 1)
    BY GridInvFacts
  <1>3. cursor' \in 0 .. (lines - 1) /\ saved_cursor' \in 0 .. (lines - 1)
    BY <1>2 DEF goto, save_cursor_position, restore_cursor_position
  <1> QED
    BY <1>1, <1>3, RowsStay, NamesOf DEF S!MoveCursors

\* clear_viewport and ClearViewport move the same rows: its iterator stops at the
\* last line of the screen that has text.
LEMMA SameViewport ==
  ASSUME GridInv, Filled(raw)
  PROVE  LET text == {k \in 1 .. lines : ScreenRows[k] # Blank}
         IN  ViewportPositions = IF text # {} THEN CHOOSE k \in text : \A j \in text : j <= k
                                 ELSE IF HistoryRows = <<>> THEN 1 ELSE 0
  <1> DEFINE text == {k \in 1 .. lines : ScreenRows[k] # Blank}
             line == CHOOSE i \in TextLines : \A j \in TextLines : j <= i
             row  == CHOOSE k \in text : \A j \in text : j <= k
  <1>1. lines \in Nat \ {0} /\ history_size \in Nat
    BY GridInvFacts
  <1>2. \A k \in 1 .. lines : ScreenRows[k] = RowAt(raw, k - 1)
    BY ViewBefore DEF IsScreen
  <1>3. ASSUME NEW k \in 1 .. lines PROVE k \in text <=> k - 1 \in TextLines
    BY <1>1, <1>2 DEF TextLines
  <1>4. ASSUME NEW i \in TextLines PROVE i \in Int /\ i + 1 \in text
    <2>1. i \in 0 .. (lines - 1)
      BY DEF TextLines
    <2>2. i + 1 \in 1 .. lines /\ (i + 1) - 1 = i
      BY <1>1, <2>1
    <2> QED
      BY <1>3, <2>1, <2>2
  <1>5. ASSUME NEW k \in text PROVE k \in Int /\ k - 1 \in TextLines
    BY <1>1, <1>3
  <1> HIDE DEF text
  <1>6. HistoryRows = <<>> <=> history_size = 0
    <2>1. HistoryRows \in Seq(Rows) /\ Len(HistoryRows) = history_size
      BY ViewBefore DEF IsHistory
    <2> QED
      BY <2>1
  <1>7. CASE TextLines # {}
    <2>1. line \in TextLines /\ \A j \in TextLines : j <= line
      BY <1>1, <1>7, LastTextLine
    <2> HIDE DEF line
    <2>2. line \in Int /\ line + 1 \in text
      BY <1>4, <2>1
    <2>3. ASSUME NEW k \in text PROVE k <= line + 1
      <3>1. k \in Int /\ k - 1 <= line
        BY <1>5, <2>1
      <3> QED
        BY <2>2, <3>1
    <2>4. row \in text /\ \A j \in text : j <= row
      BY <2>2, <2>3
    <2> HIDE DEF row
    <2>5. row \in Int /\ row <= line + 1 /\ line + 1 <= row
      BY <1>5, <2>2, <2>3, <2>4
    <2>6. row = line + 1
      BY <2>2, <2>5
    <2>7. ViewportPositions = 1 + line
      BY <1>7 DEF ViewportPositions, line
    <2>8. text # {} /\ ViewportPositions = row
      BY <2>2, <2>6, <2>7
    <2> QED
      BY <2>8 DEF row, text
  <1>8. CASE TextLines = {}
    <2>1. text = {}
      BY <1>5, <1>8
    <2>2. ViewportPositions = IF HistoryRows = <<>> THEN 1 ELSE 0
      BY <1>1, <1>6, <1>8 DEF ViewportPositions
    <2> QED
      BY <2>1, <2>2 DEF text
  <1> QED
    BY <1>7, <1>8

\* clear_viewport does what ClearViewport does.
LEMMA ClearViewportImplements ==
  ASSUME GridInv, GridInv', Filled(raw), clear_viewport
  PROVE  Filled(raw') /\ S!ClearViewport
  <1> DEFINE up == ScrollRowsUp(raw, lines, 0, lines, ViewportPositions)
  <1>1. /\ lines \in Nat /\ lines > 0 /\ history_size \in Nat /\ max_scroll_limit \in Nat
    BY GridInvFacts
  <1>2. PICK p \in Nat : p = ViewportPositions /\ p <= lines
    BY <1>1, ViewportBound
  <1>3. /\ lines' = lines /\ max_scroll_limit' = max_scroll_limit
        /\ cursor' = cursor /\ saved_cursor' = saved_cursor
        /\ raw' = ResetLines(up, 0, lines - p)
    BY <1>2 DEF clear_viewport, cursors
  <1>4. up = ScrollRowsUp(raw, lines, 0, lines, p)
    BY <1>2
  <1> HIDE DEF up
  <1>5. Backs(raw, lines, max_scroll_limit)
    BY DEF GridInv
  <1>6. IsScreen(ScreenRows, raw, lines) /\ IsHistory(HistoryRows, raw, history_size)
    BY ViewBefore
  <1>7. PICK g : g = history_size'
    OBVIOUS
  <1>8. /\ Backs(up, lines, max_scroll_limit)
        /\ up.len - lines = Smaller(raw.len - lines + p, max_scroll_limit)
    <2>1. 0 \in Nat
      OBVIOUS
    <2>2. Backs(up, lines, max_scroll_limit)
      BY <1>1, <1>2, <1>4, <1>5, <2>1, ScrollUpBacks
    <2>3. up.len - lines = Smaller(raw.len - lines + p, max_scroll_limit)
      BY <1>1, <1>2, <1>4, <1>5, <2>1, ScrollUpLength
    <2> QED
      BY <2>2, <2>3
  <1>9. g = Smaller(history_size + p, max_scroll_limit)
    <2>1. raw'.len = up.len
      BY <1>3, ResetLength
    <2>2. history_size' = raw'.len - lines' /\ history_size = raw.len - lines
      BY HistoryAfter, GridInvFacts
    <2>3. raw.len - lines + p = history_size + p
      BY <2>2
    <2> QED
      BY <1>3, <1>7, <1>8, <2>1, <2>2, <2>3
  <1>10. g \in Nat
    BY <1>1, <1>2, <1>9 DEF Smaller
  <1>11. ASSUME NEW i \in (-g) .. (lines - 1)
         PROVE  /\ Filled(raw')
                /\ 0 <= i => RowAt(raw', i) = Blank
                /\ i < 0 => RowAt(raw', i) = RowAt(raw, i + p)
    <2>1. Shape(up) /\ up.visible_lines = lines /\ lines + g <= up.len
      BY <1>1, <1>2, <1>8, <1>9, GridInvFacts DEF Backs, Shape
    <2>2. i \in Ring(up) /\ i \in Int
      BY <1>1, <1>10, <2>1, RingOf
    <2>3. /\ Filled(up)
          /\ lines - p <= i /\ i < lines => RowAt(up, i) = Blank
          /\ i < lines - p /\ i + p \in Ring(raw) => RowAt(up, i) = RowAt(raw, i + p)
      BY <1>1, <1>2, <1>4, <1>5, <2>2, ScrollTopAt
    <2>4. PICK first, last : first = 0 /\ last = lines - p
      OBVIOUS
    <2>5. /\ first \in Int /\ last \in Int
          /\ up.visible_lines - up.cap <= first /\ last <= up.visible_lines
      BY <1>1, <1>2, <1>10, <2>1, <2>4 DEF Shape
    <2>6. raw' = ResetLines(up, first, last)
      BY <1>3, <2>4
    <2>7. /\ Filled(raw')
          /\ first <= i /\ i < last => RowAt(raw', i) = Blank
          /\ i < first \/ i >= last => RowAt(raw', i) = RowAt(up, i)
      BY <2>1, <2>2, <2>3, <2>5, <2>6, ResetRowAt
    <2>8. CASE 0 <= i
      <3>1. i < lines /\ first <= i
        BY <1>1, <1>10, <2>4, <2>8
      <3>2. i < last \/ (i >= last /\ lines - p <= i)
        BY <1>1, <1>2, <2>2, <2>4
      <3>3. ~(i < 0)
        BY <2>2, <2>8
      <3> QED
        BY <2>3, <2>7, <3>1, <3>2, <3>3
    <2>9. CASE i < 0
      <3>1. i + p \in (-history_size) .. (lines - 1)
        BY <1>1, <1>2, <1>9, <2>2, <2>9 DEF Smaller
      <3>2. i + p \in Ring(raw)
        BY <3>1, ActiveLines
      <3>3. i < lines - p /\ i < first
        BY <1>1, <1>2, <2>2, <2>4, <2>9
      <3> QED
        BY <2>2, <2>3, <2>7, <2>9, <3>2, <3>3
    <2> QED
      BY <2>2, <2>8, <2>9
  <1>12. 0 \in (-g) .. (lines - 1)
    BY <1>1, <1>10
  <1>13. Filled(raw')
    BY <1>11, <1>12
  <1>14. IsScreen(ScreenRows', raw', lines) /\ IsHistory(HistoryRows', raw', g)
    BY <1>3, <1>7, <1>13, ViewAfter
  <1>15. ASSUME NEW i \in 0 .. (lines - 1) PROVE RowAt(raw', i) = Blank
    <2>1. i \in (-g) .. (lines - 1) /\ 0 <= i
      BY <1>1, <1>10
    <2> QED
      BY <1>11, <2>1
  <1>16. ScreenRows' = S!Blanks(lines)
    BY <1>1, <1>14, <1>15, BlankScreen
  <1>17. ASSUME NEW i \in (-g) .. (-1) PROVE RowAt(raw', i) = RowAt(raw, i + p)
    <2>1. i \in (-g) .. (lines - 1) /\ i < 0
      BY <1>1, <1>10
    <2> QED
      BY <1>11, <2>1
  <1>18. HistoryRows' = S!LastRows(HistoryRows \o PartOf(ScreenRows, 0, p), max_scroll_limit)
    BY <1>1, <1>2, <1>6, <1>9, <1>10, <1>14, <1>17, PushHistory
  <1>19. S!Height = lines /\ S!EmptyRow = Blank
    BY NamesOf DEF S!EmptyRow, Blank
  <1>20. S!Push(S!Part(0, p))
    BY <1>18, NamesOf
  <1>21. LET text == {k \in 1 .. S!Height : ScreenRows[k] # S!EmptyRow}
         IN  p = IF text # {} THEN CHOOSE k \in text : \A j \in text : j <= k
                 ELSE IF HistoryRows = <<>> THEN 1 ELSE 0
    BY <1>2, <1>19, SameViewport
  <1> QED
    BY <1>3, <1>13, <1>16, <1>19, <1>20, <1>21 DEF S!ClearViewport

\* grow_lines does what Grow does.
LEMMA GrowImplements ==
  ASSUME GridInv, GridInv', Filled(raw), NEW target \in 1 .. MaxLines, lines < target,
         grow_lines(target)
  PROVE  /\ Filled(raw') /\ S!Grow(target)
         /\ RowAt(raw', cursor') = RowAt(raw, cursor)
  <1>1. PICK p : p = Smaller(history_size, target - lines)
    OBVIOUS
  <1>2. /\ lines \in Nat \ {0} /\ target \in Nat \ {0} /\ history_size \in Nat
        /\ p \in Nat /\ p <= history_size /\ lines + p <= target
        /\ cursor \in 0 .. (lines - 1)
    BY <1>1, GridInvFacts, LinesAssumption DEF Smaller
  <1>3. ASSUME NEW i \in (p - history_size) .. (target - 1)
        PROVE  /\ Filled(raw')
               /\ lines' = target /\ max_scroll_limit' = max_scroll_limit
               /\ cursor' = cursor + p /\ saved_cursor' = saved_cursor + p
               /\ history_size' = history_size - p
               /\ i < lines + p => RowAt(raw', i) = RowAt(raw, i - p)
               /\ i >= lines + p => RowAt(raw', i) = Blank
    BY <1>1, GrowRows
  <1>4. 0 \in (p - history_size) .. (target - 1)
    BY <1>2
  <1>5. /\ Filled(raw')
        /\ lines' = target /\ max_scroll_limit' = max_scroll_limit
        /\ cursor' = cursor + p /\ saved_cursor' = saved_cursor + p
        /\ history_size' = history_size - p
    BY <1>3, <1>4
  <1>6. IsScreen(ScreenRows, raw, lines) /\ IsHistory(HistoryRows, raw, history_size)
    BY ViewBefore
  <1>7. IsScreen(ScreenRows', raw', target) /\ IsHistory(HistoryRows', raw', history_size - p)
    BY <1>5, ViewAfter
  <1>8. PulledRows(raw, raw', lines, target, p)
    <2>1. ASSUME NEW i \in 0 .. (target - 1) PROVE i \in (p - history_size) .. (target - 1)
      BY <1>2
    <2> QED
      BY <1>3, <2>1 DEF PulledRows
  <1>9. ScreenRows' = S!LastRows(HistoryRows, p) \o ScreenRows \o S!Blanks(target - lines - p)
    <2>1. PICK u : u = ScreenRows' /\ IsScreen(u, raw', target)
      BY <1>7
    <2>2. /\ lines \in Nat /\ history_size \in Nat /\ target \in Nat /\ p \in Nat
          /\ p <= history_size /\ lines + p <= target
      BY <1>2
    <2>3. IsGrown(u, ScreenRows, HistoryRows, p, target - lines - p)
      BY <1>6, <1>8, <2>1, <2>2, GrowScreen
    <2> QED
      BY <2>1, <2>3 DEF IsGrown
  <1>10. ASSUME NEW i \in (p - history_size) .. (-1) PROVE RowAt(raw', i) = RowAt(raw, i - p)
    <2>1. i \in (p - history_size) .. (target - 1) /\ i < lines + p
      BY <1>2
    <2> QED
      BY <1>3, <2>1
  <1>11. HistoryRows' = S!First(HistoryRows, history_size - p)
    BY <1>2, <1>6, <1>7, <1>10, PulledHistory
  <1>12. Len(HistoryRows) = history_size /\ S!Height = lines
    BY <1>6, NamesOf DEF IsHistory
  <1>13. S!Smallest(target - lines, history_size) = p /\ target - lines > 0
    BY <1>1, <1>2 DEF Smaller, S!Smallest
  <1>14. S!Grow(target)
    BY <1>5, <1>9, <1>11, <1>12, <1>13 DEF S!Grow
  <1>15. RowAt(raw', cursor') = RowAt(raw, cursor)
    <2>1. PICK c : c = cursor + p
      OBVIOUS
    <2>2. c \in (p - history_size) .. (target - 1) /\ c < lines + p /\ c - p = cursor
      BY <1>2, <2>1
    <2> QED
      BY <1>3, <1>5, <2>1, <2>2
  <1> QED
    BY <1>5, <1>14, <1>15

\* shrink_lines does what Shrink does.
LEMMA ShrinkImplements ==
  ASSUME GridInv, GridInv', Filled(raw), NEW target \in 1 .. MaxLines, lines > target,
         shrink_screen(target)
  PROVE  /\ Filled(raw') /\ S!Shrink(target)
         /\ RowAt(raw', cursor') = RowAt(raw, cursor)
  <1>1. PICK p : p = Larger(cursor + 1 - target, 0)
    OBVIOUS
  <1>2. PICK g : g = history_size'
    OBVIOUS
  <1>3. /\ lines \in Nat \ {0} /\ target \in Nat \ {0} /\ history_size \in Nat
        /\ max_scroll_limit \in Nat /\ p \in Nat /\ p + target <= lines
        /\ cursor \in 0 .. (lines - 1) /\ saved_cursor \in 0 .. (lines - 1)
    BY <1>1, GridInvFacts, LinesAssumption DEF Larger
  <1>4. /\ lines' = target /\ max_scroll_limit' = max_scroll_limit
        /\ cursor' = (IF p > 0 THEN Smaller(cursor, target - 1) ELSE cursor)
        /\ saved_cursor' = Smaller(saved_cursor, target - 1)
    BY <1>1 DEF shrink_screen
  <1>5. ASSUME NEW i \in (-g) .. (target - 1)
        PROVE  /\ Filled(raw')
               /\ g = Smaller(history_size + p, max_scroll_limit)
               /\ RowAt(raw', i) = RowAt(raw, i + p)
    BY <1>1, <1>2, ShrinkRows
  <1>6. g \in Nat
    <2>1. history_size' = raw'.len - lines'
      BY HistoryAfter
    <2>2. raw'.len \in Nat /\ lines' \in Nat /\ lines' <= raw'.len
      BY <1>3, <1>4 DEF GridInv, Backs, Shape
    <2> QED
      BY <1>2, <2>1, <2>2
  <1>7. 0 \in (-g) .. (target - 1)
    BY <1>3, <1>6
  <1>8. Filled(raw') /\ g = Smaller(history_size + p, max_scroll_limit)
    BY <1>5, <1>7
  <1>9. IsScreen(ScreenRows, raw, lines) /\ IsHistory(HistoryRows, raw, history_size)
    BY ViewBefore
  <1>10. IsScreen(ScreenRows', raw', target) /\ IsHistory(HistoryRows', raw', g)
    BY <1>2, <1>4, <1>8, ViewAfter
  <1>11. ASSUME NEW i \in 0 .. (target - 1) PROVE RowAt(raw', i) = RowAt(raw, i + p)
    <2>1. i \in (-g) .. (target - 1)
      BY <1>6
    <2> QED
      BY <1>5, <2>1
  <1>12. ScreenRows' = PartOf(ScreenRows, p, p + target)
    <2>1. lines \in Nat /\ target \in Nat
      BY <1>3
    <2> QED
      BY <1>3, <1>9, <1>10, <1>11, <2>1, ShrunkScreen
  <1>13. ASSUME NEW i \in (-g) .. (-1) PROVE RowAt(raw', i) = RowAt(raw, i + p)
    <2>1. i \in (-g) .. (target - 1)
      BY <1>3, <1>6
    <2> QED
      BY <1>5, <2>1
  <1>14. HistoryRows' = S!LastRows(HistoryRows \o PartOf(ScreenRows, 0, p), max_scroll_limit)
    <2>1. lines \in Nat /\ p <= lines
      BY <1>3
    <2> QED
      BY <1>3, <1>6, <1>8, <1>9, <1>10, <1>13, <2>1, PushHistory
  <1>15. cursor' = cursor - p /\ cursor' \in 0 .. (target - 1)
    BY <1>1, <1>3, <1>4 DEF Smaller, Larger
  <1>16. /\ S!Height = lines /\ target < lines
         /\ p = (IF cursor + 1 > target THEN cursor + 1 - target ELSE 0)
         /\ saved_cursor' = S!Smallest(saved_cursor, target - 1)
    BY <1>1, <1>3, <1>4, NamesOf DEF Larger, Smaller, S!Smallest
  <1>17. S!Push(S!Part(0, p)) /\ ScreenRows' = S!Part(p, p + target)
    BY <1>12, <1>14, NamesOf
  <1>18. S!Shrink(target)
    BY <1>4, <1>15, <1>16, <1>17 DEF S!Shrink
  <1>19. RowAt(raw', cursor') = RowAt(raw, cursor)
    <2>1. PICK c : c = cursor - p
      OBVIOUS
    <2>2. c \in 0 .. (target - 1) /\ c + p = cursor
      BY <1>3, <1>15, <2>1
    <2> QED
      BY <1>11, <1>15, <2>1, <2>2
  <1> QED
    BY <1>8, <1>18, <1>19

-----------------------------------------------------------------------------
(* The theorems.                                                           *)

\* GridInv bounds the numbers; that every slot has a row is the rest of what the
\* rows need.
RowsInv == GridInv /\ Filled(raw)

\* A new grid is an empty history and a blank screen.
LEMMA InitImplements == Init => RowsInv /\ S!InitScrollback
  <1> SUFFICES ASSUME Init PROVE RowsInv /\ S!InitScrollback
    OBVIOUS
  <1>1. GridInv
    BY GridInvInit
  <1>2. /\ lines \in 1 .. MaxLines /\ lines \in Nat /\ raw = with_capacity(lines)
        /\ max_scroll_limit \in HistoryLimits /\ cursor = 0 /\ saved_cursor = 0
    BY LinesAssumption DEF Init
  <1>3. /\ raw.inner = [i \in 0 .. (lines - 1) |-> Blank] /\ raw.cap = lines /\ raw.zero = 0
        /\ raw.visible_lines = lines /\ raw.len = lines
    BY <1>2 DEF with_capacity, MkStorage
  <1>4. Filled(raw)
    BY <1>3 DEF Filled, Rows
  <1>5. history_size = 0
    BY <1>2, <1>3 DEF history_size, HistorySize, Larger
  <1>6. IsScreen(ScreenRows, raw, lines) /\ IsHistory(HistoryRows, raw, 0)
    BY <1>1, <1>4, <1>5, ViewBefore
  <1>7. ASSUME NEW i \in 0 .. (lines - 1) PROVE RowAt(raw, i) = Blank
    <2>1. compute_index(raw, i) \in 0 .. (lines - 1)
      BY <1>2, <1>3 DEF compute_index
    <2> QED
      BY <1>3, <2>1 DEF RowAt
  <1>8. ScreenRows = S!Blanks(lines)
    BY <1>2, <1>6, <1>7, BlankScreen
  <1>9. HistoryRows = <<>>
    BY <1>6, EmptyHistory
  <1> QED
    BY <1>1, <1>2, <1>4, <1>8, <1>9 DEF RowsInv, S!InitScrollback

\* Every step of the grid is a step of the scrollback, or leaves it alone.
LEMMA StepImplements ==
  RowsInv /\ [Next]_vars => RowsInv' /\ [S!NextScrollback]_(S!svars)
  <1> SUFFICES ASSUME RowsInv, [Next]_vars PROVE RowsInv' /\ [S!NextScrollback]_(S!svars)
    OBVIOUS
  <1>1. GridInv /\ Filled(raw) /\ GridInv'
    BY GridInvStep DEF RowsInv
  <1>2. SUFFICES Filled(raw') /\ [S!NextScrollback]_(S!svars)
    BY <1>1 DEF RowsInv
  <1>3. S!Height = lines /\ S!EmptyRow = Blank
    BY <1>1, NamesOf DEF S!EmptyRow, Blank
  <1>4. ASSUME NEW end \in 1 .. lines, NEW start \in 0 .. (end - 1), NEW p \in 0 .. end,
               scroll_up(start, end, p)
        PROVE  Filled(raw') /\ S!NextScrollback
    BY <1>1, <1>3, <1>4, ScrollUpImplements DEF S!NextScrollback
  <1>5. ASSUME NEW end \in 1 .. lines, NEW start \in 0 .. (end - 1),
               NEW p \in 0 .. (end - start), scroll_down(start, end, p)
        PROVE  Filled(raw') /\ S!NextScrollback
    BY <1>1, <1>3, <1>5, ScrollDownImplements DEF S!NextScrollback
  <1>6. ASSUME NEW scroll \in Scrolls, scroll_display(scroll)
        PROVE  Filled(raw') /\ UNCHANGED S!svars
    BY <1>1, <1>6, DisplayImplements
  <1>7. ASSUME NEW limit \in HistoryLimits, update_history(limit)
        PROVE  Filled(raw') /\ S!NextScrollback
    BY <1>1, <1>7, SetLimitImplements DEF S!NextScrollback
  <1>8. CASE clear_history
    BY <1>1, <1>8, ClearHistoryImplements DEF S!NextScrollback
  <1>9. ASSUME NEW end \in 1 .. lines, NEW start \in 0 .. end, reset_region(start, end)
        PROVE  Filled(raw') /\ S!NextScrollback
    BY <1>1, <1>3, <1>9, ClearImplements DEF S!NextScrollback
  <1>10. CASE clear_viewport
    BY <1>1, <1>10, ClearViewportImplements DEF S!NextScrollback
  <1>11. CASE reset
    BY <1>1, <1>11, ResetImplements DEF S!NextScrollback
  <1>12. ASSUME NEW target \in 1 .. MaxLines, resize(target)
         PROVE  Filled(raw') /\ S!NextScrollback
    <2>1. CASE lines < target /\ grow_lines(target)
      BY <1>1, <2>1, GrowImplements DEF S!NextScrollback
    <2>2. CASE lines > target /\ shrink_screen(target)
      BY <1>1, <2>2, ShrinkImplements DEF S!NextScrollback
    <2> QED
      BY <1>12, <2>1, <2>2 DEF resize
  <1>13. ASSUME NEW row \in Rows, write(row) PROVE Filled(raw') /\ S!NextScrollback
    <2>1. row \in {S!EmptyRow} \cup Text
      BY <1>3 DEF Rows
    <2> QED
      BY <1>1, <1>13, <2>1, WriteImplements DEF S!NextScrollback
  <1>14. ASSUME NEW line \in 0 .. (lines - 1), goto(line)
         PROVE  Filled(raw') /\ S!NextScrollback
    BY <1>1, <1>14, CursorsImplement DEF S!NextScrollback
  <1>15. CASE save_cursor_position \/ restore_cursor_position
    <2>1. cursor \in 0 .. (lines - 1)
      BY <1>1, GridInvFacts
    <2> QED
      BY <1>1, <1>15, <2>1, CursorsImplement DEF S!NextScrollback
  <1>16. CASE UNCHANGED vars
    <2>1. UNCHANGED <<raw, lines, max_scroll_limit, cursor, saved_cursor>>
      BY <1>16 DEF vars
    <2> QED
      BY <1>1, <2>1, RowsStay DEF S!svars
  <1> QED
    BY <1>4, <1>5, <1>6, <1>7, <1>8, <1>9, <1>10, <1>11, <1>12, <1>13, <1>14, <1>15, <1>16
    DEF Next

\* RowsInv is an invariant: every slot of the buffer always holds a row, also the
\* cached ones.
LEMMA RowsInvAlways == Spec => []RowsInv
  BY InitImplements, StepImplements, PTL DEF Spec

\* The grid implements the scrollback: whatever the ring buffer, its cache and the
\* swaps do, every operation has on the rows the effect it has on two sequences.
THEOREM GridImplementsScrollback == Spec => ImplementsScrollback
  <1>1. Init => S!InitScrollback
    BY InitImplements
  <1>2. RowsInv /\ [Next]_vars => [S!NextScrollback]_(S!svars)
    BY StepImplements
  <1> QED
    BY <1>1, <1>2, RowsInvAlways, PTL DEF Spec, ImplementsScrollback, S!Spec

\* Only a change of height moves the cursor's row, and the cursor goes with it.
LEMMA HeightStep ==
  ASSUME RowsInv, RowsInv', [Next]_vars, lines' # lines
  PROVE  RowAt(raw', cursor') = RowAt(raw, cursor)
  <1>1. GridInv /\ Filled(raw) /\ GridInv'
    BY DEF RowsInv
  <1>2. PICK target \in 1 .. MaxLines : resize(target)
    BY DEF Next, vars, scroll_up, scroll_down, scroll_display, update_history,
           clear_history, reset_region, clear_viewport, reset, write, goto,
           save_cursor_position, restore_cursor_position
  <1>3. CASE lines < target /\ grow_lines(target)
    BY <1>1, <1>3, GrowImplements
  <1>4. CASE lines > target /\ shrink_screen(target)
    BY <1>1, <1>4, ShrinkImplements
  <1> QED
    BY <1>2, <1>3, <1>4 DEF resize

\* A change of height moves the cursor with the row it is on, for every height,
\* history and position of the cursor.
THEOREM CursorAlwaysKeepsRow == Spec => CursorKeepsRow
  <1>1. RowsInv /\ RowsInv' /\ [Next]_vars
          => [lines' # lines => RowAt(raw', cursor') = RowAt(raw, cursor)]_vars
    BY HeightStep
  <1> QED
    BY <1>1, RowsInvAlways, PTL DEF Spec, CursorKeepsRow

\* Text that scrolls into the history takes a display that is scrolled back with it.
LEMMA StationaryStep ==
  ASSUME RowsInv, RowsInv', NEW end \in 1 .. lines, NEW p \in 1 .. lines, p <= end,
         scroll_up(0, end, p), display_offset \in 1 .. history_size,
         display_offset + p <= max_scroll_limit,
         NEW i \in 0 .. (Smaller(display_offset, lines) - 1)
  PROVE  RowAt(raw', i - display_offset') = RowAt(raw, i - display_offset)
  <1>1. GridInv /\ Filled(raw) /\ GridInv'
    BY DEF RowsInv
  <1>2. /\ lines \in Nat \ {0} /\ max_scroll_limit \in Nat /\ history_size \in Nat
        /\ end \in Nat /\ end <= lines /\ p \in Nat /\ display_offset \in Nat \ {0}
        /\ display_offset <= history_size
    BY <1>1, GridInvFacts
  <1>3. Backs(raw, lines, max_scroll_limit)
    BY <1>1 DEF GridInv
  <1>4. /\ raw' = ScrollRowsUp(raw, lines, 0, end, p) /\ lines' = lines
        /\ display_offset' = display_offset + p
    BY <1>2 DEF scroll_up, FollowText, Smaller
  <1>5. i \in Nat /\ i < display_offset
    BY <1>2 DEF Smaller
  <1>6. PICK g : g = history_size'
    OBVIOUS
  <1>7. g = Smaller(history_size + p, max_scroll_limit)
    <2>1. 0 \in Nat /\ lines \in Nat /\ p <= lines
      BY <1>2
    <2>2. raw'.len - lines = Smaller(raw.len - lines + p, max_scroll_limit)
      BY <1>2, <1>3, <1>4, <2>1, ScrollUpLength
    <2>3. history_size' = raw'.len - lines' /\ raw.len - lines + p = history_size + p
      BY <1>1, <1>2, HistoryAfter, GridInvFacts
    <2> QED
      BY <1>4, <1>6, <2>2, <2>3
  <1>8. PICK j : j = i - display_offset - p
    OBVIOUS
  <1>9. /\ j \in (-g) .. (lines - 1) /\ j < end - p /\ j + p = i - display_offset
        /\ j = i - (display_offset + p)
    BY <1>2, <1>5, <1>7, <1>8 DEF Smaller
  <1>10. j \in Ring(raw')
    BY <1>1, <1>4, <1>6, <1>9, ActiveAfter
  <1>11. j + p \in Ring(raw)
    <2>1. j + p \in (-history_size) .. (lines - 1)
      BY <1>2, <1>5, <1>9
    <2> QED
      BY <1>1, <2>1, ActiveLines
  <1>12. lines \in Nat
    BY <1>2
  <1>13. j < end - p /\ j + p \in Ring(raw) => RowAt(raw', j) = RowAt(raw, j + p)
    BY <1>1, <1>2, <1>3, <1>4, <1>10, <1>12, ScrollTopAt
  <1> QED
    BY <1>4, <1>9, <1>11, <1>13

\* A display that is scrolled back shows the same rows while text scrolls into a
\* history that has room for it.
THEOREM DisplayAlwaysStationary == Spec => DisplayStationary
  <1>1. RowsInv /\ RowsInv' /\ [Next]_vars
          => [\A end \in 1 .. lines, p \in 1 .. lines :
                /\ p <= end
                /\ scroll_up(0, end, p)
                /\ display_offset \in 1 .. history_size
                /\ display_offset + p <= max_scroll_limit
                => \A i \in 0 .. (Smaller(display_offset, lines) - 1) :
                     DisplayedRow(i)' = DisplayedRow(i)]_vars
    BY StationaryStep DEF DisplayedRow
  <1> QED
    BY <1>1, RowsInvAlways, PTL DEF Spec, DisplayStationary
=============================================================================
