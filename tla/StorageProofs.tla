--------------------------- MODULE StorageProofs ----------------------------
(***************************************************************************)
(* Facts about the ring buffer's operations, for every size and every      *)
(* cache bound.                                                            *)
(***************************************************************************)
EXTENDS Storage, TLAPS, WellFoundedInduction

\* A nonempty set of natural numbers has a least element: the instance of
\* well-founded induction that needs no predicate as a parameter.
LEMMA LeastNumber ==
  ASSUME NEW T \in SUBSET Nat, T # {}
  PROVE  \E x \in T : \A y \in T : x <= y
  <1> DEFINE R == OpToRel(<, Nat)
  <1>1. IsWellFoundedOn(R, Nat)
    BY NatLessThanWellFounded
  <1> HIDE DEF R
  <1>2. \E x \in T : \A y \in T : ~ (<<y, x>> \in R)
    BY <1>1, WFMin
  <1>3. PICK x \in T : \A y \in T : ~ (<<y, x>> \in R)
    BY <1>2
  <1>4. \A v, w \in Nat : w < v => <<w, v>> \in R
    BY DEF R, OpToRel
  <1>5. \A y \in T : ~ (y < x)
    BY <1>3, <1>4
  <1>6. \A y \in T : x <= y
    BY <1>5
  <1> QED
    BY <1>6

\* What every operation keeps: `zero` is a slot, the active lines fit in the
\* buffer, and at most MAX_CACHE_SIZE rows are cached.
Shape(s) ==
  /\ s.cap \in Nat
  /\ s.zero \in Nat
  /\ s.visible_lines \in Nat
  /\ s.len \in Nat
  /\ s.zero < s.cap
  /\ s.len <= s.cap
  /\ s.cap <= s.len + MAX_CACHE_SIZE

\* with_capacity builds a buffer that is full and starts at slot 0.
LEMMA CapacityShape ==
  ASSUME NEW n \in Nat \ {0}
  PROVE  /\ Shape(with_capacity(n))
         /\ with_capacity(n).len = n
         /\ with_capacity(n).visible_lines = n
  BY CacheAssumption DEF Shape, with_capacity, MkStorage

\* Replacing rows, as swap and reset do, leaves the shape alone.
LEMMA RowsShape ==
  ASSUME NEW s, NEW rows, Shape(s)
  PROVE  /\ Shape(WithRows(s, rows))
         /\ WithRows(s, rows).len = s.len
         /\ WithRows(s, rows).visible_lines = s.visible_lines
  BY DEF Shape, WithRows, MkStorage

\* Vec::rotate_left moves rows only.
LEMMA RezeroFields ==
  ASSUME NEW s
  PROVE  /\ rezero(s).cap = s.cap
         /\ rezero(s).len = s.len
         /\ rezero(s).visible_lines = s.visible_lines
  BY DEF rezero, MkStorage

\* initialize adds exactly the rows it was asked for.
LEMMA InitializeShape ==
  ASSUME NEW s, NEW n \in Nat, Shape(s)
  PROVE  /\ Shape(initialize(s, n))
         /\ initialize(s, n).len = s.len + n
         /\ initialize(s, n).visible_lines = s.visible_lines
  BY CacheAssumption DEF Shape, initialize, MkStorage, Larger

\* shrink_lines drops exactly the rows it was asked for, as long as one is left,
\* and frees the cache when it grows too large.
LEMMA ShrinkShape ==
  ASSUME NEW s, NEW n \in Nat, Shape(s), n < s.len
  PROVE  /\ Shape(shrink_lines(s, n))
         /\ shrink_lines(s, n).len = s.len - n
         /\ shrink_lines(s, n).visible_lines = s.visible_lines
  BY CacheAssumption DEF Shape, shrink_lines, truncate, MkStorage, Smaller

\* Rotating either way, by no more rows than there are, leaves `zero` in the
\* buffer.
LEMMA RotateShape ==
  ASSUME NEW s, NEW n \in Int, Shape(s), n <= s.cap, -n <= s.cap
  PROVE  /\ Shape(rotate(s, n))
         /\ rotate(s, n).len = s.len
         /\ rotate(s, n).visible_lines = s.visible_lines
  <1>1. s.zero + n + s.cap \in Nat /\ s.cap \in Nat /\ s.cap > 0
    BY DEF Shape
  <1>2. (s.zero + n + s.cap) % s.cap \in 0 .. (s.cap - 1)
    BY <1>1, SMT
  <1> QED
    BY <1>2 DEF Shape, rotate, MkStorage

\* The same for the rotation used without scrollback.
LEMMA RotateDownShape ==
  ASSUME NEW s, NEW n \in Nat, Shape(s)
  PROVE  /\ Shape(rotate_down(s, n))
         /\ rotate_down(s, n).len = s.len
         /\ rotate_down(s, n).visible_lines = s.visible_lines
  <1>1. s.zero + n \in Nat /\ s.cap \in Nat /\ s.cap > 0
    BY DEF Shape
  <1>2. (s.zero + n) % s.cap \in 0 .. (s.cap - 1)
    BY <1>1, SMT
  <1> QED
    BY <1>2 DEF Shape, rotate_down, MkStorage

-----------------------------------------------------------------------------
(* The rows.                                                               *)

\* Every slot has a row.
Filled(s) == s.inner \in [0 .. (s.cap - 1) -> Rows]

\* The lines that have a slot: the active ones and, above them, the cached ones.
Ring(s) == (s.visible_lines - s.cap) .. (s.visible_lines - 1)

\* compute_index is in range and injective on the lines of the ring.  `zeroed` may
\* pass the end of the buffer once, never twice.
LEMMA SlotOfLine ==
  ASSUME NEW s, Shape(s), NEW i \in Ring(s), NEW j \in Ring(s)
  PROVE  /\ compute_index(s, i) \in 0 .. (s.cap - 1)
         /\ compute_index(s, i) = compute_index(s, j) => i = j
  BY DEF Shape, Ring, compute_index

\* Every line of the ring has a row.
LEMMA RowAtType ==
  ASSUME NEW s, Shape(s), Filled(s), NEW i \in Ring(s)
  PROVE  RowAt(s, i) \in Rows
  BY SlotOfLine DEF Filled, RowAt

\* Lines keep their slots when rows are replaced.
LEMMA WithRowsAt ==
  ASSUME NEW s, NEW rows, NEW i
  PROVE  RowAt(WithRows(s, rows), i) = rows[compute_index(s, i)]
  BY DEF RowAt, WithRows, MkStorage, compute_index

\* Writing a row changes no other line.
LEMMA SetRowAt ==
  ASSUME NEW s, Shape(s), Filled(s), NEW i \in Ring(s), NEW row \in Rows,
         NEW j \in Ring(s)
  PROVE  /\ Filled(SetRow(s, i, row))
         /\ j = i => RowAt(SetRow(s, i, row), j) = row
         /\ j # i => RowAt(SetRow(s, i, row), j) = RowAt(s, j)
  <1> DEFINE rows == [s.inner EXCEPT ![compute_index(s, i)] = row]
  <1>1. rows \in [0 .. (s.cap - 1) -> Rows]
    BY DEF Filled
  <1>2. Filled(SetRow(s, i, row))
    BY <1>1 DEF Filled, SetRow, WithRows, MkStorage
  <1>3. RowAt(SetRow(s, i, row), j) = rows[compute_index(s, j)]
    BY WithRowsAt DEF SetRow
  <1>4. RowAt(SetRow(s, i, row), j) = IF j = i THEN row ELSE RowAt(s, j)
    BY <1>3, SlotOfLine DEF Filled, RowAt
  <1> QED
    BY <1>2, <1>4

\* Resetting lines blanks them and changes no other line.
LEMMA ResetRowAt ==
  ASSUME NEW s, Shape(s), Filled(s), NEW first \in Int, NEW end \in Int,
         s.visible_lines - s.cap <= first, end <= s.visible_lines, NEW j \in Ring(s)
  PROVE  /\ Filled(ResetLines(s, first, end))
         /\ first <= j /\ j < end => RowAt(ResetLines(s, first, end), j) = Blank
         /\ j < first \/ j >= end => RowAt(ResetLines(s, first, end), j) = RowAt(s, j)
  <1> DEFINE slots == {compute_index(s, i) : i \in first .. (end - 1)}
             rows  == [k \in 0 .. (s.cap - 1) |->
                         IF k \in slots THEN Blank ELSE s.inner[k]]
             x     == compute_index(s, j)
  <1>1. rows \in [0 .. (s.cap - 1) -> Rows]
    BY DEF Filled, Rows
  <1>2. Filled(ResetLines(s, first, end))
    BY <1>1 DEF Filled, ResetLines, WithRows, MkStorage
  <1>3. RowAt(ResetLines(s, first, end), j) = rows[x]
    BY WithRowsAt DEF ResetLines
  <1>4. x \in 0 .. (s.cap - 1)
    BY SlotOfLine
  <1>5. j \in Int
    BY DEF Ring
  <1>6. x \in slots <=> first <= j /\ j < end
    <2>1. ASSUME first <= j, j < end PROVE x \in slots
      <3>1. j \in first .. (end - 1)
        BY <1>5, <2>1
      <3> QED
        BY <3>1
    <2>2. ASSUME x \in slots PROVE first <= j /\ j < end
      <3>1. PICK i \in first .. (end - 1) : x = compute_index(s, i)
        BY <2>2
      <3>2. i \in Ring(s)
        BY DEF Ring, Shape
      <3>3. i = j
        BY <3>1, <3>2, SlotOfLine
      <3> QED
        BY <3>3
    <2> QED
      BY <2>1, <2>2
  <1> HIDE DEF slots
  <1> QED
    BY <1>2, <1>3, <1>4, <1>5, <1>6 DEF RowAt

\* SwapSteps is the function its recursion describes.
LEMMA SwapStepsDef ==
  ASSUME NEW s, NEW seq \in Seq(Int), NEW d
  PROVE  SwapSteps(s, seq, d)
           = [k \in 0 .. Len(seq) |->
                IF k = 0 THEN s.inner
                ELSE Swap(s, SwapSteps(s, seq, d)[k - 1], seq[k], seq[k] + d)]
  <1> DEFINE Upto(f, m) ==
               f = [k \in 0 .. m |->
                      IF k = 0 THEN s.inner ELSE Swap(s, f[k - 1], seq[k], seq[k] + d)]
             T == {m \in 0 .. Len(seq) : ~ \E f : Upto(f, m)}
  <1>1. T = {}
    <2>1. SUFFICES ASSUME T # {} PROVE FALSE
      OBVIOUS
    <2>2. T \in SUBSET Nat
      OBVIOUS
    <2>3. PICK m \in T : \A y \in T : m <= y
      BY <2>1, <2>2, LeastNumber
    <2>4. m # 0
      <3>1. Upto([k \in 0 .. 0 |-> s.inner], 0)
        OBVIOUS
      <3> QED
        BY <2>3, <3>1
    <2>5. m \in 1 .. Len(seq) /\ Len(seq) \in Nat
      BY <2>4
    <2>6. m - 1 \in 0 .. Len(seq) /\ m - 1 \notin T
      <3> HIDE DEF T
      <3> QED
        BY <2>3, <2>5
    <2>7. PICK f : Upto(f, m - 1)
      BY <2>6
    <2> DEFINE g == [k \in 0 .. m |->
                       IF k < m THEN f[k]
                                ELSE Swap(s, f[m - 1], seq[m], seq[m] + d)]
    <2>8. Upto(g, m)
      <3>1. ASSUME NEW k \in 0 .. m
            PROVE  g[k] = IF k = 0 THEN s.inner
                          ELSE Swap(s, g[k - 1], seq[k], seq[k] + d)
        <4>1. CASE k = 0
          BY <2>5, <2>7, <4>1
        <4>2. CASE k # 0 /\ k < m
          <5>1. g[k] = f[k] /\ g[k - 1] = f[k - 1] /\ k \in 0 .. (m - 1)
            BY <4>2
          <5> QED
            BY <2>7, <4>2, <5>1
        <4>3. CASE k = m
          <5>1. g[k - 1] = f[k - 1]
            BY <2>5, <4>3
          <5> QED
            BY <2>5, <4>3, <5>1
        <4> QED
          BY <4>1, <4>2, <4>3
      <3>2. g = [k \in 0 .. m |-> g[k]]
        OBVIOUS
      <3> HIDE DEF g
      <3> QED
        BY <3>1, <3>2
    <2> QED
      BY <2>3, <2>8
  <1>2. \E f : Upto(f, Len(seq))
    BY <1>1
  <1> QED
    BY <1>2 DEF SwapSteps

\* One swap exchanges the rows of two lines.
LEMMA SwapAt ==
  ASSUME NEW s, Shape(s), NEW rows \in [0 .. (s.cap - 1) -> Rows],
         NEW a \in Ring(s), NEW b \in Ring(s), NEW i \in Ring(s)
  PROVE  /\ Swap(s, rows, a, b) \in [0 .. (s.cap - 1) -> Rows]
         /\ i = a => Swap(s, rows, a, b)[compute_index(s, i)] = rows[compute_index(s, b)]
         /\ i = b => Swap(s, rows, a, b)[compute_index(s, i)] = rows[compute_index(s, a)]
         /\ i # a /\ i # b
              => Swap(s, rows, a, b)[compute_index(s, i)] = rows[compute_index(s, i)]
  <1> DEFINE x == compute_index(s, a)
             y == compute_index(s, b)
             r == [rows EXCEPT ![x] = rows[y]]
             t == [r EXCEPT ![y] = rows[x]]
  <1>1. x \in 0 .. (s.cap - 1) /\ y \in 0 .. (s.cap - 1)
    BY SlotOfLine
  <1>2. Swap(s, rows, a, b) = t
    BY DEF Swap
  <1>3. r \in [0 .. (s.cap - 1) -> Rows]
    BY <1>1
  <1>4. t \in [0 .. (s.cap - 1) -> Rows]
    BY <1>1, <1>3
  <1>5. \A z \in 0 .. (s.cap - 1) :
          t[z] = IF z = y THEN rows[x] ELSE IF z = x THEN rows[y] ELSE rows[z]
    BY <1>1, <1>3
  <1>6. /\ compute_index(s, i) \in 0 .. (s.cap - 1)
        /\ compute_index(s, i) = x => i = a
        /\ compute_index(s, i) = y => i = b
        /\ x = y => a = b
    BY SlotOfLine
  <1> HIDE DEF t
  <1> QED
    BY <1>2, <1>4, <1>5, <1>6

\* The rows of s once lines a, a + 1, ..., a + k - 1 have been swapped, in this
\* order, with the lines d below them: the rows below have moved up by d, the d rows
\* at the top have been carried down behind them, and no other row has moved.
MovedUp(s, rows, a, d, k) ==
  /\ rows \in [0 .. (s.cap - 1) -> Rows]
  /\ \A i \in Ring(s) :
       /\ i < a \/ i >= a + k + d => rows[compute_index(s, i)] = RowAt(s, i)
       /\ a <= i /\ i < a + k => rows[compute_index(s, i)] = RowAt(s, i + d)
       /\ a + k <= i /\ i < a + k + d
            => \E j \in a .. (a + d - 1) : rows[compute_index(s, i)] = RowAt(s, j)

\* p and q are the lines of the swap after the first k.
NextPair(p, q, a, d, k) == p = a + k /\ q = a + k + d

\* One more swap.
LEMMA MovedUpStep ==
  ASSUME NEW s, Shape(s), NEW a \in Int, NEW d \in Nat, NEW k \in Nat,
         NEW p \in Ring(s), NEW q \in Ring(s), NextPair(p, q, a, d, k),
         NEW old, MovedUp(s, old, a, d, k),
         NEW new, new = Swap(s, old, p, q) \/ new = Swap(s, old, q, p)
  PROVE  MovedUp(s, new, a, d, k + 1)
  <1>1. old \in [0 .. (s.cap - 1) -> Rows]
    BY DEF MovedUp
  <1>2. new \in [0 .. (s.cap - 1) -> Rows]
    BY <1>1, SwapAt
  <1>3. ASSUME NEW i \in Ring(s)
        PROVE  /\ i = p => new[compute_index(s, i)] = old[compute_index(s, q)]
               /\ i = q => new[compute_index(s, i)] = old[compute_index(s, p)]
               /\ i # p /\ i # q => new[compute_index(s, i)] = old[compute_index(s, i)]
    <2>1. CASE new = Swap(s, old, p, q)
      BY <1>1, <2>1, SwapAt
    <2>2. CASE new = Swap(s, old, q, p)
      BY <1>1, <2>2, SwapAt
    <2> QED
      BY <2>1, <2>2
  <1>4. ASSUME NEW i \in Ring(s)
        PROVE  /\ i < a \/ i >= a + (k + 1) + d => new[compute_index(s, i)] = RowAt(s, i)
               /\ a <= i /\ i < a + (k + 1) => new[compute_index(s, i)] = RowAt(s, i + d)
               /\ a + (k + 1) <= i /\ i < a + (k + 1) + d
                    => \E j \in a .. (a + d - 1) : new[compute_index(s, i)] = RowAt(s, j)
    <2>1. i \in Int
      BY DEF Ring
    <2>2. CASE i = p
      <3>1. old[compute_index(s, q)] = RowAt(s, i + d)
        <4>1. q >= a + k + d /\ q = i + d
          BY <2>2 DEF NextPair
        <4> QED
          BY <4>1 DEF MovedUp
      <3>2. ~(i < a) /\ ~(i >= a + (k + 1) + d) /\ ~(a + (k + 1) <= i)
        BY <2>1, <2>2 DEF NextPair
      <3> QED
        BY <1>3, <2>2, <3>1, <3>2
    <2>3. CASE i = q /\ i # p
      <3>1. a + k <= p /\ p < a + k + d
        BY <2>1, <2>3 DEF NextPair
      <3>2. \E j \in a .. (a + d - 1) : old[compute_index(s, p)] = RowAt(s, j)
        BY <3>1 DEF MovedUp
      <3>3. ~(i < a) /\ ~(i >= a + (k + 1) + d) /\ ~(i < a + (k + 1))
        BY <2>1, <2>3 DEF NextPair
      <3> QED
        BY <1>3, <2>3, <3>2, <3>3
    <2>4. CASE i # p /\ i # q
      <3>1. new[compute_index(s, i)] = old[compute_index(s, i)]
        BY <1>3, <2>4
      <3>2. /\ i < a \/ i >= a + (k + 1) + d => i < a \/ i >= a + k + d
            /\ a <= i /\ i < a + (k + 1) => a <= i /\ i < a + k
            /\ a + (k + 1) <= i /\ i < a + (k + 1) + d
                 => a + k <= i /\ i < a + k + d
        BY <2>1, <2>4 DEF NextPair
      <3> QED
        BY <3>1, <3>2 DEF MovedUp
    <2> QED
      BY <2>2, <2>3, <2>4
  <1> QED
    BY <1>2, <1>4 DEF MovedUp

\* A loop that swaps lines a, a + 1, ..., e - 1, in this order, with those d below.
Ascending(seq, dist, a, e, d) ==
  /\ seq \in Seq(Int)
  /\ dist \in Int
  /\ a <= e
  /\ Len(seq) = e - a
  /\ \A k \in 1 .. Len(seq) :
       \/ seq[k] = a + k - 1 /\ dist = d
       \/ seq[k] = a + k - 1 + d /\ dist = -d

\* The whole loop.
LEMMA SwapsUp ==
  ASSUME NEW s, Shape(s), Filled(s), NEW seq, NEW dist,
         NEW a \in Int, NEW e \in Int, NEW d \in Nat, Ascending(seq, dist, a, e, d),
         s.visible_lines - s.cap <= a, e + d <= s.visible_lines
  PROVE  MovedUp(s, SwappedRows(s, seq, dist), a, d, Len(seq))
  <1> DEFINE n == Len(seq)
             f == SwapSteps(s, seq, dist)
             T == {k \in 0 .. n : ~MovedUp(s, f[k], a, d, k)}
  <1>1. /\ n \in Nat /\ s.cap \in Nat /\ s.visible_lines \in Nat
        /\ seq \in Seq(Int) /\ a + n + d <= s.visible_lines
    BY DEF Shape, Ascending
  <1>2. f[0] = s.inner
    BY <1>1, SwapStepsDef
  <1>3. ASSUME NEW k \in 0 .. (n - 1), NEW p, NEW q, NextPair(p, q, a, d, k)
        PROVE  f[k + 1] = Swap(s, f[k], p, q) \/ f[k + 1] = Swap(s, f[k], q, p)
    <2>1. k + 1 \in 1 .. n /\ (k + 1) - 1 = k
      BY <1>1
    <2>2. f[k + 1] = Swap(s, f[k], seq[k + 1], seq[k + 1] + dist)
      BY <1>1, <2>1, SwapStepsDef
    <2>3. \/ seq[k + 1] = p /\ seq[k + 1] + dist = q
          \/ seq[k + 1] = q /\ seq[k + 1] + dist = p
      BY <1>3, <2>1 DEF Ascending, NextPair
    <2> HIDE DEF f
    <2> QED
      BY <2>2, <2>3
  <1> HIDE DEF f
  <1>4. MovedUp(s, f[0], a, d, 0)
    <2>1. f[0] \in [0 .. (s.cap - 1) -> Rows]
      BY <1>2 DEF Filled
    <2>2. ASSUME NEW i \in Ring(s)
          PROVE  i \in Int /\ f[0][compute_index(s, i)] = RowAt(s, i)
      BY <1>2 DEF RowAt, Ring
    <2>3. ASSUME NEW i \in Ring(s), a <= i, i < a + d
          PROVE  i \in a .. (a + d - 1)
      BY <2>2, <2>3
    <2> QED
      BY <2>1, <2>2, <2>3 DEF MovedUp
  <1>5. ASSUME NEW k \in 0 .. (n - 1), MovedUp(s, f[k], a, d, k)
        PROVE  MovedUp(s, f[k + 1], a, d, k + 1)
    <2>1. PICK p, q : NextPair(p, q, a, d, k)
      BY DEF NextPair
    <2>2. p \in Ring(s) /\ q \in Ring(s) /\ k \in Nat
      <3>1. n = e - a /\ n \in Nat /\ s.visible_lines \in Nat /\ s.cap \in Nat
        BY <1>1 DEF Ascending, Shape
      <3>2. k \in Nat /\ k <= n - 1
        BY <3>1
      <3> HIDE DEF n
      <3> QED
        BY <2>1, <3>1, <3>2 DEF NextPair, Ring
    <2>3. f[k + 1] = Swap(s, f[k], p, q) \/ f[k + 1] = Swap(s, f[k], q, p)
      BY <1>3, <2>1
    <2> QED
      BY <1>5, <2>1, <2>2, <2>3, MovedUpStep
  <1>6. T = {}
    <2>1. SUFFICES ASSUME T # {} PROVE FALSE
      OBVIOUS
    <2>2. T \in SUBSET Nat
      BY <1>1
    <2>3. PICK k \in T : \A y \in T : k <= y
      BY <2>1, <2>2, LeastNumber
    <2>4. k # 0 /\ k \in 0 .. n
      BY <1>4
    <2>5. k - 1 \in 0 .. (n - 1) /\ k - 1 \in 0 .. n /\ (k - 1) + 1 = k
      BY <1>1, <2>4
    <2>6. k - 1 \notin T
      <3> HIDE DEF T
      <3> QED
        BY <2>3, <2>5
    <2>7. MovedUp(s, f[k - 1], a, d, k - 1)
      BY <2>5, <2>6
    <2>8. MovedUp(s, f[(k - 1) + 1], a, d, (k - 1) + 1)
      BY <1>5, <2>5, <2>7
    <2> QED
      BY <2>3, <2>5, <2>8
  <1>7. MovedUp(s, f[n], a, d, n)
    BY <1>1, <1>6
  <1> QED
    BY <1>7 DEF SwappedRows, f

\* The rows of s once lines b - 1, b - 2, ..., b - k have been swapped, in this
\* order, with the lines d above them: the rows above have moved down by d.
MovedDown(s, rows, b, d, k) ==
  /\ rows \in [0 .. (s.cap - 1) -> Rows]
  /\ \A i \in Ring(s) :
       /\ i >= b \/ i < b - k - d => rows[compute_index(s, i)] = RowAt(s, i)
       /\ b - k <= i /\ i < b => rows[compute_index(s, i)] = RowAt(s, i - d)

\* p and q are the lines of the swap after the first k.
NextPairAbove(p, q, b, d, k) == p = b - 1 - k /\ q = b - 1 - k - d

\* One more swap.
LEMMA MovedDownStep ==
  ASSUME NEW s, Shape(s), NEW b \in Int, NEW d \in Nat, NEW k \in Nat,
         NEW p \in Ring(s), NEW q \in Ring(s), NextPairAbove(p, q, b, d, k),
         NEW old, MovedDown(s, old, b, d, k),
         NEW new, new = Swap(s, old, p, q)
  PROVE  MovedDown(s, new, b, d, k + 1)
  <1>1. old \in [0 .. (s.cap - 1) -> Rows]
    BY DEF MovedDown
  <1>2. new \in [0 .. (s.cap - 1) -> Rows]
    BY <1>1, SwapAt
  <1>3. ASSUME NEW i \in Ring(s)
        PROVE  /\ i = p => new[compute_index(s, i)] = old[compute_index(s, q)]
               /\ i = q => new[compute_index(s, i)] = old[compute_index(s, p)]
               /\ i # p /\ i # q => new[compute_index(s, i)] = old[compute_index(s, i)]
    BY <1>1, SwapAt
  <1>4. ASSUME NEW i \in Ring(s)
        PROVE  /\ i >= b \/ i < b - (k + 1) - d => new[compute_index(s, i)] = RowAt(s, i)
               /\ b - (k + 1) <= i /\ i < b => new[compute_index(s, i)] = RowAt(s, i - d)
    <2>1. i \in Int
      BY DEF Ring
    <2>2. CASE i = p
      <3>1. old[compute_index(s, q)] = RowAt(s, i - d)
        <4>1. q < b - k - d /\ q = i - d
          BY <2>2 DEF NextPairAbove
        <4> QED
          BY <4>1 DEF MovedDown
      <3>2. ~(i >= b) /\ ~(i < b - (k + 1) - d)
        BY <2>1, <2>2 DEF NextPairAbove
      <3> QED
        BY <1>3, <2>2, <3>1, <3>2
    <2>3. CASE i = q /\ i # p
      <3>1. ~(i >= b) /\ ~(i < b - (k + 1) - d) /\ ~(b - (k + 1) <= i)
        BY <2>1, <2>3 DEF NextPairAbove
      <3> QED
        BY <3>1
    <2>4. CASE i # p /\ i # q
      <3>1. new[compute_index(s, i)] = old[compute_index(s, i)]
        BY <1>3, <2>4
      <3>2. /\ i >= b \/ i < b - (k + 1) - d => i >= b \/ i < b - k - d
            /\ b - (k + 1) <= i /\ i < b => b - k <= i /\ i < b
        BY <2>1, <2>4 DEF NextPairAbove
      <3> QED
        BY <3>1, <3>2 DEF MovedDown
    <2> QED
      BY <2>2, <2>3, <2>4
  <1> QED
    BY <1>2, <1>4 DEF MovedDown

\* A loop that swaps lines b - 1, b - 2, ..., e, in this order, with those above.
Descending(seq, e, b) ==
  /\ seq \in Seq(Int)
  /\ e <= b
  /\ Len(seq) = b - e
  /\ \A k \in 1 .. Len(seq) : seq[k] = b - k

\* The whole loop.
LEMMA SwapsDown ==
  ASSUME NEW s, Shape(s), Filled(s), NEW seq, NEW b \in Int, NEW e \in Int, NEW d \in Nat,
         Descending(seq, e, b), b <= s.visible_lines, s.visible_lines - s.cap <= e - d
  PROVE  MovedDown(s, SwappedRows(s, seq, -d), b, d, Len(seq))
  <1> DEFINE n == Len(seq)
             f == SwapSteps(s, seq, -d)
             T == {k \in 0 .. n : ~MovedDown(s, f[k], b, d, k)}
  <1>1. /\ n \in Nat /\ s.cap \in Nat /\ s.visible_lines \in Nat
        /\ seq \in Seq(Int) /\ s.visible_lines - s.cap <= b - n - d
    BY DEF Shape, Descending
  <1>2. f[0] = s.inner
    BY <1>1, SwapStepsDef
  <1>3. ASSUME NEW k \in 0 .. (n - 1), NEW p, NEW q, NextPairAbove(p, q, b, d, k)
        PROVE  f[k + 1] = Swap(s, f[k], p, q)
    <2>1. k + 1 \in 1 .. n /\ (k + 1) - 1 = k
      BY <1>1
    <2>2. f[k + 1] = Swap(s, f[k], seq[k + 1], seq[k + 1] + (-d))
      BY <1>1, <2>1, SwapStepsDef
    <2>3. seq[k + 1] = p /\ seq[k + 1] + (-d) = q
      BY <1>3, <2>1 DEF NextPairAbove, Descending
    <2> HIDE DEF f
    <2> QED
      BY <2>2, <2>3
  <1> HIDE DEF f
  <1>4. MovedDown(s, f[0], b, d, 0)
    <2>1. f[0] \in [0 .. (s.cap - 1) -> Rows]
      BY <1>2 DEF Filled
    <2>2. ASSUME NEW i \in Ring(s)
          PROVE  i \in Int /\ f[0][compute_index(s, i)] = RowAt(s, i)
      BY <1>2 DEF RowAt, Ring
    <2> QED
      BY <2>1, <2>2 DEF MovedDown
  <1>5. ASSUME NEW k \in 0 .. (n - 1), MovedDown(s, f[k], b, d, k)
        PROVE  MovedDown(s, f[k + 1], b, d, k + 1)
    <2>1. PICK p, q : NextPairAbove(p, q, b, d, k)
      BY DEF NextPairAbove
    <2>2. p \in Ring(s) /\ q \in Ring(s) /\ k \in Nat
      <3>1. n = b - e /\ n \in Nat /\ s.visible_lines \in Nat /\ s.cap \in Nat
        BY <1>1 DEF Descending, Shape
      <3>2. k \in Nat /\ k <= n - 1
        BY <3>1
      <3> HIDE DEF n
      <3> QED
        BY <2>1, <3>1, <3>2 DEF NextPairAbove, Ring
    <2>3. f[k + 1] = Swap(s, f[k], p, q)
      BY <1>3, <2>1
    <2> QED
      BY <1>5, <2>1, <2>2, <2>3, MovedDownStep
  <1>6. T = {}
    <2>1. SUFFICES ASSUME T # {} PROVE FALSE
      OBVIOUS
    <2>2. T \in SUBSET Nat
      BY <1>1
    <2>3. PICK k \in T : \A y \in T : k <= y
      BY <2>1, <2>2, LeastNumber
    <2>4. k # 0 /\ k \in 0 .. n
      BY <1>4
    <2>5. k - 1 \in 0 .. (n - 1) /\ k - 1 \in 0 .. n /\ (k - 1) + 1 = k
      BY <1>1, <2>4
    <2>6. k - 1 \notin T
      <3> HIDE DEF T
      <3> QED
        BY <2>3, <2>5
    <2>7. MovedDown(s, f[k - 1], b, d, k - 1)
      BY <2>5, <2>6
    <2>8. MovedDown(s, f[(k - 1) + 1], b, d, (k - 1) + 1)
      BY <1>5, <2>5, <2>7
    <2> QED
      BY <2>3, <2>5, <2>8
  <1>7. MovedDown(s, f[n], b, d, n)
    BY <1>1, <1>6
  <1> QED
    BY <1>7 DEF SwappedRows, f

-----------------------------------------------------------------------------
(* The rows after the operations of the buffer.                            *)

\* Rotating by a negative count moves every line up.
LEMMA RotateUpAt ==
  ASSUME NEW s, Shape(s), Filled(s), NEW p \in Nat, p <= s.cap,
         NEW i \in Ring(s), i + p < s.visible_lines
  PROVE  RowAt(rotate(s, -p), i) = RowAt(s, i + p)
  <1> DEFINE z == (s.zero + (-p) + s.cap) % s.cap
  <1>1. z = IF s.zero >= p THEN s.zero - p ELSE s.zero - p + s.cap
    <2>1. s.zero \in Nat /\ s.cap \in Nat /\ s.zero < s.cap
      BY DEF Shape
    <2>2. ASSUME NEW a \in Nat, NEW b \in Nat, a < b PROVE a % b = a
      BY <2>2
    <2>3. ASSUME NEW a \in Nat, NEW b \in Nat, b <= a, a < 2 * b PROVE a % b = a - b
      BY <2>3
    <2>4. CASE s.zero >= p
      BY <2>1, <2>3, <2>4
    <2>5. CASE s.zero < p
      BY <2>1, <2>2, <2>5
    <2> QED
      BY <2>1, <2>4, <2>5
  <1>2. compute_index(rotate(s, -p), i) = compute_index(s, i + p)
    <2>1. /\ rotate(s, -p).zero = z /\ rotate(s, -p).cap = s.cap
          /\ rotate(s, -p).visible_lines = s.visible_lines
      BY DEF rotate, MkStorage
    <2> HIDE DEF z
    <2> QED
      BY <1>1, <2>1 DEF compute_index, Shape, Ring
  <1> QED
    BY <1>2 DEF RowAt, rotate, MkStorage

\* Rotating by a positive count moves every line down.
LEMMA RotateBackAt ==
  ASSUME NEW s, Shape(s), Filled(s), NEW p \in Nat, p <= s.cap,
         NEW i \in Ring(s), i - p \in Ring(s)
  PROVE  /\ RowAt(rotate(s, p), i) = RowAt(s, i - p)
         /\ RowAt(rotate_down(s, p), i) = RowAt(s, i - p)
  <1> DEFINE z == IF s.zero + p < s.cap THEN s.zero + p ELSE s.zero + p - s.cap
  <1>1. (s.zero + p + s.cap) % s.cap = z \/ p = s.cap
    <2>1. s.zero \in Nat /\ s.cap \in Nat /\ s.zero < s.cap
      BY DEF Shape
    <2>2. ASSUME NEW a \in Nat, NEW b \in Nat, b <= a, a < 2 * b PROVE a % b = a - b
      BY <2>2
    <2>3. ASSUME NEW a \in Nat, NEW b \in Nat, 2 * b <= a, a < 3 * b PROVE a % b = a - 2 * b
      BY <2>3
    <2>4. CASE s.zero + p < s.cap
      BY <2>1, <2>2, <2>4
    <2>5. CASE ~(s.zero + p < s.cap) /\ p # s.cap
      BY <2>1, <2>3, <2>5
    <2> QED
      BY <2>1, <2>4, <2>5
  <1>2. (s.zero + p) % s.cap = z \/ p = s.cap
    <2>1. s.zero \in Nat /\ s.cap \in Nat /\ s.zero < s.cap
      BY DEF Shape
    <2>2. ASSUME NEW a \in Nat, NEW b \in Nat, a < b PROVE a % b = a
      BY <2>2
    <2>3. ASSUME NEW a \in Nat, NEW b \in Nat, b <= a, a < 2 * b PROVE a % b = a - b
      BY <2>3
    <2>4. CASE s.zero + p < s.cap
      BY <2>1, <2>2, <2>4
    <2>5. CASE ~(s.zero + p < s.cap)
      BY <2>1, <2>3, <2>5
    <2> QED
      BY <2>1, <2>4, <2>5
  <1>3. p # s.cap
    BY DEF Ring, Shape
  <1> HIDE DEF z
  <1>4. /\ rotate(s, p).zero = z /\ rotate(s, p).cap = s.cap
        /\ rotate(s, p).visible_lines = s.visible_lines
        /\ rotate(s, p).inner = s.inner
        /\ rotate_down(s, p).zero = z /\ rotate_down(s, p).cap = s.cap
        /\ rotate_down(s, p).visible_lines = s.visible_lines
        /\ rotate_down(s, p).inner = s.inner
    BY <1>1, <1>2, <1>3 DEF rotate, rotate_down, MkStorage
  <1>5. /\ compute_index(rotate(s, p), i) = compute_index(s, i - p)
        /\ compute_index(rotate_down(s, p), i) = compute_index(s, i - p)
    BY <1>4 DEF z, compute_index, Shape, Ring
  <1> QED
    BY <1>4, <1>5 DEF RowAt

\* Rotating keeps every slot filled.
LEMMA RotateFilled ==
  ASSUME NEW s, Filled(s), NEW n
  PROVE  /\ Filled(rotate(s, n)) /\ rotate(s, n).cap = s.cap
         /\ Filled(rotate_down(s, n)) /\ rotate_down(s, n).cap = s.cap
  BY DEF Filled, rotate, rotate_down, MkStorage

\* rezero puts the line that is k above the bottom into slot k.
LEMMA RezeroAt ==
  ASSUME NEW s, Shape(s), Filled(s), NEW i \in Ring(s)
  PROVE  /\ rezero(s).inner[s.visible_lines - i - 1] = RowAt(s, i)
         /\ rezero(s).inner \in [0 .. (s.cap - 1) -> Rows]
  <1> DEFINE k == s.visible_lines - i - 1
  <1>1. /\ s.zero \in Nat /\ s.cap \in Nat /\ s.zero < s.cap
        /\ k \in 0 .. (s.cap - 1)
    BY DEF Shape, Ring
  <1>2. ASSUME NEW a \in Nat, NEW b \in Nat, a < b PROVE a % b = a
    BY <1>2
  <1>3. ASSUME NEW a \in Nat, NEW b \in Nat, b <= a, a < 2 * b PROVE a % b = a - b
    BY <1>3
  <1>4. compute_index(s, i) = IF s.zero + k >= s.cap THEN s.zero + k - s.cap ELSE s.zero + k
    BY <1>1 DEF compute_index, Shape, Ring
  <1> HIDE DEF k
  <1>5. \A j \in 0 .. (s.cap - 1) : (j + s.zero) % s.cap \in 0 .. (s.cap - 1)
    BY <1>1
  <1>6. (k + s.zero) % s.cap = compute_index(s, i)
    <2>1. CASE k + s.zero < s.cap
      BY <1>1, <1>2, <1>4, <2>1
    <2>2. CASE ~(k + s.zero < s.cap)
      BY <1>1, <1>3, <1>4, <2>2
    <2> QED
      BY <2>1, <2>2
  <1>7. CASE s.zero = 0
    <2>1. compute_index(s, i) = k
      BY <1>1, <1>4, <1>7
    <2> QED
      BY <1>7, <2>1 DEF rezero, RowAt, Filled, k
  <1>8. CASE s.zero # 0
    <2>1. rezero(s).inner = [j \in 0 .. (s.cap - 1) |-> s.inner[(j + s.zero) % s.cap]]
      BY <1>8 DEF rezero, MkStorage
    <2>2. rezero(s).inner[k] = s.inner[(k + s.zero) % s.cap]
      BY <1>1, <2>1
    <2>3. rezero(s).inner \in [0 .. (s.cap - 1) -> Rows]
      BY <1>5, <2>1 DEF Filled
    <2> QED
      BY <1>6, <2>2, <2>3 DEF RowAt, k
  <1> QED
    BY <1>7, <1>8

\* shrink_lines keeps the rows that stay active, truncated or not.
LEMMA ShrinkAt ==
  ASSUME NEW s, Shape(s), Filled(s), NEW n \in Nat, n < s.len,
         NEW i \in (s.visible_lines - (s.len - n)) .. (s.visible_lines - 1)
  PROVE  /\ Filled(shrink_lines(s, n))
         /\ RowAt(shrink_lines(s, n), i) = RowAt(s, i)
  <1> DEFINE short == MkStorage(s.inner, s.cap, s.zero, s.visible_lines, s.len - n)
             size  == Smaller(s.cap, s.len - n)
             k     == s.visible_lines - i - 1
  <1>1. /\ short.inner = s.inner /\ short.cap = s.cap /\ short.zero = s.zero
        /\ short.visible_lines = s.visible_lines /\ short.len = s.len - n
    BY DEF MkStorage
  <1>2. i \in Ring(s) /\ i \in Int
    BY DEF Ring, Shape
  <1>3. CASE s.cap > short.len + MAX_CACHE_SIZE
    <2> DEFINE z == rezero(short)
               t == shrink_lines(s, n)
    <2>1. z.inner = rezero(s).inner
      BY <1>1 DEF rezero, MkStorage
    <2>2. /\ t.inner = [j \in 0 .. (size - 1) |-> z.inner[j]]
          /\ t.cap = size /\ t.zero = 0 /\ t.visible_lines = s.visible_lines
      BY <1>1, <1>3 DEF shrink_lines, truncate, MkStorage
    <2>4. size = s.len - n /\ size \in Nat /\ size <= s.cap /\ s.cap \in Nat
      BY DEF Smaller, Shape
    <2>5. k \in 0 .. (size - 1)
      BY <2>4 DEF Shape
    <2> HIDE DEF t, z, size, k
    <2>6. compute_index(t, i) = k
      BY <1>2, <2>2, <2>4, <2>5 DEF compute_index, k, Shape
    <2>7. z.inner \in [0 .. (s.cap - 1) -> Rows] /\ z.inner[k] = RowAt(s, i)
      BY <1>2, <2>1, RezeroAt DEF k
    <2>8. t.inner \in [0 .. (size - 1) -> Rows]
      BY <2>2, <2>4, <2>7
    <2>9. t.inner[k] = RowAt(s, i)
      BY <2>2, <2>5, <2>7
    <2> QED
      BY <2>2, <2>6, <2>8, <2>9 DEF Filled, RowAt, t
  <1>4. CASE ~(s.cap > short.len + MAX_CACHE_SIZE)
    <2>1. shrink_lines(s, n) = short
      BY <1>4 DEF shrink_lines
    <2>2. compute_index(short, i) = compute_index(s, i)
      BY <1>1 DEF compute_index
    <2> HIDE DEF short
    <2> QED
      BY <1>1, <2>1, <2>2 DEF Filled, RowAt
  <1> QED
    BY <1>3, <1>4

\* initialize keeps every row, reallocated or not.
LEMMA InitializeAt ==
  ASSUME NEW s, Shape(s), Filled(s), NEW n \in Nat, NEW i \in Ring(s)
  PROVE  /\ Filled(initialize(s, n))
         /\ s.cap <= initialize(s, n).cap
         /\ RowAt(initialize(s, n), i) = RowAt(s, i)
  <1> DEFINE size == s.cap + Larger(n, MAX_CACHE_SIZE)
             k    == s.visible_lines - i - 1
             t    == initialize(s, n)
  <1>1. CASE s.len + n > s.cap
    <2> DEFINE r == rezero(s).inner
    <2>1. /\ t.inner = [j \in 0 .. (size - 1) |-> IF j < s.cap THEN r[j] ELSE Blank]
          /\ t.cap = size /\ t.zero = 0 /\ t.visible_lines = s.visible_lines
      BY <1>1 DEF initialize, MkStorage
    <2>2. size \in Nat /\ s.cap \in Nat /\ s.cap <= size
      BY CacheAssumption DEF Larger, Shape
    <2>3. k \in 0 .. (s.cap - 1) /\ i \in Int
      BY DEF Shape, Ring
    <2> HIDE DEF t, size, r, k
    <2>4. compute_index(t, i) = k
      BY <2>1, <2>2, <2>3 DEF compute_index, k, Shape
    <2>5. r \in [0 .. (s.cap - 1) -> Rows] /\ r[k] = RowAt(s, i)
      BY RezeroAt DEF r, k
    <2>6. t.inner \in [0 .. (size - 1) -> Rows]
      BY <2>1, <2>2, <2>5 DEF Rows
    <2>7. t.inner[k] = r[k]
      BY <2>1, <2>2, <2>3
    <2> QED
      BY <2>1, <2>2, <2>4, <2>5, <2>6, <2>7 DEF Filled, RowAt, t
  <1>2. CASE ~(s.len + n > s.cap)
    <2>1. /\ t.inner = s.inner /\ t.cap = s.cap /\ t.zero = s.zero
          /\ t.visible_lines = s.visible_lines
      BY <1>2 DEF initialize, MkStorage
    <2> HIDE DEF t
    <2>2. compute_index(t, i) = compute_index(s, i)
      BY <2>1 DEF compute_index
    <2> QED
      BY <2>1, <2>2 DEF Filled, RowAt, Shape, t
  <1> QED
    BY <1>1, <1>2

\* A screen of another height counts the same rows from another line.
LEMMA VisibleAt ==
  ASSUME NEW s, Shape(s), Filled(s), NEW n \in Nat, NEW i \in Int
  PROVE  /\ Filled(WithVisibleLines(s, n))
         /\ RowAt(WithVisibleLines(s, n), i) = RowAt(s, i - (n - s.visible_lines))
  <1> DEFINE t == WithVisibleLines(s, n)
  <1>1. /\ t.inner = s.inner /\ t.cap = s.cap /\ t.zero = s.zero /\ t.visible_lines = n
    BY DEF WithVisibleLines, MkStorage
  <1> HIDE DEF t
  <1>2. compute_index(t, i) = compute_index(s, i - (n - s.visible_lines))
    BY <1>1 DEF compute_index, Shape
  <1> QED
    BY <1>1, <1>2 DEF Filled, RowAt, t

\* Replacing rows moves no line to another slot.
LEMMA WithRowsRing ==
  ASSUME NEW s, NEW rows, rows \in [0 .. (s.cap - 1) -> Rows]
  PROVE  /\ Filled(WithRows(s, rows))
         /\ WithRows(s, rows).cap = s.cap
         /\ WithRows(s, rows).visible_lines = s.visible_lines
         /\ Ring(WithRows(s, rows)) = Ring(s)
  BY DEF Filled, WithRows, MkStorage, Ring

\* The loops of scroll_up inside a region and of scroll_down without scrollback.
LEMMA SwapUpAt ==
  ASSUME NEW s, Shape(s), Filled(s), NEW seq, NEW dist,
         NEW a \in Int, NEW e \in Int, NEW d \in Nat, Ascending(seq, dist, a, e, d),
         s.visible_lines - s.cap <= a, e + d <= s.visible_lines,
         NEW i \in Ring(s)
  PROVE  /\ Filled(SwapEach(s, seq, dist))
         /\ SwapEach(s, seq, dist).cap = s.cap
         /\ i < a \/ i >= e + d => RowAt(SwapEach(s, seq, dist), i) = RowAt(s, i)
         /\ a <= i /\ i < e => RowAt(SwapEach(s, seq, dist), i) = RowAt(s, i + d)
         /\ e <= i /\ i < e + d
              => \E j \in a .. (a + d - 1) :
                   RowAt(SwapEach(s, seq, dist), i) = RowAt(s, j)
  <1> DEFINE rows == SwappedRows(s, seq, dist)
             n    == Len(seq)
  <1>1. MovedUp(s, rows, a, d, n)
    BY SwapsUp
  <1>2. SwapEach(s, seq, dist) = WithRows(s, rows)
    BY DEF SwapEach
  <1>3. a + n = e /\ n \in Nat
    BY DEF Ascending
  <1> HIDE DEF rows, n
  <1>4. rows \in [0 .. (s.cap - 1) -> Rows]
    BY <1>1 DEF MovedUp
  <1>5. RowAt(SwapEach(s, seq, dist), i) = rows[compute_index(s, i)]
    BY <1>2, WithRowsAt
  <1>6. /\ i < a \/ i >= a + n + d => rows[compute_index(s, i)] = RowAt(s, i)
        /\ a <= i /\ i < a + n => rows[compute_index(s, i)] = RowAt(s, i + d)
        /\ a + n <= i /\ i < a + n + d
             => \E j \in a .. (a + d - 1) : rows[compute_index(s, i)] = RowAt(s, j)
    BY <1>1 DEF MovedUp
  <1>7. Filled(SwapEach(s, seq, dist)) /\ SwapEach(s, seq, dist).cap = s.cap
    BY <1>2, <1>4, WithRowsRing
  <1> QED
    BY <1>3, <1>5, <1>6, <1>7

\* The loops of scroll_up with lines below the region and of scroll_down.
LEMMA SwapDownAt ==
  ASSUME NEW s, Shape(s), Filled(s), NEW seq, NEW b \in Int, NEW e \in Int, NEW d \in Nat,
         Descending(seq, e, b), b <= s.visible_lines, s.visible_lines - s.cap <= e - d,
         NEW i \in Ring(s)
  PROVE  /\ Filled(SwapEach(s, seq, -d))
         /\ SwapEach(s, seq, -d).cap = s.cap
         /\ i >= b \/ i < e - d => RowAt(SwapEach(s, seq, -d), i) = RowAt(s, i)
         /\ e <= i /\ i < b => RowAt(SwapEach(s, seq, -d), i) = RowAt(s, i - d)
  <1> DEFINE rows == SwappedRows(s, seq, -d)
             n    == Len(seq)
  <1>1. MovedDown(s, rows, b, d, n)
    BY SwapsDown
  <1>2. SwapEach(s, seq, -d) = WithRows(s, rows)
    BY DEF SwapEach
  <1>3. b - n = e /\ n \in Nat
    BY DEF Descending
  <1> HIDE DEF rows, n
  <1>4. rows \in [0 .. (s.cap - 1) -> Rows]
    BY <1>1 DEF MovedDown
  <1>5. RowAt(SwapEach(s, seq, -d), i) = rows[compute_index(s, i)]
    BY <1>2, WithRowsAt
  <1>6. /\ i >= b \/ i < b - n - d => rows[compute_index(s, i)] = RowAt(s, i)
        /\ b - n <= i /\ i < b => rows[compute_index(s, i)] = RowAt(s, i - d)
    BY <1>1 DEF MovedDown
  <1>7. Filled(SwapEach(s, seq, -d)) /\ SwapEach(s, seq, -d).cap = s.cap
    BY <1>2, <1>4, WithRowsRing
  <1> QED
    BY <1>3, <1>5, <1>6, <1>7

\* The lines of the loops, forwards and backwards.  A forward loop may name the upper
\* or the lower line of each pair.
LEMMA LineRanges ==
  ASSUME NEW first \in Int, NEW end \in Int, first <= end, NEW d \in Nat
  PROVE  /\ Ascending(LineRange(first, end), d, first, end, d)
         /\ Ascending(LineRange(first, end), -d, first - d, end - d, d)
         /\ Descending(LineRangeRev(first, end), first, end)
  <1> DEFINE q == LineRange(first, end)
             r == LineRangeRev(first, end)
             n == end - first
  <1>1. n \in Nat
    OBVIOUS
  <1>2. q = [k \in 1 .. n |-> first + k - 1] /\ r = [k \in 1 .. n |-> end - k]
    BY DEF LineRange, LineRangeRev
  <1> HIDE DEF q, r, n
  <1>3. \A k \in 1 .. n : first + k - 1 \in Int /\ end - k \in Int
    BY <1>1
  <1>4. q \in [1 .. n -> Int] /\ r \in [1 .. n -> Int]
    BY <1>2, <1>3
  <1>5. q \in Seq(Int) /\ Len(q) = n /\ r \in Seq(Int) /\ Len(r) = n
    BY <1>1, <1>2, <1>4
  <1>6. ASSUME NEW k \in 1 .. n
        PROVE  q[k] = first + k - 1 /\ q[k] = (first - d) + k - 1 + d /\ r[k] = end - k
    <2>1. q[k] = first + k - 1 /\ r[k] = end - k
      BY <1>2
    <2>2. k \in Int /\ first + k - 1 = (first - d) + k - 1 + d
      BY <1>1
    <2> QED
      BY <2>1, <2>2
  <1>7. n = end - first /\ n = (end - d) - (first - d) /\ -d \in Int /\ first - d <= end - d
    BY DEF n
  <1>8. Ascending(q, d, first, end, d)
    BY <1>5, <1>6, <1>7 DEF Ascending
  <1>9. Ascending(q, -d, first - d, end - d, d)
    BY <1>5, <1>6, <1>7 DEF Ascending
  <1>10. Descending(r, first, end)
    BY <1>5, <1>6, <1>7 DEF Descending
  <1> QED
    BY <1>8, <1>9, <1>10 DEF q, r
=============================================================================
