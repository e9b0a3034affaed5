------------------------------ MODULE Storage ------------------------------
(***************************************************************************)
(* The ring buffer behind the terminal grid (grid/storage.rs).             *)
(*                                                                         *)
(* A storage is a record of its four fields and of the length of its Vec:  *)
(*   inner          the rows, a function on 0 .. cap - 1                   *)
(*   cap            inner.len()                                            *)
(*   zero           slot of the bottommost line                            *)
(*   visible_lines  lines of the screen                                    *)
(*   len            active lines, screen and scrollback                    *)
(*                                                                         *)
(* Slots past `len`, counted from `zero`, are cached rows: they keep       *)
(* whatever was last written to them.  A row is abstracted to its content, *)
(* a member of Rows; Blank is a row without text.                          *)
(***************************************************************************)
EXTENDS Integers, Sequences

CONSTANTS MAX_CACHE_SIZE,  \* cached rows kept outside of the grid
          Text             \* contents of rows that are not blank

ASSUME CacheAssumption == MAX_CACHE_SIZE \in Nat \ {0}

Blank == "blank"

Rows == {Blank} \cup Text

Larger(a, b) == IF a > b THEN a ELSE b

Smaller(a, b) == IF a < b THEN a ELSE b

MkStorage(inner, cap, zero, visible_lines, len) ==
  [inner |-> inner, cap |-> cap, zero |-> zero,
   visible_lines |-> visible_lines, len |-> len]

with_capacity(visible_lines) ==
  MkStorage([i \in 0 .. (visible_lines - 1) |-> Blank], visible_lines, 0,
            visible_lines, visible_lines)

WithRows(s, rows) == MkStorage(rows, s.cap, s.zero, s.visible_lines, s.len)

WithVisibleLines(s, next) == MkStorage(s.inner, s.cap, s.zero, next, s.len)

\* Mutant: no wrap around at the end of the buffer.
compute_index_unwrapped(s, line) == s.zero + (s.visible_lines - line - 1)

(* Slot of a line.  Line 0 is the top of the screen, history is negative.  *)
compute_index(s, line) ==
  LET zeroed == s.zero + (s.visible_lines - line - 1)
  IN  IF zeroed >= s.cap THEN zeroed - s.cap ELSE zeroed

RowAt(s, line) == s.inner[compute_index(s, line)]

SetRow(s, line, row) ==
  WithRows(s, [s.inner EXCEPT ![compute_index(s, line)] = row])

(* Vec::rotate_left by `zero`: every line keeps its content.               *)
rezero(s) ==
  IF s.zero = 0
  THEN s
  ELSE MkStorage([i \in 0 .. (s.cap - 1) |-> s.inner[(i + s.zero) % s.cap]],
                 s.cap, 0, s.visible_lines, s.len)

truncate(s) ==
  LET size == Smaller(s.cap, s.len)
      z    == rezero(s)
  IN  MkStorage([i \in 0 .. (size - 1) |-> z.inner[i]], size, 0,
                s.visible_lines, s.len)

shrink_lines(s, shrinkage) ==
  LET short == MkStorage(s.inner, s.cap, s.zero, s.visible_lines,
                         s.len - shrinkage)
  IN  IF s.cap > short.len + MAX_CACHE_SIZE THEN truncate(short) ELSE short

(* Activates `additional_rows` slots at the old end of the history.  The   *)
(* rows are new only if the buffer had to be reallocated.                  *)
initialize(s, additional_rows) ==
  LET size == s.cap + Larger(additional_rows, MAX_CACHE_SIZE)
      z    == rezero(s)
  IN  IF s.len + additional_rows > s.cap
      THEN MkStorage([i \in 0 .. (size - 1) |->
                        IF i < s.cap THEN z.inner[i] ELSE Blank],
                     size, 0, s.visible_lines, s.len + additional_rows)
      ELSE MkStorage(s.inner, s.cap, s.zero, s.visible_lines,
                     s.len + additional_rows)

grow_visible_lines(s, next) ==
  WithVisibleLines(initialize(s, next - s.visible_lines), next)

shrink_visible_lines(s, next) ==
  WithVisibleLines(shrink_lines(s, s.visible_lines - next), next)

(* `count` may be negative; at most cap rows either way.                   *)
rotate(s, count) ==
  MkStorage(s.inner, s.cap, (s.zero + count + s.cap) % s.cap,
            s.visible_lines, s.len)

rotate_down(s, count) ==
  MkStorage(s.inner, s.cap, (s.zero + count) % s.cap, s.visible_lines, s.len)

-----------------------------------------------------------------------------
(* The loops the grid runs over its storage.                               *)

\* The lines from `first` up to, and without, `end`, in this order.
LineRange(first, end) == [k \in 1 .. (end - first) |-> first + k - 1]

\* (first..end).rev()
LineRangeRev(first, end) == [k \in 1 .. (end - first) |-> end - k]

\* The rows with those of lines a and b exchanged.
Swap(s, rows, a, b) ==
  LET x == compute_index(s, a)
      y == compute_index(s, b)
  IN  [rows EXCEPT ![x] = rows[y], ![y] = rows[x]]

\* for i in lines { swap(i, i + distance) }: the rows after each of the swaps.
SwapSteps(s, lines, distance) ==
  LET after[k \in 0 .. Len(lines)] ==
        IF k = 0 THEN s.inner
                 ELSE Swap(s, after[k - 1], lines[k], lines[k] + distance)
  IN  after

SwappedRows(s, lines, distance) == SwapSteps(s, lines, distance)[Len(lines)]

SwapEach(s, lines, distance) == WithRows(s, SwappedRows(s, lines, distance))

\* for i in first..end { self.raw[i].reset(..) }
ResetLines(s, first, end) ==
  LET slots == {compute_index(s, i) : i \in first .. (end - 1)}
  IN  WithRows(s, [j \in 0 .. (s.cap - 1) |->
                     IF j \in slots THEN Blank ELSE s.inner[j]])
=============================================================================
