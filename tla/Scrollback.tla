----------------------------- MODULE Scrollback -----------------------------
(***************************************************************************)
(* What the grid promises about its rows: a screen, and above it a history *)
(* of at most `limit` rows whose oldest rows are dropped.  Two sequences,  *)
(* oldest row first.                                                       *)
(***************************************************************************)
EXTENDS Integers, Sequences

CONSTANTS Text, MaxLines, HistoryLimits

VARIABLES history, screen, limit, cursor, saved_cursor

svars == <<history, screen, limit, cursor, saved_cursor>>

EmptyRow == "blank"

Smallest(a, b) == IF a < b THEN a ELSE b

Height == Len(screen)

Blanks(n) == [k \in 1 .. n |-> EmptyRow]

First(rows, n) == SubSeq(rows, 1, n)

LastRows(rows, n) == SubSeq(rows, Len(rows) - Smallest(n, Len(rows)) + 1, Len(rows))

\* The rows of the screen from `start` up to, and without, `end`.
Part(start, end) == SubSeq(screen, start + 1, end)

Push(rows) == history' = LastRows(history \o rows, limit)

InitScrollback ==
  /\ history = <<>>
  /\ \E n \in 1 .. MaxLines : screen = Blanks(n)
  /\ limit \in HistoryLimits
  /\ cursor = 0
  /\ saved_cursor = 0

ScrollUp(start, end, p) ==
  /\ screen' = LET n == Smallest(p, end - start)
               IN  Part(0, start) \o Part(start + n, end) \o Blanks(n)
                     \o Part(end, Height)
  /\ IF start = 0 THEN Push(Part(0, p)) ELSE UNCHANGED history
  /\ UNCHANGED <<limit, cursor, saved_cursor>>

ScrollDown(start, end, p) ==
  /\ screen' = Part(0, start) \o Blanks(p) \o Part(start, end - p)
                 \o Part(end, Height)
  /\ UNCHANGED <<history, limit, cursor, saved_cursor>>

SetLimit(n) ==
  /\ history' = LastRows(history, n)
  /\ limit' = n
  /\ UNCHANGED <<screen, cursor, saved_cursor>>

ClearHistory ==
  /\ history' = <<>>
  /\ UNCHANGED <<screen, limit, cursor, saved_cursor>>

Clear(start, end) ==
  /\ screen' = Part(0, start) \o Blanks(end - start) \o Part(end, Height)
  /\ UNCHANGED <<history, limit, cursor, saved_cursor>>

\* Everything down to the last row with text moves into the history; of a screen
\* without text the first row, if the history is empty, and nothing otherwise.
ClearViewport ==
  LET text == {k \in 1 .. Height : screen[k] # EmptyRow}
      n    == IF text # {} THEN CHOOSE k \in text : \A j \in text : j <= k
              ELSE IF history = <<>> THEN 1 ELSE 0
  IN  /\ Push(Part(0, n))
      /\ screen' = Blanks(Height)
      /\ UNCHANGED <<limit, cursor, saved_cursor>>

Reset ==
  /\ history' = <<>>
  /\ screen' = Blanks(Height)
  /\ cursor' = 0
  /\ saved_cursor' = 0
  /\ UNCHANGED limit

\* New lines come from the history, and from below once it is exhausted.
Grow(target) ==
  LET added == target - Height
      pulled == Smallest(added, Len(history))
  IN  /\ added > 0
      /\ screen' = LastRows(history, pulled) \o screen \o Blanks(added - pulled)
      /\ history' = First(history, Len(history) - pulled)
      /\ cursor' = cursor + pulled
      /\ saved_cursor' = saved_cursor + pulled
      /\ UNCHANGED limit

\* Rows leave at the bottom as long as the cursor stays on the screen, then at
\* the top, into the history.
Shrink(target) ==
  LET pushed == IF cursor + 1 > target THEN cursor + 1 - target ELSE 0
  IN  /\ target < Height
      /\ Push(Part(0, pushed))
      /\ screen' = Part(pushed, pushed + target)
      /\ cursor' = cursor - pushed
      /\ saved_cursor' = Smallest(saved_cursor, target - 1)
      /\ UNCHANGED limit

Write(row) ==
  /\ screen' = [screen EXCEPT ![cursor + 1] = row]
  /\ UNCHANGED <<history, limit, cursor, saved_cursor>>

MoveCursors ==
  /\ cursor' \in 0 .. (Height - 1)
  /\ saved_cursor' \in 0 .. (Height - 1)
  /\ UNCHANGED <<history, screen, limit>>

NextScrollback ==
  \/ \E end \in 1 .. Height : \E start \in 0 .. (end - 1), p \in 0 .. end :
       ScrollUp(start, end, p)
  \/ \E end \in 1 .. Height : \E start \in 0 .. (end - 1) :
       \E p \in 0 .. (end - start) : ScrollDown(start, end, p)
  \/ \E n \in HistoryLimits : SetLimit(n)
  \/ ClearHistory
  \/ \E end \in 1 .. Height : \E start \in 0 .. end : Clear(start, end)
  \/ ClearViewport
  \/ Reset
  \/ \E target \in 1 .. MaxLines : Grow(target) \/ Shrink(target)
  \/ \E row \in {EmptyRow} \cup Text : Write(row)
  \/ MoveCursors

Spec == InitScrollback /\ [][NextScrollback]_svars
=============================================================================
