------------------------------ MODULE GridSize ------------------------------
(***************************************************************************)
(* A grid reduced to numbers: what Term reads of a Grid to place the vi    *)
(* mode cursor, the scroll region and the damage.  Grid is shown to take   *)
(* no other steps (Grid!SizesFollow).                                      *)
(***************************************************************************)
EXTENDS Integers

Least(a, b) == IF a < b THEN a ELSE b

Greatest(a, b) == IF a > b THEN a ELSE b

MkGrid(limit, history, offset, lines, cursor, saved) ==
  [limit |-> limit, history |-> history, offset |-> offset, lines |-> lines,
   cursor |-> cursor, saved |-> saved]

NewGrid(lines, limit) == MkGrid(limit, 0, 0, lines, 0, 0)

topmost_line(g) == -g.history

bottommost_line(g) == g.lines - 1

\* Rows enter the history, up to its limit, if the region starts at the top; a
\* display that is scrolled back follows the text.
ScrolledUp(g, start, end, positions) ==
  IF end - start <= positions /\ start # 0
  THEN g
  ELSE [g EXCEPT
          !.history = IF start = 0 THEN Least(@ + positions, g.limit) ELSE @,
          !.offset = IF @ # 0 THEN Least(@ + positions, g.limit) ELSE 0]

\* Scroll::Delta(count); Top and the pages are deltas too.
Displayed(g, count) ==
  [g EXCEPT !.offset = Least(Greatest(@ + count, 0), g.history)]

\* Scroll::PageDown, which does not look at the history.
PagedDown(g) == [g EXCEPT !.offset = Greatest(@ - g.lines, 0)]

WithHistory(g, limit) ==
  [g EXCEPT !.limit = limit, !.history = Least(@, limit),
            !.offset = Least(@, limit)]

WithoutHistory(g) == [g EXCEPT !.history = 0, !.offset = 0]

\* The screen is scrolled by `positions` lines, then cleared.
Cleared(g, positions) == ScrolledUp(g, 0, g.lines, positions)

Blanked(g) == [WithoutHistory(g) EXCEPT !.cursor = 0, !.saved = 0]

\* Lines are pulled from the history, then added at the bottom.  What scrolling
\* them in adds to the history, decrease_scroll_limit takes away again.
Taller(g, target) ==
  LET added  == target - g.lines
      pulled == Least(g.history, added)
  IN  MkGrid(g.limit, g.history - pulled,
             Least(Greatest(g.offset - added, 0), g.history - pulled),
             target, g.cursor + pulled, g.saved + pulled)

Shorter(g, target) ==
  LET required == Greatest(g.cursor + 1 - target, 0)
      up       == IF required > 0 THEN ScrolledUp(g, 0, g.lines, required) ELSE g
  IN  [up EXCEPT !.lines = target,
                 !.cursor = Least(@, target - 1),
                 !.saved = Least(@, target - 1)]

Resized(g, target) ==
  CASE g.lines < target -> Taller(g, target)
    [] g.lines > target -> Shorter(g, target)
    [] OTHER            -> g

CursorAt(g, line) == [g EXCEPT !.cursor = line]

\* Every step of a grid, from g to h.
GridStep(g, h, heights, limits) ==
  \/ \E end \in 1 .. g.lines : \E start \in 0 .. (end - 1), p \in 0 .. end :
       h = ScrolledUp(g, start, end, p)
  \/ \E count \in {-1, 1, g.lines, g.history} : h = Displayed(g, count)
  \/ h = PagedDown(g)
  \/ h = [g EXCEPT !.offset = 0]
  \/ \E limit \in limits : h = WithHistory(g, limit)
  \/ h = WithoutHistory(g)
  \/ \E p \in 0 .. g.lines : h = Cleared(g, p)
  \/ h = Blanked(g)
  \/ \E target \in heights : h = Resized(g, target)
  \/ \E line \in 0 .. (g.lines - 1) : h = CursorAt(g, line)
  \/ h = [g EXCEPT !.saved = g.cursor]
  \/ h = [g EXCEPT !.cursor = g.saved]
=============================================================================
