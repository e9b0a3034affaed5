------------------------------- MODULE Search -------------------------------
(***************************************************************************)
(* Searching the scrollback, with and without vi mode (ActionContext in    *)
(* event.rs, the actions of input/mod.rs and the keys of keyboard.rs): the *)
(* search bar, the regex and its history, the focused match, the search    *)
(* that is limited while the user types and completed by a timer, the      *)
(* restoration of the display, inline search and the input method.         *)
(*                                                                         *)
(* The terminal is one column wide, so a match is a line.  A line of text  *)
(* keeps its number (RowAt) while it scrolls; Text gives the characters in *)
(* it, and a regex matches if it has them all.  The state is one record,   *)
(* `ui`; the operators map one to another so that handlers call each other *)
(* as they do in the code.                                                 *)
(***************************************************************************)
EXTENDS GridSize, Sequences

CONSTANTS Rows,          \* lines of the window, search bar included
          Limits,        \* sizes of the scrollback
          MaxRows,       \* bound on the lines of text ever produced
          Text,          \* line of text -> set of characters
          Chars,         \* printable characters; "(" makes no regex
          MaxRegex,      \* bound on the length of a regex
          MaxDelta,      \* bound on the scrolling remembered outside vi mode
          Loads,         \* sets of kinds of input, one of which a run is given
          MAX_SEARCH_HISTORY_SIZE,
          MAX_SEARCH_WHILE_TYPING

VARIABLES ui,
          load           \* the inputs of this run; never changes

None == <<>>
Some(x) == <<x>>
Get(option) == option[1]

opposite(direction) == IF direction = "Right" THEN "Left" ELSE "Right"

\* Line of text at a line of the grid.
RowAt(u, line) == u.dropped + u.grid.history + line

total_lines(u) == u.grid.lines + u.grid.history

\* The grid after `lines` lines of output.
Filled(limit, lines) ==
  LET history == Least(limit, Greatest(lines - (Rows - 1), 0))
  IN  [NewGrid(Rows, limit) EXCEPT !.history = history, !.cursor = Least(lines, Rows - 1)]

\* A window that has not been searched.
Unsearched(limit, lines) ==
  [grid |-> Filled(limit, lines), dropped |-> Greatest(lines - (Rows - 1) - limit, 0),
   vi |-> FALSE, vi_cursor |-> 0, direction |-> "Right", history_index |-> None,
   history |-> <<>>, delta |-> 0, origin |-> 0, focused_match |-> None, dfas |-> None,
   char_pending |-> FALSE, ime |-> FALSE, hint |-> FALSE, timer |-> FALSE, late |-> FALSE,
   update |-> FALSE, before |-> None, restored |-> None, hinted |-> FALSE]

SearchInit ==
  /\ load \in Loads
  /\ \E limit \in Limits, lines \in 0 .. (MaxRows - 1) : ui = Unsearched(limit, lines)

search_active(u) == u.history_index # None

regex(u) == u.history[Get(u.history_index) + 1]

\* A regex that compiles: every "(" is unmatched here.
Valid(r) == \A i \in DOMAIN r : r[i] # "("

Matches(u, r, line) ==
  RowAt(u, line) \in DOMAIN Text /\ \A i \in DOMAIN r : r[i] \in Text[RowAt(u, line)]

-----------------------------------------------------------------------------
(* The terminal (see Term).                                                *)

grid_clamp(g, line) == Least(bottommost_line(g), Greatest(topmost_line(g), line))

\* Boundary::None: the grid is a ring of lines.
wrapped(g, line) == topmost_line(g) + ((line - topmost_line(g)) % (g.lines + g.history))

Viewport(g, line) == Greatest(-g.offset, Least(bottommost_line(g) - g.offset, line))

\* Term::scroll_display; g is the grid after Grid::scroll_display.
scroll_display(u, g) == [u EXCEPT !.grid = g, !.vi_cursor = Viewport(g, @)]

scroll_to_point(u, line) ==
  LET g == u.grid
  IN  CASE line < -g.offset          -> scroll_display(u, Displayed(g, -(line + g.offset)))
        [] line >= g.lines - g.offset ->
             scroll_display(u, Displayed(g, -(line + g.offset - g.lines + 1)))
        [] OTHER                     -> u

vi_goto_point(u, line) == [scroll_to_point(u, line) EXCEPT !.vi_cursor = line]

\* The first match from the origin, around the ring; `limit` lines beyond it are
\* searched if they are fewer than the others.
search_next(u, r, origin, direction, limit) ==
  LET total == total_lines(u)
      last  == IF limit # None /\ Get(limit) + 1 < total THEN Get(limit) ELSE total - 1
      at(k) == wrapped(u.grid, IF direction = "Right" THEN origin + k ELSE origin - k)
      found == {k \in 0 .. last : Matches(u, r, at(k))}
  IN  IF found = {} THEN None
      ELSE Some(at(CHOOSE k \in found : \A j \in found : k <= j))

\* The line of text the cursor is on keeps its number.
Lost(g, h) == (g.history + g.cursor) - (h.history + h.cursor)

\* Term::resize, when the search bar has come or gone.  The saved cursor is not used.
resize(u) ==
  LET num_lines == Greatest(IF search_active(u) THEN Rows - 1 ELSE Rows, 1)
      g         == u.grid
      least     == Least(0, num_lines - g.cursor - 1)
      moved     == Least(Greatest(num_lines - g.lines, least), g.history)
      h         == Resized(g, num_lines)
  IN  IF num_lines = g.lines THEN u
      ELSE [u EXCEPT !.grid = [h EXCEPT !.saved = 0], !.dropped = @ + Lost(g, h),
                     !.vi_cursor = Viewport(h, @ + moved)]

-----------------------------------------------------------------------------
(* Search.                                                                 *)

\* Mutant: the display and the cursor are left where the search took them.
search_reset_state_kept(u) == [u EXCEPT !.timer = FALSE, !.focused_match = None]

search_reset_state(u) ==
  LET v == [u EXCEPT !.timer = FALSE, !.focused_match = None]
  IN  IF ~u.vi THEN v
      ELSE [scroll_display([v EXCEPT !.vi_cursor = v.origin], Displayed(v.grid, v.delta))
              EXCEPT !.delta = 0]


goto_match(u, max) ==
  IF u.dfas = None
  THEN u
  ELSE LET limit == IF max # None /\ Get(max) <= total_lines(u) THEN max ELSE None
           found == search_next(u, Get(u.dfas), grid_clamp(u.grid, u.origin),
                                u.direction, limit)
       IN  IF found # None
           THEN LET line == Get(found)
                    v    == IF u.vi THEN vi_goto_point(u, line) ELSE scroll_to_point(u, line)
                IN  [v EXCEPT !.focused_match = found, !.timer = FALSE,
                              !.delta = @ + u.grid.offset - v.grid.offset]
           ELSE IF limit = None
                THEN search_reset_state(u)
                ELSE [u EXCEPT !.timer = TRUE, !.focused_match = None]

\* An invalid regex leaves the focused match and the timer of the last one.
update_search(u) ==
  IF regex(u) = <<>>
  THEN [search_reset_state(u) EXCEPT !.dfas = None]
  ELSE goto_match([u EXCEPT !.dfas = IF Valid(regex(u)) THEN Some(regex(u)) ELSE None],
                  Some(MAX_SEARCH_WHILE_TYPING))

exit_search(u) ==
  [u EXCEPT !.ime = u.vi, !.update = TRUE, !.history_index = None, !.focused_match = None]

\* The search bar will move text up if the cursor is on the last line.  `before` is
\* the line of text to come back to, if it stays on display.
start_search(u, direction) ==
  LET history == IF u.history = <<>> \/ u.history[1] # <<>>
                 THEN SubSeq(<<<<>>>> \o u.history, 1,
                             Least(Len(u.history) + 1, MAX_SEARCH_HISTORY_SIZE))
                 ELSE u.history
      g       == u.grid
      up      == IF g.cursor + 1 = g.lines THEN 1 ELSE 0
      visible == u.vi_cursor - up = Viewport(Resized(g, Rows - 1), u.vi_cursor - up)
  IN  [u EXCEPT !.history = history, !.history_index = Some(0),
                !.direction = direction, !.focused_match = None,
                !.origin = IF u.vi THEN u.vi_cursor - up
                           ELSE IF direction = "Right" THEN -g.offset - 1
                           ELSE -g.offset - 1 + bottommost_line(g),
                !.delta = IF u.vi THEN 0 ELSE @,
                !.ime = FALSE, !.update = TRUE,
                !.before = IF u.vi /\ visible /\ g.lines = Rows /\ ~u.update
                           THEN Some(RowAt(u, u.vi_cursor)) ELSE None,
                !.restored = None]

\* Outside vi mode the focused match becomes the selection.
cancel_search(u) ==
  LET v == IF u.vi THEN search_reset_state(u) ELSE u
  IN  [exit_search([v EXCEPT !.dfas = None])
         EXCEPT !.restored = IF u.vi /\ u.grid.lines < Rows THEN u.before ELSE None,
                !.before = None]

\* An interrupted search is completed first.
confirm_search(u) ==
  IF ~u.vi THEN cancel_search(u)
  ELSE [exit_search(IF u.timer THEN goto_match(u, None) ELSE u) EXCEPT !.before = None]

\* A character, or a backspace; from the history it is copied to the front first.
search_input(u, c) ==
  LET entry == regex(u)
      text  == IF c = "Backspace" THEN SubSeq(entry, 1, Greatest(Len(entry) - 1, 0))
               ELSE Append(entry, c)
  IN  update_search([u EXCEPT !.history[1] = text, !.history_index = Some(0)])

\* The regex is one word.
search_pop_word(u) ==
  update_search([u EXCEPT !.history[Get(u.history_index) + 1] = <<>>])

search_history_previous(u) ==
  IF Get(u.history_index) + 1 >= Len(u.history) THEN u
  ELSE update_search([u EXCEPT !.history_index = Some(Get(@) + 1)])

search_history_next(u) ==
  IF Get(u.history_index) = 0 THEN u
  ELSE update_search([u EXCEPT !.history_index = Some(Get(@) - 1)])

\* The line behind a match, in a direction.
Beyond(u, line, direction) ==
  wrapped(u.grid, IF direction = "Right" THEN line + 1 ELSE line - 1)

advance_search_origin(u, direction) ==
  LET from(line) == [scroll_to_point(u, line) EXCEPT !.delta = 0, !.origin = line,
                                                     !.before = None]
      v          == IF u.focused_match = None THEN u
                    ELSE from(Beyond(u, Get(u.focused_match), direction))
      w          == [goto_match([v EXCEPT !.direction = direction], None)
                       EXCEPT !.direction = u.direction]
  IN  IF w.focused_match = None THEN w
      ELSE LET origin == Get(w.focused_match)
               x      == scroll_to_point(w, origin)
               delta  == x.grid.offset - w.grid.offset
           IN  [scroll_display(x, Displayed(x.grid, -delta))
                  EXCEPT !.delta = delta, !.origin = origin]

\* ViAction::SearchNext and SearchPrevious, with the regex last confirmed.
JumpFrom(u, direction) ==
  LET found == search_next(u, Get(u.dfas), Beyond(u, u.vi_cursor, direction),
                           direction, None)
  IN  IF u.dfas = None \/ found = None THEN u ELSE vi_goto_point(u, Get(found))

\* The word under the vi cursor, if there is one, is "a".
start_seeded_search(u, direction) ==
  LET v     == confirm_search(search_input(start_search(u, direction), "a"))
      found == IF v.dfas = None THEN None
               ELSE search_next(v, Get(v.dfas), u.vi_cursor, "Right", None)
      next  == search_next(v, Get(v.dfas), Beyond(v, Get(found), direction), direction, None)
  IN  IF found = None THEN v ELSE vi_goto_point(v, Get(next))

-----------------------------------------------------------------------------
(* Vi mode and the input method.                                           *)

\* Term::toggle_vi_mode.
ToggledVi(u) ==
  [u EXCEPT !.vi = ~@,
            !.vi_cursor = IF u.vi THEN @
                          ELSE IF u.grid.cursor > bottommost_line(u.grid) - u.grid.offset
                               THEN -u.grid.offset ELSE u.grid.cursor]

toggle_vi_mode(u) ==
  LET v == IF u.vi THEN [u EXCEPT !.dfas = None] ELSE u
      w == IF search_active(v) THEN cancel_search(v) ELSE v
  IN  [ToggledVi(w) EXCEPT !.ime = ~u.vi, !.hinted = FALSE, !.restored = None]

start_inline_search(u) == [u EXCEPT !.char_pending = TRUE]

\* A line ends after one column: no other occurrence of the character is found.
inline_search_input(u) == [u EXCEPT !.char_pending = FALSE, !.ime = TRUE]

\* HintInternalAction::MoveViModeCursor.
trigger_hint(u, line) ==
  LET v == IF u.vi THEN u ELSE [ToggledVi(u) EXCEPT !.hinted = TRUE]
  IN  [vi_goto_point(v, line) EXCEPT !.before = None, !.restored = None]

\* ActionContext::scroll, as far as the search goes.
scroll(u, g) ==
  LET v == scroll_display(u, g)
  IN  [v EXCEPT !.delta = IF search_active(u) THEN @ + u.grid.offset - g.offset ELSE @,
                !.restored = None]

-----------------------------------------------------------------------------
(* Events.                                                                 *)

\* Keys the bindings see.
Free == ~ui.hint /\ ~ui.char_pending

Moved(u) == [u EXCEPT !.restored = None]

StartSearch ==
  /\ Free /\ ~search_active(ui)
  /\ ui.vi \/ ui.delta \in -MaxDelta .. MaxDelta
  /\ \E direction \in {"Left", "Right"} : ui' = start_search(ui, direction)

SearchKeys ==
  /\ Free /\ search_active(ui)
  /\ \E c \in Chars \cap load : Len(regex(ui)) < MaxRegex /\ ui' = search_input(ui, c)

EditKeys ==
  /\ "edit" \in load
  /\ Free /\ search_active(ui)
  /\ \/ ui' = search_input(ui, "Backspace")
     \/ ui' = search_pop_word(ui)
     \/ ui' = search_history_previous(ui)
     \/ ui' = search_history_next(ui)

\* SearchConfirm, SearchCancel and SearchClear.
LeaveSearch ==
  /\ Free /\ search_active(ui)
  /\ \/ ui.vi /\ ui' = confirm_search(ui)
     \/ ui' = cancel_search(ui)
     \/ "edit" \in load /\ ui' = start_search(cancel_search(ui), ui.direction)

\* SearchFocusNext and SearchFocusPrevious.
FocusSearch ==
  /\ "focus" \in load
  /\ Free /\ search_active(ui) /\ ~ui.vi
  /\ \E direction \in {"Left", "Right"} : ui' = advance_search_origin(ui, direction)

ViMove ==
  /\ "move" \in load
  /\ Free /\ ui.vi /\ ~search_active(ui)
  /\ \E line \in {ui.vi_cursor - 1, ui.vi_cursor + 1} :
       /\ line \in topmost_line(ui.grid) .. bottommost_line(ui.grid)
       /\ ui' = Moved(vi_goto_point(ui, line))

ViSearch ==
  /\ "jump" \in load
  /\ Free /\ ui.vi /\ ~search_active(ui)
  /\ \E direction \in {"Left", "Right"} :
       \/ ui' = Moved(JumpFrom(ui, direction))
       \/ /\ Matches(ui, <<"a">>, ui.vi_cursor)
          /\ ui' = Moved(start_seeded_search(ui, direction))

ToggleViMode ==
  "vi" \in load /\ Free /\ ~search_active(ui) /\ ui' = toggle_vi_mode(ui)

\* Any other key, outside vi mode, goes to the application: on_terminal_input_start
\* returns to the bottom of the scrollback.
TerminalKey ==
  /\ Free /\ ~search_active(ui) /\ ~ui.vi
  /\ ui.grid.offset # 0
  /\ ui' = scroll(ui, [ui.grid EXCEPT !.offset = 0])

\* An inline search, the next key, and the release of a key in between.
InlineKeys ==
  /\ "inline" \in load
  /\ ~ui.hint
  /\ \/ ~ui.char_pending /\ ui.vi /\ ~search_active(ui) /\ ui' = start_inline_search(ui)
     \/ ui.char_pending /\ ui' = inline_search_input(ui)
     \/ ui.char_pending /\ ui.ime /\ ui' = [ui EXCEPT !.ime = FALSE]

\* Hints can be started in every mode, and take all keys until one is picked.
Hints ==
  /\ "hint" \in load
  /\ \/ Free /\ ui' = [ui EXCEPT !.hint = TRUE]
     \/ ui.hint /\ ui' = [ui EXCEPT !.hint = FALSE]
     \/ /\ ui.hint
        /\ \E line \in -ui.grid.offset .. (bottommost_line(ui.grid) - ui.grid.offset) :
             ui' = [trigger_hint(ui, line) EXCEPT !.hint = FALSE]

Wheel ==
  /\ "wheel" \in load
  /\ \E lines \in {-1, 1} : ui' = scroll(ui, Displayed(ui.grid, lines))

\* The timer sends SearchNext, which is handled whatever happened since.
DelayedSearch == ui.timer /\ ~ui.late /\ ui' = [ui EXCEPT !.timer = FALSE, !.late = TRUE]

SearchNext ==
  /\ ui.late
  /\ ui' = Moved(goto_match([ui EXCEPT !.late = FALSE], None))

\* The end of a batch of events.  A display scrolled before the search bar appears
\* is not brought back to the same place.
ApplyUpdate ==
  /\ ui.update
  /\ ui' = [resize(ui) EXCEPT !.update = FALSE,
                              !.before = IF ui.grid.lines < Rows \/ ui.delta = 0 THEN @
                                         ELSE None]

\* The application ends a line.
Output ==
  LET g == ui.grid
      h == ScrolledUp(g, 0, g.lines, 1)
  IN  /\ "output" \in load
      /\ ui.dropped + g.history + g.lines < MaxRows
      /\ ui' = IF g.cursor + 1 < g.lines
               THEN [ui EXCEPT !.grid = CursorAt(g, g.cursor + 1), !.before = None]
               ELSE [ui EXCEPT !.grid = h, !.dropped = @ + 1 - (h.history - g.history),
                               !.vi_cursor = IF -h.offset <= @ THEN Greatest(@ - 1, -h.offset)
                                             ELSE @,
                               !.before = None, !.restored = None]

User == \/ StartSearch \/ SearchKeys \/ EditKeys \/ LeaveSearch \/ FocusSearch
        \/ ViMove \/ ViSearch \/ ToggleViMode \/ TerminalKey \/ InlineKeys \/ Hints
        \/ Wheel

SearchStep == User \/ DelayedSearch \/ SearchNext \/ ApplyUpdate \/ Output


-----------------------------------------------------------------------------
\* Cancelling a search in vi mode brings the cursor back to the line of text it was
\* on, through the search bar's two changes of height, completed or limited
\* searches and manual scrolling (search_reset_state, advance_search_origin).
CancelRestores ==
  ui.restored # None /\ Get(ui.restored) >= ui.dropped
    => RowAt(ui, ui.vi_cursor) = Get(ui.restored)

\* The regex occurs in the scrollback, and no match is focused.
Missed == /\ "output" \notin load
          /\ search_active(ui) /\ ui.dfas = Some(regex(ui)) /\ ui.focused_match = None
          /\ \E line \in topmost_line(ui.grid) .. bottommost_line(ui.grid) :
               Matches(ui, Get(ui.dfas), line)

=============================================================================
