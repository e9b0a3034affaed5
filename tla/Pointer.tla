------------------------------ MODULE Pointer ------------------------------
(***************************************************************************)
(* The mouse and the touch screen (Processor in input/mod.rs and the parts *)
(* of ActionContext it calls): clicks and drags, the selection they make,  *)
(* automatic scrolling, hints launched by a click, mouse reporting and the *)
(* gestures that simulate the left button.                                 *)
(*                                                                         *)
(* A place is a line of the window, -1 above the text and Lines below it   *)
(* (where a message is), and a half of a column.  What is sent to the      *)
(* application is left out.  The state is one record, `mouse`; operators   *)
(* map one to another so that handlers call each other as in the code.     *)
(***************************************************************************)
EXTENDS Selection

CONSTANTS Lines, Columns,
          History,       \* lines of the scrollback
          Finger,
          TouchPlaces,   \* bound on the places that are touched
          MaxMessages,   \* bound on the messages in the bar
          PointerLoads   \* sets of kinds of input, one of which a run is given

VARIABLES mouse,
          load           \* the inputs of this run; never changes

Places == [line : -1 .. Lines, x : 0 .. (2 * Columns - 1)]
Home == [line |-> 0, x |-> 0]

Button == {"Left", "Middle", "Right"}
ClickState == {"None", "Click", "DoubleClick", "TripleClick"}

\* A window that nothing has been done in.
Window(links, messages, focused) ==
  [offset |-> 0, reporting |-> FALSE, vi |-> FALSE, vi_cursor |-> 0, focused |-> focused,
   alternate |-> FALSE, mods |-> {}, place |-> Home, inside |-> FALSE, side |-> "Left",
   buttons |-> {}, click |-> "None", last_button |-> "Left", block |-> FALSE,
   hint_dirty |-> FALSE, links |-> links, highlighted |-> None, selection |-> None,
   timer |-> None, accumulated |-> 0, messages |-> messages,
   purpose |-> [kind |-> "None", touches |-> <<>>], inhibited |-> FALSE,
   fingers |-> [f \in Finger |-> None], held |-> {}, stuck |-> FALSE, handed |-> FALSE,
   press |-> Home, unblocked |-> FALSE, launch |-> None, dragging |-> FALSE]

\* A window is first touched without the focus.
PointerInit ==
  /\ load \in PointerLoads
  /\ \E links \in SUBSET (0 .. (Lines - 1)), messages \in 0 .. MaxMessages :
       /\ "hints" \notin load => links = {}
       /\ "message" \notin load => messages = 0
       /\ mouse = Window(links, messages, "touch" \notin load)

PointerIdle == mouse = Window({}, 0, TRUE)

-----------------------------------------------------------------------------
(* Geometry.                                                               *)

\* Places outside the text count as the closest cell.
Inside(place) == [place EXCEPT !.line = Greatest(0, Least(Lines - 1, @))]

\* Mouse::point.
MousePoint(m) == (Inside(m.place).line - m.offset) * Columns + m.place.x \div 2

cell_side(x) == IF x % 2 = 1 THEN "Right" ELSE "Left"

contains_point(place) == place.line \in 0 .. (Lines - 1)

shift(m) == "SHIFT" \in m.mods
control(m) == "CONTROL" \in m.mods

mouse_mode(m) == m.reporting /\ ~m.vi

\* The close button of the message is in the last column, below the text.
message_bar_cursor_state(m) ==
  IF m.messages = 0 \/ m.place.line < Lines THEN None
  ELSE Some(IF m.place.x \div 2 = Columns - 1 THEN "Pointer" ELSE "Default")

-----------------------------------------------------------------------------
(* Selection and scrolling.                                                *)

Empty(m) == m.selection = None \/ selection_is_empty(Get(m.selection), Columns)

clear_selection(m) ==
  [m EXCEPT !.selection = None, !.dragging = FALSE, !.hint_dirty = @ \/ ~Empty(m)]

update_selection(m, point, side) ==
  IF m.selection = None THEN m
  ELSE LET s == Updated(Get(m.selection), point, side)
       IN  [m EXCEPT !.selection = Some(IF m.vi THEN include_all(s, Columns) ELSE s),
                     !.vi_cursor = IF m.vi THEN point ELSE @, !.hint_dirty = TRUE]

start_selection(m, ty, point, side) ==
  [m EXCEPT !.selection = Some(NewSelection(ty, point, side)), !.dragging = ~m.vi,
            !.hint_dirty = TRUE]

\* MouseAction::ExpandSelection.
expand_selection(m) ==
  LET ty == CASE m.click = "None" -> "None"
              [] m.click # "None" /\ control(m) -> "Block"
              [] m.click = "Click" /\ ~control(m) -> "Simple"
              [] m.click = "DoubleClick" /\ ~control(m) -> "Semantic"
              [] OTHER -> "Lines"
      n  == update_selection([m EXCEPT !.selection = Some([Get(@) EXCEPT !.ty = ty])],
                             MousePoint(m), m.side)
  IN  IF ty = "None" \/ m.selection = None THEN m
      ELSE [n EXCEPT !.vi_cursor = IF m.vi THEN MousePoint(m) ELSE @]

\* The line of the vi cursor is kept in the viewport.
scroll(m, lines) ==
  LET offset == Greatest(0, Least(History, m.offset + lines))
      line   == Greatest(-offset, Least(Lines - 1 - offset, m.vi_cursor \div Columns))
      n      == [m EXCEPT !.offset = offset,
                          !.vi_cursor = IF m.vi THEN line * Columns + (@ % Columns) ELSE @,
                          !.hint_dirty = @ \/ offset # m.offset]
  IN  IF n.vi /\ ~Empty(n) THEN update_selection(n, n.vi_cursor, "Right")
      ELSE IF n.buttons \cap {"Left", "Right"} # {}
      THEN update_selection(n, MousePoint(n), n.side)
      ELSE n

\* Input for the application: back to the bottom, without selection.
on_terminal_input_start(m) ==
  LET n == clear_selection(m) IN IF n.offset = 0 THEN n ELSE scroll(n, -n.offset)

\* Above and below the text a timer scrolls towards it.
update_selection_scrolling(m, line) ==
  [m EXCEPT !.timer = IF line < 0 THEN Some(1) ELSE IF line >= Lines THEN Some(-1) ELSE None]

-----------------------------------------------------------------------------
(* The mouse.                                                              *)

mouse_moved(m, place) ==
  LET pressed == m.buttons \cap {"Left", "Right"} # {}
      n       == IF ~Empty(m) /\ pressed THEN update_selection_scrolling(m, place.line) ELSE m
      moved   == [n EXCEPT !.place = place]
      changed == [moved EXCEPT !.inside = contains_point(place), !.side = cell_side(place.x),
                               !.hint_dirty = TRUE, !.block = TRUE]
  IN  IF /\ MousePoint(moved) = MousePoint(m)
         /\ m.side = cell_side(place.x) /\ m.inside = contains_point(place)
      THEN moved
      ELSE IF pressed /\ (shift(m) \/ ~mouse_mode(m))
      THEN update_selection(changed, MousePoint(moved), cell_side(place.x))
      ELSE [changed EXCEPT !.dragging = FALSE]

on_left_click(m) ==
  LET point == MousePoint(m)
      n     == CASE m.click = "Click" ->
                      start_selection([clear_selection(m) EXCEPT !.block = ~Empty(m)],
                                      IF control(m) THEN "Block" ELSE "Simple", point, m.side)
                 [] m.click = "DoubleClick" /\ ~control(m) ->
                      start_selection([m EXCEPT !.block = TRUE], "Semantic", point, m.side)
                 [] m.click = "TripleClick" /\ ~control(m) ->
                      start_selection([m EXCEPT !.block = TRUE], "Lines", point, m.side)
                 [] OTHER -> [m EXCEPT !.dragging = FALSE]
  IN  [n EXCEPT !.vi_cursor = IF m.vi THEN point ELSE @]

\* `quick` is a click within CLICK_THRESHOLD of the last.
on_mouse_press(m, button, quick) ==
  LET click == CASE button # m.last_button -> "Click"
                 [] button = m.last_button /\ m.click = "Click" /\ quick -> "DoubleClick"
                 [] button = m.last_button /\ m.click = "DoubleClick" /\ quick -> "TripleClick"
                 [] OTHER -> "Click"
      n     == [m EXCEPT !.click = click, !.last_button = button]
  IN  IF ~shift(m) /\ mouse_mode(m) THEN [m EXCEPT !.click = "None", !.dragging = FALSE]
      ELSE IF button = "Left" THEN on_left_click(n) ELSE n

\* The text is read again: a hint whose text has gone is not launched.
trigger_hint(m, line) ==
  IF m.block \/ line \notin m.links THEN m
  ELSE [m EXCEPT !.launch = Some([valid |-> line \in m.links,
                               unmoved |-> Inside(m.place) = Inside(m.press)])]

on_mouse_release(m, button) ==
  IF ~shift(m) /\ mouse_mode(m) THEN [m EXCEPT !.handed = TRUE]
  ELSE [(IF m.highlighted # None /\ button = "Left"
         THEN trigger_hint(m, Get(m.highlighted)) ELSE m)
          EXCEPT !.timer = None, !.handed = FALSE]

\* The default bindings: the right button expands the selection, the middle one
\* pastes.  In mouse mode they need shift.
process_mouse_bindings(m, button) ==
  LET bound == mouse_mode(m) = shift(m)
  IN  CASE button = "Right" /\ bound -> expand_selection(m)
        [] button = "Middle" /\ bound /\ ~m.vi /\ ~control(m) -> on_terminal_input_start(m)
        [] OTHER -> m

mouse_input(m, pressed, button, quick) ==
  LET n == [m EXCEPT !.buttons = IF pressed THEN @ \cup {button} ELSE @ \ {button},
                     !.stuck = IF button = "Left" THEN FALSE ELSE @,
                     !.dragging = @ /\ (pressed \/ button # "Left"),
                     !.press = IF pressed /\ button = "Left" THEN m.place ELSE @,
                     !.unblocked = IF pressed /\ button = "Left" THEN FALSE ELSE @]
  IN  IF message_bar_cursor_state(m) = Some("Pointer") /\ pressed
      THEN [clear_selection(n) EXCEPT !.messages = @ - 1]
      ELSE IF pressed THEN process_mouse_bindings(on_mouse_press(n, button, quick), button)
      ELSE [on_mouse_release(n, button)
              EXCEPT !.press = IF button = "Left" THEN Home ELSE @]

\* The wheel or a finger, in half lines.  The part that is not a line is kept.
scroll_terminal(m, halves) ==
  LET sum   == m.accumulated + halves
      size  == (IF sum < 0 THEN -sum ELSE sum) \div 2
      lines == IF halves > 0 THEN size ELSE -size
      n     == IF mouse_mode(m) \/ (m.alternate /\ ~shift(m)) \/ lines = 0 THEN m
               ELSE scroll(m, lines)
  IN  [n EXCEPT !.accumulated = sum - 2 * lines]

-----------------------------------------------------------------------------
(* The touch screen.  Every move is longer than MAX_TAP_DISTANCE.          *)

Purpose(kind, touches) == [kind |-> kind, touches |-> touches]
Touch(f, place) == [id |-> f, place |-> place]
Ids(purpose) == {purpose.touches[i].id : i \in DOMAIN purpose.touches}


\* The finger that makes a gesture invalid is not added to its slots, unless it is
\* invalid already; the left button stays pressed.
on_touch_start(m, f, place) ==
  LET old   == m.purpose
      touch == Touch(f, place)
      new   == CASE old.kind = "None" -> Purpose("Tap", <<touch>>)
                 [] old.kind \in {"Tap", "ZoomPendingSlot"} ->
                      Purpose("Zoom", <<old.touches[1], touch>>)
                 [] old.kind \in {"Zoom", "Scroll", "Select"} -> Purpose("Invalid", old.touches)
                 [] old.kind = "Invalid" -> Purpose("Invalid", Append(old.touches, touch))
  IN  [m EXCEPT !.purpose = new, !.inhibited = @ \/ ~m.focused,
                !.stuck = @ \/ old.kind = "Select"]

\* A finger that zooms replaces the second touch unless it is the first.
on_touch_motion(m, f, place) ==
  LET old   == m.purpose
      start == old.touches[1].place
      touch == Touch(f, place)
  IN  CASE old.kind = "Tap" /\ place.x # start.x ->
             mouse_moved(mouse_input(mouse_moved([m EXCEPT !.purpose.kind = "Select"], start),
                                     TRUE, "Left", FALSE), place)
        [] old.kind = "Tap" /\ place.x = start.x /\ place.line # start.line ->
             scroll_terminal([m EXCEPT !.purpose = Purpose("Scroll", <<touch>>)],
                             2 * (place.line - start.line))
        [] old.kind = "Zoom" ->
             [m EXCEPT !.purpose.touches[IF f = old.touches[1].id THEN 1 ELSE 2] = touch]
        [] old.kind = "Scroll" ->
             scroll_terminal([m EXCEPT !.purpose.touches = <<touch>>],
                             2 * (place.line - start.line))
        [] old.kind = "Select" -> mouse_moved(m, place)
        [] OTHER -> m

on_touch_end(m, f, place) ==
  LET n    == on_touch_motion(m, f, place)
      old  == n.purpose
      idle == [n EXCEPT !.purpose = Purpose("None", <<>>)]
      slot == IF old.touches[1].id = f THEN old.touches[2] ELSE old.touches[1]
      others == SelectSeq(old.touches, LAMBDA touch : touch.id # f)
  IN  CASE old.kind = "Tap" ->
             [mouse_input(mouse_input(mouse_moved(idle, old.touches[1].place),
                                      TRUE, "Left", FALSE), FALSE, "Left", FALSE)
                EXCEPT !.inhibited = FALSE]
        [] old.kind = "Zoom" -> [n EXCEPT !.purpose = Purpose("ZoomPendingSlot", <<slot>>)]
        [] old.kind = "Invalid" ->
             IF others = <<>> THEN idle ELSE [n EXCEPT !.purpose.touches = others]
        [] old.kind = "Select" -> mouse_input(idle, FALSE, "Left", FALSE)
        [] OTHER -> idle

-----------------------------------------------------------------------------
(* Events.                                                                 *)

\* Every event starts with the last launch forgotten.
Now == [mouse EXCEPT !.launch = None]

CursorMoved == "mouse" \in load /\ \E place \in Places : mouse' = mouse_moved(Now, place)

MouseInput ==
  /\ "mouse" \in load
  /\ \E button \in Button, quick \in BOOLEAN :
       \/ /\ button \notin mouse.held
          /\ button = "Middle" => "middle" \in load
          /\ button = "Right" => "right" \in load
          /\ quick => "multi" \in load
          /\ mouse' = [mouse_input(Now, TRUE, button, quick) EXCEPT !.held = @ \cup {button}]
       \/ /\ button \in mouse.held /\ ~quick
          /\ mouse' = [mouse_input(Now, FALSE, button, quick) EXCEPT !.held = @ \ {button}]

MouseWheel ==
  "wheel" \in load /\ \E halves \in {-2, -1, 1, 2} : mouse' = scroll_terminal(Now, halves)

CursorLeft ==
  /\ "mouse" \in load /\ mouse.inside
  /\ mouse' = [Now EXCEPT !.inside = FALSE, !.hint_dirty = @ \/ mouse.highlighted # None]

\* The timer of update_selection_scrolling.
SelectionScrolling == mouse.timer # None /\ mouse' = scroll(Now, Get(mouse.timer))

ModifiersChanged ==
  /\ "mods" \in load
  /\ \E mods \in SUBSET {"SHIFT", "CONTROL"} :
       mods # mouse.mods /\ mouse' = [Now EXCEPT !.mods = mods, !.hint_dirty = TRUE]

\* The application asks for mouse reports, or stops; it changes the screen.
Application ==
  \/ "report" \in load /\ mouse' = [Now EXCEPT !.reporting = ~@, !.dragging = FALSE]
  \/ "alternate" \in load /\ mouse' = [Now EXCEPT !.alternate = ~@]

\* The end of a batch of events: the hint below the pointer (update_highlighted_hints).
HintsUpdated(m) ==
  LET line == MousePoint(m) \div Columns
  IN  [m EXCEPT !.hint_dirty = FALSE,
                !.highlighted = IF m.inside /\ Empty(m) /\ line \in m.links
                                   /\ (m.reporting => shift(m))
                                THEN Some(line) ELSE None]

UpdateHints == mouse.hint_dirty /\ mouse' = HintsUpdated(Now)

\* Text is printed between two batches; the window hears of it later.
TextPrinted ==
  /\ "hints" \in load /\ ~mouse.hint_dirty
  /\ \E line \in 0 .. (Lines - 1) :
       mouse' = [Now EXCEPT !.links = IF line \in @ THEN @ \ {line} ELSE @ \cup {line}]

Wakeup == "hints" \in load /\ ~mouse.hint_dirty /\ mouse' = [Now EXCEPT !.hint_dirty = TRUE]

\* A hint picked with its label (hint_input) unblocks the mouse.
HintKey ==
  /\ "label" \in load
  /\ \E line \in mouse.links :
       mouse' = [trigger_hint([Now EXCEPT !.block = FALSE, !.unblocked = TRUE], line)
                   EXCEPT !.launch = None]

TypeText == "keys" \in load /\ mouse' = on_terminal_input_start(Now)

ToggleVi ==
  /\ "vi" \in load
  /\ mouse' = [Now EXCEPT !.vi = ~@, !.dragging = FALSE,
                          !.vi_cursor = IF mouse.vi THEN @ ELSE -mouse.offset * Columns]

TouchStarted(f) ==
  /\ mouse.fingers[f] = None
  /\ \E place \in TouchPlaces :
       mouse' = [on_touch_start(Now, f, place) EXCEPT !.fingers[f] = Some(place)]

TouchMoved(f) ==
  /\ mouse.fingers[f] # None
  /\ \E place \in TouchPlaces :
       /\ place # Get(mouse.fingers[f])
       /\ mouse' = [on_touch_motion(Now, f, place) EXCEPT !.fingers[f] = Some(place)]

TouchEnded(f) ==
  /\ mouse.fingers[f] # None
  /\ mouse' = [on_touch_end(Now, f, Get(mouse.fingers[f])) EXCEPT !.fingers[f] = None]

touch == "touch" \in load /\ \E f \in Finger : TouchStarted(f) \/ TouchMoved(f) \/ TouchEnded(f)

PointerStep ==
  \/ CursorMoved \/ MouseInput \/ MouseWheel \/ CursorLeft \/ SelectionScrolling
  \/ ModifiersChanged \/ Application \/ UpdateHints \/ TextPrinted \/ Wakeup \/ HintKey
  \/ TypeText \/ ToggleVi \/ touch

-----------------------------------------------------------------------------
\* A hint is launched only if its text is still there, and only by a click: the
\* pointer is in the half cell where the left button went down.  A hint picked with
\* the keyboard while the button is down is the exception (mouse_moved and
\* on_left_click with block_hint_launcher, HintMatch::text).
LaunchClean ==
  mouse.launch # None => /\ Get(mouse.launch).valid
                         /\ Get(mouse.launch).unmoved \/ mouse.unblocked

\* While the left button is dragged, however the display is scrolled meanwhile (by
\* the wheel, the timer or a finger), the selection ends at the pointer (mouse_moved,
\* scroll, update_selection).
SelectionFollows ==
  mouse.dragging /\ "Left" \in mouse.buttons =>
    Get(mouse.selection).end = Anchor(MousePoint(mouse), mouse.side)

\* Nothing goes on without a finger or a button.  The fingers of a gesture are on the
\* screen; a finger that selects releases the left button when it leaves, unless
\* another one has come down ("Release simulated LMB."); the display scrolls by itself
\* only while a button is down, unless the application has taken the mouse during the
\* drag and was sent the release (on_touch_start, on_touch_end, on_mouse_release,
\* update_selection_scrolling).
GesturesEnd ==
  /\ \A f \in Ids(mouse.purpose) : mouse.fingers[f] # None
  /\ "Left" \in mouse.buttons =>
       "Left" \in mouse.held \/ mouse.stuck \/ mouse.purpose.kind = "Select"
  /\ mouse.timer # None /\ ~mouse.handed => mouse.buttons \cap {"Left", "Right"} # {}
=============================================================================
