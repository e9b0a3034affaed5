-------------------------------- MODULE Term --------------------------------
(***************************************************************************)
(* The terminal's two screens and its modes (term/mod.rs): the primary and *)
(* the alternate grid, the scroll region, the vi mode cursor, the mode     *)
(* flags, the keyboard mode and title stacks, and the options a            *)
(* configuration reload replaces.  Escape sequences call the handlers from *)
(* the I/O thread, the user interface the others; the terminal's lock      *)
(* makes each of them one step.                                            *)
(*                                                                         *)
(* A grid is reduced to its sizes (GridSize), a cursor to its line.  Cells *)
(* and damage are in TermDamage; the selection, and the reflow a change of *)
(* width causes, are left out.                                             *)
(***************************************************************************)
EXTENDS GridSize, Sequences, FiniteSets

CONSTANTS Heights,         \* numbers of screen lines
          Histories,       \* values of the scrolling.history option
          PrivateModes,    \* names of the private modes the application uses
          KeyboardModes,   \* sets of kitty keyboard flags the application uses
          Titles,          \* window titles
          KEYBOARD_MODE_STACK_MAX_DEPTH,
          TITLE_STACK_MAX_DEPTH,
          MaxStack,        \* bound on the keyboard mode stack in the model
          TermLoads        \* what of these one behaviour uses

ASSUME TermAssumption ==
  /\ Heights \subseteq Nat \ {0} /\ Histories \subseteq Nat
  /\ TITLE_STACK_MAX_DEPTH \in Nat \ {0}
  /\ \A l \in TermLoads : /\ l.heights \subseteq Heights /\ l.histories \subseteq Histories
                          /\ l.modes \subseteq PrivateModes
                          /\ l.keyboard \subseteq KeyboardModes /\ l.titles \subseteq Titles

NoTitle == "none"

KITTY_KEYBOARD_PROTOCOL == UNION KeyboardModes

MOUSE_MODE == {"MOUSE_REPORT_CLICK", "MOUSE_DRAG", "MOUSE_MOTION"}

ENCODINGS == {"SGR_MOUSE", "UTF8_MOUSE"}

\* Private modes that set one flag and do nothing else.
PlainModes == {"SHOW_CURSOR", "APP_CURSOR", "FOCUS_IN_OUT", "BRACKETED_PASTE",
               "ALTERNATE_SCROLL", "LINE_WRAP", "URGENCY_HINTS"}

\* TermMode is made of bits: the flags of the keyboard are none of the others.
ASSUME FlagsAssumption ==
  KITTY_KEYBOARD_PROTOCOL \cap (MOUSE_MODE \cup ENCODINGS \cup PlainModes
                                 \cup {"ALT_SCREEN", "VI", "ORIGIN"}) = {}

DefaultMode == PlainModes \cap PrivateModes
                 \cap {"SHOW_CURSOR", "LINE_WRAP", "ALTERNATE_SCROLL", "URGENCY_HINTS"}

VARIABLES grid,                          \* the grid in use
          inactive_grid,
          mode,                          \* flags of TermMode
          scroll_region,                 \* lines start up to, without, end
          vi_mode_cursor,                \* its line
          keyboard_mode_stack,
          inactive_keyboard_mode_stack,
          title,
          title_stack,
          config,                        \* scrolling_history, kitty_keyboard
          on_alternate,                  \* whether `grid` is the alternate one
          window_title,                  \* title last sent to the window
          panicked,
          load                           \* one of TermLoads, which never changes

screens == <<grid, inactive_grid, on_alternate>>
keyboard == <<keyboard_mode_stack, inactive_keyboard_mode_stack>>
names == <<title, title_stack, window_title>>
vars == <<screens, mode, scroll_region, vi_mode_cursor, keyboard, names, config,
          panicked>>

WholeScreen(lines) == [start |-> 0, end |-> lines]

Init ==
  /\ load \in TermLoads
  /\ config \in [scrolling_history : load.histories, kitty_keyboard : BOOLEAN]
  /\ \E lines \in load.heights :
       /\ grid = NewGrid(lines, config.scrolling_history)
       /\ inactive_grid = NewGrid(lines, 0)
       /\ scroll_region = WholeScreen(lines)
  /\ on_alternate = FALSE
  /\ mode = DefaultMode
  /\ vi_mode_cursor = 0
  /\ keyboard_mode_stack = <<>>
  /\ inactive_keyboard_mode_stack = <<>>
  /\ title = NoTitle
  /\ title_stack = <<>>
  /\ window_title = NoTitle
  /\ panicked = FALSE

-----------------------------------------------------------------------------
(* The display and the vi mode cursor.                                     *)

Clamp(low, x, high) == Least(high, Greatest(low, x))

\* The nearest displayed line of g.
InViewport(g, line) == Clamp(-g.offset, line, bottommost_line(g) - g.offset)

\* Term::scroll_display; g is the grid after Grid::scroll_display.
scroll_display(g) ==
  /\ grid' = g
  /\ vi_mode_cursor' = InViewport(g, vi_mode_cursor)
  /\ UNCHANGED <<inactive_grid, on_alternate, mode, scroll_region, keyboard,
                 names, config, panicked>>

toggle_vi_mode ==
  /\ mode' = IF "VI" \in mode THEN mode \ {"VI"} ELSE mode \cup {"VI"}
  /\ vi_mode_cursor' =
       IF "VI" \in mode
       THEN vi_mode_cursor
       ELSE IF grid.cursor > bottommost_line(grid) - grid.offset
            THEN -grid.offset
            ELSE grid.cursor
  /\ UNCHANGED <<screens, scroll_region, keyboard, names, config, panicked>>

\* The grid scrolled, if it must, to display a line.
scroll_to_point(line) ==
  CASE line < -grid.offset              -> Displayed(grid, -(line + grid.offset))
    [] line >= grid.lines - grid.offset ->
         Displayed(grid, -(line + grid.offset - grid.lines + 1))
    [] OTHER                            -> grid

vi_goto_point(line) ==
  /\ grid' = scroll_to_point(line)
  /\ vi_mode_cursor' = line
  /\ UNCHANGED <<inactive_grid, on_alternate, mode, scroll_region, keyboard,
                 names, config, panicked>>

\* Lines a motion can end on.  Up and Down move by one; High, Middle and Low go to
\* the ends and the middle of the display; the others stay in the grid, as
\* long as a wrapped line is followed by another one.
MotionTargets ==
  LET top    == -grid.offset
      middle == top + grid.lines \div 2 - 1
      all    == topmost_line(grid) .. bottommost_line(grid)
  IN  all \cup {top, middle, top + grid.lines - 1}

vi_motion ==
  /\ "VI" \in mode
  /\ \E line \in MotionTargets : vi_goto_point(line)

-----------------------------------------------------------------------------
(* Scrolling.                                                              *)

RegionSize == scroll_region.end - scroll_region.start

InRegion(line) == line >= scroll_region.start /\ line < scroll_region.end

scroll_down_relative(origin, count) ==
  LET lines == Least(Least(count, RegionSize), scroll_region.end - origin)
  IN  vi_mode_cursor' =
        IF origin <= vi_mode_cursor /\ vi_mode_cursor < scroll_region.end
        THEN Least(vi_mode_cursor + lines, scroll_region.end - 1)
        ELSE vi_mode_cursor

scroll_up_relative(origin, count) ==
  LET lines == Least(count, RegionSize)
      g     == ScrolledUp(grid, origin, scroll_region.end, lines)
      top   == IF origin = 0 THEN -g.offset ELSE origin
  IN  /\ grid' = g
      /\ vi_mode_cursor' =
           IF top <= vi_mode_cursor /\ vi_mode_cursor < scroll_region.end
           THEN Greatest(vi_mode_cursor - lines, top)
           ELSE vi_mode_cursor

Unscrolled == UNCHANGED <<inactive_grid, on_alternate, mode, scroll_region,
                          keyboard, names, config, panicked>>

scroll_up(count) == scroll_up_relative(scroll_region.start, count) /\ Unscrolled

scroll_down(count) ==
  scroll_down_relative(scroll_region.start, count) /\ UNCHANGED grid /\ Unscrolled

insert_blank_lines(count) ==
  /\ InRegion(grid.cursor)
  /\ scroll_down_relative(grid.cursor, count)
  /\ UNCHANGED grid
  /\ Unscrolled

delete_lines(count) ==
  /\ InRegion(grid.cursor)
  /\ scroll_up_relative(grid.cursor, Least(grid.lines - grid.cursor, count))
  /\ Unscrolled

linefeed ==
  /\ \/ /\ grid.cursor + 1 = scroll_region.end
        /\ scroll_up_relative(scroll_region.start, 1)
     \/ /\ grid.cursor + 1 # scroll_region.end
        /\ grid' = CursorAt(grid, Least(grid.cursor + 1, bottommost_line(grid)))
        /\ UNCHANGED vi_mode_cursor
  /\ Unscrolled

reverse_index ==
  /\ \/ /\ grid.cursor = scroll_region.start
        /\ scroll_down_relative(scroll_region.start, 1)
        /\ UNCHANGED grid
     \/ /\ grid.cursor # scroll_region.start
        /\ grid' = CursorAt(grid, Greatest(grid.cursor - 1, 0))
        /\ UNCHANGED vi_mode_cursor
  /\ Unscrolled

\* Line the cursor goes to: relative to the scroll region in origin mode.
Destination(line, flags, region) ==
  IF "ORIGIN" \in flags
  THEN Greatest(Least(line + region.start, region.end - 1), 0)
  ELSE Greatest(Least(line, bottommost_line(grid)), 0)

goto(line) ==
  /\ grid' = CursorAt(grid, Destination(line, mode, scroll_region))
  /\ UNCHANGED vi_mode_cursor
  /\ Unscrolled

save_cursor_position ==
  /\ grid' = [grid EXCEPT !.saved = grid.cursor]
  /\ UNCHANGED vi_mode_cursor
  /\ Unscrolled

restore_cursor_position ==
  /\ grid' = [grid EXCEPT !.cursor = grid.saved]
  /\ UNCHANGED vi_mode_cursor
  /\ Unscrolled

\* Lines are counted from 1; the bottom one is included.
set_scrolling_region(top, bottom) ==
  /\ top < bottom
  /\ scroll_region' = [start |-> Least(top - 1, grid.lines),
                       end |-> Least(bottom, grid.lines)]
  /\ grid' = CursorAt(grid, Destination(0, mode, scroll_region'))
  /\ UNCHANGED <<inactive_grid, on_alternate, mode, vi_mode_cursor, keyboard,
                 names, config, panicked>>

-----------------------------------------------------------------------------
(* Clearing.  ClearMode::Above and Below change cells only.                *)

\* On the primary screen the text goes to the history: `positions` lines of it,
\* down to the last one that is not blank.
ClearAll(positions) ==
  LET g     == Cleared(grid, positions)
      moved == Greatest(g.offset - grid.offset, 0)
  IN  /\ positions > 0 \/ grid.history > 0
      /\ IF "ALT_SCREEN" \in mode
         THEN UNCHANGED <<grid, vi_mode_cursor>>
         ELSE /\ grid' = g
              /\ vi_mode_cursor' = Clamp(topmost_line(g), vi_mode_cursor - moved,
                                        bottommost_line(g))
      /\ Unscrolled

\* Mutant: the vi cursor is left in the history.
ClearSaved_unclamped ==
  /\ grid.history > 0
  /\ grid' = WithoutHistory(grid)
  /\ UNCHANGED vi_mode_cursor
  /\ Unscrolled

ClearSaved ==
  /\ grid.history > 0
  /\ grid' = WithoutHistory(grid)
  /\ vi_mode_cursor' = Clamp(0, vi_mode_cursor, bottommost_line(grid))
  /\ Unscrolled

-----------------------------------------------------------------------------
(* Size and options.                                                       *)

\* Mutant: the inactive grid keeps its height.
resize_active(num_lines) ==
  /\ num_lines # grid.lines
  /\ grid' = Resized(grid, num_lines)
  /\ vi_mode_cursor' = InViewport(grid', vi_mode_cursor)
  /\ scroll_region' = WholeScreen(num_lines)
  /\ UNCHANGED <<inactive_grid, on_alternate, mode, keyboard, names, config, panicked>>

resize(num_lines) ==
  LET least == Least(0, num_lines - grid.cursor - 1)
      delta == Least(Greatest(num_lines - grid.lines, least), grid.history)
  IN  /\ num_lines # grid.lines
      /\ grid' = Resized(grid, num_lines)
      /\ inactive_grid' = Resized(inactive_grid, num_lines)
      /\ vi_mode_cursor' = InViewport(grid', vi_mode_cursor + delta)
      /\ scroll_region' = WholeScreen(num_lines)
      /\ UNCHANGED <<on_alternate, mode, keyboard, names, config, panicked>>

\* The history belongs to the primary grid.  Changing kitty_keyboard empties both
\* keyboard mode stacks.
set_options(options) ==
  LET changed == options.kitty_keyboard # config.kitty_keyboard
  IN  /\ config' = options
      /\ window_title' = title
      /\ IF "ALT_SCREEN" \in mode
         THEN /\ inactive_grid' = WithHistory(inactive_grid, options.scrolling_history)
              /\ UNCHANGED grid
         ELSE /\ grid' = WithHistory(grid, options.scrolling_history)
              /\ UNCHANGED inactive_grid
      /\ keyboard_mode_stack' = IF changed THEN <<>> ELSE keyboard_mode_stack
      /\ inactive_keyboard_mode_stack' =
           IF changed THEN <<>> ELSE inactive_keyboard_mode_stack
      /\ mode' = IF changed THEN mode \ KITTY_KEYBOARD_PROTOCOL ELSE mode
      /\ UNCHANGED <<on_alternate, scroll_region, vi_mode_cursor, title, title_stack,
                     panicked>>

-----------------------------------------------------------------------------
(* Keyboard modes.                                                         *)

\* The flags of `mode` with the kitty flags replaced.
WithKeyboardMode(flags, modes) == (flags \ KITTY_KEYBOARD_PROTOCOL) \cup modes

Top(stack) == IF stack = <<>> THEN {} ELSE stack[Len(stack)]

KeyboardOnly == UNCHANGED <<screens, scroll_region, vi_mode_cursor, title,
                            window_title, config>>

\* At its maximum depth the stack loses an entry of title_stack, or the process
\* panics if there is none.
push_keyboard_mode(modes) ==
  /\ config.kitty_keyboard
  /\ Len(keyboard_mode_stack) < MaxStack
  /\ IF Len(keyboard_mode_stack) >= KEYBOARD_MODE_STACK_MAX_DEPTH
     THEN IF title_stack = <<>>
          THEN /\ panicked' = TRUE
               /\ UNCHANGED <<title_stack, keyboard_mode_stack, mode>>
          ELSE /\ title_stack' = Tail(title_stack)
               /\ keyboard_mode_stack' = Append(keyboard_mode_stack, modes)
               /\ mode' = WithKeyboardMode(mode, modes)
               /\ UNCHANGED panicked
     ELSE /\ keyboard_mode_stack' = Append(keyboard_mode_stack, modes)
          /\ mode' = WithKeyboardMode(mode, modes)
          /\ UNCHANGED <<title_stack, panicked>>
  /\ UNCHANGED inactive_keyboard_mode_stack
  /\ KeyboardOnly

pop_keyboard_modes(to_pop) ==
  /\ config.kitty_keyboard
  /\ keyboard_mode_stack' =
       SubSeq(keyboard_mode_stack, 1, Greatest(Len(keyboard_mode_stack) - to_pop, 0))
  /\ mode' = WithKeyboardMode(mode, Top(keyboard_mode_stack'))
  /\ UNCHANGED <<inactive_keyboard_mode_stack, title_stack, panicked>>
  /\ KeyboardOnly

\* Replace, Union and Difference change the flags and not the stack.
set_keyboard_mode(modes, apply) ==
  LET active == mode \cap KITTY_KEYBOARD_PROTOCOL
  IN  /\ config.kitty_keyboard
      /\ mode' = WithKeyboardMode(mode, CASE apply = "Replace"    -> modes
                                          [] apply = "Union"      -> active \cup modes
                                          [] apply = "Difference" -> active \ modes)
      /\ UNCHANGED <<keyboard, title_stack, panicked>>
      /\ KeyboardOnly

\* The flags report_keyboard_mode sends to the application.
ReportedKeyboardMode == Top(keyboard_mode_stack)

-----------------------------------------------------------------------------
(* Modes.                                                                  *)

\* Mutant: the alternate screen takes over the flags of the primary one.
swap_alt_shared ==
  LET entered == "ALT_SCREEN" \notin mode
  IN  /\ inactive_grid' = IF entered THEN [grid EXCEPT !.saved = grid.cursor] ELSE grid
      /\ grid' = IF entered THEN CursorAt(inactive_grid, grid.cursor) ELSE inactive_grid
      /\ on_alternate' = ~on_alternate
      /\ keyboard_mode_stack' = inactive_keyboard_mode_stack
      /\ inactive_keyboard_mode_stack' = keyboard_mode_stack
      /\ mode' = IF entered THEN mode \cup {"ALT_SCREEN"} ELSE mode \ {"ALT_SCREEN"}
      /\ UNCHANGED <<scroll_region, vi_mode_cursor, names, config, panicked>>

\* Entering the alternate screen copies the cursor to it, and to the primary
\* screen's saved cursor.  Each screen has a keyboard mode stack of its own.
swap_alt ==
  LET entered == "ALT_SCREEN" \notin mode
      kept    == WithKeyboardMode(mode, Top(inactive_keyboard_mode_stack))
  IN  /\ inactive_grid' = IF entered THEN [grid EXCEPT !.saved = grid.cursor] ELSE grid
      /\ grid' = IF entered THEN CursorAt(inactive_grid, grid.cursor) ELSE inactive_grid
      /\ on_alternate' = ~on_alternate
      /\ keyboard_mode_stack' = inactive_keyboard_mode_stack
      /\ inactive_keyboard_mode_stack' = keyboard_mode_stack
      /\ mode' = IF entered THEN kept \cup {"ALT_SCREEN"} ELSE kept \ {"ALT_SCREEN"}
      /\ UNCHANGED <<scroll_region, vi_mode_cursor, names, config, panicked>>

FlagsOnly == UNCHANGED <<screens, scroll_region, vi_mode_cursor, keyboard, names,
                         config, panicked>>

\* DECCOLM resets the scroll region and clears the grid, whether set or unset.
deccolm == 1 < grid.lines /\ set_scrolling_region(1, grid.lines)

set_private_mode(m) ==
  \/ /\ m = "ALT_SCREEN"
     /\ m \notin mode
     /\ swap_alt
  \/ /\ m \in MOUSE_MODE
     /\ mode' = (mode \ MOUSE_MODE) \cup {m}
     /\ FlagsOnly
  \/ /\ m \in ENCODINGS
     /\ mode' = (mode \ ENCODINGS) \cup {m}
     /\ FlagsOnly
  \/ /\ m \in PlainModes
     /\ mode' = mode \cup {m}
     /\ FlagsOnly
  \/ /\ m = "ORIGIN"
     /\ mode' = mode \cup {m}
     /\ grid' = CursorAt(grid, Destination(0, mode', scroll_region))
     /\ UNCHANGED <<inactive_grid, on_alternate, scroll_region, vi_mode_cursor,
                    keyboard, names, config, panicked>>
  \/ m = "COLUMN" /\ deccolm

unset_private_mode(m) ==
  \/ /\ m = "ALT_SCREEN"
     /\ m \in mode
     /\ swap_alt
  \/ /\ m \in MOUSE_MODE \cup ENCODINGS \cup PlainModes \cup {"ORIGIN"}
     /\ mode' = mode \ {m}
     /\ FlagsOnly
  \/ m = "COLUMN" /\ deccolm

\* Mutant: the grids are not swapped back.
reset_state_unswapped ==
  /\ grid' = Blanked(grid)
  /\ inactive_grid' = Blanked(inactive_grid)
  /\ scroll_region' = WholeScreen(grid.lines)
  /\ title_stack' = <<>>
  /\ title' = NoTitle
  /\ vi_mode_cursor' = 0
  /\ keyboard_mode_stack' = <<>>
  /\ inactive_keyboard_mode_stack' = <<>>
  /\ mode' = (mode \cap {"VI"}) \cup DefaultMode
  /\ UNCHANGED <<on_alternate, window_title, config, panicked>>

\* Back to the primary screen and the default modes; only vi mode is kept.  No
\* title event is sent.
reset_state ==
  LET back == "ALT_SCREEN" \in mode
  IN  /\ grid' = Blanked(IF back THEN inactive_grid ELSE grid)
      /\ inactive_grid' = Blanked(IF back THEN grid ELSE inactive_grid)
      /\ on_alternate' = IF back THEN ~on_alternate ELSE on_alternate
      /\ scroll_region' = WholeScreen(grid.lines)
      /\ title_stack' = <<>>
      /\ title' = NoTitle
      /\ vi_mode_cursor' = 0
      /\ keyboard_mode_stack' = <<>>
      /\ inactive_keyboard_mode_stack' = <<>>
      /\ mode' = (mode \cap {"VI"}) \cup DefaultMode
      /\ UNCHANGED <<window_title, config, panicked>>

-----------------------------------------------------------------------------
(* Titles.                                                                 *)

TitlesOnly == UNCHANGED <<screens, mode, scroll_region, vi_mode_cursor, keyboard,
                          config, panicked>>

set_title(t) ==
  /\ title' = t
  /\ window_title' = t
  /\ UNCHANGED title_stack
  /\ TitlesOnly

push_title ==
  /\ title_stack' = Append(IF Len(title_stack) >= TITLE_STACK_MAX_DEPTH
                           THEN Tail(title_stack) ELSE title_stack, title)
  /\ UNCHANGED <<title, window_title>>
  /\ TitlesOnly

pop_title ==
  /\ title_stack # <<>>
  /\ title' = title_stack[Len(title_stack)]
  /\ window_title' = title'
  /\ title_stack' = SubSeq(title_stack, 1, Len(title_stack) - 1)
  /\ TitlesOnly

-----------------------------------------------------------------------------
\* Called by the user interface.
UserStep ==
  \/ \E count \in {-1, 1, grid.lines, grid.history} :
       scroll_display(Displayed(grid, count))
  \/ scroll_display(PagedDown(grid))
  \/ scroll_display([grid EXCEPT !.offset = 0])
  \/ toggle_vi_mode
  \/ vi_motion
  \/ \E lines \in load.heights : resize(lines)
  \/ \E options \in [scrolling_history : load.histories, kitty_keyboard : BOOLEAN] :
       set_options(options)

\* Escape sequences about the screen.
ScreenStep ==
  \/ \E count \in 1 .. grid.lines : scroll_up(count)
  \/ \E count \in 1 .. grid.lines : scroll_down(count)
  \/ \E count \in 1 .. grid.lines : insert_blank_lines(count)
  \/ \E count \in 1 .. grid.lines : delete_lines(count)
  \/ linefeed
  \/ reverse_index
  \/ \E line \in 0 .. grid.lines : goto(line)
  \/ save_cursor_position
  \/ restore_cursor_position
  \/ \E top \in 1 .. (grid.lines + 1), bottom \in 1 .. (grid.lines + 2) :
       set_scrolling_region(top, bottom)
  \/ \E positions \in 0 .. grid.lines : ClearAll(positions)
  \/ ClearSaved

\* Escape sequences about modes and titles.
ModeStep ==
  \/ \E m \in load.modes : set_private_mode(m)
  \/ \E m \in load.modes : unset_private_mode(m)
  \/ \E modes \in load.keyboard : push_keyboard_mode(modes)
  \/ \E count \in 1 .. 2 : pop_keyboard_modes(count)
  \/ \E modes \in load.keyboard, apply \in {"Replace", "Union", "Difference"} :
       set_keyboard_mode(modes, apply)
  \/ \E t \in load.titles \cup {NoTitle} : set_title(t)
  \/ push_title
  \/ pop_title
  \/ reset_state

Step == UserStep \/ ScreenStep \/ ModeStep

Next == ~panicked /\ Step /\ UNCHANGED load

Spec == Init /\ [][Next]_<<vars, load>>

-----------------------------------------------------------------------------
(* Properties.                                                             *)

Grids == [limit : Nat, history : Nat, offset : Nat, lines : Heights,
          cursor : Nat, saved : Nat]

\* Every field has its type.
TypeOK ==
  /\ grid \in Grids
  /\ inactive_grid \in Grids
  /\ scroll_region \in [start : Nat, end : Nat]
  /\ vi_mode_cursor \in Int
  /\ config \in [scrolling_history : Histories, kitty_keyboard : BOOLEAN]
  /\ panicked \in BOOLEAN

\* The scrollback is the primary screen's and follows the option; the alternate
\* screen never has one, through swaps, resets and reloads on either screen.
HistoryIsPrimary ==
  LET primary   == IF "ALT_SCREEN" \in mode THEN inactive_grid ELSE grid
      alternate == IF "ALT_SCREEN" \in mode THEN grid ELSE inactive_grid
  IN  /\ on_alternate <=> "ALT_SCREEN" \in mode
      /\ primary.limit = config.scrolling_history
      /\ primary.history <= primary.limit
      /\ alternate.limit = 0 /\ alternate.history = 0 /\ alternate.offset = 0

\* Both screens have the same height, and the scroll region and all four cursors
\* lie inside it.  Rows and damage are indexed by the cursor's line unchecked, and
\* a swap carries the cursor and the region from one grid to the other.
ScreensAgree ==
  /\ grid.lines = inactive_grid.lines
  /\ scroll_region.start <= scroll_region.end
  /\ scroll_region.end <= grid.lines
  /\ {grid.cursor, grid.saved, inactive_grid.cursor, inactive_grid.saved}
       \subseteq 0 .. (grid.lines - 1)

\* "Mouse protocols are mutually exclusive", and so are the encodings.
MouseExclusive ==
  /\ Cardinality(mode \cap MOUSE_MODE) <= 1
  /\ Cardinality(mode \cap ENCODINGS) <= 1

\* With the kitty_keyboard option off no key is encoded in the kitty protocol and
\* no entry is left that leaving the other screen could load.
KittyGated ==
  ~config.kitty_keyboard =>
    /\ mode \cap KITTY_KEYBOARD_PROTOCOL = {}
    /\ keyboard_mode_stack = <<>>
    /\ inactive_keyboard_mode_stack = <<>>

\* A step that changes the stack in use (a push, a pop, a screen swap, a reload, a
\* reset) leaves the flags of its top entry active.
KeyboardModeLoaded ==
  [][keyboard_mode_stack' # keyboard_mode_stack =>
       mode' \cap KITTY_KEYBOARD_PROTOCOL = Top(keyboard_mode_stack')]_vars

ViCursorIn(g) == vi_mode_cursor \in topmost_line(g) .. bottommost_line(g)

\* Scrolling, clearing, resizing and the display keep the vi mode cursor in the
\* grid, as long as the screen is not swapped, the history option not lowered, the
\* display not above the history, and the screen taller than one line.
ViCursorKept ==
  [][(/\ ViCursorIn(grid)
      /\ grid.offset <= grid.history
      /\ on_alternate' = on_alternate
      /\ config'.scrolling_history >= config.scrolling_history
      /\ grid.lines > 1)
     => ViCursorIn(grid)']_vars

=============================================================================
