----------------------------- MODULE TermProofs -----------------------------
(***************************************************************************)
(* The two screens of the terminal agree, the scrollback stays the primary *)
(* screen's, the keyboard flags follow their stacks and the vi mode cursor *)
(* stays in the grid, for every set of screen heights, history options,    *)
(* private modes and keyboard flags and every depth of the stacks.         *)
(*                                                                         *)
(* HistoryIsPrimary and ScreensAgree need each other and three facts that  *)
(* neither states: no grid has more history than its limit, the entries of *)
(* both stacks are sets of kitty flags (a swap that loaded another flag    *)
(* could switch ALT_SCREEN), and KITTY_KEYBOARD_PROTOCOL holds none of the *)
(* other flags.  TermInv adds them.                                        *)
(***************************************************************************)
EXTENDS Term, FiniteSetTheorems, SequenceTheorems, TLAPS

\* A grid whose cursors are on its screen and whose history is within its limit.
Sound(g) ==
  /\ g \in Grids
  /\ g.history <= g.limit
  /\ g.cursor < g.lines
  /\ g.saved < g.lines

\* What every operation on one grid but a resize and a new limit leaves as it was.
Kept(g, h) ==
  /\ Sound(h)
  /\ h.lines = g.lines
  /\ h.limit = g.limit
  /\ g.limit = 0 /\ g.offset = 0 => h.offset = 0

\* No two of the flags in `set` are on together.
Alone(flags, set) == \A a, b \in flags \cap set : a = b

\* The two screens.
ScreensInv ==
  /\ TypeOK
  /\ on_alternate \in BOOLEAN
  /\ load \in TermLoads
  /\ Sound(grid)
  /\ Sound(inactive_grid)
  /\ HistoryIsPrimary
  /\ ScreensAgree

\* The flags and the stacks.
FlagsInv ==
  /\ keyboard_mode_stack \in Seq(KeyboardModes)
  /\ inactive_keyboard_mode_stack \in Seq(KeyboardModes)
  /\ KittyGated
  /\ Alone(mode, MOUSE_MODE)
  /\ Alone(mode, ENCODINGS)

\* The inductive invariant.
TermInv == ScreensInv /\ FlagsInv

-----------------------------------------------------------------------------
(* Grids.                                                                  *)

\* The fields of a sound grid.
LEMMA SoundFacts ==
  ASSUME NEW g, Sound(g)
  PROVE  /\ g.limit \in Nat /\ g.history \in Nat /\ g.offset \in Nat
         /\ g.lines \in Nat \ {0} /\ g.lines \in Heights
         /\ g.cursor \in 0 .. (g.lines - 1) /\ g.saved \in 0 .. (g.lines - 1)
         /\ g.history <= g.limit
  <1>1. Heights \subseteq Nat \ {0}
    BY TermAssumption
  <1>2. g \in Grids
    BY DEF Sound
  <1>3. /\ g.limit \in Nat /\ g.history \in Nat /\ g.offset \in Nat
        /\ g.lines \in Heights /\ g.cursor \in Nat /\ g.saved \in Nat
    BY <1>2 DEF Grids
  <1>4. g.lines \in Nat \ {0}
    BY <1>1, <1>3
  <1> QED
    BY <1>3, <1>4 DEF Sound

\* A new grid is sound.
LEMMA NewSound ==
  ASSUME NEW n \in Heights, NEW limit \in Nat
  PROVE  Sound(NewGrid(n, limit))
  BY TermAssumption DEF Sound, Grids, NewGrid, MkGrid

\* Scrolling a region up never shortens the history, and moves the display by no
\* more than the history grows if the region starts at the top.
LEMMA ScrolledUpKept ==
  ASSUME NEW g, Sound(g), NEW start \in Int, NEW end \in Int, NEW p \in Nat
  PROVE  /\ Kept(g, ScrolledUp(g, start, end, p))
         /\ ScrolledUp(g, start, end, p).history >= g.history
         /\ ScrolledUp(g, start, end, p).cursor = g.cursor
         /\ ScrolledUp(g, start, end, p).saved = g.saved
         /\ start = 0 /\ g.offset <= g.history =>
              ScrolledUp(g, start, end, p).offset <= ScrolledUp(g, start, end, p).history
  <1> USE SoundFacts
  <1>1. CASE end - start <= p /\ start # 0
    BY <1>1 DEF ScrolledUp, Kept
  <1>2. CASE ~(end - start <= p /\ start # 0)
    <2> DEFINE h == IF start = 0 THEN Least(g.history + p, g.limit) ELSE g.history
               o == IF g.offset # 0 THEN Least(g.offset + p, g.limit) ELSE 0
    <2>1. ScrolledUp(g, start, end, p) = [g EXCEPT !.history = h, !.offset = o]
      BY <1>2 DEF ScrolledUp
    <2>2. /\ h \in Nat /\ h <= g.limit /\ h >= g.history
          /\ o \in Nat
          /\ g.limit = 0 /\ g.offset = 0 => o = 0
          /\ start = 0 /\ g.offset <= g.history => o <= h
      BY DEF Least
    <2> HIDE DEF h, o
    <2> QED
      BY <2>1, <2>2 DEF Kept, Sound, Grids
  <1> QED
    BY <1>1, <1>2

\* The display moves within the history.
LEMMA DisplayedKept ==
  ASSUME NEW g, Sound(g), NEW count \in Int
  PROVE  /\ Kept(g, Displayed(g, count))
         /\ Displayed(g, count).offset <= Displayed(g, count).history
         /\ Displayed(g, count).history = g.history
         /\ Displayed(g, count).cursor = g.cursor
  <1> USE SoundFacts
  <1> DEFINE o == Least(Greatest(g.offset + count, 0), g.history)
  <1>1. o \in Nat /\ o <= g.history /\ (g.limit = 0 => o = 0)
    BY DEF Least, Greatest
  <1>2. Displayed(g, count) = [g EXCEPT !.offset = o]
    BY DEF Displayed
  <1> HIDE DEF o
  <1> QED
    BY <1>1, <1>2 DEF Kept, Sound, Grids

\* A page down never moves the display up.
LEMMA PagedDownKept ==
  ASSUME NEW g, Sound(g)
  PROVE  /\ Kept(g, PagedDown(g))
         /\ PagedDown(g).offset <= g.offset
         /\ PagedDown(g).history = g.history
  <1> USE SoundFacts
  <1> DEFINE o == Greatest(g.offset - g.lines, 0)
  <1>1. o \in Nat /\ o <= g.offset
    BY DEF Greatest
  <1>2. PagedDown(g) = [g EXCEPT !.offset = o]
    BY DEF PagedDown
  <1> HIDE DEF o
  <1> QED
    BY <1>1, <1>2 DEF Kept, Sound, Grids

\* A new limit takes away the history above it, and none if it is not lower.
LEMMA WithHistorySound ==
  ASSUME NEW g, Sound(g), NEW limit \in Nat
  PROVE  /\ Sound(WithHistory(g, limit))
         /\ WithHistory(g, limit).limit = limit
         /\ WithHistory(g, limit).lines = g.lines
         /\ limit >= g.limit => WithHistory(g, limit).history = g.history
  <1> USE SoundFacts
  <1> DEFINE h == Least(g.history, limit)
             o == Least(g.offset, limit)
  <1>1. h \in Nat /\ o \in Nat /\ h <= limit /\ (limit >= g.limit => h = g.history)
    BY DEF Least
  <1>2. WithHistory(g, limit) = [g EXCEPT !.limit = limit, !.history = h, !.offset = o]
    BY DEF WithHistory
  <1> HIDE DEF h, o
  <1> QED
    BY <1>1, <1>2 DEF Sound, Grids

\* The cursor and the saved cursor on the screen.
LEMMA CursorKept ==
  ASSUME NEW g, Sound(g), NEW line \in 0 .. (g.lines - 1)
  PROVE  /\ Kept(g, CursorAt(g, line))
         /\ Kept(g, [g EXCEPT !.saved = line])
         /\ Kept(g, [g EXCEPT !.offset = 0])
         /\ CursorAt(g, line).history = g.history /\ CursorAt(g, line).offset = g.offset
  BY SoundFacts DEF Kept, Sound, Grids, CursorAt

\* Without history, and blank.
LEMMA BlankedKept ==
  ASSUME NEW g, Sound(g)
  PROVE  /\ Kept(g, WithoutHistory(g)) /\ WithoutHistory(g).history = 0
         /\ Kept(g, Blanked(g)) /\ Blanked(g).offset = 0 /\ Blanked(g).history = 0
  <1> DEFINE w == WithoutHistory(g)
             c == CursorAt(w, 0)
  <1>1. w \in Grids
    BY DEF Sound, Grids, WithoutHistory
  <1>2. /\ w.history = 0 /\ w.offset = 0 /\ w.limit = g.limit /\ w.lines = g.lines
        /\ w.cursor = g.cursor /\ w.saved = g.saved
    BY DEF Sound, Grids, WithoutHistory
  <1>3. Sound(w)
    BY <1>1, <1>2, SoundFacts DEF Sound
  <1> HIDE DEF w
  <1>4. 0 \in 0 .. (w.lines - 1)
    BY <1>3, SoundFacts
  <1>5. Kept(w, c) /\ c.history = 0 /\ c.offset = 0
    BY <1>2, <1>3, <1>4, CursorKept
  <1> HIDE DEF c
  <1>6. Kept(c, [c EXCEPT !.saved = 0])
    BY <1>4, <1>5, CursorKept DEF Kept
  <1>7. [c EXCEPT !.saved = 0].history = c.history /\ [c EXCEPT !.saved = 0].offset = c.offset
    BY <1>5 DEF Kept, Sound, Grids
  <1>8. Blanked(g) = [c EXCEPT !.saved = 0]
    BY DEF Blanked, CursorAt, c, w
  <1> QED
    BY <1>2, <1>3, <1>5, <1>6, <1>7, <1>8 DEF Kept, w

\* Growing and shrinking the screen keep the cursors on it and the history within
\* its limit, and leave a grid without history without one.
LEMMA ResizedSound ==
  ASSUME NEW g, Sound(g), NEW n \in Heights
  PROVE  /\ Sound(Resized(g, n))
         /\ Resized(g, n).lines = n
         /\ Resized(g, n).limit = g.limit
         /\ g.limit = 0 /\ g.offset = 0 => Resized(g, n).offset = 0
         /\ g.offset <= g.history => Resized(g, n).offset <= Resized(g, n).history
  <1> USE SoundFacts, TermAssumption
  <1>1. n \in Nat \ {0}
    OBVIOUS
  <1>2. CASE g.lines < n
    <2> DEFINE added  == n - g.lines
               pulled == Least(g.history, added)
               o      == Least(Greatest(g.offset - added, 0), g.history - pulled)
    <2>1. added \in Nat /\ pulled \in Nat /\ pulled <= added /\ pulled <= g.history
      BY <1>1, <1>2 DEF Least
    <2>2. o \in Nat /\ o <= g.history - pulled /\ o <= g.offset
      BY <2>1 DEF Least, Greatest
    <2>3. Resized(g, n) = MkGrid(g.limit, g.history - pulled, o, n,
                                 g.cursor + pulled, g.saved + pulled)
      BY <1>2 DEF Resized, Taller
    <2> HIDE DEF o, pulled
    <2> QED
      BY <1>1, <2>1, <2>2, <2>3 DEF MkGrid, Sound, Grids
  <1>3. CASE g.lines > n
    <2> DEFINE required == Greatest(g.cursor + 1 - n, 0)
               up       == IF required > 0 THEN ScrolledUp(g, 0, g.lines, required) ELSE g
               c        == Least(up.cursor, n - 1)
               s        == Least(up.saved, n - 1)
    <2>1. required \in Nat
      BY <1>1 DEF Greatest
    <2>2. Kept(g, ScrolledUp(g, 0, g.lines, required))
      BY <2>1, ScrolledUpKept
    <2>3. /\ Sound(up) /\ up.limit = g.limit
          /\ g.limit = 0 /\ g.offset = 0 => up.offset = 0
          /\ g.offset <= g.history => up.offset <= up.history
      BY <2>1, <2>2, ScrolledUpKept DEF Kept
    <2> HIDE DEF up
    <2>4. c \in 0 .. (n - 1) /\ s \in 0 .. (n - 1)
      BY <1>1, <2>3 DEF Least
    <2>5. Resized(g, n) = [up EXCEPT !.lines = n, !.cursor = c, !.saved = s]
      BY <1>1, <1>3 DEF Resized, Shorter, up
    <2>6. up \in Grids
      BY <2>3 DEF Sound
    <2> HIDE DEF c, s
    <2>7. c \in Nat /\ s \in Nat /\ c < n /\ s < n
      BY <1>1, <2>4
    <2>8. Resized(g, n) \in Grids
      BY <2>7, <2>5, <2>6 DEF Grids
    <2>9. /\ Resized(g, n).limit = up.limit /\ Resized(g, n).history = up.history
          /\ Resized(g, n).offset = up.offset /\ Resized(g, n).lines = n
          /\ Resized(g, n).cursor = c /\ Resized(g, n).saved = s
      BY <2>5, <2>6 DEF Grids
    <2> QED
      BY <2>3, <2>8, <2>9, <2>7 DEF Sound
  <1>4. CASE g.lines = n
    BY <1>4 DEF Resized
  <1> QED
    BY <1>1, <1>2, <1>3, <1>4

-----------------------------------------------------------------------------
(* Numbers and flags.                                                      *)

\* A clamped number lies between its bounds.
LEMMA ClampBetween ==
  ASSUME NEW low \in Int, NEW x \in Int, NEW high \in Int
  PROVE  /\ Clamp(low, x, high) \in Int
         /\ low <= high => Clamp(low, x, high) \in low .. high
  BY DEF Clamp, Least, Greatest

\* The cursor is sent to a line of the screen, in origin mode as well.
LEMMA DestinationOn ==
  ASSUME Sound(grid), NEW line \in Int, NEW flags, NEW region,
         region.start \in Nat, region.end \in Nat, region.end <= grid.lines
  PROVE  Destination(line, flags, region) \in 0 .. (grid.lines - 1)
  <1>1. grid.lines \in Nat \ {0}
    BY SoundFacts
  <1> QED
    BY <1>1 DEF Destination, Least, Greatest, bottommost_line

\* Replacing the kitty flags changes no other flag.
LEMMA KeyboardFlags ==
  ASSUME NEW flags, NEW s, s \subseteq KITTY_KEYBOARD_PROTOCOL
  PROVE  /\ WithKeyboardMode(flags, s) \cap KITTY_KEYBOARD_PROTOCOL = s
         /\ WithKeyboardMode(flags, s) \cap MOUSE_MODE = flags \cap MOUSE_MODE
         /\ WithKeyboardMode(flags, s) \cap ENCODINGS = flags \cap ENCODINGS
         /\ "ALT_SCREEN" \in WithKeyboardMode(flags, s) <=> "ALT_SCREEN" \in flags
  BY FlagsAssumption DEF WithKeyboardMode

\* The top of a stack is a set of kitty flags.
LEMMA TopFlags ==
  ASSUME NEW s \in Seq(KeyboardModes)
  PROVE  Top(s) \subseteq KITTY_KEYBOARD_PROTOCOL
  <1>1. CASE s = <<>>
    BY <1>1 DEF Top
  <1>2. CASE s # <<>>
    <2>1. Len(s) \in 1 .. Len(s)
      BY <1>2
    <2>2. s[Len(s)] \in KeyboardModes
      BY <2>1
    <2> QED
      BY <1>2, <2>2 DEF Top, KITTY_KEYBOARD_PROTOCOL
  <1> QED
    BY <1>1, <1>2

\* The screens after a step that changes neither their height, nor their limits,
\* nor which of them is in use.
LEMMA ScreensFrom ==
  ASSUME ScreensInv, Kept(grid, grid'),
         UNCHANGED <<inactive_grid, on_alternate, config, load>>,
         vi_mode_cursor' \in Int, panicked' \in BOOLEAN,
         scroll_region' \in [start : Nat, end : Nat],
         scroll_region'.start <= scroll_region'.end, scroll_region'.end <= grid.lines,
         "ALT_SCREEN" \in mode' <=> "ALT_SCREEN" \in mode
  PROVE  ScreensInv'
  <1>1. Sound(grid') /\ Sound(inactive_grid') /\ Sound(grid) /\ Sound(inactive_grid)
    BY DEF ScreensInv, Kept
  <1>2. TypeOK'
    BY <1>1 DEF ScreensInv, TypeOK, Sound
  <1>3. HistoryIsPrimary'
    BY <1>1, SoundFacts DEF ScreensInv, HistoryIsPrimary, Kept
  <1>4. ScreensAgree'
    BY <1>1, SoundFacts DEF ScreensInv, ScreensAgree, Kept
  <1> QED
    BY <1>1, <1>2, <1>3, <1>4 DEF ScreensInv, Sound

\* The flags after a step that changes neither a stack nor the kitty flags.
LEMMA FlagsFrom ==
  ASSUME FlagsInv, UNCHANGED <<keyboard, config>>,
         mode' \cap KITTY_KEYBOARD_PROTOCOL = mode \cap KITTY_KEYBOARD_PROTOCOL,
         Alone(mode', MOUSE_MODE), Alone(mode', ENCODINGS)
  PROVE  FlagsInv'
  BY DEF FlagsInv, KittyGated, keyboard, Alone, KITTY_KEYBOARD_PROTOCOL,
         MOUSE_MODE, ENCODINGS

\* Steps of the grid in use alone.
LEMMA GridChanged ==
  ASSUME TermInv, Kept(grid, grid'), vi_mode_cursor' \in Int, Unscrolled,
         UNCHANGED load
  PROVE  TermInv'
  <1>1. UNCHANGED <<inactive_grid, on_alternate, mode, scroll_region, keyboard, config,
                    panicked>>
    BY DEF Unscrolled
  <1>2. ScreensInv'
    <2>1. panicked \in BOOLEAN /\ scroll_region \in [start : Nat, end : Nat]
          /\ scroll_region.start <= scroll_region.end /\ scroll_region.end <= grid.lines
      BY DEF TermInv, ScreensInv, TypeOK, ScreensAgree
    <2> QED
      BY <1>1, <2>1, ScreensFrom DEF TermInv
  <1>3. FlagsInv'
    BY <1>1, FlagsFrom DEF TermInv, FlagsInv
  <1> QED
    BY <1>2, <1>3 DEF TermInv

\* Steps of the flags that neither swap the screens nor touch the stacks.
LEMMA FlagsChanged ==
  ASSUME TermInv, FlagsOnly, UNCHANGED load,
         mode' \cap KITTY_KEYBOARD_PROTOCOL = mode \cap KITTY_KEYBOARD_PROTOCOL,
         Alone(mode', MOUSE_MODE), Alone(mode', ENCODINGS),
         "ALT_SCREEN" \in mode' <=> "ALT_SCREEN" \in mode
  PROVE  TermInv'
  <1>1. UNCHANGED <<grid, inactive_grid, on_alternate, scroll_region, vi_mode_cursor,
                    keyboard, config, panicked>>
    BY DEF FlagsOnly, screens
  <1>2. ScreensInv'
    <2>1. /\ panicked \in BOOLEAN /\ vi_mode_cursor \in Int
          /\ scroll_region \in [start : Nat, end : Nat]
          /\ scroll_region.start <= scroll_region.end /\ scroll_region.end <= grid.lines
      BY DEF TermInv, ScreensInv, TypeOK, ScreensAgree
    <2>2. Kept(grid, grid')
      BY <1>1 DEF TermInv, ScreensInv, Kept
    <2> QED
      BY <1>1, <2>1, <2>2, ScreensFrom DEF TermInv
  <1>3. FlagsInv'
    BY <1>1, FlagsFrom DEF TermInv
  <1> QED
    BY <1>2, <1>3 DEF TermInv

-----------------------------------------------------------------------------
(* One lemma per handler, or per group of handlers with one argument.      *)

\* What the invariant says of the numbers the handlers compute with.
LEMMA TermFacts ==
  ASSUME TermInv
  PROVE  /\ Sound(grid) /\ Sound(inactive_grid)
         /\ grid.limit \in Nat /\ grid.history \in Nat /\ grid.offset \in Nat
         /\ grid.history <= grid.limit
         /\ grid.lines \in Nat \ {0}
         /\ inactive_grid.lines = grid.lines
         /\ grid.cursor \in 0 .. (grid.lines - 1) /\ grid.saved \in 0 .. (grid.lines - 1)
         /\ scroll_region.start \in Nat /\ scroll_region.end \in Nat
         /\ scroll_region.start <= scroll_region.end /\ scroll_region.end <= grid.lines
         /\ vi_mode_cursor \in Int /\ panicked \in BOOLEAN
         /\ config.scrolling_history \in Nat /\ config.scrolling_history \in Histories
         /\ config.kitty_keyboard \in BOOLEAN
  <1>1. Sound(grid) /\ Sound(inactive_grid)
    BY DEF TermInv, ScreensInv
  <1>2. Histories \subseteq Nat
    BY TermAssumption
  <1>3. config.scrolling_history \in Histories
    BY DEF TermInv, ScreensInv, TypeOK
  <1>4. config.scrolling_history \in Nat
    BY <1>2, <1>3
  <1> QED
    BY <1>1, <1>3, <1>4, SoundFacts DEF TermInv, ScreensInv, TypeOK, ScreensAgree

\* Init.
LEMMA TermInvInit == Init => TermInv
  <1> SUFFICES ASSUME Init PROVE TermInv
    OBVIOUS
  <1>1. load \in TermLoads /\ load.heights \subseteq Heights /\ load.histories \subseteq Histories
    BY TermAssumption DEF Init
  <1>2. config \in [scrolling_history : Histories, kitty_keyboard : BOOLEAN]
    BY <1>1 DEF Init
  <1>3. config.scrolling_history \in Nat
    BY <1>2, TermAssumption
  <1>4. PICK n \in Heights : /\ grid = NewGrid(n, config.scrolling_history)
                             /\ inactive_grid = NewGrid(n, 0)
                             /\ scroll_region = WholeScreen(n)
    BY <1>1 DEF Init
  <1>5. n \in Nat \ {0}
    BY TermAssumption
  <1>6. Sound(grid) /\ Sound(inactive_grid)
    BY <1>3, <1>4, NewSound
  <1>7. /\ grid.limit = config.scrolling_history /\ grid.history = 0 /\ grid.lines = n
        /\ grid.cursor = 0 /\ grid.saved = 0
        /\ inactive_grid.limit = 0 /\ inactive_grid.history = 0 /\ inactive_grid.offset = 0
        /\ inactive_grid.lines = n /\ inactive_grid.cursor = 0 /\ inactive_grid.saved = 0
        /\ scroll_region.start = 0 /\ scroll_region.end = n
        /\ scroll_region \in [start : Nat, end : Nat]
    BY <1>4, <1>5 DEF NewGrid, MkGrid, WholeScreen
  <1>8. "ALT_SCREEN" \notin mode /\ ~on_alternate /\ on_alternate \in BOOLEAN
    BY DEF Init, DefaultMode, PlainModes
  <1>9. TypeOK
    <2>1. vi_mode_cursor \in Int
      BY DEF Init
    <2>2. panicked \in BOOLEAN
      BY DEF Init
    <2>3. grid \in Grids /\ inactive_grid \in Grids
      BY <1>6 DEF Sound
    <2> QED
      BY <1>2, <1>7, <2>1, <2>2, <2>3 DEF TypeOK
  <1>10. HistoryIsPrimary
    BY <1>3, <1>7, <1>8 DEF HistoryIsPrimary
  <1>11. ScreensAgree
    BY <1>5, <1>7 DEF ScreensAgree
  <1>12. mode \cap KITTY_KEYBOARD_PROTOCOL = {}
    BY FlagsAssumption DEF Init, DefaultMode
  <1>13. FlagsInv
    BY <1>12 DEF Init, FlagsInv, KittyGated, Alone, DefaultMode, PlainModes, MOUSE_MODE,
                 ENCODINGS
  <1> QED
    BY <1>1, <1>6, <1>8, <1>9, <1>10, <1>11, <1>13 DEF TermInv, ScreensInv

\* The display and vi mode.
LEMMA DisplayKeeps ==
  ASSUME TermInv, UNCHANGED load,
         \/ \E count \in {-1, 1, grid.lines, grid.history} :
              scroll_display(Displayed(grid, count))
         \/ scroll_display(PagedDown(grid))
         \/ scroll_display([grid EXCEPT !.offset = 0])
  PROVE  TermInv'
  <1> USE TermFacts
  <1>1. ASSUME NEW g, Kept(grid, g), scroll_display(g)
        PROVE  TermInv'
    <2>1. InViewport(g, vi_mode_cursor) \in Int
      <3>1. -g.offset \in Int /\ g.lines - 1 - g.offset \in Int
        BY <1>1, SoundFacts DEF Kept
      <3> QED
        BY <3>1, ClampBetween DEF InViewport, bottommost_line
    <2> QED
      BY <1>1, <2>1, GridChanged DEF scroll_display, Unscrolled
  <1>2. CASE \E count \in {-1, 1, grid.lines, grid.history} :
               scroll_display(Displayed(grid, count))
    <2>1. PICK count \in {-1, 1, grid.lines, grid.history} :
                 scroll_display(Displayed(grid, count))
      BY <1>2
    <2>2. count \in Int
      OBVIOUS
    <2> QED
      BY <1>1, <2>1, <2>2, DisplayedKept
  <1>3. CASE scroll_display(PagedDown(grid))
    BY <1>1, <1>3, PagedDownKept
  <1>4. CASE scroll_display([grid EXCEPT !.offset = 0])
    BY <1>1, <1>4, CursorKept
  <1> QED
    BY <1>2, <1>3, <1>4

\* Entering and leaving vi mode.
LEMMA ToggleKeeps ==
  ASSUME TermInv, UNCHANGED load, toggle_vi_mode
  PROVE  TermInv'
  <1> USE TermFacts
  <1>1. /\ UNCHANGED <<grid, inactive_grid, on_alternate, scroll_region, keyboard, config,
                       panicked>>
        /\ mode' = IF "VI" \in mode THEN mode \ {"VI"} ELSE mode \cup {"VI"}
    BY DEF toggle_vi_mode, screens
  <1>2. vi_mode_cursor' \in Int
    BY DEF toggle_vi_mode, bottommost_line
  <1>3. Kept(grid, grid')
    BY <1>1 DEF Kept
  <1>4. ScreensInv'
    BY <1>1, <1>2, <1>3, ScreensFrom DEF TermInv, ScreensInv, TypeOK
  <1>5. mode' \cap KITTY_KEYBOARD_PROTOCOL = mode \cap KITTY_KEYBOARD_PROTOCOL
    BY <1>1, FlagsAssumption
  <1>6. Alone(mode', MOUSE_MODE) /\ Alone(mode', ENCODINGS)
    BY <1>1 DEF TermInv, FlagsInv, Alone, MOUSE_MODE, ENCODINGS
  <1> QED
    BY <1>1, <1>4, <1>5, <1>6, FlagsFrom DEF TermInv

\* Motions of the vi mode cursor.
LEMMA MotionKeeps ==
  ASSUME TermInv, UNCHANGED load, vi_motion
  PROVE  TermInv'
  <1> USE TermFacts
  <1>1. PICK line \in MotionTargets : vi_goto_point(line)
    BY DEF vi_motion
  <1>2. line \in Int
    BY DEF MotionTargets, topmost_line, bottommost_line
  <1>3. Kept(grid, scroll_to_point(line))
    <2>1. Kept(grid, grid)
      BY DEF Kept
    <2> QED
      BY <1>2, <2>1, DisplayedKept DEF scroll_to_point
  <1> QED
    BY <1>1, <1>2, <1>3, GridChanged DEF vi_goto_point, Unscrolled

\* scroll_up_relative, from any line.
LEMMA ScrollUpRelative ==
  ASSUME TermInv, NEW origin \in Int, NEW count \in Nat,
         scroll_up_relative(origin, count)
  PROVE  Kept(grid, grid') /\ vi_mode_cursor' \in Int
  <1> USE TermFacts
  <1> DEFINE n == Least(count, RegionSize)
             g == ScrolledUp(grid, origin, scroll_region.end, n)
  <1>1. n \in Nat
    BY DEF Least, RegionSize
  <1>2. Kept(grid, g)
    BY <1>1, ScrolledUpKept
  <1>3. g.offset \in Int
    BY <1>2, SoundFacts DEF Kept
  <1>4. /\ grid' = g
        /\ vi_mode_cursor' = LET top == IF origin = 0 THEN -g.offset ELSE origin
                             IN  IF top <= vi_mode_cursor /\ vi_mode_cursor < scroll_region.end
                                 THEN Greatest(vi_mode_cursor - n, top)
                                 ELSE vi_mode_cursor
    BY DEF scroll_up_relative
  <1> HIDE DEF g, n
  <1> QED
    BY <1>1, <1>2, <1>3, <1>4 DEF Greatest

\* scroll_down_relative moves the vi mode cursor only.
LEMMA ScrollDownRelative ==
  ASSUME TermInv, NEW origin \in Int, NEW count \in Nat,
         scroll_down_relative(origin, count)
  PROVE  vi_mode_cursor' \in Int
  BY TermFacts DEF scroll_down_relative, Least, RegionSize

\* Scrolling and moving the cursor, by escape sequences.
LEMMA ScrollKeeps ==
  ASSUME TermInv, UNCHANGED load,
         \/ \E count \in 1 .. grid.lines : scroll_up(count)
         \/ \E count \in 1 .. grid.lines : scroll_down(count)
         \/ \E count \in 1 .. grid.lines : insert_blank_lines(count)
         \/ \E count \in 1 .. grid.lines : delete_lines(count)
         \/ linefeed
         \/ reverse_index
         \/ \E line \in 0 .. grid.lines : goto(line)
         \/ save_cursor_position
         \/ restore_cursor_position
  PROVE  TermInv'
  <1> USE TermFacts
  <1> SUFFICES Kept(grid, grid') /\ vi_mode_cursor' \in Int /\ Unscrolled
    BY GridChanged
  <1>0. Kept(grid, grid)
    BY DEF Kept
  <1>1. ASSUME NEW count \in 1 .. grid.lines, scroll_up(count)
        PROVE  Kept(grid, grid') /\ vi_mode_cursor' \in Int /\ Unscrolled
    BY <1>1, ScrollUpRelative DEF scroll_up
  <1>2. ASSUME NEW count \in 1 .. grid.lines, scroll_down(count)
        PROVE  Kept(grid, grid') /\ vi_mode_cursor' \in Int /\ Unscrolled
    BY <1>0, <1>2, ScrollDownRelative DEF scroll_down
  <1>3. ASSUME NEW count \in 1 .. grid.lines, insert_blank_lines(count)
        PROVE  Kept(grid, grid') /\ vi_mode_cursor' \in Int /\ Unscrolled
    BY <1>0, <1>3, ScrollDownRelative DEF insert_blank_lines
  <1>4. ASSUME NEW count \in 1 .. grid.lines, delete_lines(count)
        PROVE  Kept(grid, grid') /\ vi_mode_cursor' \in Int /\ Unscrolled
    <2>1. Least(grid.lines - grid.cursor, count) \in Nat
      BY DEF Least
    <2> QED
      BY <1>4, <2>1, ScrollUpRelative DEF delete_lines
  <1>5. CASE linefeed
    <2>1. CASE scroll_up_relative(scroll_region.start, 1)
      BY <1>5, <2>1, ScrollUpRelative DEF linefeed
    <2>2. CASE /\ grid' = CursorAt(grid, Least(grid.cursor + 1, bottommost_line(grid)))
               /\ UNCHANGED vi_mode_cursor
      <3>1. Least(grid.cursor + 1, bottommost_line(grid)) \in 0 .. (grid.lines - 1)
        BY DEF Least, bottommost_line
      <3> QED
        BY <1>5, <2>2, <3>1, CursorKept DEF linefeed
    <2> QED
      BY <1>5, <2>1, <2>2 DEF linefeed
  <1>6. CASE reverse_index
    <2>1. CASE scroll_down_relative(scroll_region.start, 1) /\ UNCHANGED grid
      BY <1>0, <1>6, <2>1, ScrollDownRelative DEF reverse_index
    <2>2. CASE /\ grid' = CursorAt(grid, Greatest(grid.cursor - 1, 0))
               /\ UNCHANGED vi_mode_cursor
      <3>1. Greatest(grid.cursor - 1, 0) \in 0 .. (grid.lines - 1)
        BY DEF Greatest
      <3> QED
        BY <1>6, <2>2, <3>1, CursorKept DEF reverse_index
    <2> QED
      BY <1>6, <2>1, <2>2 DEF reverse_index
  <1>7. ASSUME NEW line \in 0 .. grid.lines, goto(line)
        PROVE  Kept(grid, grid') /\ vi_mode_cursor' \in Int /\ Unscrolled
    <2>1. Destination(line, mode, scroll_region) \in 0 .. (grid.lines - 1)
      BY DestinationOn
    <2> QED
      BY <1>7, <2>1, CursorKept DEF goto
  <1>8. CASE save_cursor_position
    BY <1>8, CursorKept DEF save_cursor_position
  <1>9. CASE restore_cursor_position
    BY <1>9, CursorKept DEF restore_cursor_position, CursorAt
  <1> QED
    BY <1>1, <1>2, <1>3, <1>4, <1>5, <1>6, <1>7, <1>8, <1>9

\* The scroll region stays on the screen, and the cursor with it.
LEMMA RegionKeeps ==
  ASSUME TermInv, UNCHANGED load, NEW top \in Nat \ {0}, NEW bottom \in Nat,
         set_scrolling_region(top, bottom)
  PROVE  TermInv'
  <1> USE TermFacts
  <1> DEFINE region == [start |-> Least(top - 1, grid.lines), end |-> Least(bottom, grid.lines)]
  <1>1. /\ top < bottom
        /\ scroll_region' = region
        /\ grid' = CursorAt(grid, Destination(0, mode, scroll_region'))
        /\ UNCHANGED <<inactive_grid, on_alternate, mode, vi_mode_cursor, keyboard, config,
                       panicked>>
    BY DEF set_scrolling_region
  <1>2. /\ region \in [start : Nat, end : Nat]
        /\ region.start <= region.end
        /\ region.end <= grid.lines
    BY <1>1 DEF Least
  <1> HIDE DEF region
  <1>3. Kept(grid, grid')
    <2>1. Destination(0, mode, scroll_region') \in 0 .. (grid.lines - 1)
      BY <1>1, <1>2, DestinationOn
    <2> QED
      BY <1>1, <2>1, CursorKept
  <1>4. ScreensInv'
    BY <1>1, <1>2, <1>3, ScreensFrom DEF TermInv
  <1>5. FlagsInv'
    BY <1>1, FlagsFrom DEF TermInv, FlagsInv
  <1> QED
    BY <1>4, <1>5 DEF TermInv

\* Clearing the screen and the history.
LEMMA ClearKeeps ==
  ASSUME TermInv, UNCHANGED load,
         (\E positions \in 0 .. grid.lines : ClearAll(positions)) \/ ClearSaved
  PROVE  TermInv'
  <1> USE TermFacts
  <1> SUFFICES Kept(grid, grid') /\ vi_mode_cursor' \in Int /\ Unscrolled
    BY GridChanged
  <1>1. ASSUME NEW positions \in 0 .. grid.lines, ClearAll(positions)
        PROVE  Kept(grid, grid') /\ vi_mode_cursor' \in Int /\ Unscrolled
    <2> DEFINE g == Cleared(grid, positions)
    <2>1. Kept(grid, g)
      BY ScrolledUpKept DEF Cleared
    <2>2. /\ topmost_line(g) \in Int /\ bottommost_line(g) \in Int
          /\ vi_mode_cursor - Greatest(g.offset - grid.offset, 0) \in Int
      BY <2>1, SoundFacts DEF Kept, topmost_line, bottommost_line, Greatest
    <2>3. CASE "ALT_SCREEN" \in mode
      BY <1>1, <2>3 DEF ClearAll, Kept
    <2>4. CASE "ALT_SCREEN" \notin mode
      BY <1>1, <2>1, <2>2, <2>4, ClampBetween DEF ClearAll
    <2> QED
      BY <2>3, <2>4
  <1>2. CASE ClearSaved
    <2>1. Clamp(0, vi_mode_cursor, bottommost_line(grid)) \in Int
      <3>1. grid.lines - 1 \in Int /\ 0 \in Int
        OBVIOUS
      <3> QED
        BY <3>1, ClampBetween DEF bottommost_line
    <2> QED
      BY <1>2, <2>1, BlankedKept DEF ClearSaved
  <1> QED
    BY <1>1, <1>2

\* A resize gives both screens the new height.
LEMMA ResizeKeeps ==
  ASSUME TermInv, UNCHANGED load, NEW num_lines \in load.heights, resize(num_lines)
  PROVE  TermInv'
  <1> USE TermFacts
  <1>1. num_lines \in Heights
    BY TermAssumption DEF TermInv, ScreensInv
  <1>2. num_lines \in Nat \ {0}
    BY <1>1, TermAssumption
  <1> DEFINE least == Least(0, num_lines - grid.cursor - 1)
             delta == Least(Greatest(num_lines - grid.lines, least), grid.history)
  <1>3. /\ grid' = Resized(grid, num_lines)
        /\ inactive_grid' = Resized(inactive_grid, num_lines)
        /\ vi_mode_cursor' = InViewport(grid', vi_mode_cursor + delta)
        /\ scroll_region' = [start |-> 0, end |-> num_lines]
        /\ UNCHANGED <<on_alternate, mode, keyboard, config, panicked>>
    BY DEF resize, WholeScreen
  <1>4. delta \in Int
    BY <1>2 DEF Least, Greatest
  <1> HIDE DEF delta
  <1>5. /\ Sound(grid') /\ grid'.lines = num_lines /\ grid'.limit = grid.limit
        /\ grid.limit = 0 /\ grid.offset = 0 => grid'.offset = 0
        /\ Sound(inactive_grid') /\ inactive_grid'.lines = num_lines
        /\ inactive_grid'.limit = inactive_grid.limit
        /\ inactive_grid.limit = 0 /\ inactive_grid.offset = 0 => inactive_grid'.offset = 0
    BY <1>1, <1>3, ResizedSound
  <1>6. vi_mode_cursor' \in Int
    <2>1. -grid'.offset \in Int /\ grid'.lines - 1 - grid'.offset \in Int
      BY <1>5, SoundFacts
    <2>2. vi_mode_cursor + delta \in Int
      BY <1>4
    <2> QED
      BY <1>3, <2>1, <2>2, ClampBetween DEF InViewport, bottommost_line
  <1>7. TypeOK'
    BY <1>2, <1>3, <1>5, <1>6 DEF TermInv, ScreensInv, TypeOK, Sound
  <1>8. HistoryIsPrimary'
    BY <1>3, <1>5, SoundFacts DEF TermInv, ScreensInv, HistoryIsPrimary
  <1>9. ScreensAgree'
    BY <1>2, <1>3, <1>5, SoundFacts DEF ScreensAgree
  <1>10. ScreensInv'
    BY <1>3, <1>5, <1>7, <1>8, <1>9 DEF TermInv, ScreensInv, Sound
  <1>11. FlagsInv'
    BY <1>3, FlagsFrom DEF TermInv, FlagsInv
  <1> QED
    BY <1>10, <1>11 DEF TermInv

\* A reload gives the primary screen the new limit, wherever it is.
LEMMA OptionsKeep ==
  ASSUME TermInv, UNCHANGED load,
         NEW options \in [scrolling_history : load.histories, kitty_keyboard : BOOLEAN],
         set_options(options)
  PROVE  TermInv'
  <1> USE TermFacts
  <1>1. load.histories \subseteq Histories
    BY TermAssumption DEF TermInv, ScreensInv
  <1>2. /\ options \in [scrolling_history : Histories, kitty_keyboard : BOOLEAN]
        /\ options.scrolling_history \in Histories
    BY <1>1
  <1>3. options.scrolling_history \in Nat
    BY <1>2, TermAssumption
  <1> DEFINE changed == options.kitty_keyboard # config.kitty_keyboard
  <1>4. /\ config' = options
        /\ IF "ALT_SCREEN" \in mode
           THEN /\ inactive_grid' = WithHistory(inactive_grid, options.scrolling_history)
                /\ UNCHANGED grid
           ELSE /\ grid' = WithHistory(grid, options.scrolling_history)
                /\ UNCHANGED inactive_grid
        /\ keyboard_mode_stack' = IF changed THEN <<>> ELSE keyboard_mode_stack
        /\ inactive_keyboard_mode_stack' =
             IF changed THEN <<>> ELSE inactive_keyboard_mode_stack
        /\ mode' = IF changed THEN mode \ KITTY_KEYBOARD_PROTOCOL ELSE mode
        /\ UNCHANGED <<on_alternate, scroll_region, vi_mode_cursor, panicked>>
    BY DEF set_options
  <1>5. "ALT_SCREEN" \in mode' <=> "ALT_SCREEN" \in mode
    BY <1>4, FlagsAssumption
  <1>6. ScreensInv'
    <2>1. CASE "ALT_SCREEN" \in mode
      <3>1. /\ Sound(inactive_grid') /\ inactive_grid'.lines = grid.lines
            /\ inactive_grid'.limit = options.scrolling_history /\ grid' = grid
        <4> DEFINE limit == options.scrolling_history
        <4>1. inactive_grid' = WithHistory(inactive_grid, limit) /\ grid' = grid
          BY <1>4, <2>1
        <4> HIDE DEF limit
        <4>2. Sound(inactive_grid) /\ limit \in Nat
          BY <1>3 DEF limit
        <4>3. /\ Sound(WithHistory(inactive_grid, limit))
              /\ WithHistory(inactive_grid, limit).limit = limit
              /\ WithHistory(inactive_grid, limit).lines = inactive_grid.lines
          BY <4>2, WithHistorySound
        <4> QED
          BY <4>1, <4>3 DEF limit
      <3>2. TypeOK'
        BY <1>2, <1>4, <3>1 DEF TermInv, ScreensInv, TypeOK, Sound
      <3>3. HistoryIsPrimary'
        BY <1>4, <1>5, <2>1, <3>1, SoundFacts DEF TermInv, ScreensInv, HistoryIsPrimary
      <3>4. ScreensAgree'
        <4>1. inactive_grid'.cursor \in 0 .. (grid.lines - 1)
              /\ inactive_grid'.saved \in 0 .. (grid.lines - 1)
          BY <3>1, SoundFacts
        <4> QED
          BY <1>4, <3>1, <4>1 DEF ScreensAgree
      <3> QED
        BY <1>4, <3>1, <3>2, <3>3, <3>4 DEF TermInv, ScreensInv, Sound
    <2>2. CASE "ALT_SCREEN" \notin mode
      <3>1. /\ Sound(grid') /\ grid'.lines = grid.lines
            /\ grid'.limit = options.scrolling_history /\ inactive_grid' = inactive_grid
        <4>1. /\ grid' = WithHistory(grid, options.scrolling_history)
              /\ inactive_grid' = inactive_grid
          BY <1>4, <2>2
        <4> QED
          BY <1>3, <4>1, WithHistorySound
      <3>2. TypeOK'
        BY <1>2, <1>4, <3>1 DEF TermInv, ScreensInv, TypeOK, Sound
      <3>3. HistoryIsPrimary'
        BY <1>4, <1>5, <2>2, <3>1, SoundFacts DEF TermInv, ScreensInv, HistoryIsPrimary
      <3>4. ScreensAgree'
        BY <1>4, <3>1, SoundFacts DEF TermInv, ScreensInv, ScreensAgree
      <3> QED
        BY <1>4, <3>1, <3>2, <3>3, <3>4 DEF TermInv, ScreensInv, Sound
    <2> QED
      BY <2>1, <2>2
  <1>7. FlagsInv'
    <2>1. KittyGated'
      BY <1>4 DEF TermInv, FlagsInv, KittyGated, KITTY_KEYBOARD_PROTOCOL
    <2>2. /\ keyboard_mode_stack' \in Seq(KeyboardModes)
          /\ inactive_keyboard_mode_stack' \in Seq(KeyboardModes)
      BY <1>4 DEF TermInv, FlagsInv
    <2>3. Alone(mode', MOUSE_MODE) /\ Alone(mode', ENCODINGS)
      BY <1>4 DEF TermInv, FlagsInv, Alone
    <2> QED
      BY <2>1, <2>2, <2>3 DEF FlagsInv, Alone, MOUSE_MODE, ENCODINGS
  <1> QED
    BY <1>6, <1>7 DEF TermInv

\* Swapping the screens carries the cursor over, and loads the flags of the other
\* screen's stack.
LEMMA SwapKeeps ==
  ASSUME TermInv, UNCHANGED load, swap_alt
  PROVE  TermInv'
  <1> USE TermFacts
  <1> DEFINE entered == "ALT_SCREEN" \notin mode
             top     == Top(inactive_keyboard_mode_stack)
             kept    == WithKeyboardMode(mode, top)
  <1>1. /\ inactive_grid' = IF entered THEN [grid EXCEPT !.saved = grid.cursor] ELSE grid
        /\ grid' = IF entered THEN CursorAt(inactive_grid, grid.cursor) ELSE inactive_grid
        /\ on_alternate' = ~on_alternate
        /\ keyboard_mode_stack' = inactive_keyboard_mode_stack
        /\ inactive_keyboard_mode_stack' = keyboard_mode_stack
        /\ mode' = IF entered THEN kept \cup {"ALT_SCREEN"} ELSE kept \ {"ALT_SCREEN"}
        /\ UNCHANGED <<scroll_region, vi_mode_cursor, config, panicked>>
    BY DEF swap_alt
  <1>2. top \subseteq KITTY_KEYBOARD_PROTOCOL
    BY TopFlags DEF TermInv, FlagsInv
  <1>3. /\ kept \cap KITTY_KEYBOARD_PROTOCOL = top
        /\ kept \cap MOUSE_MODE = mode \cap MOUSE_MODE
        /\ kept \cap ENCODINGS = mode \cap ENCODINGS
    BY <1>2, KeyboardFlags
  <1> HIDE DEF kept, top
  <1>4. /\ mode' \cap KITTY_KEYBOARD_PROTOCOL = top
        /\ mode' \cap MOUSE_MODE = mode \cap MOUSE_MODE
        /\ mode' \cap ENCODINGS = mode \cap ENCODINGS
        /\ "ALT_SCREEN" \in mode' <=> entered
    <2>1. /\ "ALT_SCREEN" \notin KITTY_KEYBOARD_PROTOCOL
          /\ "ALT_SCREEN" \notin MOUSE_MODE /\ "ALT_SCREEN" \notin ENCODINGS
      BY FlagsAssumption DEF MOUSE_MODE, ENCODINGS
    <2> QED
      BY <1>1, <1>3, <2>1
  <1>5. /\ Sound(grid') /\ grid'.lines = grid.lines
        /\ grid'.limit = inactive_grid.limit /\ grid'.history = inactive_grid.history
        /\ grid'.offset = inactive_grid.offset
    <2>1. CASE entered
      <3>1. /\ grid' = CursorAt(inactive_grid, grid.cursor)
            /\ grid.cursor \in 0 .. (inactive_grid.lines - 1)
        BY <1>1, <2>1, SoundFacts
      <3>2. /\ Kept(inactive_grid, CursorAt(inactive_grid, grid.cursor))
            /\ CursorAt(inactive_grid, grid.cursor).history = inactive_grid.history
            /\ CursorAt(inactive_grid, grid.cursor).offset = inactive_grid.offset
        BY <3>1, CursorKept
      <3> QED
        BY <3>1, <3>2 DEF Kept
    <2>2. CASE ~entered
      BY <1>1, <2>2
    <2> QED
      BY <2>1, <2>2
  <1>6. /\ Sound(inactive_grid') /\ inactive_grid'.lines = grid.lines
        /\ inactive_grid'.limit = grid.limit /\ inactive_grid'.history = grid.history
        /\ inactive_grid'.offset = grid.offset
    <2>1. CASE entered
      <3>1. inactive_grid' = [grid EXCEPT !.saved = grid.cursor]
        BY <1>1, <2>1
      <3>2. Kept(grid, inactive_grid')
        BY <3>1, CursorKept
      <3> QED
        BY <3>1, <3>2 DEF Kept, Sound, Grids
    <2>2. CASE ~entered
      BY <1>1, <2>2
    <2> QED
      BY <2>1, <2>2
  <1>7. ScreensInv'
    <2>1. TypeOK'
      BY <1>1, <1>5, <1>6 DEF TermInv, ScreensInv, TypeOK, Sound
    <2>2. HistoryIsPrimary'
      BY <1>1, <1>4, <1>5, <1>6 DEF TermInv, ScreensInv, HistoryIsPrimary
    <2>3. ScreensAgree'
      <3>1. /\ grid'.cursor \in 0 .. (grid.lines - 1) /\ grid'.saved \in 0 .. (grid.lines - 1)
            /\ inactive_grid'.cursor \in 0 .. (grid.lines - 1)
            /\ inactive_grid'.saved \in 0 .. (grid.lines - 1)
        BY <1>5, <1>6, SoundFacts
      <3> QED
        BY <1>1, <1>5, <1>6, <3>1 DEF ScreensAgree
    <2> QED
      BY <1>1, <1>5, <1>6, <2>1, <2>2, <2>3 DEF TermInv, ScreensInv, Sound
  <1>8. FlagsInv'
    <2>1. KittyGated'
      <3>1. inactive_keyboard_mode_stack = <<>> => top = {}
        BY DEF top, Top
      <3> QED
        BY <1>1, <1>4, <3>1 DEF TermInv, FlagsInv, KittyGated, KITTY_KEYBOARD_PROTOCOL
    <2>2. Alone(mode', MOUSE_MODE) /\ Alone(mode', ENCODINGS)
      BY <1>4 DEF TermInv, FlagsInv, Alone
    <2> QED
      BY <1>1, <2>1, <2>2 DEF TermInv, FlagsInv, Alone, MOUSE_MODE, ENCODINGS
  <1> QED
    BY <1>7, <1>8 DEF TermInv

\* Private modes.
LEMMA PrivateModeKeeps ==
  ASSUME TermInv, UNCHANGED load, NEW m, set_private_mode(m) \/ unset_private_mode(m)
  PROVE  TermInv'
  <1> USE TermFacts
  <1>1. CASE swap_alt
    BY <1>1, SwapKeeps
  <1>2. CASE deccolm
    BY <1>2, RegionKeeps DEF deccolm
  <1>3. CASE m \in MOUSE_MODE /\ mode' = (mode \ MOUSE_MODE) \cup {m} /\ FlagsOnly
    <2>1. mode' \cap KITTY_KEYBOARD_PROTOCOL = mode \cap KITTY_KEYBOARD_PROTOCOL
      BY <1>3, FlagsAssumption
    <2>2. "ALT_SCREEN" \in mode' <=> "ALT_SCREEN" \in mode
      BY <1>3 DEF MOUSE_MODE
    <2>3. Alone(mode', MOUSE_MODE)
      BY <1>3 DEF Alone
    <2>4. Alone(mode', ENCODINGS)
      BY <1>3 DEF Alone, TermInv, FlagsInv, MOUSE_MODE, ENCODINGS
    <2> QED
      BY <1>3, <2>1, <2>2, <2>3, <2>4, FlagsChanged
  <1>4. CASE m \in ENCODINGS /\ mode' = (mode \ ENCODINGS) \cup {m} /\ FlagsOnly
    <2>1. mode' \cap KITTY_KEYBOARD_PROTOCOL = mode \cap KITTY_KEYBOARD_PROTOCOL
      BY <1>4, FlagsAssumption
    <2>2. "ALT_SCREEN" \in mode' <=> "ALT_SCREEN" \in mode
      BY <1>4 DEF ENCODINGS
    <2>3. Alone(mode', ENCODINGS)
      BY <1>4 DEF Alone
    <2>4. Alone(mode', MOUSE_MODE)
      BY <1>4 DEF Alone, TermInv, FlagsInv, MOUSE_MODE, ENCODINGS
    <2> QED
      BY <1>4, <2>1, <2>2, <2>3, <2>4, FlagsChanged
  <1>5. CASE m \in PlainModes /\ mode' = mode \cup {m} /\ FlagsOnly
    <2>1. mode' \cap KITTY_KEYBOARD_PROTOCOL = mode \cap KITTY_KEYBOARD_PROTOCOL
      BY <1>5, FlagsAssumption
    <2>2. "ALT_SCREEN" \in mode' <=> "ALT_SCREEN" \in mode
      BY <1>5 DEF PlainModes
    <2>3. Alone(mode', ENCODINGS) /\ Alone(mode', MOUSE_MODE)
      BY <1>5 DEF Alone, TermInv, FlagsInv, MOUSE_MODE, ENCODINGS, PlainModes
    <2> QED
      BY <1>5, <2>1, <2>2, <2>3, FlagsChanged
  <1>6. CASE /\ m = "ORIGIN"
             /\ mode' = mode \cup {m}
             /\ grid' = CursorAt(grid, Destination(0, mode', scroll_region))
             /\ UNCHANGED <<inactive_grid, on_alternate, scroll_region, vi_mode_cursor,
                            keyboard, names, config, panicked>>
    <2>1. Destination(0, mode', scroll_region) \in 0 .. (grid.lines - 1)
      BY DestinationOn
    <2>2. Kept(grid, grid')
      BY <1>6, <2>1, CursorKept
    <2>3. "ALT_SCREEN" \in mode' <=> "ALT_SCREEN" \in mode
      BY <1>6
    <2>4. ScreensInv'
      BY <1>6, <2>2, <2>3, ScreensFrom DEF TermInv, ScreensInv, TypeOK
    <2>5. mode' \cap KITTY_KEYBOARD_PROTOCOL = mode \cap KITTY_KEYBOARD_PROTOCOL
      BY <1>6, FlagsAssumption
    <2>6. Alone(mode', ENCODINGS) /\ Alone(mode', MOUSE_MODE)
      BY <1>6 DEF Alone, TermInv, FlagsInv, MOUSE_MODE, ENCODINGS
    <2> QED
      BY <1>6, <2>4, <2>5, <2>6, FlagsFrom DEF TermInv
  <1>7. CASE /\ m \in MOUSE_MODE \cup ENCODINGS \cup PlainModes \cup {"ORIGIN"}
             /\ mode' = mode \ {m}
             /\ FlagsOnly
    <2>1. mode' \cap KITTY_KEYBOARD_PROTOCOL = mode \cap KITTY_KEYBOARD_PROTOCOL
      BY <1>7, FlagsAssumption
    <2>2. "ALT_SCREEN" \in mode' <=> "ALT_SCREEN" \in mode
      BY <1>7 DEF PlainModes, MOUSE_MODE, ENCODINGS
    <2>3. Alone(mode', ENCODINGS) /\ Alone(mode', MOUSE_MODE)
      BY <1>7 DEF Alone, TermInv, FlagsInv
    <2> QED
      BY <1>7, <2>1, <2>2, <2>3, FlagsChanged
  <1> QED
    BY <1>1, <1>2, <1>3, <1>4, <1>5, <1>6, <1>7 DEF set_private_mode, unset_private_mode

\* Keyboard modes change nothing but the kitty flags and the stack in use.
LEMMA KeyboardChanged ==
  ASSUME TermInv, UNCHANGED load, KeyboardOnly, config.kitty_keyboard,
         UNCHANGED inactive_keyboard_mode_stack, panicked' \in BOOLEAN,
         keyboard_mode_stack' \in Seq(KeyboardModes),
         NEW s, s \subseteq KITTY_KEYBOARD_PROTOCOL,
         mode' = mode \/ mode' = WithKeyboardMode(mode, s)
  PROVE  TermInv'
  <1> USE TermFacts
  <1>1. UNCHANGED <<grid, inactive_grid, on_alternate, scroll_region, vi_mode_cursor, config>>
    BY DEF KeyboardOnly, screens
  <1>2. /\ mode' \cap MOUSE_MODE = mode \cap MOUSE_MODE
        /\ mode' \cap ENCODINGS = mode \cap ENCODINGS
        /\ "ALT_SCREEN" \in mode' <=> "ALT_SCREEN" \in mode
    BY KeyboardFlags
  <1>3. Kept(grid, grid')
    BY <1>1 DEF Kept
  <1>4. scroll_region \in [start : Nat, end : Nat]
    BY DEF TermInv, ScreensInv, TypeOK
  <1>5. ScreensInv'
    BY <1>1, <1>2, <1>3, <1>4, ScreensFrom DEF TermInv
  <1>6. FlagsInv'
    <2>1. Alone(mode', MOUSE_MODE) /\ Alone(mode', ENCODINGS)
      BY <1>2 DEF TermInv, FlagsInv, Alone
    <2>2. KittyGated'
      BY <1>1 DEF KittyGated
    <2> QED
      BY <2>1, <2>2 DEF TermInv, FlagsInv, Alone, MOUSE_MODE, ENCODINGS
  <1> QED
    BY <1>5, <1>6 DEF TermInv

\* The entries that are left by a pop are entries.
LEMMA PopKeepsEntries ==
  ASSUME NEW s \in Seq(KeyboardModes), NEW to_pop \in Nat
  PROVE  SubSeq(s, 1, Greatest(Len(s) - to_pop, 0)) \in Seq(KeyboardModes)
  <1> DEFINE n == Greatest(Len(s) - to_pop, 0)
  <1>1. n \in 0 .. Len(s)
    BY DEF Greatest
  <1> HIDE DEF n
  <1>2. n \in Int /\ \A i \in 1 .. n : s[i] \in KeyboardModes
    BY <1>1
  <1>3. SubSeq(s, 1, n) \in Seq(KeyboardModes)
    BY <1>2, SubSeqProperties
  <1> QED
    BY <1>3 DEF n

\* Keyboard modes.
LEMMA KeyboardKeeps ==
  ASSUME TermInv, UNCHANGED load,
         \/ \E modes \in load.keyboard : push_keyboard_mode(modes)
         \/ \E count \in 1 .. 2 : pop_keyboard_modes(count)
         \/ \E modes \in load.keyboard, apply \in {"Replace", "Union", "Difference"} :
              set_keyboard_mode(modes, apply)
  PROVE  TermInv'
  <1> USE TermFacts
  <1>1. keyboard_mode_stack \in Seq(KeyboardModes)
    BY DEF TermInv, FlagsInv
  <1>2. load.keyboard \subseteq KeyboardModes
    BY TermAssumption DEF TermInv, ScreensInv
  <1>3. ASSUME NEW modes \in load.keyboard
        PROVE  modes \in KeyboardModes /\ modes \subseteq KITTY_KEYBOARD_PROTOCOL
    BY <1>2 DEF KITTY_KEYBOARD_PROTOCOL
  <1>4. ASSUME NEW modes \in load.keyboard, push_keyboard_mode(modes)
        PROVE  TermInv'
    <2>1. Append(keyboard_mode_stack, modes) \in Seq(KeyboardModes)
      BY <1>1, <1>3
    <2>2. /\ config.kitty_keyboard /\ KeyboardOnly
          /\ UNCHANGED inactive_keyboard_mode_stack
          /\ \/ panicked' = TRUE /\ UNCHANGED <<keyboard_mode_stack, mode>>
             \/ /\ keyboard_mode_stack' = Append(keyboard_mode_stack, modes)
                /\ mode' = WithKeyboardMode(mode, modes)
                /\ UNCHANGED panicked
      BY <1>4 DEF push_keyboard_mode
    <2> QED
      BY <1>1, <1>3, <2>1, <2>2, KeyboardChanged
  <1>5. ASSUME NEW count \in 1 .. 2, pop_keyboard_modes(count)
        PROVE  TermInv'
    <2>1. /\ config.kitty_keyboard /\ KeyboardOnly
          /\ UNCHANGED <<inactive_keyboard_mode_stack, panicked>>
          /\ keyboard_mode_stack' =
               SubSeq(keyboard_mode_stack, 1, Greatest(Len(keyboard_mode_stack) - count, 0))
          /\ mode' = WithKeyboardMode(mode, Top(keyboard_mode_stack'))
      BY <1>5 DEF pop_keyboard_modes
    <2>2. keyboard_mode_stack' \in Seq(KeyboardModes)
      <3>1. count \in Nat
        OBVIOUS
      <3>2. SubSeq(keyboard_mode_stack, 1, Greatest(Len(keyboard_mode_stack) - count, 0))
              \in Seq(KeyboardModes)
        BY <1>1, <3>1, PopKeepsEntries
      <3> QED
        BY <2>1, <3>2
    <2>3. Top(keyboard_mode_stack') \subseteq KITTY_KEYBOARD_PROTOCOL
      BY <2>2, TopFlags
    <2> QED
      BY <2>1, <2>2, <2>3, KeyboardChanged
  <1>6. ASSUME NEW modes \in load.keyboard, NEW apply \in {"Replace", "Union", "Difference"},
               set_keyboard_mode(modes, apply)
        PROVE  TermInv'
    <2> DEFINE active == mode \cap KITTY_KEYBOARD_PROTOCOL
               new    == CASE apply = "Replace"    -> modes
                           [] apply = "Union"      -> active \cup modes
                           [] apply = "Difference" -> active \ modes
    <2>1. /\ config.kitty_keyboard /\ KeyboardOnly
          /\ UNCHANGED <<keyboard_mode_stack, inactive_keyboard_mode_stack, panicked>>
          /\ mode' = WithKeyboardMode(mode, new)
      BY <1>6 DEF set_keyboard_mode, keyboard
    <2>2. new \subseteq KITTY_KEYBOARD_PROTOCOL
      <3>1. new \in {modes, active \cup modes, active \ modes}
        OBVIOUS
      <3> QED
        BY <1>3, <3>1
    <2> HIDE DEF new
    <2> QED
      BY <1>1, <2>1, <2>2, KeyboardChanged
  <1> QED
    BY <1>4, <1>5, <1>6

\* Titles are no part of the invariant.
LEMMA TitlesKeep ==
  ASSUME TermInv, UNCHANGED load, TitlesOnly
  PROVE  TermInv'
  <1>1. /\ UNCHANGED <<grid, inactive_grid, on_alternate, mode, scroll_region, vi_mode_cursor,
                       keyboard, config, panicked>>
        /\ UNCHANGED <<keyboard_mode_stack, inactive_keyboard_mode_stack>>
    BY DEF TitlesOnly, screens, keyboard
  <1>2. Kept(grid, grid')
    BY <1>1, TermFacts DEF Kept
  <1>3. ScreensInv'
    BY <1>1, <1>2, TermFacts, ScreensFrom DEF TermInv, ScreensInv, TypeOK
  <1>4. FlagsInv'
    BY <1>1, FlagsFrom DEF TermInv, FlagsInv
  <1> QED
    BY <1>3, <1>4 DEF TermInv

\* A reset.
LEMMA ResetKeeps ==
  ASSUME TermInv, UNCHANGED load, reset_state
  PROVE  TermInv'
  <1> USE TermFacts
  <1> DEFINE back == "ALT_SCREEN" \in mode
  <1>1. /\ grid' = Blanked(IF back THEN inactive_grid ELSE grid)
        /\ inactive_grid' = Blanked(IF back THEN grid ELSE inactive_grid)
        /\ on_alternate' = IF back THEN ~on_alternate ELSE on_alternate
        /\ scroll_region' = [start |-> 0, end |-> grid.lines]
        /\ vi_mode_cursor' = 0
        /\ keyboard_mode_stack' = <<>>
        /\ inactive_keyboard_mode_stack' = <<>>
        /\ mode' = (mode \cap {"VI"}) \cup DefaultMode
        /\ UNCHANGED <<config, panicked>>
    BY DEF reset_state, WholeScreen
  <1>2. mode' \subseteq PlainModes \cup {"VI"}
    BY <1>1 DEF DefaultMode
  <1>3. /\ "ALT_SCREEN" \notin mode'
        /\ mode' \cap KITTY_KEYBOARD_PROTOCOL = {}
        /\ mode' \cap MOUSE_MODE = {} /\ mode' \cap ENCODINGS = {}
    <2>1. mode' \cap KITTY_KEYBOARD_PROTOCOL = {}
      BY <1>2, FlagsAssumption
    <2> QED
      BY <1>2, <2>1 DEF PlainModes, MOUSE_MODE, ENCODINGS
  <1>4. /\ Sound(grid') /\ grid'.lines = grid.lines
        /\ grid'.limit = IF back THEN inactive_grid.limit ELSE grid.limit
        /\ grid'.history = 0 /\ grid'.offset = 0
    BY <1>1, BlankedKept DEF Kept
  <1>5. /\ Sound(inactive_grid') /\ inactive_grid'.lines = grid.lines
        /\ inactive_grid'.limit = IF back THEN grid.limit ELSE inactive_grid.limit
        /\ inactive_grid'.history = 0 /\ inactive_grid'.offset = 0
    BY <1>1, BlankedKept DEF Kept
  <1>6. ScreensInv'
    <2>1. TypeOK'
      BY <1>1, <1>4, <1>5 DEF TermInv, ScreensInv, TypeOK, Sound
    <2>2. HistoryIsPrimary'
      <3>1. grid'.limit \in Nat
        BY <1>4, SoundFacts
      <3>2. grid'.history <= grid'.limit
        BY <1>4, <3>1
      <3>3. on_alternate \in BOOLEAN /\ HistoryIsPrimary
        BY DEF TermInv, ScreensInv
      <3> QED
        BY <1>1, <1>3, <1>4, <1>5, <3>2, <3>3 DEF HistoryIsPrimary
    <2>3. ScreensAgree'
      <3>1. /\ grid'.cursor \in 0 .. (grid.lines - 1) /\ grid'.saved \in 0 .. (grid.lines - 1)
            /\ inactive_grid'.cursor \in 0 .. (grid.lines - 1)
            /\ inactive_grid'.saved \in 0 .. (grid.lines - 1)
        BY <1>4, <1>5, SoundFacts
      <3> QED
        BY <1>1, <1>4, <1>5, <3>1 DEF ScreensAgree
    <2> QED
      BY <1>1, <1>4, <1>5, <2>1, <2>2, <2>3 DEF TermInv, ScreensInv, Sound
  <1>7. FlagsInv'
    <2>1. KittyGated'
      BY <1>1, <1>3 DEF KittyGated, KITTY_KEYBOARD_PROTOCOL
    <2>2. Alone(mode', MOUSE_MODE) /\ Alone(mode', ENCODINGS)
      BY <1>3 DEF Alone
    <2>3. <<>> \in Seq(KeyboardModes)
      OBVIOUS
    <2> QED
      BY <1>1, <2>1, <2>2, <2>3 DEF FlagsInv, Alone, MOUSE_MODE, ENCODINGS
  <1> QED
    BY <1>6, <1>7 DEF TermInv

\* Every step keeps the invariant.
LEMMA TermInvStep == TermInv /\ [Next]_<<vars, load>> => TermInv'
  <1> SUFFICES ASSUME TermInv, [Next]_<<vars, load>> PROVE TermInv'
    OBVIOUS
  <1> USE TermFacts
  <1>1. CASE UNCHANGED <<vars, load>>
    <2>1. TitlesOnly /\ UNCHANGED load
      BY <1>1 DEF TitlesOnly, vars
    <2> QED
      BY <2>1, TitlesKeep
  <1>2. CASE Next
    <2>1. UNCHANGED load
      BY <1>2 DEF Next
    <2>2. CASE UserStep
      BY <2>1, <2>2, DisplayKeeps, ToggleKeeps, MotionKeeps, ResizeKeeps, OptionsKeep
      DEF UserStep
    <2>3. CASE ScreenStep
      <3>1. ASSUME NEW top \in 1 .. (grid.lines + 1), NEW bottom \in 1 .. (grid.lines + 2),
                   set_scrolling_region(top, bottom)
            PROVE  TermInv'
        <4>1. top \in Nat \ {0} /\ bottom \in Nat
          OBVIOUS
        <4> QED
          BY <2>1, <3>1, <4>1, RegionKeeps
      <3> QED
        BY <2>1, <2>3, <3>1, ScrollKeeps, ClearKeeps DEF ScreenStep
    <2>4. CASE ModeStep
      BY <2>1, <2>4, PrivateModeKeeps, KeyboardKeeps, TitlesKeep, ResetKeeps
      DEF ModeStep, set_title, push_title, pop_title
    <2> QED
      BY <1>2, <2>2, <2>3, <2>4 DEF Next, Step
  <1> QED
    BY <1>1, <1>2

-----------------------------------------------------------------------------
(* The vi mode cursor.                                                     *)

\* What a step may assume of it.
Placed == ViCursorIn(grid) /\ grid.offset <= grid.history

\* The displayed lines are lines of the grid.
LEMMA ViewportIn ==
  ASSUME NEW g, Sound(g), g.offset <= g.history, NEW line \in Int
  PROVE  InViewport(g, line) \in topmost_line(g) .. bottommost_line(g)
  <1> USE SoundFacts
  <1>1. /\ -g.offset \in Int /\ g.lines - 1 - g.offset \in Int
        /\ -g.offset <= g.lines - 1 - g.offset
    OBVIOUS
  <1>2. InViewport(g, line) \in -g.offset .. (g.lines - 1 - g.offset)
    BY <1>1, ClampBetween DEF InViewport, bottommost_line
  <1> QED
    BY <1>1, <1>2 DEF topmost_line, bottommost_line

\* A step that moves neither the cursor nor the top of the grid.
LEMMA PlacedStays ==
  ASSUME TermInv, Placed, UNCHANGED vi_mode_cursor,
         grid'.history = grid.history, grid'.lines = grid.lines
  PROVE  ViCursorIn(grid)'
  BY DEF Placed, ViCursorIn, topmost_line, bottommost_line

\* The user moves the display or the cursor.
LEMMA DisplayPlaces ==
  ASSUME TermInv, Placed, grid.lines > 1,
         \/ \E count \in {-1, 1, grid.lines, grid.history} :
              scroll_display(Displayed(grid, count))
         \/ scroll_display(PagedDown(grid))
         \/ scroll_display([grid EXCEPT !.offset = 0])
         \/ toggle_vi_mode
         \/ vi_motion
  PROVE  ViCursorIn(grid)'
  <1> USE TermFacts
  <1>1. ASSUME NEW g, Sound(g), g.offset <= g.history, scroll_display(g)
        PROVE  ViCursorIn(grid)'
    <2>1. grid' = g /\ vi_mode_cursor' = InViewport(g, vi_mode_cursor)
      BY <1>1 DEF scroll_display
    <2> QED
      BY <1>1, <2>1, ViewportIn DEF ViCursorIn, topmost_line, bottommost_line
  <1>2. ASSUME NEW count \in {-1, 1, grid.lines, grid.history},
               scroll_display(Displayed(grid, count))
        PROVE  ViCursorIn(grid)'
    <2>1. count \in Int
      OBVIOUS
    <2> QED
      BY <1>1, <1>2, <2>1, DisplayedKept DEF Kept
  <1>3. ASSUME scroll_display(PagedDown(grid))
        PROVE  ViCursorIn(grid)'
    <2>1. /\ Sound(PagedDown(grid))
          /\ PagedDown(grid).offset <= grid.offset /\ PagedDown(grid).history = grid.history
      BY PagedDownKept DEF Kept
    <2>2. PagedDown(grid).offset <= PagedDown(grid).history
      BY <2>1, SoundFacts DEF Placed
    <2> QED
      BY <1>1, <1>3, <2>1, <2>2
  <1>4. ASSUME scroll_display([grid EXCEPT !.offset = 0])
        PROVE  ViCursorIn(grid)'
    <2> DEFINE g == [grid EXCEPT !.offset = 0]
    <2>1. Sound(g)
      BY CursorKept DEF Kept
    <2>2. g.offset = 0
      BY DEF Sound, Grids
    <2>3. g.offset <= g.history
      BY <2>1, <2>2, SoundFacts
    <2> HIDE DEF g
    <2> QED
      BY <1>1, <1>4, <2>1, <2>3 DEF g
  <1>5. ASSUME toggle_vi_mode
        PROVE  ViCursorIn(grid)'
    <2>1. UNCHANGED grid
      BY <1>5 DEF toggle_vi_mode, screens
    <2> QED
      BY <1>5, <2>1 DEF toggle_vi_mode, Placed, ViCursorIn, topmost_line, bottommost_line
  <1>6. ASSUME vi_motion
        PROVE  ViCursorIn(grid)'
    <2>1. PICK line \in MotionTargets : vi_goto_point(line)
      BY <1>6 DEF vi_motion
    <2>2. grid.lines \div 2 \in 1 .. grid.lines
      OBVIOUS
    <2>3. line \in topmost_line(grid) .. bottommost_line(grid)
      BY <2>2 DEF MotionTargets, Placed, topmost_line, bottommost_line
    <2>4. line \in Int
      BY <2>3 DEF topmost_line, bottommost_line
    <2>5. /\ scroll_to_point(line).history = grid.history
          /\ scroll_to_point(line).lines = grid.lines
      <3>1. ASSUME NEW count \in Int
            PROVE  /\ Displayed(grid, count).history = grid.history
                   /\ Displayed(grid, count).lines = grid.lines
        BY DisplayedKept DEF Kept
      <3> QED
        BY <2>4, <3>1 DEF scroll_to_point
    <2> QED
      BY <2>1, <2>3, <2>5 DEF vi_goto_point, ViCursorIn, topmost_line, bottommost_line
  <1> QED
    BY <1>2, <1>3, <1>4, <1>5, <1>6

\* Scrolling a region up takes the cursor along, no further than the region's top or,
\* if the region reaches into the history, the display's.
LEMMA ScrollUpPlaces ==
  ASSUME TermInv, Placed, NEW origin \in Nat, NEW count \in Nat,
         scroll_up_relative(origin, count)
  PROVE  ViCursorIn(grid)'
  <1> USE TermFacts
  <1> DEFINE n   == Least(count, RegionSize)
             g   == ScrolledUp(grid, origin, scroll_region.end, n)
             top == IF origin = 0 THEN -g.offset ELSE origin
  <1>1. n \in Nat
    BY DEF Least, RegionSize
  <1>2. /\ grid' = g
        /\ vi_mode_cursor' = IF top <= vi_mode_cursor /\ vi_mode_cursor < scroll_region.end
                             THEN Greatest(vi_mode_cursor - n, top)
                             ELSE vi_mode_cursor
    BY DEF scroll_up_relative
  <1> HIDE DEF n
  <1>3. /\ Sound(g) /\ g.lines = grid.lines
        /\ g.history >= grid.history
        /\ origin = 0 => g.offset <= g.history
    BY <1>1, ScrolledUpKept DEF Kept, Placed
  <1>4. g.history \in Nat /\ g.offset \in Nat
    BY <1>3, SoundFacts
  <1> HIDE DEF g
  <1>5. top \in Int /\ top >= -g.history
    BY <1>3, <1>4
  <1> HIDE DEF top
  <1>6. vi_mode_cursor \in -grid.history .. (grid.lines - 1)
    BY DEF Placed, ViCursorIn, topmost_line, bottommost_line
  <1>7. vi_mode_cursor' \in -g.history .. (grid.lines - 1)
    BY <1>1, <1>2, <1>3, <1>4, <1>5, <1>6 DEF Greatest
  <1> QED
    BY <1>2, <1>3, <1>7 DEF ViCursorIn, topmost_line, bottommost_line

\* Scrolling a region down takes the cursor along, no further than the region's end.
LEMMA ScrollDownPlaces ==
  ASSUME TermInv, Placed, NEW origin \in Nat, NEW count \in Nat,
         scroll_down_relative(origin, count), UNCHANGED grid
  PROVE  ViCursorIn(grid)'
  <1> USE TermFacts
  <1> DEFINE n == Least(Least(count, RegionSize), scroll_region.end - origin)
  <1>1. n \in Int /\ (origin < scroll_region.end => n >= 0)
    BY DEF Least, RegionSize
  <1>2. vi_mode_cursor' = IF origin <= vi_mode_cursor /\ vi_mode_cursor < scroll_region.end
                          THEN Least(vi_mode_cursor + n, scroll_region.end - 1)
                          ELSE vi_mode_cursor
    BY DEF scroll_down_relative
  <1> HIDE DEF n
  <1> QED
    BY <1>1, <1>2 DEF Placed, ViCursorIn, topmost_line, bottommost_line, Least

\* Escape sequences about the screen.
LEMMA ScreenPlaces ==
  ASSUME TermInv, Placed, ScreenStep
  PROVE  ViCursorIn(grid)'
  <1> USE TermFacts
  <1>1. ASSUME NEW count \in 1 .. grid.lines,
               scroll_up(count) \/ scroll_down(count) \/ insert_blank_lines(count)
                 \/ delete_lines(count)
        PROVE  ViCursorIn(grid)'
    <2>1. count \in Nat /\ Least(grid.lines - grid.cursor, count) \in Nat
          /\ grid.cursor \in Nat
      BY DEF Least
    <2> QED
      BY <1>1, <2>1, ScrollUpPlaces, ScrollDownPlaces
      DEF scroll_up, scroll_down, insert_blank_lines, delete_lines
  <1>2. ASSUME NEW line, grid' = CursorAt(grid, line), UNCHANGED vi_mode_cursor
        PROVE  ViCursorIn(grid)'
    <2>1. grid'.history = grid.history /\ grid'.lines = grid.lines
      BY <1>2 DEF CursorAt, Sound, Grids
    <2> QED
      BY <1>2, <2>1, PlacedStays
  <1>3. CASE linefeed
    BY <1>2, <1>3, ScrollUpPlaces DEF linefeed
  <1>4. CASE reverse_index
    BY <1>2, <1>4, ScrollDownPlaces DEF reverse_index
  <1>5. CASE save_cursor_position
    <2>1. grid'.history = grid.history /\ grid'.lines = grid.lines
      BY <1>5 DEF save_cursor_position, Sound, Grids
    <2> QED
      BY <1>5, <2>1, PlacedStays DEF save_cursor_position
  <1>6. CASE restore_cursor_position
    BY <1>2, <1>6 DEF restore_cursor_position, CursorAt
  <1>7. ASSUME NEW positions \in 0 .. grid.lines, ClearAll(positions)
        PROVE  ViCursorIn(grid)'
    <2> DEFINE g     == Cleared(grid, positions)
               moved == Greatest(g.offset - grid.offset, 0)
    <2>1. Sound(g)
      BY ScrolledUpKept DEF Cleared, Kept
    <2> HIDE DEF g
    <2>2. /\ topmost_line(g) \in Int /\ bottommost_line(g) \in Int
          /\ topmost_line(g) <= bottommost_line(g)
          /\ vi_mode_cursor - moved \in Int
      BY <2>1, SoundFacts DEF topmost_line, bottommost_line, Greatest
    <2> HIDE DEF moved
    <2>3. CASE "ALT_SCREEN" \in mode
      BY <1>7, <2>3, PlacedStays DEF ClearAll
    <2>4. CASE "ALT_SCREEN" \notin mode
      <3>1. /\ grid' = g
            /\ vi_mode_cursor' = Clamp(topmost_line(g), vi_mode_cursor - moved,
                                      bottommost_line(g))
        BY <1>7, <2>4 DEF ClearAll, g, moved
      <3> QED
        BY <2>2, <3>1, ClampBetween DEF ViCursorIn, topmost_line, bottommost_line
    <2> QED
      BY <2>3, <2>4
  <1>8. CASE ClearSaved
    <2>1. /\ grid' = WithoutHistory(grid)
          /\ vi_mode_cursor' = Clamp(0, vi_mode_cursor, bottommost_line(grid))
      BY <1>8 DEF ClearSaved
    <2>2. grid'.history = 0 /\ grid'.lines = grid.lines
      BY <2>1, BlankedKept DEF Kept
    <2>3. vi_mode_cursor' \in 0 .. (grid.lines - 1)
      BY <2>1 DEF bottommost_line, Clamp, Least, Greatest
    <2> QED
      BY <2>2, <2>3 DEF ViCursorIn, topmost_line, bottommost_line
  <1>9. ASSUME NEW top \in 1 .. (grid.lines + 1), NEW bottom \in 1 .. (grid.lines + 2),
               set_scrolling_region(top, bottom)
        PROVE  ViCursorIn(grid)'
    BY <1>2, <1>9 DEF set_scrolling_region
  <1>10. ASSUME NEW line \in 0 .. grid.lines, goto(line)
         PROVE  ViCursorIn(grid)'
    BY <1>2, <1>10 DEF goto
  <1> QED
    BY <1>1, <1>3, <1>4, <1>5, <1>6, <1>7, <1>8, <1>9, <1>10 DEF ScreenStep

\* Escape sequences about modes and titles.  A swap changes the screen.
LEMMA ModePlaces ==
  ASSUME TermInv, Placed, UNCHANGED on_alternate, ModeStep
  PROVE  ViCursorIn(grid)'
  <1> USE TermFacts
  <1>1. ~swap_alt
    BY DEF swap_alt, TermInv, ScreensInv
  <1>2. ASSUME NEW line, grid' = CursorAt(grid, line), UNCHANGED vi_mode_cursor
        PROVE  ViCursorIn(grid)'
    <2>1. grid'.history = grid.history /\ grid'.lines = grid.lines
      BY <1>2 DEF CursorAt, Sound, Grids
    <2> QED
      BY <1>2, <2>1, PlacedStays
  <1>3. CASE UNCHANGED <<grid, vi_mode_cursor>>
    BY <1>3, PlacedStays
  <1>4. ASSUME NEW m, set_private_mode(m) \/ unset_private_mode(m)
        PROVE  ViCursorIn(grid)'
    BY <1>1, <1>2, <1>3, <1>4
    DEF set_private_mode, unset_private_mode, deccolm, set_scrolling_region, FlagsOnly, screens
  <1>5. CASE reset_state
    <2>1. "ALT_SCREEN" \notin mode
      BY <1>5 DEF reset_state, TermInv, ScreensInv
    <2>2. grid' = Blanked(grid) /\ vi_mode_cursor' = 0
      BY <1>5, <2>1 DEF reset_state
    <2>3. grid'.history = 0 /\ grid'.lines = grid.lines
      BY <2>2, BlankedKept DEF Kept
    <2> QED
      BY <2>2, <2>3 DEF ViCursorIn, topmost_line, bottommost_line
  <1> QED
    BY <1>3, <1>4, <1>5 DEF ModeStep, push_keyboard_mode, pop_keyboard_modes,
       set_keyboard_mode, KeyboardOnly, set_title, push_title, pop_title, TitlesOnly, screens

-----------------------------------------------------------------------------
(* The keyboard.                                                           *)

\* The flags of the new top of the stack in use are active when the stack changes.
LEMMA StepLoads ==
  ASSUME TermInv, Next, keyboard_mode_stack' # keyboard_mode_stack
  PROVE  mode' \cap KITTY_KEYBOARD_PROTOCOL = Top(keyboard_mode_stack')
  <1> USE TermFacts
  <1> DEFINE Loaded == mode' \cap KITTY_KEYBOARD_PROTOCOL = Top(keyboard_mode_stack')
  <1>1. /\ keyboard_mode_stack' \in Seq(KeyboardModes)
        /\ Top(keyboard_mode_stack') \subseteq KITTY_KEYBOARD_PROTOCOL
    <2>1. TermInv'
      BY TermInvStep
    <2>2. keyboard_mode_stack' \in Seq(KeyboardModes)
      BY <2>1 DEF TermInv, FlagsInv
    <2> QED
      BY <2>2, TopFlags
  <1>2. ASSUME mode' = WithKeyboardMode(mode, Top(keyboard_mode_stack'))
        PROVE  Loaded
    BY <1>1, <1>2, KeyboardFlags
  <1>3. CASE swap_alt
    <2>1. keyboard_mode_stack' = inactive_keyboard_mode_stack
      BY <1>3 DEF swap_alt
    <2> DEFINE kept == WithKeyboardMode(mode, Top(keyboard_mode_stack'))
    <2>2. mode' = kept \cup {"ALT_SCREEN"} \/ mode' = kept \ {"ALT_SCREEN"}
      BY <1>3, <2>1 DEF swap_alt
    <2>3. kept \cap KITTY_KEYBOARD_PROTOCOL = Top(keyboard_mode_stack')
      BY <1>1, KeyboardFlags
    <2>4. "ALT_SCREEN" \notin KITTY_KEYBOARD_PROTOCOL
      BY FlagsAssumption
    <2> HIDE DEF kept
    <2> QED
      BY <2>2, <2>3, <2>4
  <1>4. CASE keyboard_mode_stack' = <<>> /\ mode' \cap KITTY_KEYBOARD_PROTOCOL = {}
    BY <1>4 DEF Top
  <1>5. ASSUME NEW options, set_options(options)
        PROVE  Loaded
    <2>1. keyboard_mode_stack' = <<>> /\ mode' = mode \ KITTY_KEYBOARD_PROTOCOL
      BY <1>5 DEF set_options
    <2>2. mode' \cap KITTY_KEYBOARD_PROTOCOL = {}
      BY <2>1
    <2> QED
      BY <1>4, <2>1, <2>2
  <1>6. CASE reset_state
    <2>1. /\ keyboard_mode_stack' = <<>>
          /\ mode' \subseteq PlainModes \cup {"VI"}
      BY <1>6 DEF reset_state, DefaultMode
    <2>2. mode' \cap KITTY_KEYBOARD_PROTOCOL = {}
      BY <2>1, FlagsAssumption
    <2> QED
      BY <1>4, <2>1, <2>2
  <1>7. ASSUME NEW modes \in load.keyboard, push_keyboard_mode(modes)
        PROVE  Loaded
    <2>1. /\ keyboard_mode_stack' = Append(keyboard_mode_stack, modes)
          /\ mode' = WithKeyboardMode(mode, modes)
      BY <1>7 DEF push_keyboard_mode
    <2>2. keyboard_mode_stack \in Seq(KeyboardModes) /\ modes \in KeyboardModes
      <3>1. load.keyboard \subseteq KeyboardModes
        BY TermAssumption DEF TermInv, ScreensInv
      <3> QED
        BY <3>1 DEF TermInv, FlagsInv
    <2>3. Top(keyboard_mode_stack') = modes
      <3> DEFINE s == keyboard_mode_stack
      <3>1. Len(Append(s, modes)) = Len(s) + 1 /\ Append(s, modes)[Len(s) + 1] = modes
        BY <2>2, AppendProperties
      <3>2. Append(s, modes) # <<>>
        BY <2>2, AppendProperties
      <3> QED
        BY <2>1, <3>1, <3>2 DEF Top
    <2> QED
      BY <1>2, <2>1, <2>3
  <1>8. ASSUME NEW count, pop_keyboard_modes(count)
        PROVE  Loaded
    BY <1>2, <1>8 DEF pop_keyboard_modes
  <1>9. CASE UserStep
    BY <1>5, <1>9 DEF UserStep, scroll_display, toggle_vi_mode, vi_motion, vi_goto_point,
       resize, keyboard
  <1>10. ~ScreenStep
    BY DEF ScreenStep, scroll_up, scroll_down, insert_blank_lines, delete_lines, linefeed,
       reverse_index, goto, save_cursor_position, restore_cursor_position,
       set_scrolling_region, ClearAll, ClearSaved, Unscrolled, keyboard
  <1>11. ASSUME NEW m, set_private_mode(m) \/ unset_private_mode(m)
         PROVE  Loaded
    BY <1>3, <1>11 DEF set_private_mode, unset_private_mode, deccolm, set_scrolling_region,
       FlagsOnly, keyboard
  <1>12. CASE ModeStep
    BY <1>6, <1>7, <1>8, <1>11, <1>12 DEF ModeStep, set_keyboard_mode, set_title, push_title,
       pop_title, TitlesOnly, keyboard
  <1> QED
    BY <1>9, <1>10, <1>12 DEF Next, Step

-----------------------------------------------------------------------------
(* The theorems.                                                           *)

\* Flags that are alone are at most one.
LEMMA AloneCount ==
  ASSUME NEW flags, NEW set, Alone(flags, set)
  PROVE  Cardinality(flags \cap set) <= 1
  <1>1. CASE flags \cap set = {}
    BY <1>1, FS_EmptySet
  <1>2. ASSUME NEW a \in flags \cap set
        PROVE  Cardinality(flags \cap set) <= 1
    <2>1. flags \cap set = {a}
      BY <1>2 DEF Alone
    <2>2. Cardinality({a}) = 1
      BY FS_Singleton
    <2> QED
      BY <2>1, <2>2
  <1> QED
    BY <1>1, <1>2

\* The inductive invariant.
THEOREM TermInvAlways == Spec => []TermInv
  BY TermInvInit, TermInvStep, PTL DEF Spec

\* The scrollback is the primary screen's, through swaps, resets, resizes and reloads on
\* either screen, whatever the heights and the history options are.
THEOREM HistoryAlwaysPrimary == Spec => []HistoryIsPrimary
  <1>1. TermInv => HistoryIsPrimary
    BY DEF TermInv, ScreensInv
  <1> QED
    BY <1>1, TermInvAlways, PTL

\* Both screens have one height, and the region and the four cursors are inside it:
\* rows are indexed by them unchecked.
THEOREM ScreensAlwaysAgree == Spec => []ScreensAgree
  <1>1. TermInv => ScreensAgree
    BY DEF TermInv, ScreensInv
  <1> QED
    BY <1>1, TermInvAlways, PTL

\* With kitty_keyboard off no kitty flag is on, and no stack holds one to load later.
THEOREM KittyAlwaysGated == Spec => []KittyGated
  <1>1. TermInv => KittyGated
    BY DEF TermInv, FlagsInv
  <1> QED
    BY <1>1, TermInvAlways, PTL

\* At most one mouse protocol and one mouse encoding are on.
THEOREM MouseAlwaysExclusive == Spec => []MouseExclusive
  <1>1. TermInv => MouseExclusive
    BY AloneCount DEF TermInv, FlagsInv, MouseExclusive
  <1> QED
    BY <1>1, TermInvAlways, PTL

\* A push, a pop, a screen swap, a reload and a reset leave the flags of the top entry of
\* the stack active, for every set of flags and every depth.
THEOREM KeyboardModeAlwaysLoaded == Spec => KeyboardModeLoaded
  <1>1. TermInv /\ [Next]_<<vars, load>> =>
          [keyboard_mode_stack' # keyboard_mode_stack =>
             mode' \cap KITTY_KEYBOARD_PROTOCOL = Top(keyboard_mode_stack')]_vars
    BY StepLoads DEF vars, keyboard
  <1> QED
    BY <1>1, TermInvAlways, PTL DEF Spec, KeyboardModeLoaded

\* Scrolling, clearing, resizing and moving the display keep the vi mode cursor in the
\* grid, for every height and history.
THEOREM ViCursorAlwaysKept == Spec => ViCursorKept
  <1>1. TermInv /\ [Next]_<<vars, load>> =>
          [(/\ ViCursorIn(grid)
            /\ grid.offset <= grid.history
            /\ on_alternate' = on_alternate
            /\ config'.scrolling_history >= config.scrolling_history
            /\ grid.lines > 1)
           => ViCursorIn(grid)']_vars
    <2> SUFFICES ASSUME TermInv, Next, Placed, UNCHANGED on_alternate,
                        config'.scrolling_history >= config.scrolling_history,
                        grid.lines > 1
                 PROVE  ViCursorIn(grid)'
      BY DEF vars, Placed
    <2> USE TermFacts
    <2>1. ASSUME NEW lines \in load.heights, resize(lines)
          PROVE  ViCursorIn(grid)'
      <3> DEFINE least == Least(0, lines - grid.cursor - 1)
                 delta == Least(Greatest(lines - grid.lines, least), grid.history)
                 g     == Resized(grid, lines)
      <3>1. lines \in Heights
        BY TermAssumption DEF TermInv, ScreensInv
      <3>2. lines \in Nat
        BY <3>1, TermAssumption
      <3>3. vi_mode_cursor + delta \in Int
        BY <3>2 DEF Least, Greatest
      <3>4. Sound(g) /\ g.offset <= g.history
        BY <3>1, ResizedSound DEF Placed
      <3>5. grid' = g /\ vi_mode_cursor' = InViewport(g, vi_mode_cursor + delta)
        BY <2>1 DEF resize
      <3> HIDE DEF g, delta
      <3> QED
        BY <3>3, <3>4, <3>5, ViewportIn DEF ViCursorIn, topmost_line, bottommost_line
    <2>2. ASSUME NEW options \in [scrolling_history : load.histories, kitty_keyboard : BOOLEAN],
                 set_options(options)
          PROVE  ViCursorIn(grid)'
      <3>1. options.scrolling_history \in Nat /\ options.scrolling_history = config'.scrolling_history
        BY <2>2, TermAssumption DEF TermInv, ScreensInv, set_options
      <3>2. CASE "ALT_SCREEN" \in mode
        BY <2>2, <3>2, PlacedStays DEF set_options
      <3>3. CASE "ALT_SCREEN" \notin mode
        <4>1. /\ grid' = WithHistory(grid, options.scrolling_history)
              /\ UNCHANGED vi_mode_cursor
          BY <2>2, <3>3 DEF set_options
        <4>2. options.scrolling_history >= grid.limit
          BY <3>1, <3>3 DEF TermInv, ScreensInv, HistoryIsPrimary
        <4>3. grid'.history = grid.history /\ grid'.lines = grid.lines
          BY <3>1, <4>1, <4>2, WithHistorySound
        <4> QED
          BY <4>1, <4>3, PlacedStays
      <3> QED
        BY <3>2, <3>3
    <2> QED
      BY <2>1, <2>2, DisplayPlaces, ScreenPlaces, ModePlaces DEF Next, Step, UserStep
  <1> QED
    BY <1>1, TermInvAlways, PTL DEF Spec, ViCursorKept

=============================================================================
