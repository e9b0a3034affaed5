----------------------------- MODULE Keyboard ------------------------------
(***************************************************************************)
(* The keyboard: what a key sends to the application (input/keyboard.rs),  *)
(* the default bindings that come before that (config/bindings.rs), and    *)
(* the modes the bindings switch.                                          *)
(*                                                                         *)
(* A key is a record.  A character key has an empty name and the code      *)
(* points of its two characters; the function keys have the name "F" and   *)
(* their number.  What is sent is a record of the parts of the sequence    *)
(* rather than its bytes: 0 stands for a part that is left out.            *)
(***************************************************************************)
EXTENDS Integers, Sequences, FiniteSets

CONSTANTS Keys,       \* [name, plain, shifted, location]
          Modifiers,  \* sets of modifiers held
          Modes       \* the modes of the terminal that are switched

VARIABLE keyboard     \* [modes, search, hint]

KittyModes == {"DISAMBIGUATE_ESC_CODES", "REPORT_EVENT_TYPES", "REPORT_ALTERNATE_KEYS",
               "REPORT_ALL_KEYS_AS_ESC", "REPORT_ASSOCIATED_TEXT"}

KeyboardInit == keyboard = [modes |-> {}, search |-> FALSE, hint |-> FALSE]

-----------------------------------------------------------------------------
(* The keyboard layout, as winit reports it.                               *)

\* A composed character: its text is two characters.
Composed(key) == key.name = "" /\ key.plain = 0

logical(key, mods) == IF "SHIFT" \in mods THEN key.shifted ELSE key.plain

to_text == [Tab |-> 9, Enter |-> 13, Escape |-> 27, Space |-> 32, Backspace |-> 8]

text_with_all_modifiers(key, mods) ==
  LET c == logical(key, mods)
  IN  CASE key.name \in DOMAIN to_text -> <<to_text[key.name]>>
        [] key.name # "" /\ key.name \notin DOMAIN to_text -> <<>>
        [] Composed(key) -> <<94, 101>>
        [] OTHER -> <<IF "CONTROL" \in mods /\ (c \in 64 .. 127 \/ c = 50) THEN c % 32 ELSE c>>

\* Key::Character(ch.to_lowercase()).
lowercase(c) == IF c \in 65 .. 90 THEN c + 32 ELSE c

-----------------------------------------------------------------------------
(* The default bindings.                                                   *)

Sent(text, base, end) ==
  [text |-> text, base |-> base, alternate |-> 0, mods |-> 0, event |-> 0,
   associated |-> <<>>, end |-> end]
Sends(codes) == Sent(codes, 0, "")
Nothing == Sends(<<>>)

Bind(names, chars, mods, mode, notmode, action) ==
  [names |-> names, chars |-> chars, mods |-> mods, mode |-> mode, notmode |-> notmode,
   location |-> "Any", action |-> action, esc |-> Nothing]
Esc(name, mods, mode, notmode, codes) ==
  [Bind({name}, {}, mods, mode, {"VI", "SEARCH"} \cup notmode, "Esc") EXCEPT !.esc = Sends(codes)]

Legacy == {"REPORT_ALL_KEYS_AS_ESC", "DISAMBIGUATE_ESC_CODES"}
AppCursor == [Home |-> 72, End |-> 70, ArrowUp |-> 65, ArrowDown |-> 66, ArrowRight |-> 67,
              ArrowLeft |-> 68]

\* Bindings of one effect and one guard are one row; an action is named only if it
\* changes the modes or what is sent.  An F row is F1 to F4.
default_key_bindings ==
  {Bind({"Copy"}, {}, {}, {}, {}, "other"),
   Bind({"Paste"}, {}, {}, {}, {"VI"}, "other"),
   Bind({"Paste"}, {}, {}, {"VI", "SEARCH"}, {}, "other"),
   Bind({}, {108}, {"CONTROL"}, {}, {}, "ReceiveChar"),
   Bind({"Home", "End", "PageUp", "PageDown"}, {}, {"SHIFT"}, {}, {"ALT_SCREEN"}, "other"),
   Esc("F", {}, {}, Legacy, <<27, 79, 79>>),
   Esc("Tab", {"SHIFT"}, {}, Legacy, <<27, 91, 90>>),
   Esc("Tab", {"SHIFT", "ALT"}, {}, Legacy, <<27, 27, 91, 90>>),
   Esc("Backspace", {}, {}, {"REPORT_ALL_KEYS_AS_ESC"}, <<127>>),
   Esc("Backspace", {"ALT"}, {}, Legacy, <<27, 127>>),
   Esc("Backspace", {"SHIFT"}, {}, Legacy, <<127>>),
   [Esc("Enter", {}, {}, Legacy, <<10>>) EXCEPT !.location = "Numpad"],
   Bind({"Space"}, {}, {"SHIFT", "CONTROL"}, {}, {"SEARCH"}, "ToggleViMode"),
   Bind({}, {105}, {}, {"VI"}, {"SEARCH"}, "ToggleViMode"),
   Bind({}, {99}, {"CONTROL"}, {"VI"}, {"SEARCH"}, "ToggleViMode"),
   Bind({"Escape", "Enter", "ArrowUp", "ArrowDown", "ArrowLeft", "ArrowRight", "Home", "End"},
        {103, 121, 118, 110, 122, 102, 116, 59, 44, 107, 106, 104, 108, 48, 98, 119, 101},
        {}, {"VI"}, {"SEARCH"}, "other"),
   Bind({}, {121, 101, 98, 102, 117, 100, 118}, {"CONTROL"}, {"VI"}, {"SEARCH"}, "other"),
   Bind({}, {103, 121, 118, 110, 102, 116, 42, 35, 36, 94, 104, 109, 108, 98, 119, 101, 37,
             123, 125}, {"SHIFT"}, {"VI"}, {"SEARCH"}, "other"),
   Bind({}, {118}, {"ALT"}, {"VI"}, {"SEARCH"}, "other"),
   Bind({}, {47}, {}, {"VI"}, {"SEARCH"}, "Search"),
   Bind({}, {63}, {"SHIFT"}, {"VI"}, {"SEARCH"}, "Search"),
   Bind({"Enter"}, {}, {}, {"VI", "SEARCH"}, {}, "SearchEnd"),
   Bind({"Escape"}, {}, {}, {"SEARCH"}, {}, "SearchEnd"),
   Bind({}, {99}, {"CONTROL"}, {"SEARCH"}, {}, "SearchEnd"),
   Bind({}, {117, 119, 112, 110}, {"CONTROL"}, {"SEARCH"}, {}, "other"),
   Bind({"ArrowUp", "ArrowDown"}, {}, {}, {"SEARCH"}, {}, "other"),
   Bind({"Enter"}, {}, {}, {"SEARCH"}, {"VI"}, "other"),
   Bind({"Enter"}, {}, {"SHIFT"}, {"SEARCH"}, {"VI"}, "other")}
  \cup {Esc(name, {}, {"APP_CURSOR"}, {}, <<27, 79, AppCursor[name]>>) : name \in DOMAIN AppCursor}

common_keybindings ==
  {Bind({}, {118}, {"CONTROL", "SHIFT"}, {}, {"VI"}, "other"),
   Bind({}, {118}, {"CONTROL", "SHIFT"}, {"VI", "SEARCH"}, {}, "other"),
   Bind({}, {102, 98}, {"CONTROL", "SHIFT"}, {}, {"SEARCH"}, "Search"),
   Bind({"Insert"}, {}, {"SHIFT"}, {}, {"VI"}, "other"),
   Bind({}, {99}, {"CONTROL", "SHIFT"}, {}, {}, "other"),
   Bind({}, {48, 61, 43, 45}, {"CONTROL"}, {}, {}, "other"),
   Bind({}, {111}, {"CONTROL", "SHIFT"}, {}, {}, "Hint")}

bindings == default_key_bindings \cup common_keybindings

BindingMode(k) ==
  (k.modes \cap {"APP_CURSOR", "ALT_SCREEN", "VI", "DISAMBIGUATE_ESC_CODES",
                 "REPORT_ALL_KEYS_AS_ESC"}) \cup (IF k.search THEN {"SEARCH"} ELSE {})

\* The binding of the URL hint wants the standard location; it is a character.
is_triggered_by(b, k, key, mods) ==
  /\ IF key.name = "" THEN lowercase(logical(key, mods)) \in b.chars ELSE key.name \in b.names
  /\ key.name = "F" => key.plain \in 1 .. 4
  /\ b.location \in {"Any", key.location}
  /\ b.mods = mods
  /\ b.mode \subseteq BindingMode(k)
  /\ b.notmode \cap BindingMode(k) = {}

\* F1 to F4 send ESC O P to ESC O S.
EscOf(b, key) ==
  IF key.name = "F" THEN Sends(<<27, 79, 79 + key.plain>>) ELSE b.esc
-----------------------------------------------------------------------------
(* The sequence of a key.  `event` is "press", "repeat" or "release".      *)

kitty_seq(modes) ==
  modes \cap {"REPORT_ALL_KEYS_AS_ESC", "DISAMBIGUATE_ESC_CODES", "REPORT_EVENT_TYPES"} # {}
kitty_event_type(modes, event) == "REPORT_EVENT_TYPES" \in modes /\ event # "press"
encode_all(modes) == "REPORT_ALL_KEYS_AS_ESC" \in modes

\* The value of SequenceModifiers with the keys of its own.
encode_esc_sequence(mods) ==
  1 + (IF "SHIFT" \in mods THEN 1 ELSE 0) + (IF "ALT" \in mods THEN 2 ELSE 0)
    + (IF "CONTROL" \in mods THEN 4 ELSE 0) + (IF "SUPER" \in mods THEN 8 ELSE 0)

is_control_character(text) == Len(text) = 1 /\ (text[1] < 32 \/ text[1] \in 127 .. 159)

NumpadNamed ==
  [Enter |-> 57414, ArrowLeft |-> 57417, ArrowRight |-> 57418, ArrowUp |-> 57419,
   ArrowDown |-> 57420, PageUp |-> 57421, PageDown |-> 57422, Home |-> 57423, End |-> 57424,
   Insert |-> 57425, Delete |-> 57426]
NumpadChars ==
  [c \in (42 .. 43) \cup (45 .. 57) \cup {61} |->
     CASE c \in 48 .. 57 -> 57351 + c [] c = 46 -> 57409 [] c = 47 -> 57410 [] c = 42 -> 57411
       [] c = 45 -> 57412 [] c = 43 -> 57413 [] c = 61 -> 57415]

try_build_numpad(key, c) ==
  IF key.name = "" THEN (IF c \in DOMAIN NumpadChars THEN NumpadChars[c] ELSE 0)
  ELSE IF key.name \in DOMAIN NumpadNamed THEN NumpadNamed[key.name] ELSE 0

KittyNamed ==
  [ScrollLock |-> 57359, PrintScreen |-> 57361, Pause |-> 57362, ContextMenu |-> 57363,
   MediaPlay |-> 57428, MediaPause |-> 57429, MediaPlayPause |-> 57430, MediaStop |-> 57432,
   MediaFastForward |-> 57433, MediaRewind |-> 57434, MediaTrackNext |-> 57435,
   MediaTrackPrevious |-> 57436, MediaRecord |-> 57437, AudioVolumeDown |-> 57438,
   AudioVolumeUp |-> 57439, AudioVolumeMute |-> 57440]

\* F3 differs from the terminfo entry and ends in ~.
try_build_named_kitty(key) ==
  CASE key.name = "F" /\ key.plain = 3 -> Sent(<<>>, 13, "~")
    [] key.name = "F" /\ key.plain \in 13 .. 35 -> Sent(<<>>, 57363 + key.plain, "u")
    [] key.name \in DOMAIN KittyNamed -> Sent(<<>>, KittyNamed[key.name], "u")
    [] OTHER -> Nothing

NormalTilde == [PageUp |-> 5, PageDown |-> 6, Insert |-> 2, Delete |-> 3]
NormalLetter == [Home |-> "H", End |-> "F", ArrowLeft |-> "D", ArrowRight |-> "C",
                 ArrowUp |-> "A", ArrowDown |-> "B"]
FunctionTilde == <<15, 17, 18, 19, 20, 21, 23, 24, 25, 26, 28, 29, 31, 32, 33, 34>>

\* The default parameter, 1, is left out if nothing follows it.
try_build_named_normal(key, follows) ==
  LET one_based == IF follows THEN 1 ELSE 0
  IN  CASE key.name \in DOMAIN NormalTilde -> Sent(<<>>, NormalTilde[key.name], "~")
        [] key.name \in DOMAIN NormalLetter -> Sent(<<>>, one_based, NormalLetter[key.name])
        [] key.name = "F" /\ key.plain \in 1 .. 4 ->
             Sent(<<>>, one_based, <<"P", "Q", "R", "S">>[key.plain])
        [] key.name = "F" /\ key.plain \in 5 .. 20 ->
             Sent(<<>>, FunctionTilde[key.plain - 4], "~")
        [] OTHER -> Nothing

ControlNamed == [Tab |-> 9, Enter |-> 13, Escape |-> 27, Space |-> 32, Backspace |-> 127]
ModifierNamed == [Shift |-> 57447, Control |-> 57448, Alt |-> 57449, Super |-> 57450,
                  Hyper |-> 57451, Meta |-> 57452]
LockNamed == [CapsLock |-> 57358, NumLock |-> 57360]

try_build_control_char_or_mod(key, modes) ==
  CASE key.name \in DOMAIN ControlNamed -> ControlNamed[key.name]
    [] encode_all(modes) /\ key.name \in DOMAIN ModifierNamed ->
         ModifierNamed[key.name] - (IF key.location = "Left" THEN 6 ELSE 0)
    [] encode_all(modes) /\ key.name \in DOMAIN LockNamed -> LockNamed[key.name]
    [] OTHER -> 0

ModifierOf == [Shift |-> "SHIFT", Control |-> "CONTROL", Alt |-> "ALT", Super |-> "SUPER"]

\* The state of a modifier is reported with its own key pressed or released.
OwnModifier(key, mods, event) ==
  IF key.name \notin DOMAIN ModifierOf THEN mods
  ELSE IF event = "release" THEN mods \ {ModifierOf[key.name]}
  ELSE mods \cup {ModifierOf[key.name]}

\* Mutant: the shifted character names the key.
try_build_textual_shifted(key, mods, modes, associated) ==
  IF Composed(key) THEN Nothing ELSE Sent(<<>>, logical(key, mods), "u")

\* With shift the key is named by its character without it.
try_build_textual(key, mods, modes, associated) ==
  LET ch        == logical(key, mods)
      unshifted == IF "SHIFT" \in mods
                   THEN (IF lowercase(ch) # ch THEN lowercase(ch) ELSE key.plain) ELSE ch
  IN  IF Composed(key)
      THEN (IF encode_all(modes) /\ associated THEN [Sent(<<>>, 0, "u") EXCEPT !.alternate = -1]
            ELSE Nothing)
      ELSE [Sent(<<>>, unshifted, "u")
              EXCEPT !.alternate = IF "REPORT_ALTERNATE_KEYS" \in modes /\ ch # unshifted
                                   THEN ch ELSE 0]

build_sequence(key, mods, modes, event) ==
  LET text    == text_with_all_modifiers(key, mods)
      kitty   == kitty_seq(modes)
      report  == /\ "REPORT_ASSOCIATED_TEXT" \in modes /\ event # "release"
                 /\ text # <<>> /\ ~is_control_character(text)
      type    == kitty_event_type(modes, event)
      numpad  == IF kitty /\ key.location = "Numpad"
                 THEN try_build_numpad(key, logical(key, mods)) ELSE 0
      named   == IF kitty THEN try_build_named_kitty(key) ELSE Nothing
      normal  == try_build_named_normal(key, mods # {} \/ type \/ report)
      control == IF kitty THEN try_build_control_char_or_mod(key, modes) ELSE 0
      base    == CASE numpad # 0 -> Sent(<<>>, numpad, "u")
                   [] numpad = 0 /\ named # Nothing -> named
                   [] numpad = 0 /\ named = Nothing /\ normal # Nothing -> normal
                   [] numpad = 0 /\ named = Nothing /\ normal = Nothing /\ control # 0 ->
                        Sent(<<>>, control, "u")
                   [] numpad = 0 /\ key.name = "" /\ kitty ->
                        try_build_textual(key, mods, modes, report)
                   [] OTHER -> Nothing
      final   == OwnModifier(key, mods, event)
  IN  IF base = Nothing THEN Nothing
      ELSE [base EXCEPT !.mods = IF type \/ final # {} \/ report
                                 THEN encode_esc_sequence(final) ELSE 0,
                        !.event = IF ~type THEN 0 ELSE IF event = "repeat" THEN 2 ELSE 3,
                        !.associated = IF report THEN text ELSE <<>>]

-----------------------------------------------------------------------------
(* Key events.                                                             *)

alt_send_esc(key, mods) ==
  "ALT" \in mods /\ (key.name = "" => Len(text_with_all_modifiers(key, mods)) = 1)

\* The modifiers without an Alt that is not sent.
Masked(key, mods) == IF alt_send_esc(key, mods) THEN mods ELSE mods \ {"ALT"}

should_build_sequence(key, mods, modes) ==
  \/ encode_all(modes)
  \/ /\ "DISAMBIGUATE_ESC_CODES" \in modes
     /\ \/ key.name = "Escape" \/ key.location = "Numpad"
        \/ mods # {} /\ (mods # {"SHIFT"} \/ key.name \in {"Tab", "Enter", "Backspace"})
  \/ IF key.name # "" THEN key.name \notin DOMAIN to_text
     ELSE text_with_all_modifiers(key, mods) = <<>>

Triggered(k, key, mods) == {b \in bindings : is_triggered_by(b, k, key, mods)}

Suppressed(triggered) ==
  triggered # {} /\ \A b \in triggered : b.action # "ReceiveChar"

\* What a key that is pressed or repeated sends.
PressSends(k, key, mods, event) ==
  LET triggered == Triggered(k, key, mods)
      escapes   == {b \in triggered : b.action = "Esc"}
      own       == Masked(key, mods)
      text      == text_with_all_modifiers(key, mods)
  IN  CASE escapes # {} /\ ~k.hint -> EscOf(CHOOSE b \in escapes : TRUE, key)
        [] Suppressed(triggered) \/ k.hint \/ k.search \/ "VI" \in k.modes -> Nothing
        [] should_build_sequence(key, own, k.modes) -> build_sequence(key, own, k.modes, event)
        [] OTHER -> Sends((IF "ALT" \in own THEN <<27>> ELSE <<>>) \o text)

key_release(k, key, mods) ==
  IF \/ "REPORT_EVENT_TYPES" \notin k.modes \/ "VI" \in k.modes \/ k.search \/ k.hint
     \/ key.name \in {"Enter", "Tab", "Backspace"} /\ ~encode_all(k.modes)
  THEN Nothing ELSE build_sequence(key, Masked(key, mods), k.modes, "release")

Toggled(set, x) == IF x \in set THEN set \ {x} ELSE set \cup {x}

\* Pressing a key: the actions of its bindings, all chosen in the mode before them.
KeyInput ==
  \E key \in Keys, mods \in Modifiers :
    LET actions == {b.action : b \in Triggered(keyboard, key, mods)}
    IN  IF keyboard.hint
        THEN text_with_all_modifiers(key, mods) # <<>> /\ keyboard' = [keyboard EXCEPT !.hint = FALSE]
        ELSE keyboard' = [keyboard EXCEPT
               !.modes  = IF "ToggleViMode" \in actions THEN Toggled(@, "VI") ELSE @,
               !.search = (@ \/ "Search" \in actions) /\ "SearchEnd" \notin actions,
               !.hint   = "Hint" \in actions]

SetMode == \E m \in Modes : keyboard' = [keyboard EXCEPT !.modes = Toggled(@, m)]

KeyboardStep == KeyInput \/ SetMode

-----------------------------------------------------------------------------
Strokes == [key : Keys, mods : Modifiers, event : {"press", "repeat", "release"}]

\* What a stroke tells: the key, the modifiers it is sent with, what happened to it.
Told(s) == <<s.key, OwnModifier(s.key, Masked(s.key, s.mods), s.event), s.event>>

StrokeSends(s) ==
  IF s.event = "release" THEN key_release(keyboard, s.key, s.mods)
  ELSE PressSends(keyboard, s.key, s.mods, s.event)

\* With DISAMBIGUATE_ESC_CODES and REPORT_EVENT_TYPES two strokes that send the same
\* sequence are one key, with one set of modifiers and one kind of event; text and the
\* sequences of bindings are the exceptions (build_sequence, should_build_sequence).
\* Whatever modifiers are released first, the release names the key that was pressed.
KeysTold ==
  {"DISAMBIGUATE_ESC_CODES", "REPORT_EVENT_TYPES"} \subseteq keyboard.modes =>
    LET built == {s \in Strokes : StrokeSends(s).end # ""}
        told  == {<<StrokeSends(s), Told(s)>> : s \in built}
        names == {<<StrokeSends(s).base, StrokeSends(s).end, s.key>> : s \in built}
    IN  /\ Cardinality({t[1] : t \in told}) = Cardinality(told)
        /\ \A m, n \in names : m[3] = n[3] /\ m[1] > 1 /\ n[1] > 1 => m = n

=============================================================================
