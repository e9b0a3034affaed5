---------------------------- MODULE MCInterface ----------------------------
(* Interface with small values: see README.md.                             *)
EXTENDS Interface

\* Search: of six lines of text three have letters.
MCText == [row \in {0, 3, 5} |-> IF row = 3 THEN {"a", "b"} ELSE {"a"}]
MCLoads == {{"vi", "a", "move", "wheel"}, {"vi", "b", "output"}, {"vi", "hint"},
            {"vi", "inline"}, {"b", "(", "edit"}, {"vi", "b", "edit"},
            {"b", "focus", "wheel"}, {"vi", "a", "jump"}}

\* Pointer: two lines of one column.
MCPointerLoads ==
  {{"mouse", "multi", "wheel"}, {"mouse", "right", "middle"}, {"mouse", "mods"},
   {"mouse", "report"}, {"mouse", "vi"}, {"mouse", "hints", "label"},
   {"mouse", "message", "keys"}, {"wheel", "alternate", "report", "mods"}, {"touch"}}
MCTouchPlaces == {[line |-> 0, x |-> 0], [line |-> 0, x |-> 1], [line |-> 2, x |-> 0]}

MCAlphabets == {<<"j", "f">>, <<"a", "b", "c">>}

\* Keyboard: one key of every kind.
Char(plain, shifted) == [name |-> "", plain |-> plain, shifted |-> shifted, location |-> "Standard"]
Named(name, location) == [name |-> name, plain |-> 0, shifted |-> 0, location |-> location]
MCKeys ==
  {Char(105, 73), Char(50, 64), Char(91, 123), Char(108, 76), Char(99, 67), Char(111, 79),
   Char(47, 63), Char(0, 0), [Char(50, 50) EXCEPT !.location = "Numpad"]}
  \cup {[Char(n, n) EXCEPT !.name = "F"] : n \in {1, 3, 5, 13}}
  \cup {Named(name, "Standard") : name \in {"Tab", "Enter", "Escape", "Space", "Backspace",
                                            "Home", "Delete", "MediaPlay", "NumLock"}}
  \cup {Named(name, "Numpad") : name \in {"Enter", "Home"}}
  \cup {Named("Shift", "Left"), Named("Shift", "Right"), Named("Control", "Left")}
MCModifiers == SUBSET {"SHIFT", "ALT", "CONTROL"}
MCModes == {"DISAMBIGUATE_ESC_CODES", "REPORT_EVENT_TYPES", "REPORT_ALTERNATE_KEYS",
            "REPORT_ALL_KEYS_AS_ESC", "REPORT_ASSOCIATED_TEXT", "APP_CURSOR"}
=============================================================================
