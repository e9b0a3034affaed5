------------------------------ MODULE MCCells ------------------------------
(***************************************************************************)
(* Small texts.                                                            *)
(***************************************************************************)
EXTENDS TextGrid

Load(kinds, chars, columns, lines, limits, max, types) ==
  [kinds |-> kinds, chars |-> chars, columns |-> columns, lines |-> lines, limits |-> limits,
   max |-> max, types |-> types]

Letters == <<"a", "b", "c", "d", "e", "f", "g", "h">>

MCLoads ==
  \* Wrapped lines and wide characters in windows of changing width.
  {Load({"letters", "wide", "newline", "resize"}, Letters, {2, 3, 4}, {2}, {1, 2}, 4, {}),
   Load({"alternate", "wide", "newline", "resize"}, <<"a">>, {2, 3}, {1, 2}, {0}, 3, {}),
  \* Cells that are overwritten, erased and coloured.
   Load({"wide", "goto", "newline"}, <<"a">>, {3}, {2}, {1}, 3, {}),
   Load({"wide", "goto", "erase", "display"}, <<"a">>, {3}, {2}, {1}, 2, {}),
   Load({"goto", "newline", "erase", "colour"}, <<"a">>, {2}, {2}, {1}, 1, {}),
  \* Selected text that scrolls, as a whole or in a region.
   Load({"letters", "scroll", "region", "select"}, Letters, {2}, {2}, {1}, 2,
        {"Simple", "Lines"}),
  \* Words and brackets.
   Load({"motion", "newline"}, <<"a", "(", ")", " ">>, {2}, {2}, {1}, 4, {}),
   Load({"motion", "wide", "newline"}, <<"a", " ">>, {3}, {2}, {1}, 4, {}),
  \* Texts with matches in them, in one line or in a wrapped one.
   Load({"search", "newline"}, <<"a", "b", " ">>, {3}, {2}, {1}, 4, {}),
   Load({"search", "wide"}, <<"a", "b">>, {4}, {2}, {1}, 5, {})}
=============================================================================
