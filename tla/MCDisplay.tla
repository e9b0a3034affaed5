----------------------------- MODULE MCDisplay -----------------------------
(* Screens and events of Display for model checking. *)
EXTENDS Display

Screens == {
  \* Characters of one cell, with regions that end with the screen; the last of them
  \* lies below it and is empty.
  [lines |-> 2, columns |-> 3, chars |-> {"space"}, modes |-> {"ORIGIN", "LINE_FEED_NEW_LINE"},
   regions |-> {<<1, 2>>, <<2, 2>>, <<3, 4>>}, uses |-> {}],
  \* Tab stops that come and go.
  [lines |-> 2, columns |-> 3, chars |-> {"space"}, modes |-> {},
   regions |-> {<<1, 2>>}, uses |-> {"tabs"}],
  \* Wide characters on one line.
  [lines |-> 1, columns |-> 3, chars |-> {"wide", "space"},
   modes |-> {"INSERT", "LINE_WRAP"},
   regions |-> {<<1, 1>>}, uses |-> {"align", "save"}]}

Events == {
  {"text", "display"}, {"ime", "text"}, {"hint", "text"}, {"bell", "message"}, {"message", "text"},
  {"select", "scroll", "display"}, {"vi", "select", "scroll"}, {"vi", "hint"},
  {"ime", "search", "vi"}, {"message", "search", "vi"}}

=============================================================================
