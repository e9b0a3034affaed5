------------------------------- MODULE MCTerm -------------------------------
(* Term for TLC: the two screens, the stacks, the mouse.                   *)
EXTENDS Term

MCKeyboardModes == {{"DISAMBIGUATE"}, {"EVENTS"}}

MCScreens ==
  [heights |-> {1, 2, 3}, histories |-> {0, 1, 2},
   modes |-> {"ALT_SCREEN", "COLUMN", "ORIGIN"}, keyboard |-> {}, titles |-> {}]

MCStacks ==
  [heights |-> {1}, histories |-> {0}, modes |-> {"ALT_SCREEN"},
   keyboard |-> MCKeyboardModes, titles |-> {"a"}]

MCMouse ==
  [heights |-> {1}, histories |-> {0},
   modes |-> {"ALT_SCREEN", "SHOW_CURSOR", "MOUSE_REPORT_CLICK", "MOUSE_MOTION",
              "SGR_MOUSE", "UTF8_MOUSE"},
   keyboard |-> {}, titles |-> {}]

MCLoads == {MCScreens, MCStacks, MCMouse}

MCPrivateModes == MCScreens.modes \cup MCMouse.modes
=============================================================================
