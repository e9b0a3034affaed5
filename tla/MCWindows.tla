----------------------------- MODULE MCWindows -----------------------------
(***************************************************************************)
(* Small instances of Windows.                                             *)
(***************************************************************************)
EXTENDS Windows

CONSTANTS w1, w2

MCWindow == {w1, w2}

MCLoads == {{"output", "bell", "Occluded", "expose"},
            {"cursor", "Focused", "Typing"}, {"cursor", "Preedit"},
            {"message", "Resized", "PopMessage"}, {"message", "reload", "ipc"},
            {"create", "exit", "CloseRequested"}, {"create", "exit", "output"}}

MCMessageLines == [m \in {"config", "ipc"} |-> IF m = "config" THEN 1 ELSE 2]

=============================================================================
