----------------------------- MODULE Interface -----------------------------
(***************************************************************************)
(* What the user does with a window: searching and vi mode (Search), the   *)
(* mouse and the touch screen (Pointer), hints (Hints) and the keyboard    *)
(* (Keyboard).  A run is given one kind of input, `load`, that is, one of  *)
(* the parts and the events it sees; the other parts are idle.             *)
(***************************************************************************)
EXTENDS Search

CONSTANTS Lines, Columns, History, Finger, TouchPlaces, MaxMessages, PointerLoads,
          Alphabets, MaxMatches,
          Keys, Modifiers, Modes

VARIABLES mouse, hint, keyboard

P == INSTANCE Pointer
H == INSTANCE Hints
K == INSTANCE Keyboard

vars == <<ui, mouse, hint, keyboard, load>>

SearchIdle == ui = Unsearched(0, 0)

Init ==
  \/ SearchInit /\ P!PointerIdle /\ H!HintIdle /\ K!KeyboardInit
  \/ SearchIdle /\ P!PointerInit /\ H!HintIdle /\ K!KeyboardInit
  \/ load = {"labels"} /\ SearchIdle /\ P!PointerIdle /\ H!HintInit /\ K!KeyboardInit
  \/ load = {"keyboard"} /\ SearchIdle /\ P!PointerIdle /\ H!HintIdle /\ K!KeyboardInit

Next ==
  /\ \/ load \in Loads /\ SearchStep /\ UNCHANGED <<mouse, hint, keyboard>>
     \/ load \in PointerLoads /\ P!PointerStep /\ UNCHANGED <<ui, hint, keyboard>>
     \/ load = {"labels"} /\ H!HintStep /\ UNCHANGED <<ui, mouse, keyboard>>
     \/ load = {"keyboard"} /\ K!KeyboardStep /\ UNCHANGED <<ui, mouse, hint>>
  /\ UNCHANGED load

Spec == Init /\ [][Next]_vars

-----------------------------------------------------------------------------

\* The keys of a label pick the match it is shown at (Hints).
LabelsPick == H!LabelsPick

\* The sequence of a key names it, with its modifiers and event (Keyboard).
KeysTold == K!KeysTold
=============================================================================
