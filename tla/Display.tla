------------------------------ MODULE Display ------------------------------
(***************************************************************************)
(* What is drawn again: the damage the terminal records while it writes    *)
(* cells (TermDamage), and the damage of the frames made from it           *)
(* (DisplayDamage).  Frames take from the terminal what DamageCovers says  *)
(* of it, a cell that changed is in the damage or beside it, so the two    *)
(* are explored apart: kinds = {} are the behaviours of the terminal.      *)
(***************************************************************************)
EXTENDS TermDamage, DisplayDamage

vars == <<screen, saved_cursor, mode, scroll_region, tabs, last_cursor, load,
          viewport, display, kinds>>

Init ==
  /\ \/ kinds = {} /\ load \in Loads
     \/ kinds \in Frames /\ load = CHOOSE l \in Loads : TRUE
  /\ DamageInit
  /\ FrameInit

Next ==
  \/ kinds = {} /\ DamageStep /\ UNCHANGED frameVars
  \/ kinds # {} /\ FrameStep /\ UNCHANGED <<kinds, damageVars>>

Spec == Init /\ [][Next]_vars

=============================================================================
