--------------------------- MODULE MCPtyEventLoop ---------------------------
(* PtyEventLoop for TLC.                                                   *)
EXTENDS PtyEventLoop

\* A program that writes, and one that is written to.
MCLoads == {
  [output |-> 2, messages |-> 0, inputLen |-> 1, capacity |-> 1, drain |-> TRUE],
  [output |-> 0, messages |-> 2, inputLen |-> 2, capacity |-> 2, drain |-> FALSE]}

=============================================================================
