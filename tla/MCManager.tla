----------------------------- MODULE MCManager -----------------------------
EXTENDS Manager, TLC

CONSTANTS p1, p2, t1, t2, j1, j2

MCLoads == {{"sessions"}, {"profiles"},
            {"profiles", "sessions"},
            {"files", "expand", "delete", "rename"},
            {"files", "expand", "move", "delete"},
            {"files", "create"},
            {"files", "sessions", "cd"},
            {"files", "expand", "cd", "delete"}}

\* The async functions are interchangeable.
MCSymmetry == Permutations({t1, t2}) \cup Permutations({j1, j2})

=============================================================================
