--------------------------- MODULE MCInstallation ---------------------------
(* Three tools, side by side or in turn, on a blank machine and on an      *)
(* installation that was prepared, recovered and attached before.          *)
EXTENDS Installation, TLC

CONSTANTS r1, r2, r3, p1, p2

MCRun  == {r1, r2, r3}
MCPast == {p1, p2}

Symmetry == Permutations(MCRun) \cup Permutations(MCPast)

=============================================================================
