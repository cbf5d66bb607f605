--------------------------- MODULE MCSessionPool ---------------------------
(* A direct path and two edge paths; every configuration of sessions and   *)
(* ledger.                                                                 *)
EXTENDS SessionPool, TLC

CONSTANTS direct, edge1, edge2, c1, s1, s2

MCEndpoint == {direct, edge1, edge2}
MCMode     == (direct :> 0) @@ (edge1 :> 1) @@ (edge2 :> 1)
MCSession  == {s1, s2}

\* The sessions' names do not matter: the direct path has the first one.
MCInit == Init /\ binding[direct] = s1
MCSpec == MCInit /\ [][Next]_vars /\ \A c \in Call : WF_vars(Progress(c))

Symmetry == Permutations(MCSession) \cup Permutations({edge1, edge2})

=============================================================================
