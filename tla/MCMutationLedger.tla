-------------------------- MODULE MCMutationLedger --------------------------
(* Two controllers; the first reconnects, so it has two sessions.          *)
EXTENDS MutationLedger, TLC

CONSTANTS s1, s2, s3, t1, t2, t3, b1, b2

MCSession     == {s1, s2, s3}
MCTask        == {t1, t2, t3}
MCBody        == {b1, b2}
MCPrincipalOf == (s1 :> "c1") @@ (s2 :> "c1") @@ (s3 :> "c2")

\* The two sessions of the first controller are interchangeable.
Symmetry == Permutations(MCTask) \cup Permutations(MCBody) \cup Permutations({s1, s2})

=============================================================================
