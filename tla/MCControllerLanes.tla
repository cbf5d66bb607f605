------------------------- MODULE MCControllerLanes -------------------------
(* Two callers: both operators, or both users of the facade.               *)
EXTENDS ControllerLanes

MCCrews == {Task, {}}

Symmetry == Permutations(Task) \cup Permutations(Endpoint)

=============================================================================
