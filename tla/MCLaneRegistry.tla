--------------------------- MODULE MCLaneRegistry ---------------------------
(* A small workstation: a directory spelled with and without its trailing  *)
(* slash, a file in it, a sibling directory and another namespace.         *)
EXTENDS LaneRegistry

CONSTANTS l1, l2, l3

MCLaneId   == {l1, l2, l3}
MCResource == {"fs:/a", "fs:/a/", "fs:/a/x", "fs:/ab"}

MCNorm ==
    [r \in MCResource |->
        CASE r \in {"fs:/a", "fs:/a/"} -> <<"fs", "a">>
          [] r = "fs:/a/x"             -> <<"fs", "a", "x">>
          [] r = "fs:/ab"              -> <<"fs", "ab">>]

MCClaimChoice ==
    { {[key |-> "fs:/a",   mode |-> WRITE]},
      {[key |-> "fs:/a/",  mode |-> READ]},
      {[key |-> "fs:/a/x", mode |-> READ], [key |-> "fs:/ab", mode |-> WRITE]} }

Symmetry == Permutations(LaneId)

=============================================================================
