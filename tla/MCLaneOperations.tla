-------------------------- MODULE MCLaneOperations --------------------------
(* Two lanes of one session, after the same file and working directory.    *)
EXTENDS LaneOperations, TLC

CONSTANTS l1, l2, s1, t1, t2

MCLaneId    == {l1, l2}
MCTask      == {t1, t2}
MCSession   == {s1}
MCOneLane   == {l1}
MCOneSessionOf == (l1 :> s1)
MCSessionOf == (l1 :> s1) @@ (l2 :> s1)
MCResource  == {"fs:/a", "cwd:/a"}
MCNorm      == ("fs:/a" :> <<"fs", "a">>) @@ ("cwd:/a" :> <<"cwd", "a">>)

MCClaimChoice ==
    { {[key |-> "fs:/a", mode |-> "write"], [key |-> "cwd:/a", mode |-> "write"]},
      {[key |-> "fs:/a", mode |-> "read"]} }

Symmetry == Permutations(MCTask) \cup Permutations(MCLaneId)

=============================================================================
