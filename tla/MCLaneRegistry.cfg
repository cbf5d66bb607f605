\* Three lane ids for two places in the registry, four grants, a clock that
\* outlives the longest lease, and clock readings one tick old.
SPECIFICATION Spec
CONSTANTS
    l1 = l1
    l2 = l2
    l3 = l3
    None = None
    LaneId <- MCLaneId
    Resource <- MCResource
    Norm <- MCNorm
    ClaimChoice <- MCClaimChoice
    Capability = {"fs", "exec"}
    Ceiling = {"fs"}
    MaxLanes = 2
    MaxTtl = 2
    MaxLag = 1
    MaxTime = 3
    MaxFence = 4
SYMMETRY Symmetry
INVARIANTS
    ExclusiveWrite
    FencedOut
PROPERTIES
    LeaseHonoured
