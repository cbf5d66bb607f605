\* The instance of MCLaneOperations.cfg, asked what the docstring of LaneRegistry
\* says of stale holders.
SPECIFICATION Spec
CONSTANTS
    l1 = l1
    l2 = l2
    s1 = s1
    t1 = t1
    t2 = t2
    None = None
    LaneId <- MCLaneId
    Task <- MCTask
    Session <- MCSession
    SessionOf <- MCSessionOf
    Resource <- MCResource
    Norm <- MCNorm
    ClaimChoice <- MCClaimChoice
    FsKey = {"fs:/a"}
    CwdKey = {"cwd:/a"}
    Process = {"p1"}
    Offered = {"lane.open", "lane.renew", "lane.close", "fs.write", "process.start", "process.terminate"}
    Capability = {"fs.read", "fs.write", "process.exec", "process.interact", "process.control"}
    Ceiling = {"fs.read", "fs.write", "process.exec", "process.interact", "process.control"}
    MaxLanes = 2
    MaxTtl = 1
    MaxLag = 0
    MaxTime = 2
    MaxFence = 2
SYMMETRY Symmetry
CHECK_DEADLOCK FALSE
INVARIANTS
    StaleHolderNeverWrites
