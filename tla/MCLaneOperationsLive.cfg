\* Liveness: two calls on one lane, a process that may never read its input.
SPECIFICATION Spec
CONSTANTS
    l1 = l1
    l2 = l2
    s1 = s1
    t1 = t1
    t2 = t2
    None = None
    LaneId <- MCOneLane
    Task <- MCTask
    Session <- MCSession
    SessionOf <- MCOneSessionOf
    Resource <- MCResource
    Norm <- MCNorm
    ClaimChoice <- MCClaimChoice
    FsKey = {"fs:/a"}
    CwdKey = {"cwd:/a"}
    Process = {"p1"}
    Offered = {"lane.open", "lane.close", "process.start", "process.input"}
    Capability = {"fs.read", "fs.write", "process.exec", "process.interact", "process.control"}
    Ceiling = {"fs.read", "fs.write", "process.exec", "process.interact", "process.control"}
    MaxLanes = 2
    MaxTtl = 1
    MaxLag = 0
    MaxTime = 2
    MaxFence = 2
\* Once the session is closed and its processes are gone, nothing is left to do.
CHECK_DEADLOCK FALSE
PROPERTIES
    StrayProcessesEnd
    CallsReturn
