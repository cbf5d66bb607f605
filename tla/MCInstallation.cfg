\* Any three tools, racing; any of them may die at any step.
SPECIFICATION Spec
CONSTANTS
    r1 = r1
    r2 = r2
    r3 = r3
    p1 = p1
    p2 = p2
    None = None
    Run <- MCRun
    Past <- MCPast
SYMMETRY Symmetry
\* Every run is made once.
CHECK_DEADLOCK FALSE
INVARIANTS
    TypeOK
    OneIdentity
    EnrolledKeysExist
    GrantedBeforeUsed
PROPERTIES
    OnlyOwnEntryChanges
    FailedUpgradeRestores
    PreimageKept
