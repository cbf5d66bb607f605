\* Two tasks of one controller over two endpoints, three calls between them.
SPECIFICATION Spec
CONSTANTS
    Task = {t1, t2}
    Endpoint = {e1, e2}
    Crews <- MCCrews
    Shared = shared
    Private = {p1}
    MaxCalls = 3
    MaxSession = 2
    MaxGrant = 2
    MaxFence = 2
    None = none
SYMMETRY Symmetry
\* The calls are bounded.
CHECK_DEADLOCK FALSE
INVARIANTS
    TypeOK
    NoSilentLeftover
PROPERTIES
    SuccessStands
    SuccessorKept
