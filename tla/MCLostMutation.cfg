\* The instance of MCSessionPool.cfg, asked what the routing profile says of a
\* mutation that lost its transport.
SPECIFICATION Spec
CONSTANTS
    direct = direct
    edge1 = edge1
    edge2 = edge2
    c1 = c1
    s1 = s1
    s2 = s2
    None = None
    Endpoint <- MCEndpoint
    Mode <- MCMode
    Session <- MCSession
    Call = {c1}
SYMMETRY Symmetry
\* A request is made once; when all are answered nothing is left to do.
CHECK_DEADLOCK FALSE
INVARIANTS
    LostMutationIsAmbiguous
