\* One request, a read or a mutation, over three endpoints; no symmetry set,
\* for the sake of RequestsEnd.
SPECIFICATION MCSpec
CONSTANTS
    direct = direct
    edge1 = edge1
    edge2 = edge2
    c1 = c1
    s1 = s1
    s2 = s2
    None = None
    Endpoint <- MCEndpoint
    Mode <- MCMode
    Session <- MCSession
    Call = {c1}
\* A request is made once; when all are answered nothing is left to do.
CHECK_DEADLOCK FALSE
INVARIANTS
    MutationAtMostOnce
    NoConflictWithItself
    NoPathMeansNotSent
    ReadsTryEveryPath
PROPERTIES
    RequestsEnd
