\* Three handler calls: a request, its resend and a rival, over a ledger with
\* room for one request only.
SPECIFICATION Spec
CONSTANTS
    s1 = s1
    s2 = s2
    s3 = s3
    t1 = t1
    t2 = t2
    t3 = t3
    b1 = b1
    b2 = b2
    None = None
    Session <- MCSession
    Task <- MCTask
    PrincipalOf <- MCPrincipalOf
    Principal = {"c1", "c2"}
    RequestId = {"r1"}
    Body <- MCBody
    MaxRequests = 1
SYMMETRY Symmetry
INVARIANTS
    AtMostOnce
    AnswersAreTheExecution
PROPERTIES
    ImplementsOnce
