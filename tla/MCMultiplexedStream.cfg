\* Three calls, two of them with one request_id, over two slots and a
\* connection without buffers.
SPECIFICATION Spec
CONSTANTS
    first = first
    resend = resend
    other = other
    i1 = i1
    i2 = i2
    None = None
    Call <- MCCall
    RequestId = {i1, i2}
    Id <- MCId
    MaxInflight = 2
    Window = 0
\* Every call is made once, and the connection may then be over.
CHECK_DEADLOCK FALSE
INVARIANTS
    SlotsBalance
    SessionClosesLast
PROPERTIES
    OwnAnswer
    CallsEnd
    ServerFollows
