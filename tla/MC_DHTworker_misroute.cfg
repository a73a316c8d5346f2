CONSTANTS
    p1 = p1
    p2 = p2
    p3 = p3
    me = me
    w1 = w1
    w2 = w2
    Peers <- MCPeers
    Local = me
    Workers = {w1}
    Knows <- MCKnows
    InitNodes <- MCInitNodes
    MaxCalls = 1
    MIN_CLOSEST_NODES = 3
    RESEND_LIMIT = 5
    LOOKUP_ROUNDS = 3
SPECIFICATION Spec
INVARIANT ResponseNotMisrouted
