CONSTANTS
    p1 = p1
    p2 = p2
    me = me
    c1 = c1
    c2 = c2
    Senders <- MCSenders
    Local = me
    CIDs <- MCCIDs
    Awaited <- MCAwaited
    InitNodes = {}
    Stored = {"I"}
    MaxPackets = 1
    MaxEntries = 2
    I_BITS = 16
SPECIFICATION Spec
INVARIANT IndexDeleteParsesAll
