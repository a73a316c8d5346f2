CONSTANTS
    p1 = p1
    p2 = p2
    p3 = p3
    p4 = p4
    me = me
    Peers <- MCPeers
    Local = me
    Bootstrap <- MCBootstrap
    InitFile <- MCInitFile
    HASH_BITS = 3
    Hash <- MCHash
    MaxNum = 3
    Ext <- MCExt
    Lists <- MCLists
    Versions = {5}
SPECIFICATION Spec
INVARIANT TypeOK
INVARIANT TableNeverEmpty
INVARIANT ClosestNodesCorrect
INVARIANT TableHoldsPeers
PROPERTY NodesPersisted
