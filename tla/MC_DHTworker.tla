---------------------------- MODULE MC_DHTworker ----------------------------
(* TLC instance of DHTworker: three peers (the MIN_CLOSEST_NODES of the    *)
(* code), one of them learnt only from a peer list, and peers that list   *)
(* the local destination back.                                            *)
EXTENDS DHTworker

CONSTANTS p1, p2, p3, me, w1, w2

MCPeers == {p1, p2, p3}
MCKnows == [p \in MCPeers |-> IF p = p1 THEN {p2, p3, me} ELSE {me}]
MCInitNodes == {p1, p2}
=============================================================================
