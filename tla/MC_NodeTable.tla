---------------------------- MODULE MC_NodeTable ----------------------------
(* Four remote peers and the local node; p1 is the bootstrap address. *)
EXTENDS NodeTable

CONSTANTS p1, p2, p3, p4, me

MCPeers == {p1, p2, p3, p4}
MCBootstrap == {p1}
(* nodes.txt as first installed: one peer. *)
MCInitFile == {p2}
(* Distinct 3-bit identity hashes. *)
MCHash == [n \in MCPeers \cup {me} |->
              CASE n = p1 -> 1 [] n = p2 -> 2 [] n = p3 -> 4 [] n = p4 -> 7 [] n = me -> 5]
(* p3 and the local node have a key certificate (an EdDSA destination). *)
MCExt == [n \in MCPeers \cup {me} |-> IF n \in {p3, me} THEN 4 ELSE 0]
(* What remote pboted nodes list: their own tables, which hold us. *)
MCLists == {{p1, me}, {p3, p4, me}}
=============================================================================
