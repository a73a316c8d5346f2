-------------------------- MODULE MC_PacketHandler --------------------------
(* Two remote senders, two CIDs of which one a batch awaits, a node that  *)
(* knows no peer yet and stores an index packet for the requested key.    *)
EXTENDS PacketHandler

CONSTANTS p1, p2, me, c1, c2

MCSenders == {p1, p2}
MCCIDs == {c1, c2}
MCAwaited == {c1}
=============================================================================
