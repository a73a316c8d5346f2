--------------------------- MODULE MC_EmailCheck ---------------------------
(* Three emails for the identity: k1 at remote nodes from the start, k2  *)
(* arriving later, k3 a forged packet.                                     *)
EXTENDS EmailCheck

CONSTANTS k1, k2, k3

MCKeys == {k1, k2, k3}
MCForged == {k3}
MCInitRemote == {k1}
MCInitLocal == {}
=============================================================================
