--------------------------- MODULE MC_EmailSend ---------------------------
(* Two outbox emails, one of which has an address that does not parse. *)
EXTENDS EmailSend

CONSTANTS m1, m2

MCEmails == {m1, m2}
MCBadAddr == {m2}
(* Remote nodes that keep what they acknowledge (I2P-Bote peers), or do   *)
(* not answer at all.                                                      *)
MCStoringPeers == {"stored", "none"}
(* Peers may also answer a store with a non-OK status, as a pboted peer   *)
(* always does (NO_DISK_SPACE).                                            *)
MCAnyPeers == {"stored", "rejected", "none"}
=============================================================================
