---------------------------- MODULE EmailCheck ----------------------------
(***************************************************************************)
(* The check task of the email worker for one identity                    *)
(* (EmailWorker::checkEmailTask, retrieveIndex, retrieveEmailPacket and   *)
(* processEmail, src/unnamed/part_000).  Each round it gathers the index  *)
(* entries for the identity from the DHT and from the local DHT storage,  *)
(* fetches every encrypted email an entry names from both, decrypts and   *)
(* verifies them, saves each to inbox/ and then asks the DHT to delete    *)
(* the encrypted email and its index entry.                               *)
(*                                                                         *)
(* An email is named by its DHT key.  An index entry is named by the key  *)
(* it points at, as the identity has one index packet.  findAll answers   *)
(* with any subset of what remote nodes hold: a response may be lost, be  *)
(* a request to ourselves, carry a non-OK status or an empty payload.     *)
(* Remote nodes are pboted nodes: their EmailPacketDelete handler erases  *)
(* nothing.  Mail arrives at any time, stored remotely by some sender, or *)
(* locally by this node's own send task.                                  *)
(***************************************************************************)
EXTENDS Naturals, FiniteSets

CONSTANTS
    Keys,        \* DHT keys of the encrypted emails addressed to the identity
    Forged,      \* those whose packet is empty, does not decrypt or verify
    InitRemote,  \* emails (and index entries) remote nodes hold at start
    InitLocal,   \* emails (and index entries) the local storage holds at start
    MaxCrashes,  \* process restarts the model explores
    SaveOutcomes \* results mail.save may have: TRUE saved, FALSE failed

ASSUME /\ Forged \subseteq Keys
       /\ InitRemote \subseteq Keys
       /\ InitLocal \subseteq Keys
       /\ MaxCrashes \in Nat
       /\ SaveOutcomes \subseteq BOOLEAN /\ SaveOutcomes # {}

Phases == {"sleep", "index", "email", "process", "save", "delE", "delI"}

VARIABLES
    remoteE, remoteI,  \* encrypted emails and index entries at remote nodes
    localE, localI,    \* the same in the local DHT storage
    arrived,           \* emails some sender has stored so far
    phase,             \* where the round of checkEmailTask is
    idx,               \* index entries this round gathered
    got,               \* encrypted emails this round gathered
    todo,              \* verified emails still to save
    cur,               \* the email whose deletes are being issued
    inbox,             \* emails saved to inbox/
    crashes            \* restarts so far

vars == <<remoteE, remoteI, localE, localI, arrived, phase, idx, got, todo,
          cur, inbox, crashes>>

TypeOK ==
    /\ {remoteE, remoteI, localE, localI, arrived, idx, got, todo, inbox}
         \subseteq SUBSET Keys
    /\ phase \in Phases
    /\ cur \in Keys \cup {"none"}
    /\ crashes \in 0..MaxCrashes

Init ==
    /\ remoteE = InitRemote /\ remoteI = InitRemote
    /\ localE = InitLocal /\ localI = InitLocal
    /\ arrived = InitRemote \cup InitLocal
    /\ phase = "sleep"
    /\ idx = {} /\ got = {} /\ todo = {}
    /\ cur = "none"
    /\ inbox = {}
    /\ crashes = 0

-----------------------------------------------------------------------------

(* checkEmailTask lines 638-646: the loop sleeps CHECK_EMAIL_INTERVAL     *)
(* (after the first round) and starts a round.                            *)
CheckRound ==
    /\ phase = "sleep"
    /\ phase' = "index"
    /\ UNCHANGED <<remoteE, remoteI, localE, localI, arrived, idx, got, todo,
                   cur, inbox, crashes>>

(* DHTworker::safe, not under src/: spec 4.2, put(class, key, bytes)     *)
(* replaces any prior value.  An index packet is stored under its owner   *)
(* hash, so saving one takes the place of the identity's local index.     *)
safeIndex(pkt) == pkt

(* retrieveIndex (1039-1133) and lines 646-670: findAll's OK responses    *)
(* with a payload are saved locally one after the other (line 1103), so   *)
(* the local index ends as the last one saved, if any was (saved);       *)
(* of the parsed packets the first one per owner hash is kept (the        *)
(* std::map insert at line 1113); the local index read at line 648 is     *)
(* appended.                                                              *)
RetrieveIndex(first, last, saved) ==
    /\ phase = "index"
    /\ ~saved => first = {}
    /\ localI' = IF saved THEN safeIndex(last) ELSE localI
    /\ idx' = first \cup localI'
    /\ phase' = "email"
    /\ UNCHANGED <<remoteE, remoteI, localE, arrived, got, todo, cur, inbox,
                   crashes>>

(* Mutant of RetrieveEmailPacket: the local encrypted emails are not      *)
(* merged into the result.                                                 *)
RetrieveEmailPacketNoLocal(ans) ==
    /\ phase = "email"
    /\ ans \subseteq remoteE \cap idx
    /\ localE' = localE \cup ans
    /\ got' = ans
    /\ idx' = {}
    /\ phase' = IF got' = {} THEN "sleep" ELSE "process"
    /\ UNCHANGED <<remoteE, remoteI, localI, arrived, todo, cur, inbox, crashes>>

(* retrieveEmailPacket (1136-1272) and lines 676-690: for every entry the *)
(* local encrypted email, if any, and findAll's OK responses, each saved  *)
(* locally; the two merged by key.  With nothing to process the round    *)
(* ends.                                                                   *)
RetrieveEmailPacket(ans) ==
    /\ phase = "email"
    /\ ans \subseteq remoteE \cap idx
    /\ localE' = localE \cup ans
    /\ got' = (localE \cap idx) \cup ans
    /\ idx' = {}
    /\ phase' = IF got' = {} THEN "sleep" ELSE "process"
    /\ UNCHANGED <<remoteE, remoteI, localI, arrived, todo, cur, inbox, crashes>>

(* processEmail (1551-1599) called at line 692: packets that are empty,  *)
(* do not decrypt or fail the delete-hash check are dropped.              *)
processEmail ==
    /\ phase = "process"
    /\ todo' = got \ Forged
    /\ got' = {}
    /\ phase' = "save"
    /\ UNCHANGED <<remoteE, remoteI, localE, localI, arrived, idx, cur, inbox,
                   crashes>>

(* Lines 696-699: the next email is saved to inbox/.  mail.save can fail *)
(* (a full disk, a write error: ok is FALSE); its result is ignored and   *)
(* the deletes of lines 700-719 follow either way.                         *)
SaveMail(k, ok) ==
    /\ phase = "save"
    /\ k \in todo
    /\ todo' = todo \ {k}
    /\ inbox' = IF ok THEN inbox \cup {k} ELSE inbox
    /\ cur' = k
    /\ phase' = "delE"
    /\ UNCHANGED <<remoteE, remoteI, localE, localI, arrived, idx, got, crashes>>

(* Every email of the round is saved: lines 721-724, the round ends. *)
RoundComplete ==
    /\ phase = "save"
    /\ todo = {}
    /\ phase' = "sleep"
    /\ cur' = "none"
    /\ UNCHANGED <<remoteE, remoteI, localE, localI, arrived, idx, got, todo,
                   inbox, crashes>>

(* DHTworker::deleteEmail erases the packet from the local storage. *)
deleteEmailLocal(k) == localE \ {k}

(* receiveEmailPacketDeleteRequest (DHTworker.cpp 729-760) of a remote   *)
(* pboted node answers NO_DATA_FOUND and erases nothing.                  *)
receiveEmailPacketDeleteRequest(S, k) == S

(* Line 713: DHT_worker.deleteEmail for the saved email; the status of   *)
(* the responses is not checked.                                           *)
DeleteEmail ==
    /\ phase = "delE"
    /\ localE' = deleteEmailLocal(cur)
    /\ remoteE' = receiveEmailPacketDeleteRequest(remoteE, cur)
    /\ phase' = "delI"
    /\ UNCHANGED <<remoteI, localI, arrived, idx, got, todo, cur, inbox, crashes>>

(* Mutant of deleteIndexEntryLocal: the whole index packet of the         *)
(* identity is removed instead of the one entry.                           *)
deleteIndexEntryWholePacket(k) == {}

(* DHTworker::deleteIndexEntry removes the entry from the local index. *)
deleteIndexEntryLocal(k) == localI \ {k}

(* Lines 717-719: DHT_worker.deleteIndexEntry for the saved email; a     *)
(* remote pboted node answers NO_DATA_FOUND and erases nothing.            *)
DeleteIndexEntry ==
    /\ phase = "delI"
    /\ localI' = deleteIndexEntryLocal(cur)
    /\ phase' = "save"
    /\ UNCHANGED <<remoteE, remoteI, localE, arrived, idx, got, todo, cur,
                   inbox, crashes>>

(* A sender stores email k and its index entry: at remote nodes, or in   *)
(* the local storage when the send task of this node sent it to us: a    *)
(* verified packet, saved at line 930, and an index packet with its one   *)
(* entry, saved at line 1016.                                              *)
Arrive(k, where) ==
    /\ k \notin arrived
    /\ where = "local" => k \notin Forged
    /\ arrived' = arrived \cup {k}
    /\ IF where = "remote"
       THEN /\ remoteE' = remoteE \cup {k} /\ remoteI' = remoteI \cup {k}
            /\ UNCHANGED <<localE, localI>>
       ELSE /\ localE' = localE \cup {k} /\ localI' = safeIndex({k})
            /\ UNCHANGED <<remoteE, remoteI>>
    /\ UNCHANGED <<phase, idx, got, todo, cur, inbox, crashes>>

(* The process dies mid-round and is started again: the round's memory   *)
(* is lost; storage, inbox/ and the remote nodes keep their content.      *)
Crash ==
    /\ phase # "sleep"
    /\ crashes < MaxCrashes
    /\ crashes' = crashes + 1
    /\ phase' = "sleep"
    /\ idx' = {} /\ got' = {} /\ todo' = {}
    /\ cur' = "none"
    /\ UNCHANGED <<remoteE, remoteI, localE, localI, arrived, inbox>>

Task ==
    \/ CheckRound
    \/ \E first, last \in SUBSET remoteI, saved \in BOOLEAN :
          RetrieveIndex(first, last, saved)
    \/ \E ans \in SUBSET remoteE : RetrieveEmailPacket(ans)
    \/ processEmail
    \/ \E k \in Keys, ok \in SaveOutcomes : SaveMail(k, ok)
    \/ RoundComplete
    \/ DeleteEmail
    \/ DeleteIndexEntry

Next ==
    \/ Task
    \/ \E k \in Keys, where \in {"remote", "local"} : Arrive(k, where)
    \/ Crash

(* The check task only sleeps for a fixed interval and every DHT call     *)
(* returns after its timeouts, so the task is fair; what the network      *)
(* answers, arrivals and crashes are not.                                  *)
Spec == Init /\ [][Next]_vars /\ WF_vars(Task)

-----------------------------------------------------------------------------
(* Properties *)

(* No verified email is lost: every email a sender stored is in inbox/,   *)
(* or it and its index entry are still held somewhere (spec 4.7: an email *)
(* is deleted from the DHT only after it was written to inbox; step 1    *)
(* merges the local index with the DHT's).  Several deletes of a round,   *)
(* the saves of index packets, arrivals and crashes interleave.           *)
NoMailLost ==
    \A k \in arrived \ Forged :
        \/ k \in inbox
        \/ k \in localE \cup remoteE /\ k \in localI \cup remoteI

(* The round never passes over a locally indexed email: one held in the  *)
(* local storage with its entry in the local index reaches inbox/, even  *)
(* when no remote node ever answers, unless a later save replaces the     *)
(* local index first (checkEmailTask merges the local index and the local *)
(* encrypted emails into every round, lines 648-670 and 1136-1272).        *)
LocalMailDelivered ==
    \A k \in Keys \ Forged :
        (k \in localE /\ k \in localI) ~> (k \in inbox \/ k \notin localI)

(* No verified email packet is lost: every email a sender stored is in   *)
(* inbox/, or its encrypted packet is still held locally or remotely      *)
(* (spec 4.7 step 4: write to inbox, then delete; lines 696-713 delete    *)
(* the packet whether or not mail.save succeeded; crashes, arrivals and   *)
(* the round's local saves interleave with them).                         *)
EmailPacketKept ==
    \A k \in arrived \ Forged : k \in inbox \/ k \in localE \cup remoteE

=============================================================================
