---------------------------- MODULE EmailSend ----------------------------
(***************************************************************************)
(* The send task of the email worker (EmailWorker::sendEmailTask and      *)
(* checkOutbox, src/unnamed/part_000): every SEND_EMAIL_INTERVAL it loads *)
(* the outbox, encrypts every email afresh, stores the encrypted email    *)
(* packet (class E) and then an index packet (class I) pointing at it in  *)
(* the DHT, and moves the emails whose two stores returned responders to  *)
(* sent/.  An email whose address cannot be parsed, or whose store got no *)
(* responder, is skipped and stays in the outbox for the next round.      *)
(*                                                                         *)
(* DHTworker::store is abstracted to what the round can observe and what *)
(* happened at the nodes: "stored" (some node answered OK and keeps the   *)
(* packet), "rejected" (nodes answered, none with OK) or "none" (no       *)
(* answer after the resends, or too few nodes).  A ciphertext is named    *)
(* <<email, n>>: the n-th encryption of that email, each with fresh       *)
(* randomness and so a fresh DHT key.  The process may crash at any       *)
(* point; files and the DHT survive, the round's memory does not.        *)
(***************************************************************************)
EXTENDS Naturals, FiniteSets

CONSTANTS
    Emails,        \* files composed into the outbox
    BadAddr,       \* emails whose To or From address does not parse
    StoreResults,  \* what a DHT store can come to in this model
    MaxAttempts    \* encryptions per email the model explores

ASSUME /\ BadAddr \subseteq Emails
       /\ StoreResults \subseteq {"stored", "rejected", "none"}
       /\ MaxAttempts \in Nat \ {0}

Phases == {"sleep", "encrypt", "storeE", "storeI", "move"}

VARIABLES
    outbox,    \* files in outbox/
    sent,      \* files in sent/
    phase,     \* which loop of sendEmailTask the task is in
    todo,      \* emails the current loop has still to visit
    skip,      \* emails of this round marked skip
    attempt,   \* attempt[m]: encryptions of m so far (names its ciphertexts)
    dhtE,      \* ciphertexts some remote node stores
    dhtI,      \* index entries (naming a ciphertext) some remote node stores
    localE,    \* ciphertexts kept in the local DHT storage (DHT_worker.safe)
    localI     \* entries of the local index packet of the recipient

vars == <<outbox, sent, phase, todo, skip, attempt, dhtE, dhtI, localE, localI>>

Ciphertexts == Emails \X (1..MaxAttempts)

TypeOK ==
    /\ outbox \subseteq Emails
    /\ sent \subseteq Emails
    /\ phase \in Phases
    /\ todo \subseteq Emails
    /\ skip \subseteq Emails
    /\ attempt \in [Emails -> 0..MaxAttempts]
    /\ dhtE \subseteq Ciphertexts
    /\ dhtI \subseteq Ciphertexts
    /\ localE \subseteq Ciphertexts
    /\ localI \subseteq Ciphertexts

Init ==
    /\ outbox = Emails
    /\ sent = {}
    /\ phase = "sleep"
    /\ todo = {}
    /\ skip = {}
    /\ attempt = [m \in Emails |-> 0]
    /\ dhtE = {}
    /\ dhtI = {}
    /\ localE = {}
    /\ localI = {}

(* The ciphertext of this round's encryption of m. *)
Current(m) == <<m, attempt[m]>>

-----------------------------------------------------------------------------

(* DHTworker::store (src/src/DHTworker.cpp 314-373) returns the `from` of *)
(* every response the batch collected, whatever its status: the vector   *)
(* is empty only when nobody answered.                                    *)
storeReturnsNodes(result) == result \in {"stored", "rejected"}

(* Lines 738-748 and checkOutbox (1302-1496): after the sleep, every file *)
(* of outbox/ is loaded (its Message-ID composed and saved).  The model   *)
(* stops once some email has used up its attempts.                        *)
CheckOutbox ==
    /\ phase = "sleep"
    /\ outbox # {}
    /\ \A m \in outbox : attempt[m] < MaxAttempts
    /\ phase' = "encrypt"
    /\ todo' = outbox
    /\ skip' = {}
    /\ UNCHANGED <<outbox, sent, attempt, dhtE, dhtI, localE, localI>>

(* Lines 750-895, one email: parse the To and From addresses (skip on     *)
(* failure), encrypt for the recipient and derive the DHT key from the    *)
(* ciphertext.                                                             *)
Encrypt(m) ==
    /\ phase = "encrypt"
    /\ m \in todo
    /\ todo' = todo \ {m}
    /\ IF m \in BadAddr
       THEN /\ skip' = skip \cup {m}
            /\ UNCHANGED attempt
       ELSE /\ attempt' = [attempt EXCEPT ![m] = @ + 1]
            /\ UNCHANGED skip
    /\ UNCHANGED <<outbox, sent, phase, dhtE, dhtI, localE, localI>>

(* Mutant of StoreE: an empty store result does not mark the email skip. *)
StoreENoSkip(m, result) ==
    /\ phase = "storeE"
    /\ m \in todo
    /\ todo' = todo \ {m}
    /\ m \notin skip
    /\ dhtE' = IF result = "stored" THEN dhtE \cup {Current(m)} ELSE dhtE
    /\ localE' = IF storeReturnsNodes(result) THEN localE \cup {Current(m)}
                 ELSE localE
    /\ UNCHANGED <<outbox, sent, phase, skip, attempt, dhtI, localI>>

(* Lines 899-934, one email not skipped: store the encrypted email        *)
(* packet; no responder marks the email skip, otherwise the packet is     *)
(* also saved locally.                                                     *)
StoreE(m, result) ==
    /\ phase = "storeE"
    /\ m \in todo
    /\ todo' = todo \ {m}
    /\ m \notin skip
    /\ dhtE' = IF result = "stored" THEN dhtE \cup {Current(m)} ELSE dhtE
    /\ IF storeReturnsNodes(result)
       THEN /\ localE' = localE \cup {Current(m)}
            /\ UNCHANGED skip
       ELSE /\ skip' = skip \cup {m}
            /\ UNCHANGED localE
    /\ UNCHANGED <<outbox, sent, phase, attempt, dhtI, localI>>

(* DHTworker::safe, not under src/: spec 4.2, put(class, key, bytes)     *)
(* replaces any prior value; an index packet is keyed by its owner hash.  *)
safeIndex(pkt) == pkt

(* Lines 938-1020, one email not skipped: store an index packet with one  *)
(* entry naming the ciphertext under the recipient's hash; no responder   *)
(* marks the email skip, otherwise the packet is also saved locally, in   *)
(* place of the recipient's earlier one (every email here has the same    *)
(* recipient).                                                            *)
StoreI(m, result) ==
    /\ phase = "storeI"
    /\ m \in todo
    /\ todo' = todo \ {m}
    /\ m \notin skip
    /\ dhtI' = IF result = "stored" THEN dhtI \cup {Current(m)} ELSE dhtI
    /\ IF storeReturnsNodes(result)
       THEN /\ localI' = safeIndex({Current(m)})
            /\ UNCHANGED skip
       ELSE /\ skip' = skip \cup {m}
            /\ UNCHANGED localI
    /\ UNCHANGED <<outbox, sent, phase, attempt, dhtE, localE>>

(* A loop of lines 899-1020 passes over an email marked skip. *)
PassSkipped(m) ==
    /\ phase \in {"storeE", "storeI", "move"}
    /\ m \in todo \cap skip
    /\ todo' = todo \ {m}
    /\ UNCHANGED <<outbox, sent, phase, skip, attempt, dhtE, dhtI, localE, localI>>

(* Lines 1023-1032, one email not skipped: write its metadata and move    *)
(* the file from outbox/ to sent/.                                         *)
MoveToSent(m) ==
    /\ phase = "move"
    /\ m \in todo
    /\ m \notin skip
    /\ todo' = todo \ {m}
    /\ outbox' = outbox \ {m}
    /\ sent' = sent \cup {m}
    /\ UNCHANGED <<phase, skip, attempt, dhtE, dhtI, localE, localI>>

(* One loop of the round has visited every email: the next loop starts   *)
(* over the whole outbox vector; after the last, the task sleeps.         *)
NextLoop ==
    /\ phase # "sleep"
    /\ todo = {}
    /\ phase' = CASE phase = "encrypt" -> "storeE"
                  [] phase = "storeE"  -> "storeI"
                  [] phase = "storeI"  -> "move"
                  [] phase = "move"    -> "sleep"
    /\ todo' = IF phase = "move" THEN {} ELSE outbox
    /\ UNCHANGED <<outbox, sent, skip, attempt, dhtE, dhtI, localE, localI>>

(* The process dies: the round's emails are lost, files and DHT remain. *)
Crash ==
    /\ phase # "sleep"
    /\ phase' = "sleep"
    /\ todo' = {}
    /\ skip' = {}
    /\ UNCHANGED <<outbox, sent, attempt, dhtE, dhtI, localE, localI>>

(* Nothing is left to send, or the model's attempt bound is reached. *)
Idle ==
    /\ phase = "sleep"
    /\ ~(outbox # {} /\ \A m \in outbox : attempt[m] < MaxAttempts)
    /\ UNCHANGED vars

Next ==
    \/ CheckOutbox
    \/ \E m \in Emails :
          \/ Encrypt(m)
          \/ \E r \in StoreResults : StoreE(m, r) \/ StoreI(m, r)
          \/ PassSkipped(m)
          \/ MoveToSent(m)
    \/ NextLoop
    \/ Crash
    \/ Idle

Spec == Init /\ [][Next]_vars

-----------------------------------------------------------------------------
(* Properties *)

(* An email in sent/ can be delivered: some remote node stores one of its *)
(* ciphertexts and some remote node stores an index entry naming that     *)
(* same ciphertext (spec 4.7 steps 8-10: on an empty responder set skip;  *)
(* spec 8: a store whose nodes all answer non-OK returns [] and the skip  *)
(* propagates to the email).                                               *)
SentIsStored ==
    \A m \in sent : \E n \in 1..MaxAttempts : <<m, n>> \in dhtE \cap dhtI

=============================================================================
