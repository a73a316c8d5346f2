------------------------------ MODULE DHTVerbs ------------------------------
(***************************************************************************)
(* What the DHT client promises the threads that call its verbs (spec 4.3 *)
(* and 4.6), with no batches, CIDs or rounds: the node table only grows,  *)
(* and only by identities some peer lists, never by the local one; every  *)
(* verb a thread starts returns, with answers from nodes of the table.    *)
(***************************************************************************)
CONSTANTS
    Local,      \* the local destination
    Workers,    \* threads that call DHT verbs
    Listed,     \* identities that remote peers list in their replies
    InitNodes   \* the table when the verbs start

VARIABLES
    table,  \* the node table
    busy,   \* busy[w]: thread w is inside a verb
    ret     \* ret[w]: the nodes whose answers w's last verb returned

vars == <<table, busy, ret>>

Init ==
    /\ table = InitNodes
    /\ busy = [w \in Workers |-> FALSE]
    /\ ret = [w \in Workers |-> {}]

(* A verb in progress learns identities from peer lists. *)
Learn(S) ==
    /\ \E w \in Workers : busy[w]
    /\ S \subseteq Listed \ {Local}
    /\ table' = table \cup S
    /\ UNCHANGED <<busy, ret>>

Call(w) ==
    /\ ~busy[w]
    /\ busy' = [busy EXCEPT ![w] = TRUE]
    /\ UNCHANGED <<table, ret>>

Return(w) ==
    /\ busy[w]
    /\ busy' = [busy EXCEPT ![w] = FALSE]
    /\ \E S \in SUBSET table : ret' = [ret EXCEPT ![w] = S]
    /\ UNCHANGED table

Next ==
    \/ \E S \in SUBSET Listed : Learn(S)
    \/ \E w \in Workers : Call(w) \/ Return(w)

Spec == Init /\ [][Next]_vars /\ \A w \in Workers : WF_vars(Return(w))

=============================================================================
