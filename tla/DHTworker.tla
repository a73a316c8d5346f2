----------------------------- MODULE DHTworker -----------------------------
(***************************************************************************)
(* The client side of the pboted DHT engine (src/src/DHTworker.cpp): the   *)
(* iterative closestNodesLookupTask and the find verb built on it, running *)
(* in several worker threads at once, over a network that loses and       *)
(* reorders datagrams.  Every thread that calls a DHT verb (one check task *)
(* per identity, the send task) is a Worker.                               *)
(*                                                                         *)
(* The batch registry (PacketBatch, context.send / removeBatch / receive)  *)
(* lives in BoteContext, outside src/; it is modelled from the spec        *)
(* (section 4.5): a registered batch collects, keyed by CID, the responses *)
(* whose CID it sent; any other response goes to the general handler.     *)
(***************************************************************************)
EXTENDS Naturals, FiniteSets

CONSTANTS
    Peers,          \* identities of remote nodes
    Local,          \* the local destination (context.getLocalDestination())
    Workers,        \* threads that call DHT verbs
    Knows,          \* Knows[p]: the nodes peer p lists in a peer-list reply
    InitNodes,      \* m_nodes_ after loadNodes()
    MaxCalls,       \* verbs each worker issues (bound on the model)
    MIN_CLOSEST_NODES,
    RESEND_LIMIT,   \* the `counter < 5` bound of the resend loop in find
    LOOKUP_ROUNDS   \* CLOSEST_NODES_LOOKUP_TIMEOUT div RESPONSE_TIMEOUT

Nodes == Peers \cup {Local}

ASSUME /\ Local \notin Peers
       /\ Knows \in [Peers -> SUBSET Nodes]
       /\ InitNodes \subseteq Peers
       /\ MaxCalls \in Nat \ {0}
       /\ {MIN_CLOSEST_NODES, RESEND_LIMIT, LOOKUP_ROUNDS} \subseteq Nat \ {0}

(* A CID names one request: the worker and call that made it, the phase   *)
(* (lookup batch or verb batch), its destination, and which part of the   *)
(* node list of find it came from (1: lookup result, 2: usual nodes).     *)
CIDs == [w : Workers, k : 1..MaxCalls, ph : {"lookup", "verb"},
         n : Nodes, part : {1, 2}]

Batches == [w : Workers, k : 1..MaxCalls, ph : {"lookup", "verb"}]

(* The batch a CID belongs to. *)
BatchOf(c) == [w |-> c.w, k |-> c.k, ph |-> c.ph]

(* The peer list in the answer to a FindClosePeers request: every node the *)
(* peer knows (receiveFindClosePeers answers with getAllNodes()), status   *)
(* OK, or GENERAL_ERROR when it knows none.                                *)
PeerList(c) == Knows[c.n]
AnswerOK(c) == PeerList(c) # {}

VARIABLES
    m_nodes_,        \* the node table: identities it holds
    active_requests, \* DHTworker member: CIDs of unanswered lookup requests
    net,             \* CIDs of requests sent and not yet answered
    registered,      \* batches currently registered with the context
    pc,              \* where each worker is in its verb
    calls,           \* number of verbs each worker has started
    batch,           \* CIDs of the worker's current batch
    batchResp,       \* CIDs whose response the current batch has collected
    responses,       \* closestNodesLookupTask's `responses` snapshot
    closestNodes,    \* what closestNodesLookupTask returned
    exec_duration,   \* whole RESPONSE_TIMEOUTs the lookup has waited
    counter,         \* resends made by find
    result           \* CIDs answered in what the last verb returned

vars == <<m_nodes_, active_requests, net, registered, pc, calls, batch,
          batchResp, responses, closestNodes, exec_duration, counter, result>>

Pcs == {"idle", "lk_loop", "lk_wait", "lk_parse", "select", "vb_wait",
        "vb_resend", "vb_done"}

TypeOK ==
    /\ m_nodes_ \subseteq Nodes
    /\ active_requests \subseteq CIDs
    /\ net \subseteq CIDs
    /\ registered \subseteq Batches
    /\ pc \in [Workers -> Pcs]
    /\ calls \in [Workers -> 0..MaxCalls]
    /\ batch \in [Workers -> SUBSET CIDs]
    /\ batchResp \in [Workers -> SUBSET CIDs]
    /\ responses \in [Workers -> SUBSET CIDs]
    /\ closestNodes \in [Workers -> SUBSET Nodes]
    /\ exec_duration \in [Workers -> 0..LOOKUP_ROUNDS]
    /\ counter \in [Workers -> 0..RESEND_LIMIT]
    /\ result \in [Workers -> SUBSET CIDs]

Init ==
    /\ m_nodes_ = InitNodes
    /\ active_requests = {}
    /\ net = {}
    /\ registered = {}
    /\ pc = [w \in Workers |-> "idle"]
    /\ calls = [w \in Workers |-> 0]
    /\ batch = [w \in Workers |-> {}]
    /\ batchResp = [w \in Workers |-> {}]
    /\ responses = [w \in Workers |-> {}]
    /\ closestNodes = [w \in Workers |-> {}]
    /\ exec_duration = [w \in Workers |-> 0]
    /\ counter = [w \in Workers |-> 0]
    /\ result = [w \in Workers |-> {}]

-----------------------------------------------------------------------------
(* Helpers *)

(* Mutant of addNode: the check against the local destination dropped. *)
addNodeNoLocalCheck(S) == S \ m_nodes_

(* addNode (lines 81-97) applied to every identity of S: the identities it *)
(* inserts, i.e. those neither in the table nor the local destination.    *)
addNode(S) == S \ (m_nodes_ \cup {Local})

(* The batch the worker is currently using. *)
CurrentBatch(w, ph) == [w |-> w, k |-> calls[w], ph |-> ph]

(* context.send(batch): register the batch and put all its requests on    *)
(* the wire.                                                              *)
SendBatch(w, ph) ==
    /\ registered' = registered \cup {CurrentBatch(w, ph)}
    /\ net' = net \cup batch[w]

(* context.removeBatch(batch) *)
removeBatch(w, ph) == registered' = registered \ {CurrentBatch(w, ph)}

(* A batch removed for the last time: answers still in flight for it can   *)
(* only reach the general handler, which changes no DHT state, so they are *)
(* dropped from net (this keeps the state space small and changes nothing  *)
(* a property here observes).                                              *)
Retire(w) == net' = {c \in net : BatchOf(c) # CurrentBatch(w, "lookup")
                                 /\ BatchOf(c) # CurrentBatch(w, "verb")}

-----------------------------------------------------------------------------
(* closestNodesLookupTask(key) *)

(* getAllNodes (lines 228-233): a copy of every node of the table, taken   *)
(* without m_nodes_mutex_.                                                 *)
getAllNodes == m_nodes_

(* Lines 377-395: one FindClosePeers request with a fresh CID per known   *)
(* node (getAllNodes()), each also recorded in the shared active_requests. *)
LookupStart(w) ==
    LET k    == calls[w] + 1
        cids == {[w |-> w, k |-> k, ph |-> "lookup", n |-> n, part |-> 1] :
                 n \in getAllNodes}
    IN /\ pc[w] = "idle"
       /\ calls[w] < MaxCalls
       /\ calls' = [calls EXCEPT ![w] = k]
       /\ batch' = [batch EXCEPT ![w] = cids]
       /\ active_requests' = active_requests \cup cids
       /\ pc' = [pc EXCEPT ![w] = "lk_loop"]
       /\ UNCHANGED <<m_nodes_, net, registered, batchResp, responses,
                      closestNodes, exec_duration, counter, result>>

(* Mutant of LookupSend: the lookup timeout test dropped. *)
LookupSendNoTimeout(w) ==
    /\ pc[w] = "lk_loop"
    /\ active_requests # {}
    /\ SendBatch(w, "lookup")
    /\ pc' = [pc EXCEPT ![w] = "lk_wait"]
    /\ UNCHANGED <<m_nodes_, active_requests, calls, batch, batchResp,
                   responses, closestNodes, exec_duration, counter, result>>

(* Lines 402-404: the loop runs while active_requests is not empty and    *)
(* the lookup timeout has not elapsed; each round sends the whole batch.  *)
LookupSend(w) ==
    /\ pc[w] = "lk_loop"
    /\ active_requests # {}
    /\ exec_duration[w] < LOOKUP_ROUNDS
    /\ SendBatch(w, "lookup")
    /\ pc' = [pc EXCEPT ![w] = "lk_wait"]
    /\ UNCHANGED <<m_nodes_, active_requests, calls, batch, batchResp,
                   responses, closestNodes, exec_duration, counter, result>>

LookupExit(w) ==
    /\ pc[w] = "lk_loop"
    /\ ~(active_requests # {} /\ exec_duration[w] < LOOKUP_ROUNDS)
    /\ pc' = [pc EXCEPT ![w] = "lk_parse"]
    /\ UNCHANGED <<m_nodes_, active_requests, net, registered, calls, batch,
                   batchResp, responses, closestNodes, exec_duration, counter,
                   result>>

(* Lines 405-430: waitLast returns; the responses so far are read and     *)
(* their CIDs erased from active_requests; MIN_CLOSEST_NODES responses    *)
(* end the loop; a round with none removes the batch, which the next      *)
(* round sends again.                                                     *)
LookupWait(w) ==
    LET snap == batchResp[w]
    IN /\ pc[w] = "lk_wait"
       /\ responses' = [responses EXCEPT ![w] = snap]
       /\ IF snap # {}
          THEN /\ active_requests' = active_requests \ snap
               /\ UNCHANGED registered
          ELSE /\ removeBatch(w, "lookup")
               /\ UNCHANGED active_requests
       /\ IF Cardinality(snap) >= MIN_CLOSEST_NODES
          THEN /\ pc' = [pc EXCEPT ![w] = "lk_parse"]
               /\ UNCHANGED exec_duration
          ELSE /\ pc' = [pc EXCEPT ![w] = "lk_loop"]
               /\ exec_duration' = [exec_duration EXCEPT ![w] = @ + 1]
       /\ UNCHANGED <<m_nodes_, net, calls, batch, batchResp, closestNodes,
                      counter, result>>

(* Lines 432-493: the peer lists of the OK responses of the last snapshot *)
(* are parsed; receivePeerListV4/V5 insert each listed identity with      *)
(* addNode and return only the ones it inserted; the batch is removed.    *)
LookupParse(w) ==
    LET listed == UNION {PeerList(c) : c \in {d \in responses[w] : AnswerOK(d)}}
        added  == addNode(listed)
    IN /\ pc[w] = "lk_parse"
       /\ m_nodes_' = m_nodes_ \cup added
       /\ closestNodes' = [closestNodes EXCEPT ![w] = added]
       /\ removeBatch(w, "lookup")
       /\ Retire(w)
       /\ batchResp' = [batchResp EXCEPT ![w] = {}]
       /\ responses' = [responses EXCEPT ![w] = {}]
       /\ exec_duration' = [exec_duration EXCEPT ![w] = 0]
       /\ pc' = [pc EXCEPT ![w] = "select"]
       /\ UNCHANGED <<active_requests, calls, batch, counter, result>>

-----------------------------------------------------------------------------
(* find(key, type, exhaustive) *)

(* Lines 256-289: the lookup result, topped up with every known node when *)
(* it is shorter than MIN_CLOSEST_NODES (a node then appears in both      *)
(* parts); too few nodes returns {} before anything is sent; otherwise a  *)
(* RetrieveRequest with a fresh CID per entry is sent as one batch.       *)
FindSelect(w) ==
    LET found == closestNodes[w]
        usual == IF Cardinality(found) < MIN_CLOSEST_NODES THEN m_nodes_ ELSE {}
        cids  == {[w |-> w, k |-> calls[w], ph |-> "verb", n |-> n, part |-> 1] :
                  n \in found}
                 \cup
                 {[w |-> w, k |-> calls[w], ph |-> "verb", n |-> n, part |-> 2] :
                  n \in usual}
    IN /\ pc[w] = "select"
       /\ closestNodes' = [closestNodes EXCEPT ![w] = {}]
       /\ IF Cardinality(found) + Cardinality(usual) < MIN_CLOSEST_NODES
          THEN /\ pc' = [pc EXCEPT ![w] = "idle"]
               /\ batch' = [batch EXCEPT ![w] = {}]
               /\ result' = [result EXCEPT ![w] = {}]
               /\ UNCHANGED <<net, registered>>
          ELSE /\ batch' = [batch EXCEPT ![w] = cids]
               /\ registered' = registered \cup {CurrentBatch(w, "verb")}
               /\ net' = net \cup cids
               /\ pc' = [pc EXCEPT ![w] = "vb_wait"]
               /\ UNCHANGED result
       /\ UNCHANGED <<m_nodes_, active_requests, calls, batchResp, responses,
                      exec_duration, counter>>

(* Lines 291-299: the wait returns; with no response and resends left,    *)
(* the batch is removed before it is sent again.                          *)
FindWait(w) ==
    /\ pc[w] = "vb_wait"
    /\ IF batchResp[w] = {} /\ counter[w] < RESEND_LIMIT
       THEN /\ pc' = [pc EXCEPT ![w] = "vb_resend"]
            /\ removeBatch(w, "verb")
       ELSE /\ pc' = [pc EXCEPT ![w] = "vb_done"]
            /\ UNCHANGED registered
    /\ UNCHANGED <<m_nodes_, active_requests, net, calls, batch, batchResp,
                   responses, closestNodes, exec_duration, counter, result>>

(* Mutant of FindResend: counter is never incremented. *)
FindResendNoCount(w) ==
    /\ pc[w] = "vb_resend"
    /\ SendBatch(w, "verb")
    /\ pc' = [pc EXCEPT ![w] = "vb_wait"]
    /\ UNCHANGED <<m_nodes_, active_requests, calls, batch, batchResp,
                   responses, closestNodes, exec_duration, counter, result>>

(* Lines 300-306: the same batch, same CIDs, is sent again. *)
FindResend(w) ==
    /\ pc[w] = "vb_resend"
    /\ SendBatch(w, "verb")
    /\ counter' = [counter EXCEPT ![w] = @ + 1]
    /\ pc' = [pc EXCEPT ![w] = "vb_wait"]
    /\ UNCHANGED <<m_nodes_, active_requests, calls, batch, batchResp,
                   responses, closestNodes, exec_duration, result>>

(* Mutant of FindDone: the final removeBatch forgotten. *)
FindDoneKeepBatch(w) ==
    /\ pc[w] = "vb_done"
    /\ Retire(w)
    /\ result' = [result EXCEPT ![w] = batchResp[w]]
    /\ batch' = [batch EXCEPT ![w] = {}]
    /\ batchResp' = [batchResp EXCEPT ![w] = {}]
    /\ counter' = [counter EXCEPT ![w] = 0]
    /\ pc' = [pc EXCEPT ![w] = "idle"]
    /\ UNCHANGED <<m_nodes_, active_requests, registered, calls, responses,
                   closestNodes, exec_duration>>

(* Lines 308-311: remove the batch and return its responses. *)
FindDone(w) ==
    /\ pc[w] = "vb_done"
    /\ removeBatch(w, "verb")
    /\ Retire(w)
    /\ result' = [result EXCEPT ![w] = batchResp[w]]
    /\ batch' = [batch EXCEPT ![w] = {}]
    /\ batchResp' = [batchResp EXCEPT ![w] = {}]
    /\ counter' = [counter EXCEPT ![w] = 0]
    /\ pc' = [pc EXCEPT ![w] = "idle"]
    /\ UNCHANGED <<m_nodes_, active_requests, calls, responses, closestNodes,
                   exec_duration>>

-----------------------------------------------------------------------------
(* The environment: remote peers and the datagram network.  net holds the *)
(* requests not yet answered; a request that is lost, or whose answer is  *)
(* lost, is one that stays in net for ever: the network gets no fairness. *)

(* A peer answers request c and the answer reaches the local dispatcher,  *)
(* handleNewPacket (PacketHandler.cpp 238-261): a response whose CID a    *)
(* registered batch sent is stored in that batch (one per CID); any other *)
(* goes to the general handler receiveResponsePkt, which changes no DHT    *)
(* state.                                                                  *)
Answer(c) ==
    /\ net' = net \ {c}
    /\ IF BatchOf(c) \in registered /\ c \in batch[c.w]
       THEN batchResp' = [batchResp EXCEPT ![c.w] = @ \cup {c}]
       ELSE UNCHANGED batchResp
    /\ UNCHANGED <<m_nodes_, active_requests, registered, pc, calls, batch,
                   responses, closestNodes, exec_duration, counter, result>>

(* Every worker has issued all its verbs: the model stops. *)
Finished ==
    /\ \A w \in Workers : pc[w] = "idle" /\ calls[w] = MaxCalls
    /\ UNCHANGED vars

Worker(w) ==
    \/ LookupStart(w) \/ LookupSend(w) \/ LookupExit(w) \/ LookupWait(w)
    \/ LookupParse(w) \/ FindSelect(w) \/ FindWait(w) \/ FindResend(w)
    \/ FindDone(w)

Next ==
    \/ \E w \in Workers : Worker(w)
    \/ \E c \in net : Answer(c)
    \/ Finished

(* Worker threads are scheduled fairly and their waits time out; the      *)
(* network gets no fairness: a peer may never answer.                     *)
Spec == Init /\ [][Next]_vars /\ \A w \in Workers : WF_vars(Worker(w))

-----------------------------------------------------------------------------
(* Properties *)

(* Every verb removes its batches before it returns (spec 4.5): once a     *)
(* worker is back to idle, none of its batches is still registered, so no *)
(* later response is collected for a verb that has already returned.      *)
BatchReleased ==
    \A w \in Workers : pc[w] = "idle" => \A b \in registered : b.w # w

(* The local node never sends a DHT request to itself: addNode keeps the  *)
(* local destination out of the table even when a peer lists it, so      *)
(* neither the lookup nor find's fallback to the usual nodes address it.  *)
NoRequestToSelf == \A c \in net : c.n # Local

(* The DHT client implements its abstract specification DHTVerbs: the    *)
(* table grows only by non-local identities that peers list, every verb    *)
(* returns whatever the network does (the lookup loop is bounded by        *)
(* CLOSEST_NODES_LOOKUP_TIMEOUT and find by its resend limit), and what it *)
(* returns are answers from nodes of the table.                            *)
Abstract == INSTANCE DHTVerbs WITH
    table <- m_nodes_,
    busy <- [w \in Workers |-> pc[w] # "idle"],
    ret <- [w \in Workers |-> {c.n : c \in result[w]}],
    Listed <- UNION {Knows[p] : p \in Peers}

ImplementsDHTVerbs == Abstract!Spec

(* A lookup request stays in active_requests only while the lookup that   *)
(* made it is running (spec 4.6: the map tracks the lookup's requests).   *)
ActiveRequestsOwned ==
    \A c \in active_requests :
        c.k = calls[c.w] /\ pc[c.w] \in {"lk_loop", "lk_wait", "lk_parse"}

(* The verb that sent request c still waits for its answer. *)
InUse(c) ==
    /\ calls[c.w] = c.k
    /\ c.ph = "lookup" => \/ pc[c.w] = "lk_wait"
                          \/ /\ pc[c.w] = "lk_loop"
                             /\ exec_duration[c.w] < LOOKUP_ROUNDS
    /\ c.ph = "verb" => pc[c.w] \in {"vb_wait", "vb_resend"}

(* A request whose verb still waits for its answer has its batch          *)
(* registered, so the answer cannot reach the general handler (spec 3:     *)
(* only responses with unknown CIDs go there).                             *)
ResponseNotMisrouted ==
    \A c \in net : InUse(c) => BatchOf(c) \in registered

=============================================================================
