--------------------------- MODULE PacketHandler ---------------------------
(***************************************************************************)
(* The inbound side of a pboted node: the packet handler thread takes one *)
(* datagram at a time from the receive queue (RequestHandler::run) and     *)
(* hands it to IncomingRequest::handleNewPacket, which gives a response    *)
(* whose CID a pending batch sent to that batch and dispatches anything    *)
(* else by packet type to a handler (src/unnamed/part_000, PacketHandler).  *)
(* The DHT handlers (src/src/DHTworker.cpp) add the requester to the node  *)
(* table and send one response.  Every handled packet is logged with its   *)
(* outcome, so that properties can relate a request to what it caused.     *)
(***************************************************************************)
EXTENDS Naturals, FiniteSets

CONSTANTS
    Senders,     \* remote nodes that send us packets
    Local,       \* the local destination
    CIDs,        \* request identifiers
    Awaited,     \* CIDs sent by batches still registered with the context
    InitNodes,   \* the node table when the packets arrive
    Stored,      \* content classes the local DHT storage holds for the key
    MaxPackets,  \* number of datagrams the model handles
    MaxEntries,  \* largest entry count of an index delete request
    I_BITS       \* width of the loop index of the index-delete handler

Nodes == Senders \cup {Local}

(* The communication packet types parseCommPacket accepts.  "U" stands    *)
(* for those of them the handler map has no entry for.                     *)
Relay    == {"R", "K"}
DHTTypes == {"Q", "Y", "S", "D", "X", "F"}
Handled  == Relay \cup DHTTypes \cup {"N", "A"}
Types    == Handled \cup {"U"}

Classes == {"I", "E", "C"}

ASSUME /\ Local \notin Senders
       /\ Awaited \subseteq CIDs
       /\ InitNodes \subseteq Senders
       /\ Stored \subseteq Classes
       /\ MaxPackets \in Nat \ {0}
       /\ MaxEntries \in 0..255
       /\ I_BITS \in 9..30

(* A parsed packet; cls is the data type byte of a retrieve request ("Z": *)
(* none of I, E, C); num the entry count of an index delete request.      *)
Packets == [type : Types \ {"X"}, ver : {4, 5}, from : Senders, cid : CIDs,
            cls : {"-"}, num : {0}]
           \cup
           [type : {"Q"}, ver : {4, 5}, from : Senders, cid : CIDs,
            cls : Classes \cup {"Z"}, num : {0}]
           \cup
           [type : {"X"}, ver : {4, 5}, from : Senders, cid : CIDs,
            cls : {"-"}, num : 0..MaxEntries]

Statuses == {"OK", "NO_DATA_FOUND", "INVALID_PACKET", "NO_DISK_SPACE",
             "GENERAL_ERROR"}

(* What became of a handled packet: a response sent back to its sender    *)
(* with its CID, a status and the version of the peer list it carries     *)
(* (0: none), or handed to a batch, to the general response handler, to   *)
(* the relay peers worker, or dropped without an answer.                   *)
Outcomes == [kind : {"reply"}, status : Statuses, list : {0, 4, 5}]
            \cup
            [kind : {"batch", "general", "relay", "dropped"},
             status : {"-"}, list : {0}]

Sink(kind) == [kind |-> kind, status |-> "-", list |-> 0]

VARIABLES
    m_nodes_,  \* the node table
    log        \* the handled packets, each with its outcome

vars == <<m_nodes_, log>>

TypeOK ==
    /\ m_nodes_ \subseteq Nodes
    /\ log \subseteq [pkt : Packets, out : Outcomes]
    /\ Cardinality(log) <= MaxPackets

Init ==
    /\ m_nodes_ = InitNodes
    /\ log = {}

-----------------------------------------------------------------------------
(* The DHT server handlers of DHTworker.cpp.  Each first calls            *)
(* addNode(packet->from), then answers.                                    *)

(* addNode (lines 81-97) *)
addNode(n) == IF n \in m_nodes_ \/ n = Local THEN m_nodes_ ELSE m_nodes_ \cup {n}

Reply(p, status, list) == [kind |-> "reply", status |-> status, list |-> list]

(* receiveRetrieveRequest (lines 604-661): OK with the stored packet of    *)
(* the requested class, NO_DATA_FOUND, or INVALID_PACKET for another class.*)
RetrieveStatus(p) ==
    IF p.cls \notin Classes THEN "INVALID_PACKET"
    ELSE IF p.cls \in Stored THEN "OK" ELSE "NO_DATA_FOUND"

(* Mutant of FindClosePeersReply: the peer list is taken before the       *)
(* requester is added.                                                     *)
FindClosePeersReplyBeforeAdd(p, table) ==
    IF m_nodes_ = {} THEN Reply(p, "GENERAL_ERROR", 0)
    ELSE Reply(p, "OK", p.ver)

(* receiveFindClosePeers (lines 809-875): the list is getAllNodes(), read *)
(* after the requester was added; GENERAL_ERROR when it is empty; a V4 or  *)
(* V5 peer list as the request's version says.                             *)
FindClosePeersReply(p, table) ==
    IF table = {} THEN Reply(p, "GENERAL_ERROR", 0)
    ELSE Reply(p, "OK", p.ver)

(* The response each DHT handler sends, given the table after addNode:    *)
(* deletion query, email delete and index delete answer NO_DATA_FOUND and  *)
(* store answers NO_DISK_SPACE whatever the request holds (lines 663-807). *)
DHTReply(p, table) ==
    CASE p.type = "Q" -> Reply(p, RetrieveStatus(p), 0)
      [] p.type = "S" -> Reply(p, "NO_DISK_SPACE", 0)
      [] p.type \in {"Y", "D", "X"} -> Reply(p, "NO_DATA_FOUND", 0)
      [] p.type = "F" -> FindClosePeersReply(p, table)

(* PacketHandler.cpp 353-418: each DHT request handler passes only        *)
(* version 4 packets of its own type to DHTworker; any other returns      *)
(* false and nothing is answered.                                          *)
DHTHandler(p) ==
    IF p.ver = 4
    THEN LET table == addNode(p.from)
         IN /\ m_nodes_' = table
            /\ log' = log \cup {[pkt |-> p, out |-> DHTReply(p, table)]}
    ELSE /\ log' = log \cup {[pkt |-> p, out |-> Sink("dropped")]}
         /\ UNCHANGED m_nodes_

(* The handler for a packet whose CID no batch awaits: relay stubs (264-  *)
(* 279) do nothing; receiveResponsePkt (281-338) logs the unexpected      *)
(* response; receivePeerListRequest (340-349) is answered by the relay     *)
(* peers worker for versions 4 and 5; a type with no handler map entry     *)
(* (the end() iterator is dereferenced at 248) is dropped.                 *)
LocalDispatch(p) ==
    CASE p.type \in DHTTypes -> DHTHandler(p)
      [] p.type \in Relay \cup {"A"} ->
            /\ log' = log \cup {[pkt |-> p, out |-> Sink("relay")]}
            /\ UNCHANGED m_nodes_
      [] p.type = "N" ->
            /\ log' = log \cup {[pkt |-> p, out |-> Sink("general")]}
            /\ UNCHANGED m_nodes_
      [] p.type \notin Handled ->
            /\ log' = log \cup {[pkt |-> p, out |-> Sink("dropped")]}
            /\ UNCHANGED m_nodes_

(* handleNewPacket (PacketHandler.cpp 238-261): context.receive first      *)
(* gives the packet to the batch that sent its CID; otherwise the handler  *)
(* map decides.                                                            *)
handleNewPacket(p) ==
    IF p.cid \in Awaited
    THEN /\ log' = log \cup {[pkt |-> p, out |-> Sink("batch")]}
         /\ UNCHANGED m_nodes_
    ELSE LocalDispatch(p)

(* The entry loop of receiveIndexPacketDeleteRequest (lines 791-797),    *)
(* for (uint32_t i = 0; i < num; i--) with num the uint8 entry count: the *)
(* number of (key, delete-auth) entries it parses.  i is an unsigned     *)
(* integer of I_BITS bits, so i-- wraps modulo 2^I_BITS.  The code's 32   *)
(* bits exceed TLC's integers; any width above 8 gives the same runs of   *)
(* the loop, since the wrapped value 2^I_BITS - 1 exceeds every uint8.    *)
UINT == 2^I_BITS

RECURSIVE DeleteLoop(_, _, _)
DeleteLoop(i, num, parsed) ==
    IF i < num THEN DeleteLoop((i - 1) % UINT, num, parsed + 1) ELSE parsed

EntriesParsed(num) == DeleteLoop(0, num, 0)

(* RequestHandler::run (lines 451-457): the next datagram of the queue. *)
Receive ==
    /\ Cardinality(log) < MaxPackets
    /\ \E p \in Packets : /\ \A e \in log : e.pkt # p
                          /\ handleNewPacket(p)

(* All the datagrams of the model are handled; the thread would block in  *)
(* GetNext for the next one.                                              *)
Finished ==
    /\ Cardinality(log) = MaxPackets
    /\ UNCHANGED vars

Next == Receive \/ Finished

Spec == Init /\ [][Next]_vars

-----------------------------------------------------------------------------
(* Properties *)

(* A FindClosePeers request from a remote node is never answered with     *)
(* GENERAL_ERROR: the requester is added to the table before the table is  *)
(* read, so even a node that knows nobody lists at least the requester.    *)
FindPeersNeverEmpty ==
    \A e \in log : e.out.status # "GENERAL_ERROR"

(* Every DHT request is answered, with a peer list of the request's       *)
(* version for FindClosePeers (spec 4.6: "Respond with PeerList version    *)
(* matching the request version"; the protocol requires a response).       *)
RequestAnswered ==
    \A e \in log :
        (e.pkt.type \in DHTTypes /\ e.pkt.cid \notin Awaited) =>
            /\ e.out.kind = "reply"
            /\ e.pkt.type = "F" /\ e.out.status = "OK" => e.out.list = e.pkt.ver

(* Every index delete request pboted answers has had every entry it lists *)
(* parsed by receiveIndexPacketDeleteRequest (spec 4.6: X is handled per    *)
(* entry; spec 9 asks for a test that all entries are parsed).             *)
IndexDeleteParsesAll ==
    \A e \in log : (e.pkt.type = "X" /\ e.out.kind = "reply") =>
                      EntriesParsed(e.pkt.num) = e.pkt.num

=============================================================================
