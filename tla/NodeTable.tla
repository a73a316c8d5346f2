----------------------------- MODULE NodeTable -----------------------------
(***************************************************************************)
(* The persistence of the DHT node table (src/src/DHTworker.cpp): start()  *)
(* fills m_nodes_ from nodes.txt with loadNodes, or from the configured    *)
(* bootstrap addresses when the file yields no node; the run() thread     *)
(* rewrites nodes.txt with writeNodes every 60 seconds; other threads add  *)
(* nodes they learn of with addNode.  The process may crash at any point  *)
(* and be started again: memory is lost, nodes.txt keeps what was written. *)
(* The closeness query getClosestNodes is an operator over the table,     *)
(* checked in every reachable state against the query spec 4.3 states.    *)
(***************************************************************************)
EXTENDS Naturals, Sequences, FiniteSets, Bitwise

CONSTANTS
    Peers,      \* identities of remote nodes
    Local,      \* the local destination
    Bootstrap,  \* the bootstrap.address option
    InitFile,   \* the identities nodes.txt holds when first started
    HASH_BITS,  \* width of an identity hash in this model
    Hash,       \* Hash[n]: the identity hash of node n
    MaxNum,     \* largest num a closeness query asks for
    Ext,        \* Ext[n]: length of the key certificate payload of n
    Lists,      \* node sets whose peer list a remote pboted node may send
    Versions    \* peer-list versions the remote nodes answer with

Nodes == Peers \cup {Local}

(* Identities read from a peer list that no node has (see below). *)
Junk == {"junk"} \X (0..4096)

ASSUME /\ Local \notin Peers
       /\ Bootstrap \subseteq Nodes
       /\ InitFile \subseteq Nodes
       /\ Hash \in [Nodes -> 0..(2^HASH_BITS - 1)]
       /\ \A a, b \in Nodes : a # b => Hash[a] # Hash[b]
       /\ MaxNum \in Nat
       /\ Ext \in [Nodes -> {0, 4}]
       /\ Lists \subseteq SUBSET Nodes
       /\ Versions \subseteq {4, 5}

VARIABLES
    m_nodes_,  \* the in-memory node table
    file,      \* the identities in nodes.txt
    up,        \* the process is running
    wr,        \* where the run() thread is in its loop
    pending    \* nodes the current writeNodes has still to write

vars == <<m_nodes_, file, up, wr, pending>>

TypeOK ==
    /\ m_nodes_ \subseteq Nodes \cup Junk
    /\ file \subseteq Nodes \cup Junk
    /\ up \in BOOLEAN
    /\ wr \in {"down", "sleep", "open", "writing"}
    /\ pending \subseteq Nodes \cup Junk
    /\ up = (wr # "down")

Init ==
    /\ m_nodes_ = {}
    /\ file = InitFile
    /\ up = FALSE
    /\ wr = "down"
    /\ pending = {}

-----------------------------------------------------------------------------

(* findNode (lines 98-106): the table has an entry for identity n. *)
findNode(n) == n \in m_nodes_

(* addNode (lines 81-97): the identities of S that findNode does not know *)
(* and that are not the local destination.                                *)
addNode(S) == {n \in S : ~findNode(n) /\ n # Local}

(* Mutant of loadNodes: the bootstrap addresses are used only when        *)
(* nodes.txt cannot be read, not when it holds no node.                   *)
loadNodesFileOnly(F) == F

(* loadNodes (lines 918-963), run on an empty table: every identity       *)
(* readNodes returns is inserted into m_nodes_ directly; only when none   *)
(* is inserted are the bootstrap addresses added, through addNode.        *)
loadNodes(F) == IF F # {} THEN F ELSE Bootstrap \ {Local}

(* Mutant of Start: the run() thread is not created. *)
StartNoThread ==
    /\ ~up
    /\ m_nodes_' = loadNodes(file)
    /\ up' = TRUE
    /\ UNCHANGED <<file, wr, pending>>

(* start() (lines 28-46): load the table and start the run() thread. *)
Start ==
    /\ ~up
    /\ m_nodes_' = loadNodes(file)
    /\ up' = TRUE
    /\ wr' = "sleep"
    /\ UNCHANGED <<file, pending>>

(* A thread learns of identity n (a requester in receiveFindClosePeers,   *)
(* an entry of a peer list) and calls addNode; it blocks on               *)
(* m_nodes_mutex_ while writeNodes holds it.                              *)
Discover(n) ==
    /\ up
    /\ wr # "writing"
    /\ n \in addNode({n})
    /\ m_nodes_' = m_nodes_ \cup {n}
    /\ UNCHANGED <<file, up, wr, pending>>

(* writeNodes, lines 965-972: the ofstream truncates nodes.txt. *)
WriteOpen ==
    /\ up
    /\ wr = "sleep"
    /\ file' = {}
    /\ wr' = "open"
    /\ UNCHANGED <<m_nodes_, up, pending>>

(* Line 973: take m_nodes_mutex_; the loop will write the table as it is. *)
WriteLock ==
    /\ up
    /\ wr = "open"
    /\ pending' = m_nodes_
    /\ wr' = "writing"
    /\ UNCHANGED <<m_nodes_, file, up>>

(* Lines 975-978: one line per node, in map order (any order here). *)
WriteNode ==
    /\ up
    /\ wr = "writing"
    /\ \E n \in pending :
          /\ file' = file \cup {n}
          /\ pending' = pending \ {n}
    /\ UNCHANGED <<m_nodes_, up, wr>>

(* Mutant of WriteClose: the loop may end before every node is written. *)
WriteCloseEarly ==
    /\ up
    /\ wr = "writing"
    /\ wr' = "sleep"
    /\ UNCHANGED <<m_nodes_, file, up, pending>>

(* Lines 979-987: the loop ends, the file is closed and the mutex        *)
(* released; run() then sleeps until the next save.                       *)
WriteClose ==
    /\ up
    /\ wr = "writing"
    /\ pending = {}
    /\ wr' = "sleep"
    /\ UNCHANGED <<m_nodes_, file, up, pending>>

(* The process dies: memory is lost, nodes.txt keeps what reached it. *)
Crash ==
    /\ up
    /\ m_nodes_' = {}
    /\ up' = FALSE
    /\ wr' = "down"
    /\ pending' = {}
    /\ UNCHANGED <<file>>

(* stop() (lines 48-59) at shutdown: started_ is cleared and the run()  *)
(* thread is joined, so a save in progress completes; the process then    *)
(* exits and the table in memory is gone.                                 *)
Stop ==
    /\ up
    /\ wr = "sleep"
    /\ m_nodes_' = {}
    /\ up' = FALSE
    /\ wr' = "down"
    /\ UNCHANGED <<file, pending>>

-----------------------------------------------------------------------------
(* Peer lists.  A list is laid out as 4 header bytes (type, version,      *)
(* count) and the identities back to back.  An identity is 384 key bytes, *)
(* a 3-byte certificate header and Ext[n] certificate bytes.  384 bytes   *)
(* read at an offset where no identity starts, or a certificate dropped,  *)
(* give an identity no node has: <<"junk", offset>>.                      *)

IdentityLen(n) == 387 + Ext[n]

RECURSIVE InMapOrder(_)
InMapOrder(S) ==
    IF S = {} THEN <<>>
    ELSE LET n == CHOOSE x \in S : \A y \in S : Hash[x] <= Hash[y]
         IN <<n>> \o InMapOrder(S \ {n})

(* receiveFindClosePeers (lines 836-866) on the remote node: getAllNodes  *)
(* in map order, each written with ToBuffer at its GetFullLen, for a V4   *)
(* list as for a V5 one.                                                  *)
PeerListPacket(nodes) == InMapOrder(nodes)

RECURSIVE StartOf(_, _)
StartOf(ids, j) == IF j = 1 THEN 4 ELSE StartOf(ids, j - 1) + IdentityLen(ids[j - 1])

PacketLen(ids) == StartOf(ids, Len(ids) + 1)

EntryAt(ids, off) == {j \in 1..Len(ids) : StartOf(ids, j) = off}

(* receivePeerListV4 (lines 495-550): 384 bytes at a time, the three      *)
(* certificate bytes set to zero; the identity so built is the listed    *)
(* one only at an identity's start and when it has no certificate.        *)
V4Identity(ids, off) ==
    IF \E j \in EntryAt(ids, off) : Ext[ids[j]] = 0
    THEN ids[CHOOSE j \in EntryAt(ids, off) : TRUE]
    ELSE <<"junk", off>>

RECURSIVE V4Loop(_, _, _)
V4Loop(ids, i, off) ==
    IF i >= Len(ids) \/ off = PacketLen(ids) \/ off + 384 > PacketLen(ids) THEN {}
    ELSE {V4Identity(ids, off)} \cup V4Loop(ids, i + 1, off + 384)

receivePeerListV4(ids) == V4Loop(ids, 0, 4)

(* IdentityEx::FromBuffer(buf + off, len - off): the length of the        *)
(* identity starting there, 0 when its bytes run past the packet.  At an  *)
(* offset inside an identity it reads some 387-byte identity.             *)
KeyLen(ids, off) ==
    IF EntryAt(ids, off) # {}
    THEN LET n == ids[CHOOSE j \in EntryAt(ids, off) : TRUE]
         IN IF off + IdentityLen(n) <= PacketLen(ids) THEN IdentityLen(n) ELSE 0
    ELSE IF off + 387 <= PacketLen(ids) THEN 387 ELSE 0

V5Identity(ids, off) ==
    IF EntryAt(ids, off) # {} THEN ids[CHOOSE j \in EntryAt(ids, off) : TRUE]
    ELSE <<"junk", off>>

(* Mutant of V5Loop: each identity is taken as 384 bytes, as in V4. *)
RECURSIVE V5LoopFixedStride(_, _, _)
V5LoopFixedStride(ids, i, off) ==
    IF i >= Len(ids) \/ off = PacketLen(ids) \/ off + 384 > PacketLen(ids) THEN {}
    ELSE LET kl == KeyLen(ids, off)
         IN (IF kl > 0 THEN {V5Identity(ids, off)} ELSE {})
            \cup V5LoopFixedStride(ids, i + 1, off + 384)

(* receivePeerListV5 (lines 553-602): an identity of the length           *)
(* FromBuffer reports; on 0 the offset stays and the next turn reads the  *)
(* same bytes again.                                                      *)
RECURSIVE V5Loop(_, _, _)
V5Loop(ids, i, off) ==
    IF i >= Len(ids) \/ off = PacketLen(ids) \/ off + 384 > PacketLen(ids) THEN {}
    ELSE LET kl == KeyLen(ids, off)
         IN (IF kl > 0 THEN {V5Identity(ids, off)} ELSE {})
            \cup V5Loop(ids, i + 1, off + kl)

receivePeerListV5(ids) == V5Loop(ids, 0, 4)

(* A lookup thread parses a peer list a remote node sent (lines 432-494)  *)
(* with the decoder of its version, and addNode inserts each identity     *)
(* under m_nodes_mutex_.                                                   *)
ReceivePeerList(nodes, ver) ==
    /\ up
    /\ wr # "writing"
    /\ LET ids == PeerListPacket(nodes)
           got == IF ver = 4 THEN receivePeerListV4(ids) ELSE receivePeerListV5(ids)
       IN m_nodes_' = m_nodes_ \cup addNode(got)
    /\ UNCHANGED <<file, up, wr, pending>>

(* run() (lines 876-897): while started, writeNodes every 60 s. *)
Ticker == WriteOpen \/ WriteLock \/ WriteNode \/ WriteClose

Next ==
    \/ Start
    \/ \E n \in Nodes : Discover(n)
    \/ \E nodes \in Lists, ver \in Versions : ReceivePeerList(nodes, ver)
    \/ Ticker
    \/ Crash
    \/ Stop

(* run() sleeps 60 s between saves and never waits on anything else, so   *)
(* the ticker is fair; starts, crashes and discoveries are not.           *)
Spec == Init /\ [][Next]_vars /\ WF_vars(Ticker)

-----------------------------------------------------------------------------
(* getClosestNodes (lines 170-226).  An IdentHash compares as a big-     *)
(* endian number, and so does the XORMetric of a routing key and a hash.  *)

Metric(key, n) == key ^^ Hash[n]

Farthest(S, key) == CHOOSE x \in S : \A y \in S : Metric(key, y) <= Metric(key, x)

(* Lines 206-211, one node of the loop: insert while fewer than num are   *)
(* kept, else insert it and erase the farthest when it is closer than    *)
(* the farthest kept.  With num = 0 the set is empty and rbegin() is the  *)
(* end of the set: the comparison reads an undefined metric, either way.  *)
Keep(sorted, n, key, num) ==
    IF Cardinality(sorted) < num THEN {sorted \cup {n}}
    ELSE {IF closer THEN (sorted \cup {n}) \ {Farthest(sorted \cup {n}, key)}
          ELSE sorted :
            closer \in IF sorted = {} THEN BOOLEAN
                       ELSE {Metric(key, n) < Metric(key, Farthest(sorted, key))}}

(* Mutant of Scan: the locked() test is left out, as in the commented     *)
(* copy of the loop at lines 117-124.                                      *)
RECURSIVE ScanWithLocked(_, _, _, _, _, _)
ScanWithLocked(rest, sorted, key, num, to_us, locked) ==
    IF rest = {} THEN {sorted}
    ELSE LET n == CHOOSE x \in rest : \A y \in rest : Hash[x] <= Hash[y]
         IN IF to_us /\ Metric(key, Local) < Metric(key, n)
            THEN ScanWithLocked(rest \ {n}, sorted, key, num, to_us, locked)
            ELSE UNION {ScanWithLocked(rest \ {n}, s, key, num, to_us, locked) :
                          s \in Keep(sorted, n, key, num)}

(* Lines 200-214: m_nodes_ in map order (ascending hash) under the mutex; *)
(* locked nodes, and with to_us nodes farther from the key than the local *)
(* node, are passed over.  The set of the outcomes the build can give.    *)
RECURSIVE Scan(_, _, _, _, _, _)
Scan(rest, sorted, key, num, to_us, locked) ==
    IF rest = {} THEN {sorted}
    ELSE LET n == CHOOSE x \in rest : \A y \in rest : Hash[x] <= Hash[y]
         IN IF n \in locked \/ (to_us /\ Metric(key, Local) < Metric(key, n))
            THEN Scan(rest \ {n}, sorted, key, num, to_us, locked)
            ELSE UNION {Scan(rest \ {n}, s, key, num, to_us, locked) :
                          s \in Keep(sorted, n, key, num)}

(* The first num of a set of nodes in metric order. *)
FirstByMetric(S, key, num) ==
    {n \in S : Cardinality({y \in S : Metric(key, y) < Metric(key, n)}) < num}

(* getClosestNodes(key, num, to_us), key being the routing key: lines    *)
(* 216-225 copy at most num nodes of the sorted set.                       *)
getClosestNodes(key, num, to_us, locked) ==
    {FirstByMetric(s, key, num) : s \in Scan(m_nodes_, {}, key, num, to_us, locked)}

(* The query spec 4.3 states: up to num unlocked nodes, nearest first;   *)
(* with bias to the local node, none strictly farther than it.            *)
ClosestTo(key, num, to_us, locked) ==
    FirstByMetric({n \in m_nodes_ \ locked :
                      ~(to_us /\ Metric(key, Local) < Metric(key, n))}, key, num)

-----------------------------------------------------------------------------
(* Properties *)

(* The node is never up with an empty table while bootstrap addresses   *)
(* are configured: a crash between the truncation of nodes.txt and the    *)
(* writing of its lines leaves an empty or partial file, and loadNodes    *)
(* must still start from a non-empty table (spec 4.3: if no nodes load,   *)
(* the bootstrap addresses are inserted).                                 *)
TableNeverEmpty == up => m_nodes_ # {}

(* Every identity in the node table is a remote node that exists: never *)
(* the local destination (spec 3: "local identity never present"; addNode *)
(* checks it, and peer lists name the requester too), never an identity  *)
(* misread from a peer list another pboted node encoded (spec 8:          *)
(* decode(encode(nodes)) == nodes for both peer-list versions).           *)
TableHoldsPeers == m_nodes_ \subseteq Peers

(* Every node in the table reaches nodes.txt unless the process goes     *)
(* down first (spec 4.3: the node table is persisted periodically): the    *)
(* run() thread's writeNodes, every 60 s, writes the table as it is when   *)
(* it takes m_nodes_mutex_, and addNode waits for that mutex, so a node    *)
(* added during a save is written by the next one.                        *)
NodesPersisted ==
    \A n \in Peers : (up /\ n \in m_nodes_) ~> (~up \/ n \in file)

(* For every table the node can hold, every routing key, count, bias and  *)
(* set of locked nodes, getClosestNodes returns exactly the num closest   *)
(* eligible nodes, whatever the bounded-set replacement at lines 206-211  *)
(* kept along the way, and whatever the undefined read at num = 0 gives.  *)
ClosestNodesCorrect ==
    \A key \in 0..(2^HASH_BITS - 1), num \in 0..MaxNum, to_us \in BOOLEAN,
       locked \in SUBSET m_nodes_ :
        getClosestNodes(key, num, to_us, locked) = {ClosestTo(key, num, to_us, locked)}

=============================================================================
