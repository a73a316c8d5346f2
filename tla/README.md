# TLA+ models of pboted

This directory holds TLA+ models of pboted, an I2P-Bote mail node written
in C++. Each model is checked with TLC. The source is under `src/`:

- `src/src/DHTworker.cpp` is the Kademlia DHT engine.
- `src/unnamed/part_000` holds ConfigParser, PacketHandler and EmailWorker.
- `src/unnamed/part_001` holds the FS helpers and HashedStorage.

`PROJECT.json` lists:

- every component and its status;
- every run and what it shows;
- one mutant per checked property;
- the source lines behind every definition (`map`);
- the findings;
- the hazards.

## 1. The system

| Part | Code | State | Operations |
|---|---|---|---|
| Node table | DHTworker `m_nodes_`, `m_nodes_mutex_` | identities of known peers | `addNode`, `findNode`, `getAllNodes`, `loadNodes`, `writeNodes`, `run` (saves every 60 s) |
| DHT client verbs | DHTworker `closestNodesLookupTask`, `find`, `store` | a per-call batch, the member map `active_requests`, the resend counter | lookup loop, find and store with resends |
| Batch registry | BoteContext and PacketBatch (not under `src/`) | registered batches and their responses, keyed by CID | `send`, `receive`, `removeBatch`, `waitFist`, `waitLast` |
| Packet dispatcher | PacketHandler `IncomingRequest::handleNewPacket` | the handler map by packet type | correlate with a batch or dispatch to a handler |
| DHT server handlers | DHTworker `receive*`, PacketHandler `receive*Request` | none beyond the node table | FindClosePeers, Retrieve, DeletionQuery, Store, EmailPacketDelete, IndexPacketDelete |
| Email worker | EmailWorker `sendEmailTask`, `checkEmailTask` | the outbox, sent and inbox directories, and DHT content | encrypt, store E, store I, move to sent; retrieve I, retrieve E, save, delete |
| Content store | FS `HashedStorage` | files keyed by a 32-byte hash | `Init`, `Path`, `Remove`, `Traverse` |
| Config parser | ConfigParser | options | parsing only |

### How the parts interact

A worker thread starts each DHT verb. There is:

- one check task per identity;
- one send task.

A verb goes through these steps:

1. It reads the node table.
2. It builds a batch with one fresh CID per request.
3. It registers the batch and sends it.
4. It waits, then removes the batch.

An inbound datagram goes to `handleNewPacket`:

- If `context.receive` recognises its CID, the response goes to the batch.
- Otherwise it goes to the handler for its type.

Several threads share the node table and `active_requests`, and they run concurrently.

## 2. Modules

### DHTworker.tla: lookup and find (core)

The model has one state variable per piece of state in the code:

- `m_nodes_` is the node table.
- `active_requests` is the member map, modelled as a set of CIDs.
- `registered` is the set of batches registered with the context.
- `net` is the set of requests not yet answered.
- Each worker has a program counter `pc` and its locals: `batch`, `batchResp`, `responses`, `closestNodes`, `exec_duration` and `counter`.

Actions follow the code's suspension points. Each action is one stretch of
code between two waits:

| Action | Lines of DHTworker.cpp |
|---|---|
| `LookupStart` | 375-395 |
| `LookupSend` and `LookupExit` | 402-404, the loop test |
| `LookupWait` | 405-430 |
| `LookupParse` | 432-494 |
| `FindSelect` | 256-289 |
| `FindWait` | 291-299 |
| `FindResend` | 300-307 |
| `FindDone` | 308-312 |

`Answer(c)` models two things together:

- a remote peer answering request `c`;
- the local dispatcher (`handleNewPacket`) routing that answer.

A peer answers with every node it knows (`Knows[p]`, as in `receiveFindClosePeers`).

A lost request or a lost answer is a request that stays in `net` for ever. The
network gets no fairness.

**Time.** The lookup timeout is counted in whole waits: `LOOKUP_ROUNDS`.

**Bounds:**

- `MaxCalls` bounds the number of verbs per worker.
- `RESEND_LIMIT` stands for the code's `counter < 5`; the run uses 2 (see Bounds).

**Peers in this model.** The peers are I2P-Bote peers that accept version-5
requests. A pboted peer rejects them (see the PacketHandler hazard below).

**Refinement.** `DHTVerbs.tla` is the abstract specification of what the
DHT client promises its callers. It has no batches, CIDs or rounds:

- the table only grows, and only by identities that peers list, never by the local one;
- every verb a thread starts returns;
- a verb returns answers only from nodes of the table.

`DHTworker` states `ImplementsDHTVerbs`. It instantiates `DHTVerbs` with this mapping:

- `table` is `m_nodes_`;
- `busy[w]` is `pc[w] # "idle"`;
- `ret[w]` is the set of nodes whose responses `find` returned.

The abstract `Spec`, including its fairness, is checked as a temporal
property, so it also covers termination of every verb.

### NodeTable.tla: persistence of the node table

State:

- `m_nodes_`;
- `file` (the identities in nodes.txt);
- `up`;
- `wr` (where the `run()` thread is in `writeNodes`);
- `pending` (the nodes the current save still has to write).

Actions:

| Action | Code |
|---|---|
| `Start` | `start()` with `loadNodes` |
| `Discover` | `addNode` from any thread; it blocks while the save holds the mutex |
| `WriteOpen` | the `ofstream` that truncates nodes.txt |
| `WriteLock` | taking `m_nodes_mutex_` |
| `WriteNode` | one line written |
| `WriteClose` | the file closed |
| `Crash` | the process dies; it can happen at any point |

| `Stop` | `stop()` joins the `run()` thread after a save in progress; the process then exits, so the table in memory is gone (`stop()` itself does not clear `m_nodes_`) |
| `ReceivePeerList` | a lookup thread decoding a peer list (`receivePeerListV4` or `V5`, lines 432-474) and adding what it decodes |

`loadNodes` inserts the file's identities directly into the table. It uses the
bootstrap addresses only when the file yields no node. The save ticker is
weakly fair, because `run()` only sleeps 60 s between saves.

**Peer lists at the byte level.** `receiveFindClosePeers` writes a peer list
of the table's identities in map order (ascending hash), each at its full
length: 384 key bytes, a 3-byte certificate header and `Ext[n]` certificate
bytes (`IdentityLen`). The decoders are RECURSIVE operators over byte offsets:

- `V4Loop` reads fixed 384-byte strides, as `receivePeerListV4` does; an entry
  read at an offset that is not the start of an identity, or of an identity
  with a certificate, is a junk identity `<<"junk", offset>>`;
- `V5Loop` advances by the key length the identity at the offset declares, as
  `receivePeerListV5` does.

`Lists` are the peer lists a pboted node may send (they contain the local node
too, as a remote table does). `TableHoldsPeers` says the table holds only real
remote peers.

**getClosestNodes.** `getClosestNodes(key, num, to_us, locked)` models the
scan in map order, the `Metric` XOR, the bounded `std::set` that keeps at most
`num` nodes by replacing the farthest (`Keep`), the skip of locked nodes and,
with `to_us`, of nodes farther than the local node. Reading `rbegin()` of an
empty set with `num = 0` is undefined behaviour; the comparison comes out
either way (`closer \in BOOLEAN`). `ClosestNodesCorrect` compares the result,
in every reachable table and for every key, `num \in 0..MaxNum`, `to_us` and
locked set, with `ClosestTo`, the spec 4.3 definition: the `num` eligible
nodes nearest the key.

### PacketHandler.tla: dispatcher and DHT server handlers

The packet handler thread handles one datagram at a time, so the module is
sequential. The variables are:

- `m_nodes_`;
- `log`, the set of handled packets with their outcome.

A packet is a record of type, version, sender, CID, retrieve class and
index-delete entry count. `handleNewPacket` works in two steps:

1. It gives a packet whose CID is `Awaited` to its batch.
2. Otherwise it dispatches by type.

The request handlers of PacketHandler pass only version-4 packets to
DHTworker. The DHTworker handlers do two things:

- They add the sender with `addNode`.
- They answer. Store always answers `NO_DISK_SPACE`. The delete handlers always answer `NO_DATA_FOUND`. FindClosePeers reads the table after adding the requester.

The `for (uint32_t i = 0; i < num; i--)` loop of
`receiveIndexPacketDeleteRequest` is the RECURSIVE operator `DeleteLoop`. The
index is unsigned and wraps modulo `2^I_BITS`. With `I_BITS = 16`, the run
shows the same loop behaviour as 32 bits. The wrapped index exceeds every
uint8 count either way, and TLC's integers cannot hold `2^32`.

### EmailSend.tla: the send round

`sendEmailTask` makes four loops over the outbox:

1. `Encrypt`
2. `StoreE`
3. `StoreI`
4. `MoveToSent`

`PassSkipped` covers an email marked skip. `NextLoop` moves from one loop to the
next. Crashes can happen at any point.

Each encryption of an email is a fresh ciphertext `<<email, n>>`, so a retried
email gets a new DHT key. `DHTworker::store` is abstracted to what happened at
the nodes:

- `stored`: some node keeps the packet;
- `rejected`: nodes answered, none with OK;
- `none`: nobody answered.

`storeReturnsNodes` is what `store` returns: the responders, whatever their
status. A store that returns responders is followed by a local save with
`DHT_worker.safe`: the ciphertext (`localE`), and the index packet
(`localI`). The content store keeps one index packet per owner hash and
replaces it on every save (spec 4.2, `safeIndex`). All emails of the model
have the same recipient, so `localI` holds only the last email's entry.

### EmailWorker.tla: the supervisor of the email tasks

There are two actors, each with a `pc` entry:

- `main` calls `start()`, then at shutdown `stop()` and the destructor.
- `run` is the worker thread's `run()` loop.

The check task of each identity (`chk[i]`) and the send task (`snd`) are
thread objects. A thread object is `none` (absent, or a null pointer),
`running`, or `exited` (joinable). A task leaves its loop at the next
boundary once `started_` is cleared (`CheckExit`, `SendExit`).
`stopSendEmailTask(a)`, `JoinSend(a)`, `stopCheckEmailTasks(a)` and
`JoinCheck(a)` are shared by both actors, as in the code. A join is a step
that is enabled once its thread has exited. `it[a]` is the `begin()` that
actor `a` read. A join through an entry the other actor already erased sets
`ub`. `Reload` changes the context's identity set. It is spec-modelled,
since the context is not under `src/`.

`start()` calls the two start functions before it sets `started_`, so they
return at once, and `run()` starts the tasks on its first pass. The passing
run reloads only to non-empty identity sets. `startCheckEmailTasks` only
adds tasks, and a check task loops while `started_` alone, so the task of an
identity a reload removes keeps running until shutdown. When the set becomes
empty, `run()` also joins check tasks that only end at shutdown, so the
worker thread blocks for good. `RemovedIdentityStopped` states that a removed
identity's task is eventually stopped (spec 4.7); the run
`worker_identity_removed` (one identity, one reload to `{}` or `{i2}`) finds
it violated: `{i1}` is replaced by `{i2}` and `i1`'s task runs on.

### EmailCheck.tla: the check round

One identity's `checkEmailTask` runs these steps:

1. `CheckRound`
2. `RetrieveIndex(first, last, saved)`: every OK index response is saved
   locally with `safe`, one after the other, so the local index packet ends
   as the `last` one saved (if any was `saved`). Of the parsed packets, the
   `first` one per owner hash is kept (a `std::map` insert). The local index
   packet is then appended.
3. `RetrieveEmailPacket`: local emails and remote answers are merged, and every remote copy is saved locally.
4. `processEmail`: forged or undecryptable packets are dropped.
5. `SaveMail(k, ok)`, then `DeleteEmail`, then `DeleteIndexEntry`, for each email. `mail.save` may fail (`ok` is FALSE, drawn from `SaveOutcomes`); its result is ignored and the deletes follow, as at line 699.
6. `RoundComplete`

What the network returns is any subset of what remote nodes hold, because
responses may be lost. Remote nodes are pboted nodes: their
`receiveEmailPacketDeleteRequest` erases nothing. Mail arrives at any time,
at remote nodes or in the local storage (`Arrive`). A local arrival is what
this node's send task saves when it sends to its own identity: the verified
packet and a one-entry index packet, which replaces the local index. The process may crash
(`Crash`, at most `MaxCrashes` times).

`DHTworker::safe`, `deleteEmail` and `deleteIndexEntry` are not under
`src/`. Their local effect is taken from spec 4.2 (put replaces the value
under a key), 4.7 and scenario 3, and they are marked spec_modelled. The check task is weakly fair. The network, arrivals and
crashes are not.

## 3. Runs

| Run | Module / config | Expect | What it shows |
|---|---|---|---|
| dht_verbs | MC_DHTworker.cfg: 2 workers sharing table and `active_requests`, 1 lookup and find each, resend limit 2, 2 lookup rounds | pass | Batches are always removed from the context (`BatchReleased`). No request goes to the local node (`NoRequestToSelf`). The workers implement `DHTVerbs`. |
| nodes_restart | MC_NodeTable.cfg: 4 peers, bootstrap {p1}, file {p2}, 3-bit hashes, V5 peer lists | pass | After a crash in the middle of a save (nodes.txt truncated), a restart still begins with a non-empty table (`TableNeverEmpty`). V5 peer lists add only real remote peers (`TableHoldsPeers`). `getClosestNodes` returns exactly the spec's closest nodes in every table reached (`ClosestNodesCorrect`). Every node in the table reaches nodes.txt by a later save unless the process goes down (`NodesPersisted`). |
| dispatch | MC_PacketHandler.cfg: 2 senders, 2 CIDs (1 awaited), 2 packets | pass | FindClosePeers never answers `GENERAL_ERROR` (`FindPeersNeverEmpty`). |
| dispatch_version | MC_PacketHandler_version.cfg | violation of `RequestAnswered` | A version-5 request, the version `findClosePeersPacket` sends, is dropped unanswered. |
| send_round | MC_EmailSend.cfg: 2 emails, one with a bad address, peers that store or are silent, 3 attempts | pass | An email in sent/ has a stored ciphertext and an index entry naming it (`SentIsStored`). |
| send_rejected | MC_EmailSend_rejected.cfg: peers may also reject | violation of `SentIsStored` | All-refused stores count as success. |
| worker_supervise | MC_EmailWorker.cfg: 2 identities, start with none or `{i1}`, 2 reloads to non-empty sets | pass | Every identity that stays configured gets a check task (`IdentityChecked`). `stop()` and the destructor return (`StopReturns`). |
| worker_identity_removed | MC_EmailWorker_ids.cfg: start with `{i1}`, one reload to `{}` or `{i2}` | violation of `RemovedIdentityStopped` | The check task of a removed identity keeps running until shutdown. |
| worker_shutdown | MC_EmailWorker_shutdown.cfg: one identity, no reload | violation of `CleanShutdown` | `stop()` racing `startCheckEmailTasks` leaves a check thread that nobody joins in `m_check_threads_`. |
| check_round | MC_EmailCheck.cfg: 3 keys (k1 remote, k2 arriving, k3 forged), 1 crash, inbox saves succeed | pass | An email indexed locally reaches inbox/ even if the network never answers, unless its local entry is overwritten first (`LocalMailDelivered`). |
| check_save_failed | MC_EmailCheck_save.cfg: the same, inbox saves may fail | violation of `EmailPacketKept` | A failed inbox save is followed by the deletes, and mail held only locally is lost. |
| check_index_replaced | MC_EmailCheck_index.cfg: the same | violation of `NoMailLost` | An email held only locally loses its index entry when a later index packet is saved over the local one, and is never found again. |

Each property of a passing run has a mutant in `PROJECT.json`: a plausible
bug in the modelled code that TLC catches with the run's own config.

### Bounds

- **DHTworker.** Three peers are enough for every path. `p1` lists `p2`, `p3`
  and the local node, so a lookup adds nodes and meets its own identity.
  `find` falls back to the whole table and also meets the early return with
  fewer than 3 nodes. The run lowers the resend limit from 5 to 2 and the
  number of rounds: two workers with the code's values have millions of
  states. A limit of 2 still has a resend of a resent batch, and late
  answers to an earlier send.
- **NodeTable.** One bootstrap node and one file node make "file yields
  nothing" and "file yields something" both reachable after a truncating
  crash. Hashes 1, 2, 4, 7 for the peers and 5 for the local node (3 bits)
  give every key a different order of nodes; `MaxNum = 3` covers `num = 0` (the function has no live caller: its only call, line 823, is commented out),
  fewer and more eligible nodes than `num`. One peer and the local node carry
  a 4-byte key certificate, so both fixed-length and certificate-bearing
  identities occur in the lists `{p1, me}` and `{p3, p4, me}`.
- **PacketHandler.** Two packets make every order of an awaited and an
  unawaited packet reachable, and every packet type and version is
  enumerated. `MC_PacketHandler_xloop.cfg` checks `IndexDeleteParsesAll`
  with up to 2 index-delete entries and shows the loop stopping after the
  first; it is not a registered run (see Findings).
- **EmailSend.** Three attempts allow a crash-and-retry and a re-encryption.
- **EmailWorker.** Two identities let a reload add one identity while another
  has a task, or replace it. Two reloads are enough for "no identity at start,
  then one, then two". The shutdown race needs only one identity and no
  reload. The removal run needs one identity and one reload that
  removes it, to nothing or to another identity.
- **EmailCheck.** Three keys give one email at a remote node, one arriving
  during a round and one forged. One crash lets a round die between the save
  and the deletes.

### Fairness

- **Worker threads, the `run()` tickers, the check and send tasks, and the
  main thread once it has started or is stopping** are weakly fair.
  Each waits only on timed sleeps or timed batch waits
  (`waitLast(RESPONSE_TIMEOUT)`), so it is never blocked for ever.
- **The network, arrivals of mail, crashes, identity reloads and the moment
  `stop()` is called** get no fairness.

## 4. Findings

- **`active_requests` is never cleared** (`DHTworker.cpp:393`). It is a member map that `closestNodesLookupTask` shares across calls, and unanswered requests stay in it, so a later lookup loops until its timeout. `ActiveRequestsOwned` states that the map holds only the running lookup's requests; `tlc -config MC_DHTworker_stale.cfg MC_DHTworker` finds it violated (it is not a registered run; `ImplementsDHTVerbs` checks that every lookup still returns, which the timeout guarantees).
- **Tasks of removed identities are never stopped** (`part_000:544`, `:626`). `startCheckEmailTasks` only adds tasks, so a reload that removes an identity leaves its task checking the mailbox until shutdown; with no identity left `run()` blocks joining tasks that cannot end before `stop()`. Spec 4.7 says the supervisor starts and stops per-identity workers when the identity list changes.
- **`store` counts non-OK responders as success** (`DHTworker.cpp:364`). Because of this, `sendEmailTask` moves refused emails to sent/. This diverges from spec 8.
- **V4 peer lists are misread** (`DHTworker.cpp:520`, a hazard with `tlc -config MC_NodeTable_v4.cfg MC_NodeTable` reproducing it; not a registered run, since pboted's own lookups send version 5 and pboted peers never send each other V4 lists). `receiveFindClosePeers` writes each identity at its full length (387 bytes or more) but `receivePeerListV4` reads 384-byte strides, so from the second entry on it builds identities no node has, and they enter the table. Spec 8 asks that decode(encode(nodes)) = nodes.
- **`loadNodes` bypasses the local check** (`DHTworker.cpp:933`). This is listed as a hazard: no run starts from a nodes.txt that names the local node.
- **Version-5 requests are dropped.** Every DHT request handler accepts version 4 only (`part_000:412`), but pboted's own lookup sends version 5.
- **A failed inbox save loses local mail** (`part_000:699`). `checkEmailTask` ignores the result of `mail.save("inbox")` and then deletes the email's packet and index entry. For mail held only in the local storage (mail to self, which no pboted peer stores), a failed save leaves the email nowhere. Spec 4.7 step 4 orders "write to inbox; issue delete". TLC's trace: `k2` arrives locally, the round fetches it, the save fails, `DeleteEmail` erases the local packet.
- **Shutdown race in the email worker** (`part_000:555`, `:584`). `startCheckEmailTasks` tests `started_`, then creates and stores a check thread, with no lock. If `stop()` clears the flag and empties `m_check_threads_` in between, the thread is stored after the last join. The destructor then destroys a joinable `std::thread`, which calls `std::terminate`. The send task has the same window.
- **`i--` in `receiveIndexPacketDeleteRequest`** (`DHTworker.cpp:794`). The loop parses only the first entry. Spec 9 already records this, so it is kept as a hazard; `tlc -config MC_PacketHandler_xloop.cfg MC_PacketHandler` reproduces it.
- **The local index is overwritten, not merged** (`part_000:1103`, `:1016`). `retrieveIndex` saves every index response with `DHT_worker.safe`, and `sendEmailTask` saves each email's one-entry index packet the same way. The content store keeps one index packet per owner hash and replaces it (spec 4.2). An entry held only in the local index is lost when another packet for the same identity is saved: a remote node's index packet (even an empty one), or the index of the next email sent to the identity. Mail to self that no remote node stored (with pboted peers, none does) is then never found. TLC's trace: a local arrival of `k2`, then a round whose index response replaces the local index. Spec 4.7 step 1 says the local index is merged with the DHT's.

## 5. Not modelled

- **The config parser, filesystem helpers and HashedStorage.** These are pure I/O with no concurrent state.
- **`check_inbox` and the `incompleteEmailTask` stubs.** They only read files or are empty.
- **Cryptography and Base64.** Identities and keys are model values, hashes small integers. Packet encodings are modelled only for peer lists, by byte offsets and lengths.
- **A failed open in `writeNodes`** (`DHTworker.cpp:971`). It returns with nothing changed, a stuttering step of the model; `NodesPersisted` assumes the file can eventually be opened.
- **`findOne` and `findAll`.** They call `find` with `exhaustive` false or true, which only chooses `waitFist` or `waitLast`; the model's batch waits return after any subset of answers, which covers both.
- **Data races.** Races on `m_nodes_` and the read of an undefined handler at `PacketHandler:248` are listed as hazards. Table reads are atomic in the model.
- **`Email::save`, `DHTworker::safe`, `deleteEmail` and `deleteIndexEntry`.** These are not under `src/`. Their effect is taken from the spec where a module needs it. `Email::save` either succeeds or fails (`SaveOutcomes`); `check_round` and `check_index_replaced` let it succeed, so that their traces are about the merge and the overwrite, and `check_save_failed` lets it fail.
- **Batch registry (BoteContext).** This is not under `src/` either. It is modelled from spec 4.5 inside `DHTworker`.
