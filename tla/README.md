# Specifications of the zz-p2p node

TLA+ models of the peer-to-peer node in `src/src`: how nodes connect and agree on
session keys, learn of each other, exchange chat messages and receipts,
synchronise their seed sets and their data, agree on a ring of witnesses, and keep
a ledger in SQLite and a user's messages and profile on disk.
TLC checks small instances, TLAPS proves the central safety properties for every
value of the constants. Paths below are relative to `src/src`; `cmd/` stands for
`protocols/commands/`.

    tlc -workers 2 -config HandshakeSafety.cfg MCHandshake
    tlapm HandshakeProofs.tla

`PROJECT.json` maps every definition to the lines it models, lists the runs, the
mutants that show each property can fail, the hazards and the theorems.

## 1. The system

A node is one tokio process. It listens on a TCP port for P2P frames and HTTP,
dials other nodes, and runs one router loop per connection. `aex` (external)
provides the connection manager, the router, the paired session keys and the
`GlobalContext` slots. Every frame is signed; a command is `(entity, action, data)`.

| Component | State | Operations | Hard because |
|---|---|---|---|
| Handshake (`node.rs`, `cmd/online.rs`, `cmd/ack.rs`, `cmd/offline.rs`) | connections, temporary and main key tables, `is_connected` flags | dial, OnLine, key exchange, OnLineAck, return connection, disconnect monitor, offline | two connections per pair, each with two concurrent handlers cut at every await; the exchanges overlap; sockets close between the steps |
| Registry and gossip (`cmd/node_registry.rs`, `cmd/ack.rs`, `cmd/online.rs`, `clis/connect.rs`) | seeds per node id, flags, pending dials | register, broadcast seeds, dial new seeds, `connect` command | gossip answers gossip; a tiebreaker decides who dials; records for one address compete |
| Chat and receipts (`web/api.rs`, `cmd/message.rs`, `protocols/frame.rs`) | `PendingAcks`, `SeenMessages`, `NEXT_REQUEST_ID`, stored status | send, wait, deliver, ack, forward, time out | ids repeat between processes, acks are flooded, timeouts race acks |
| Seed synchronisation (`cmd/seed_sync.rs`) | registry, `peer_addrs`, local state of a cycle | cycle of rounds, a task per peer with retries, request and response handlers | success without an answer, late answers, a hash that leaves out ids |
| User store (`user_store.rs`, `web/api.rs`) | `chat.json`, `profile.json`, image, profile cache, one lock | add, confirm, view and mark, list, load, save, upload | readers take no lock, files are truncated before they are written, crashes |
| Ticks and witness ring (`cmd/tick.rs`) | slots of the global context: last agreed hash, count of agreeing ticks, witnesses, balances | tick, lock the ring, distribute | handlers of several connections read and write each slot in separate steps |
| Node synchronisation and witness validation (`cmd/node_sync.rs`, `cmd/witness_validate.rs`) | two one-slot channels and a channel of events to the embedding application, a oneshot per request | request, answer, forward, validate | handlers wait for the application without a timeout and hold up their connection |
| Ledger (`db/`) | balances, transactions, epochs, tick records, metadata in SQLite | transfer, chain of hashes, one-shot marks, next epoch, count a tick | every call is a query and then a write, with and without a transaction |
| Node records (`record.rs`, `node.rs`) | score, periods, expiry | update, upsert, maintenance, save | - |
| Web pages, command line, storage, notifications | - | rendering, printing, file I/O, callbacks | - |

The parts interact as follows. The handshake carries the registry's seeds in
OnLine and OnLineAck, and new seeds cause dials, which run handshakes; after a
handshake the responder asks for a node synchronisation. Ticks compare and extend
the same registry. Chat frames use the keys the handshake left and the
connections it opened; `handle_send_chat` writes to the user store and its
waiting task confirms there. The seed synchronisation reads and fills the same
registry. The models meet at these interfaces: `Handshake` takes the dials gossip
proposes as the dial kind "gossip"; `SeedGossip` takes a handler as one step;
`Messaging` takes keys and connections as constants (with connections that
break); `SeedSync` starts from registries as gossip leaves them, port 0 and wrong
ids included, and `TickRing` takes the rings of the peers as given;
`UserStore` takes sends, receipts and page requests as calls, `Ledger` the calls of
the embedding application; `NodeSync` takes the application itself as a process.

What makes each component correct:

* Handshake: keys never mix sessions or peers; ends agree; a settled pair stays
  so; both directions get connected; a flag goes with the last connection.
* Gossip: ids in registries are true; gossip ends, and ends in a full mesh.
* Messaging: "delivered" means delivered; outcomes are final; requests end; acks
  do not circulate for ever.
* Seed synchronisation: what "converged" promises; what must not spread; cycles end.
* User store: stored messages stay; "read" means shown; cache and avatar are
  current; no call hangs.
* Ticks: a ring is locked after repeated agreement only; a lock enters every
  witness and pays every share, and never more than the reward.
* Node synchronisation and validation: answers reach the node that asked, failures
  are not taken for data, no handler waits for ever.
* Ledger: whole calls or nothing; one network; one chain; one epoch per day; every
  tick counted.

## 2. The models

### Handshake
`Conns` are the dials of ordered pairs of nodes. Per connection: `link` (TCP),
`online` (the responder's `online_handler`), `ack` (the OnLineAck and the
initiator's `onlineack_handler`), `offer` (the public key in the ack, or the zero
key), `monitor`. Per node: `temp` and `main` (the tables of `PairedSessionKey`),
`connected` (flags). A session key is the set of the two ephemeral secrets that
went into it, so that keys are equal exactly when the exchanges were the same.
Three histories only serve the properties: `crossed` are the connections on which an
exchange began while the answering node's own OnLine was unanswered, `restarted` the nodes that lost
their keys, `undone` the connections whose exchange failed at one end. `Intact` says
of a pair that neither end restarted, that no exchange failed, and that no
connection broke with a key on it (`Cut`). Nobody reads the ack of a dial of the
cli, so an OnLine it sent stays unanswered, and an exchange the other way after it
counts as crossed.

Handlers are cut at their awaits: `OnlineAccept` (register and flag),
`OnlineKeys` (decide by the main table whether to exchange), `OnlineSendAck`,
`OnlineReturn` (search for an outbound connection, dial back if there is none),
`Monitor`; `AckEnds` (complete the exchange unless the key is zero),
`AckRegister`. `Start`, `Dialed`, `DialRefused`, `DialFailed`, `MarkConnected` are
the dial; `Drop`, `Offline`, `Restart` the failures, and `OnlineKeysFails` and
`AckEndsFails` the error paths of `establish_begins` (the handler returns, or goes on
with the zero key although there is none) and `establish_ends` (only logged). Whether `establish_ends`
of the external library keeps an existing key is not visible in this repository:
`endsKeep` is chosen once, and all properties hold for both choices.
The guard of the tiebreaker compares address strings or socket addresses
(`AddrRank`, `SockRank`), as the code does at different places.

### SeedGossip
`reg[n]` is a set of (socket address, node id); addresses are a node's listener
on one of two interfaces, or its ip with port 0. `HandleOnline`, `HandleAck`
and `HandleGossip` are the handlers with their registrations, answers,
broadcasts and spawned dials; `Collect` and `Dial` are `connect_to_new_peer`, which
takes the seeds before it dials, and the other dial tasks; `CliConnect` the command, which registers the peer's address under the
own id (`clis/connect.rs:28`). `Records` is `SeedsCommand::new`, which keeps one
of several records for an address, by hash map order. What one node writes to
another is one ordered stream, although two peers may share two connections.
Connections do not break here, so nothing is said of flags that outlive them; that
is in `Handshake`.

### Messaging and Delivery
`phase[s]` follows `handle_send_chat` and its waiting task for the send `s`;
`pending`, `seen`, `nextId` are the globals of the same names in each process.
`SendBegin` registers the request and stores the message, `PreviewPanics` is the
byte slice of the preview inside a multi-byte character, `SendText` is
`P2PFrame::send` with its lookup of key and connection and its errors,
`Confirmed`, `Expire` and `GiveUp` are the waiting task. The receiver's side is
`ReceiveText`, `SendReceipt`, `ReceiveAck`, which remembers an ack in `SeenMessages`,
and `FinishAck`, which completes the pending request or forwards the ack; between the
two lie awaits, and a broken connection may abort the handler there (`swallowed`).
`StoreFails` is an error of the user store, which is only logged. `Remember` clears the whole set
when it is full. Frames may be lost and overtake each other; `Break` and
`Restart` may happen anywhere.

`Delivery` is what all nodes together promise the sender: a message answered with
an error never arrives, a confirmed one has arrived or shares its request id with
another, and what the sender was told is never taken back. `Told` maps the phases
of `handle_send_chat` to it; acks, dedup, forwarding and the tables behind them
are invisible there. A message may arrive after the sender gave up, and one that
shares its id may arrive after it was confirmed.

### SeedSync
`cycle`, `round`, `stable`, `prev`, `result` are the local variables of
`run_seed_sync_cycle`; `task` and `attempt` its spawned tasks. `Wake` takes a
sync for done 500 ms after the request was written. `Hash` counts how often an
address is listed, which is what hashing the sorted addresses tells apart.
`Respond` is apart from `ReceiveRequest` because the handler gives up the lock of
the context in between.

### UserStore
One address, its three files, the cache and `UserStore.lock`. `op[p]` is the call
task `p` runs and `at[p]` where it is. `Lock` takes the lock and, for chat calls,
reads and edits the list; `Truncate` opens the file (empty or partly written),
`WriteChat`, `WriteProfile`, `WriteImage` finish it. `Get` and `LoadRead` read
without the lock. `Fill` and `Insert` set the cache after the file was read or
written, with the lock given back. `ReadFails` is an I/O error of a read: a view then
shows nothing and marks all the same, a save goes on without the avatar, every other
call ends. `WriteFails` and `Restart` leave a file as it
is. Nothing in the repository calls `add_message` for received messages; the
embedding application does, so "received" is a call of its own.

### Ledger and AtomicLedger
`tables` are the committed rows. A call is a query step, which decides on errors
and early returns, and a write step, which writes what it computed from what the query
found (`seen`). On the connection, `WriteBare` commits at once; in a
transaction (`transfer` always, others through `with_transaction`) `WriteTx` works
on the snapshot `view`, needs SQLite's write lock and a snapshot that is not out of
date, and `Commit` publishes it. `CreditTx` is the second balance of a transfer. `Fail` is any
error, rollback or crash at any statement. A hash is the sequence of bodies it was
computed from; the field `tx` of a row and `last`, the call that took effect last, are
histories.

`AtomicLedger` is what the stores promise: every step names the call it is (`last`)
and is the whole effect of that call, so that the debit of a transfer cannot pass for
a call of `set`; one choice of the network, rows that follow the last row. It admits two things a reader might not
expect, because the code does them: an account that pays itself gains the amount,
since the credit is computed from the balance before the debit, and a row inserted
outside a transaction may follow any row. The refinement mapping reads
a missing balance as 0.

### TickRing
One node; `Conns` deliver ticks built from `Rings`, the rings of its peers. `Receive` registers
the seeds, if the tick has some and their hash is right, `TakeRing` takes the local ring, `Agrees` and `Differs` compare the
hashes, then the handler goes through the slots one access at a time: `Decide`,
`ResetCount`, `MarkHash`, `ReadCount`, `Bump`, and, when the ring is stable,
`lock_witness_ring`: `ReadWitnesses` and `EnterWitness` for each seed, `Seal`,
`ReadBalances`, `Distribute`. `Abort` is the loss of the connection, which ends its
handler at any await. The histories `members` and `due` grow when a lock starts
(`StartLock`), so that a lock that never reaches its payment is missed. The lock of a handler's own context does not order
handlers of different connections. `Hash` counts how often an address is listed;
node ids do not enter the hash.

### NodeSync
`loop[c][n]` is the router loop of node `n` on connection `c`: reading, or inside a
handler that waits for the slot of the request channel ("offer"), the oneshot
("await") or the slot of the response channel ("forward"). Witness validation
shares the loops and therefore waits behind them. `Register`, `Take`, `Answer`,
`Receive`, `ReceiveEvent` and `Close` are the embedding application: it may register
late, answer in any order, drop a request, close a channel or replace it by another
with `set_request_sender` or `set_response_sender`; the receiver of the old one is taken
to be dropped then, an application that goes on reading it is not modelled. The ids in
events are a history: the code's event names the requester's own address and drops the
nonce. `Lose` takes a
connection with its frames and may abort its handlers. Request ids are uuids: they
do not repeat. An application that registers does so for all channels at once in
the run.

## 3. What the runs show

| Run | Instance | Result |
|---|---|---|
| `handshake_safety` | 2 nodes with opposite orders, 2 dials per direction, 1 failure; 1,060,878 states | `TypeOK`, `KeyOwnership`, `AgreeUnlessCrossed`, `ZeroKeySafe`, `OnlyDialersStale`, `SettledPairsStay` hold |
| `handshake_live` | same, no failure, fair; 10,562 states | `MeshSymmetric`, `BothKeyed` hold |
| `handshake_keys` | 1 dial per direction | `KeysAgree` fails |
| `handshake_flags` | 1 dial per direction, 1 failure | `FlagsCleared` fails |
| `messaging` | 3 nodes, 2 messages, 1 restart, broken connection or failing store, lost frames, fair; 572,471 states | `TypeOK`, `PendingNotMasked`, `StatusTruthfulUnlessShared`, `RefinesDelivery`, `EverySendEnds`, `FloodEnds` hold |
| `gossip_mesh` | 3 nodes, one dials two, fair; 200,827 states | `MeshedAtRest`, `GossipEnds` hold |
| `gossip_cli` | 2 nodes with 2 interfaces, a `connect` command; 212 states | `TypeOK`, `SeedIdsTruthful` hold |
| `sync` | one node syncs with two peers, 3 rounds, 2 attempts, 1 fault, answers in any order, fair; 577,334 states | `TypeOK`, `ConvergedExchanged`, `LoopbackContained`, `PortlessContained`, `EveryCycleEnds` hold |
| `user_store` | 2 tasks, 3 calls of any kind, 1 fault, fair; 521,464 states | `TypeOK`, `MessagesKept`, `ReadWasShown`, `CacheCurrent`, `AvatarKept`, `EveryCallEnds` hold |
| `ledger` | 2 tasks, 3 calls of any kind, errors anywhere; 245,203 states | `TypeOK`, `SerialInTransactions`, `TicksCounted`, `RefinesAtomic` hold |
| `tick_ring` | 2 connections, rings with a shared address, aborts; 1,726,276 states | `TypeOK`, `LockedTwice`, `LocksKept`, `RewardsBounded` hold |
| `node_sync` | 2 nodes, 2 connections, 2 requests, 2 faults, fair; 224,681 states | `TypeOK`, `AnswersOwn`, `EveryRequestEnds` hold |

### Where code and comments disagree
* `handshake_keys`: the return connection's OnLine overtakes the first ack. Both
  exchanges complete and the two ends keep different keys, which the comments at
  `cmd/online.rs:126-128` and `573-576` exclude. `AgreeUnlessCrossed` says this is
  the only way, unless one end restarted, an exchange failed or a broken connection took
  a key with it.
* `handshake_flags`: the monitor of `cmd/online.rs:691` is to clear the flag of a peer
  whose connection closed. Only the responder starts one; a node that dialled keeps the
  flag `cmd/ack.rs:208`, or a dial of gossip, has set, unless the return connection was
  made, whose handler watches it. `OnlyDialersStale` says that, but for handlers aborted
  before they start the monitor, these are all.

### Observed while modelling
* An ack forwarded to all peers completes another node's request with the same id,
  against `cmd/message.rs:18` ("true = delivered"). This is the `Reused` exception of
  `AckTruthfulUnlessReused`, and the theorem shows that it is the only one.
* An account that pays itself gains the amount (`PayItself`). A credit beyond u64
  wraps in release builds and panics in debug builds; both are in the model, as
  `Credit` and as `Fail`. Tick counts wrap at 256 in the same way.
* Outside a transaction, two inserts fork the chain, two callers create the same
  day, and concurrent ticks are lost; `SerialInTransactions` and `TicksCounted` fail
  without their exceptions. Unique columns protect `set_network` and new balances.
* Two handlers that lock the ring at the same time lose witnesses and rewards:
  both parts of `LocksKept` fail without `disturbed`, and so does one whose handler is
  aborted. From the second agreeing tick on, every
  further one locks and pays again.
* The response to a validation names the requester as its sender (it takes the
  address from the frame it answers), and nobody compares the nonce.
* `node.rs:610` makes the future of `save_registries` and drops it without awaiting
  it. `len() - 1` at `node.rs:595` cannot underflow, because `update_status(true)` has
  just left a period, but the extension there is made on a clone and lost.
* `ZeroKeySafe` and `AgreeUnlessCrossed` need the exceptions of `Intact`. A node that
  restarted, or whose connection broke with the peer's key on it, is later answered
  with the zero key by the peer, which has one, and ends up without a key itself.
* Gossip frames carry port 0, and the receiver registers the sender with it,
  although `cmd/online.rs:214-216` asks for reachable listeners in registries.
  `PortlessContained` shows that such seeds go no further by synchronisation; gossip
  broadcasts its registry unfiltered (`cmd/online.rs:166`, `641`, `cmd/ack.rs:313`).
* `clis/connect.rs:28` and `clis/sync.rs` register the peer's address under the
  own id. `SeedIdsTruthful` shows that handshake and gossip add no source to the
  connect command; the sync command is not in the model.
* `FloodEnds` depends on there being no more acks than `SEEN_MESSAGES_MAX`.
* A node that forwards an ack remembers its id, and its own later request with
  that id then loses its ack to the dedup: the `Reused` case of `PendingNotMasked`.
* An ack handler aborted between `cmd/message.rs:152` and `166` swallows the ack: the
  request ends by its timeout although the message was delivered (`swallowed`).
* A view whose read fails marks as read what it did not show (`web/api.rs:562-563`), and
  a save whose read fails drops the avatar (`web/api.rs:643`).
* Requests of the seed synchronisation are not filtered for loopback addresses,
  responses are. A sync succeeds without a response. The converged set is derived
  again after its hash was compared.
* A panic on the preview leaves an entry in `PendingAcks` (`EverySendEnds`
  excludes it).
* In the user store all four exceptions are needed, TLC finds each without it: a
  view that reads a truncated file, cannot read it, or is overtaken by a new message,
  marks what it never showed as read (`missed`); filling the cache may bring back an
  older profile (`raced`); a save that overlaps an upload or cannot read the profile
  drops the avatar (`blind`); a write cut short loses the messages (`torn`).
* Nothing calls `send_tick`, and it sends `Entity::Node` while the router listens
  to `Entity::Witness`.

The exceptions (`crossed`, `restarted`, `undone`, `Cut`, `Reused`, `swallowed`, `missed`,
`raced`, `blind`, `torn`, `lost`, `disturbed`) are races and failures in which the code
does lose something. The properties do not say that these are absent; they say that
there are no others, and what holds even then.

### Why the bounds suffice
* Two nodes: keys, flags and connections are kept per pair, a third node
  interferes only by proposing dials, which the "gossip" kind does freely. Two
  dials per direction allow a repeated dial on top of a dial and its return connection.
  One failure at any step covers each single cut.
* Messaging: three nodes are the least with a bystander that forwards; the
  missing link, key and seed make every branch of the target's choice happen;
  `SeenMax = 2` makes the set overflow; two sends and a restart reuse an id. Two
  senders that use the same id at the same time are in the theorems, not in the run.
* Gossip: three nodes are the least where one learns of another by gossip. The
  theorem `MeshAtRest` has all other graphs of first dials and all orders of addresses.
* Synchronisation: with two peers of different sets one may answer while the other is
  late, and one fault leaves one of them out of a round. Three rounds are the
  least in which the set changes and is then stable twice; two attempts let one fail
  and be made good.
* User store: the races take two tasks; three calls allow a third one to see the
  damage; a fault may hit any of them.
* Ledger: every race of the stores is one of two calls; the third call prepares or
  observes. Small limits make balances and counts wrap.
* Ticks: two handlers are the least that race; the ticks suffice for a lock, an
  overlapping lock and a change of the ring. A node on two
  interfaces is entered once and paid twice.
* Node synchronisation: two requests on two connections between the same nodes compete for
  each slot, from one side or from both; one slot for events lets one be dropped.

### Fairness
Weak fairness is only assumed of steps the runtime takes by itself: ready tasks
are polled, timers fire, file operations return. `handshake_live` and
`gossip_mesh` also let open connections deliver (TCP does, and nothing fails in
them); `messaging` lets a frame arrive or get lost; `sync` assumes
nothing of the network but that a task gets to write: `SendRequest` waits for a lock and
for `write_all`, neither with a timeout, so that a peer that accepts a connection and
never reads could hold it up, which the fairness excludes. `node_sync` assumes of the application that it reads the
channels it registered and answers or drops what it took, which is what
`EveryRequestEnds` needs in place of timeouts; registering and closing are not
fair. Users, failures and restarts are never fair. Deadlock is not checked: a
network with nothing to do rests, and the bounds end every behaviour.

## 4. What is proved

All proofs hold for every set of nodes, tasks or connections and every bound, from the named
`ASSUME`s of each module (types of the constants; TLC evaluates them in the runs).

| Theorem | Statement | Inductive invariant |
|---|---|---|
| `HandshakeProofs!TypeCorrect` | `Spec => []TypeOK` | `TypeOK` |
| `HandshakeProofs!KeysOwned` | `Spec => []KeyOwnership` | with `OfferShape`: an ack carries the zero key or the responder's secret of its own session, which is what `AckEnds` combines |
| `HandshakeProofs!ZeroKeysSafe` | `Spec => []ZeroKeySafe` | `PairInv`: in an intact pair a key at one end is at the other or on its way there, and a zero key finds its initiator with one (`Matched`), because each stage of the two handlers implies the earlier ones (`Stages`), and connections not yet used have no history (`Unborn`) and come up once (`UpOnce`) |
| `HandshakeProofs!KeysAgreeUnlessCrossed` | `Spec => []AgreeUnlessCrossed` | with `OneOffer`: in an intact pair without crossing one exchange at most offered a key, and who offered it keeps it |
| `HandshakeProofs!SettledStays` | `Spec => SettledPairsStay` | types and the shape of connections that are not up; the argument is per step |
| `HandshakeProofs!PairsSymmetric` | `Spec => []SymmetricAtRest` | `RestInv`: while nothing failed, a connection has a return connection, or the handler that will make one or the dial is still running (`Returned`), and a responder that decided on the exchange has a key (`Answered`) |
| `HandshakeProofs!StaleFlagsAreDialers` | `Spec => []OnlyDialersStale` | `FlagInv`: every flag has its reason (`FlagReason`): a dial that was answered or marked, a handler that has yet to start the monitor or never will, or a monitor that runs |
| `MessagingProofs!MessagingTypeCorrect` | `Spec => []TypeOK` | `TypeInv`: ids are at most the number of sends (`IdBound`), frames and receipts belong to sent messages (`SentOnly`) |
| `MessagingProofs!AcksTruthful` | `Spec => []AckTruthfulUnlessReused` | `TruthInv`: an ack on the wire has the id of a delivered message, so what it completes is that message or shares its id |
| `MessagingProofs!AcksNotMasked` | `Spec => []PendingNotMasked` | `MaskInv`: an ack id is remembered only after a message with it was delivered, and until its handler has removed the request or was aborted (`Handled`); a request registered later shares its id |
| `MessagingProofs!StatusTruthful` | `Spec => []StatusTruthfulUnlessShared` | `StatusInv`: what is stored was sent, so the newest stored one of a contact, which is marked, is the one confirmed or another one |
| `MessagingProofs!OutcomesFinal` | `Spec => OutcomeFinal` | `EndInv`: a request that ended is not in `PendingAcks` |
| `MessagingProofs!KeepsPromise` | `Spec => RefinesDelivery` | `TruthInv` and `LeftInv`: a message on the wire was not refused |
| `MessagingProofs!FloodRunsOut` | `Spec => WorkUsedUp` | `TypeInv` |
| `SeedGossipProofs!GossipTypeCorrect` | `Spec => []TypeOK` | `GossipInv` |
| `SeedGossipProofs!IdsTruthful` | `Spec => []SeedIdsTruthful` | `GossipInv`: frames travel between the ends of their channel, carry truthful seeds, and handshake frames go over an address of the responder; seeds collected for a dial are known to its node (`LoadsKnown`) |
| `SeedGossipProofs!MeshAtRest` | `BootConnects` implies `Spec => []MeshedAtRest` | `MeshInv`: first dials are made or due; a connection is returned, or its OnLine or its return dial is still to come; and two nodes a third has heard of are introduced: connected, about to be, or told of each other in a frame the right one of them will act on |
| `SeedGossipProofs!GossipRunsOut` | `Spec => WorkUsedUp` | `GossipInv` |
| `SeedSyncProofs!SyncTypeCorrect` | `Spec => []TypeOK` | `TypeOK` |
| `SeedSyncProofs!PortlessStay`, `LoopbackStays` | `Spec => []PortlessContained`, `Spec => []LoopbackContained` | `SpreadInv`: what is in flight may spread, and only running cycles have tasks |
| `SeedSyncProofs!ConvergenceExchanges` | `Spec => []ConvergedExchanged` | `ExchangeInv`: in a round without late answers, what a peer could tell is there or coming, and a set with the last hash is at each peer or going there |
| `SeedSyncProofs!SyncRunsOut` | `Spec => WorkUsedUp` | `TypeOK` |
| `UserStoreProofs!StoreTypeCorrect` | `Spec => []TypeOK` | `KeepInv` |
| `UserStoreProofs!MessagesSafe` | `Spec => []MessagesKept` | `KeepInv`: only the holder of the lock rewrites (`LockInv`), a call writes its own file (`FileInv`), and what was stored is in the file or, while it is open, in the list that replaces it (`ListInv`) |
| `UserStoreProofs!CacheIsCurrent`, `AvatarStays` | `Spec => []CacheCurrent`, `Spec => []AvatarKept` | `ProfileInv`: what is or will be put into the cache or the file is the current profile, with its avatar once there is one |
| `UserStoreProofs!ReadsWereShown` | `Spec => []ReadWasShown` | `ShownInv`: while a view is between reading and marking, the file and the lists about to replace it hold nothing but messages it listed or missed |
| `UserStoreProofs!NoDeadlock`, `CallsRunOut` | `Spec => []NobodyStuck`, `Spec => WorkUsedUp` | `RunInv`, with `KeepInv`: who holds the lock is writing or listing, and who reads or fills the cache is past the image |
| `LedgerProofs!TypeCorrect` | `Spec => []TypeOK` | `IInv` |
| `LedgerProofs!Implements` | `Spec => RefinesAtomic` | `IInv`: types, the latest epoch exists (`SoundInv`), and `CallOK`: whoever holds the write lock has a current snapshot, and its view is the effect of its statements on the committed tables, which makes a commit the effect of the call named in `last` |
| `LedgerProofs!Serial` | `Spec => []SerialInTransactions` | `IInv`: what a transaction commits is the effect of one call on the tables it replaces |
| `LedgerProofs!TicksKept` | `Spec => []TicksCounted` | `IInv`: a committed count is that of the tables it replaces, plus one |
| `TickRingProofs!LockNeedsTwo` | `Spec => []LockedTwice` | `RingInv`: the hash slot, and what a handler found there, holds the hash of an earlier agreeing tick, and the handler of tick `i` has not written its own hash yet when it decides |
| `TickRingProofs!TickTypeCorrect` | `Spec => []TypeOK` | `CountInv`: the count, with one more for each handler that may still write it, is at most the number of ticks |
| `TickRingProofs!LocksStay` | `Spec => []LocksKept` | `EntryInv`, `PaidInv`: undisturbed, one handler locks at a time (`Alone`), works on the current list, and what locks began is entered or still to enter, paid or still to pay; balances a handler read are at most what was paid, and undisturbed the current ones |
| `TickRingProofs!RewardsStayBounded` | `Spec => []RewardsBounded` | `RewardInv`: the shares paid, all together, are at most one reward per locked tick whose handler is not still about to pay; with `PaidInv` the balances are at most what was paid |
| `NodeSyncProofs!TypeCorrect`, `OnlyOwnAnswers` | `Spec => []TypeOK`, `Spec => []AnswersOwn` | `IInv`: a request is in one place, on the wire, in a loop, with an application or failed (`OnePlace`), and each place says whose request it is and how far it got (`WireOK`, `LoopOK`, `SeenOK`, `KnownOK`) |
| `NodeSyncProofs!NothingForgotten` | `Spec => []NoneForgotten` | `HomeInv`: every request that was made has a place (`Homed`), frames only exist on open connections (`WiresOpen`), and the request a loop waits for is with its application (`Served`) |

`Implements` is the step argument of a refinement: `InitIsAtomic`, and every step is a
step of `AtomicLedger` or leaves its variables alone (`StepIsAtomic`); the only steps
that do not are `WriteBare` and `Commit`. That a non-empty table of epochs has a
latest one is carried through the statements by `SoundInv` (`AppendLatest`,
`SettleLatest`).

`KeepsPromise` has the same form with respect to `Delivery`.

`MeshAtRest` has a hypothesis on the constants, `BootConnects`: the dials of
`Node::connect` form a connected graph. Without it separate groups of nodes would
rest unconnected; `MCSeedGossip` assumes it, so TLC evaluates it on both instances.
The argument: at rest nothing is on its way, so connections are two-way, and two
peers of one node are connected with each other, that is, being connected is
transitive. It then covers whatever the first dials connect. Which of the two
dials is decided by the tiebreaker, and the frame to the other one does not
matter; that is why no order of addresses leaves a pair out.

`RewardsStayBounded` is about a sum over all nodes, and sums need an induction over
sets. The library's induction rules take an operator as a parameter, which no prover
here can instantiate; `TickRingProofs` uses the least counterexample instead: of the
subsets for which a fact about the sum fails, ordered by size, `WFMin` gives a smallest
one, and taking one member away contradicts that.

Only model-checked is liveness (`MeshSymmetric`, `BothKeyed`, `EverySendEnds`,
`FloodEnds`, `GossipEnds`, `EveryCycleEnds`, `EveryCallEnds`, `EveryRequestEnds`): fairness
and `ENABLED` are out of the prover's reach. What is safety about it is proved. The
four `WorkUsedUp` properties say that every step decreases a measure, whose parts are ranked
in the order in which `UsesUp` lists them; exempt are failures and new calls, which the
bounds count, and for messages a full `SeenMessages` that is cleared. `NobodyStuck`, `NoneForgotten`,
`SymmetricAtRest` and `MeshedAtRest` say that nothing waits for nothing and what holds
when nothing is left to do. That a decreasing measure reaches its end when steps
are fair is the part TLC checks.

These properties, except `MeshedAtRest`, and `AckTruthfulUnlessReused` and
`OutcomeFinal` are proved and in no run: the former would repeat there what the liveness
properties show, the latter say of the oneshots and of `PendingAcks` what
`RefinesDelivery` says of the sender, and the refinement rests on the former of the
two.

## 5. Not modelled

Node records: one caller changes a record under `&mut`, nothing in the repository
reads its scores or periods, and the files are written whole; what there was to say
is under "Observed". The sync command: dials that `Handshake` and `SeedGossip` have,
in a loop with local counters, with a registration under the own id like that of
the connect command. Signatures and encodings are taken as correct; a failing key
exchange is in the model. Page rendering, printing commands, plain file helpers, callbacks, and
tables with single-statement queries (contacts, chat table, snapshots, prices) have no
behaviour to check. Within modelled components: scopes and directions of
registry entries (reporting), `sync_from_connection_info`, the commit handler of
the seed synchronisation and `broadcast_seed_sync` (nothing sends or calls them),
its semaphore of 50 tasks, and the user store's deletions and
`clear_profile_cache` (not called); of the ledger `MetaStore::set`,
`update_tick_count`, `EpochStore::insert` and the reset of tick records; `send_tick` (not
called) and the receiver of TickAck (it only logs). `handle_transfer` only calls a function the
embedding application provides.

## 6. Plan

Done, in this order: Handshake, Messaging, SeedGossip, SeedSync, UserStore, then
Ledger with its refinement, TickRing and NodeSync, Delivery; then the proofs. All parts
with state that several tasks or nodes share are modelled, and all invariants,
action properties and refinements the runs check are proved, and so is what is safety
about their liveness results. What is left is the step from `WorkUsedUp` to liveness,
for a prover that has fairness.
