# Verification of Chaincraft

TLA+ models of [Chaincraft](../src/README.md), a Python framework for blockchain
protocols, with TLC configurations that check them on small instances and
theorems that TLAPS proves for every instance. The source is the reference:
each definition of a model names the lines it stands for in `PROJECT.json`.

1. [The system](#1-the-system)
2. [Modules](#2-modules)
3. [Runs](#3-runs)
4. [Proofs](#4-proofs)
5. [Disagreements between code and documents](#5-disagreements-between-code-and-documents)
6. [Bounds, fairness and abstractions](#6-bounds-fairness-and-abstractions)
7. [What is not modelled](#7-what-is-not-modelled)
8. [What remains](#8-what-remains)

To check a run: `tlc -config GossipSafety.cfg MCGossipNode.tla`; to check the
proofs of a module: `tlapm GossipNodeProofs.tla`.

## 1. The system

A `ChaincraftNode` (`chaincraft/node.py`) is a process with a UDP socket, a
message database, a list of peers and a list of shared objects. Applications
and engines are shared objects: the node calls `is_valid` and `add_message` of
each of them for every new payload. Consensus engines are shared objects that
also send; a `Blockchain` (`chaincraft/config.py`) is an engine of its own that
makes blocks from a local mempool.

| Component | State | Operations | Meets the others by |
| --- | --- | --- | --- |
| Payload dissemination (`node.py`) | `db`, peers, strikes, bans, the threads' places | `create_shared_message`, `listen_for_messages`, `handle_message`, `gossip`, `close`/`start` | datagrams; calls into shared objects; the database and peer list shared by three threads |
| Peer table and discovery (`node.py`) | `peers`, `banned_peers`, both kept in the database | `connect_to_peer`, discovery requests, local discovery, `ban_peer` | the listener, application and gossip threads |
| Merkelized synchronisation (`node.py`, `core_objects.py`) | digests of shared objects | `check_for_merkelized_objects`, `request_shared_object_update`, `gossip_object` | datagrams; the objects' own chains |
| Tendermint (`consensus/bft/tendermint.py`) | height, step, proposal, vote tables, committed entries | `propose`, `observe` and its handlers | `broadcast`, which calls the engine again before it returns |
| PBFT, HotStuff (`consensus/bft`) | view or sequence, vote tables per phase, executed values | `propose`, `observe` and its handlers | the same, re-entrant |
| Avalanche, Hashgraph, relay (`consensus/gossip`) | confidence counters and conflict sets; an event DAG; one value | `propose`, `observe`, `respond`, `record_query` | `broadcast`; Avalanche's caller samples |
| Block lattice, DAG coin (`consensus/dag`) | per-account chains and votes, a transaction DAG with tips | `propose`, `observe`, `record_vote`, `add_tx` | `broadcast` |
| Proof of work, VDF chain, beacon engine (`consensus/pow`) | `ForkAwareChain`: block graph, tips, canonical chain | `propose`, `observe`, `add_block` | `broadcast`; reverted and extended blocks for a mempool |
| Randomness beacon (`beacon/`) | block messages over `ForkAwareChain` | `append`, `ingest_dict`, `random_float`, block sources and derivations | the beacon engine |
| Mempool (`mempool/policy.py`) | entries and the (sender, nonce) index | `add`, `select`, `remove_included`, `evict_expired`, `reinject` | called by the block production |
| Fees (`fees/`) | none but the base fee kept by the chain | inclusion, payload cost, settlement, next base fee | called by mempool and block production |
| Ledgers (`ledger/`) | balances and nonces, or unspent outputs | `validate`, `apply_tx`, `apply_block` | called by block production |
| Block production (`config.py`) | base fee, blocks, the three above | `submit`, `produce_block`, `reinject` | direct calls |
| Core objects (`core_objects.py`) | records behind a cache; chains, DAGs, ledgers | `add_message`, digests, reads | shared objects of a node; the node's database after attachment |
| Protocols (`protocols/`) | chat rooms, topics, a last-write-wins map | `is_valid`, `add_message` | shared objects of a node |
| Example blockchain (`examples/blockchain.py`) | block graph, states, pending transactions | `create_transaction`, `mine_block`, `add_message` | two shared objects, the ledger first, joined by a memento |
| Sampling examples (`examples/s*_protocol.py`) | colour, counters, open queries | `propose`, query and answer handlers | datagrams between the objects |
| Relay introductions (`nat_traversal.py`) | none | `send_request`, `handle_request`, `handle_response` | datagrams; the peer table |
| Cryptographic primitives, STUN, message index, message-type filter, command line | none, or files and sockets | pure functions or I/O | direct calls |

What is hard, and what must hold:

* **Threads without locks.** The application, listener and gossip threads share
  the database and the peer list. A payload must enter the shared objects once
  and only when `is_valid` allowed it, whatever interleaves. One thread closes
  and reopens the handle of a `dbm` database while the others use it.
* **Loss, duplication, reordering.** A datagram may vanish; gossip repeats every
  stored payload for ever, so copies arrive at any time. Payloads depend on one
  another (`is_valid` of a block needs its parent), and one that arrives too
  early is a strike against an innocent sender.
* **Restart.** A `dbm` database outlives the process, shared objects do not.
* **Re-entrance.** `broadcast` hands an engine its own message before it
  returns, so a handler runs inside the handler that sent the message, and the
  outer one goes on with state the inner one has changed.
* **Faulty validators.** Any of them may tell each honest validator something
  else, at any time; honest ones must not commit different blocks.
* **Limits and prices.** The pool has a size, a cap per sender, a time-to-live
  and replacement rules over two dictionaries kept by hand; a fee is checked
  when a transaction is submitted and again, under another base fee, when it is
  settled; a block is applied as a whole or not at all.

`PROJECT.json` lists each hazard at its line with the properties aimed at it.

## 2. Modules

```
Dissemination <--refined by-- GossipNode <-- MCGossipNode, GossipNodeProofs
ReplicatedLog <--refined by-- Tendermint <-- MCTendermint, TendermintProofs
ReplicatedLog <--refined by-- PBFT, HotStuff (ReplicaProofs)
PayloadPricing --> FeePolicy --+
TransactionPool, BalanceLedger +--> BlockProduction <-- MCBlockProduction, LedgerProofs
ReplicaSet --> PBFT, HotStuff -------------------------+
Avalanche, Hashgraph, Relay, DAGcoin, Lattice ---------+
ForkChain --> MinedChain, BeaconChain -----------------+--> ConsensusEngines <-- MCConsensusEngines,
SnowFamily --------------------------------------------+                         EngineProofs
CoreObjects, MerkleSync, PeerTable, ExampleChain,
ChatRoom, GossipStores, UTXOLedger ------------------------> SharedObjects <-- MCSharedObjects,
PBFT <-- MCPBFT          UTXOLedger <-- MCUTXOLedger                           ObjectProofs

PBFT, HotStuff <-- ReplicaProofs <------------------+
Relay, SnowFamily, Avalanche, Hashgraph,            +-- EngineProofs
DAGcoin, Lattice <-- GossipEngineProofs <-----------+
FoldTheorems <-- GossipEngineProofs, LedgerProofs, ObjectProofs, EngineProofs
```

`Collections` holds the two operators on sequences and sets that several models
share, and `FoldTheorems` the lemmas about them, about folds and about paths in
trees. A module named `...Proofs` holds the invariants and theorems of the
modules it extends (section 4).

Operators named "faulty variant" in a module are not part of its specification:
each is a plausible bug, and putting it in the place of the definition beside it
breaks a property (`PROJECT.json`, "mutants").

**Dissemination** is the abstract promise: a payload is integrated by a node
only after some node published it and everything its `is_valid` needs was
integrated there, and it is logged only where it was integrated; a restart
empties the shared objects and, without a persistent database, the log.

**ReplicatedLog** is what the BFT engines promise: each participant has a log of
decisions that grows by one entry at a time, and no entry differs from the one
another participant has in its place. `Tendermint`, `PBFT` and `HotStuff` map
their tables of decisions to it (`DecisionLog`, `PbftDecisions`, `HsDecisions`):
the entries below the height, sequence number or view the engine works on.

**GossipNode** is the network of nodes. One variable per attribute: `db`,
`peers`, `strikes` (`invalid_message_counts`), `banned`; `applied[n][m]` counts
the calls of `add_message`; `app[n]` and `listener[n]` are the places of two
threads inside `create_shared_message` and `handle_message`; `net` is the set
of datagrams; `open` says whether the database handle can be used, `sync[n][t]`
where thread `t` is inside `db_sync`, and `failed[n][t]` which peers its
broadcast still has to take out. One action per step of a thread that another
thread can see:

| Action | Code |
| --- | --- |
| `AppValidate`, `AppProcess`, `AppBroadcast`, `AppStore` | `create_shared_message`, which broadcasts before it stores |
| `Receive` | one turn of `listen_for_messages` with its look-up |
| `ListenerValidate`, `ListenerProcess`, `ListenerStore`, `ListenerBroadcast`, `ListenerReturn` | `handle_message` to `_store_and_broadcast` |
| `HandleInvalidMessage` | a strike or a ban, for a verdict or for an exception that was caught |
| `Gossip` | one broadcast of the endless round |
| `RemoveFailedPeer` | the end of a broadcast, one peer whose send raised, and `save_peers` |
| `SyncClose`, `SyncOpen` | the two statements of `db_sync`, in any of the three threads |
| `Lose`, `Restart` | the network; `close` followed by a new process |

The look-up of `handle_message` encodes the hash although the keys of a `dict`
database are strings, so it finds something only with a `dbm` database, where
both spellings are one key: `ListenerValidate` has both cases. A failed send
removes the peer, a third invalid message bans its sender; bans do not survive
a restart, since the restored keys match no peer.

`db_sync` closes the `dbm` handle and opens it again. What another thread does
with the handle in between raises, and the models have what follows: a listener
that cannot store has applied the payload already, neither logs nor forwards it
and strikes its sender; one that cannot look a hash up ends its thread, because
`dbm.error` is an `OSError` (`Dead`, until the next start); a publisher that
cannot store has sent its payload; the gossip thread begins its round again. Two
threads that take out the same failed peer raise in the same way.

**Tendermint** is the engine at the honest validators. `engine[v]` is the record
of its attributes, `sent` the messages that were broadcast. A handler is one
action that runs to its end, with the re-entrance written as composition:
`CastPrevote` observes the own prevote, which may make a quorum and cast the
precommit, which may commit and move to the next height, after which
`_broadcast_vote` records the vote once more under the height of that moment.
`Commit` falls back to the current proposal when the winning value is unknown,
as the code does. A validator handles any message that was sent, in any order
and any number of times, or one of `Lies[v]`, what the faulty ones may tell it.

**BlockProduction** is `Blockchain`: `TransactionPool` (entries in order of
arrival, and the slot index), `FeePolicy` (the three policies, `Charges` and
`NextBaseFee`), `PayloadPricing` (what a transaction's data costs) and
`BalanceLedger` are the functions it calls, each a module of operators on
values. `config` is a `BlockchainConfig` that `validate` accepts, picked in the
initial state. `Submit` asks the fee policy, then the pool, never the ledger.
`ProduceBlock` selects, prices and applies; when one transaction is invalid
only the expiry has happened. `Reinject` puts a block's transactions back and
leaves the ledger as it is.

**ConsensusEngines** is the registry: an application picks an engine by name.
Its variable `kind` is that choice, and a step is a step of the chosen engine,
so that engines that never meet share a run and no state space is multiplied.
Each engine is a module with a specification of its own:

| Module | State of a node | Actions |
| --- | --- | --- |
| `PBFT`, `HotStuff` (with `ReplicaSet`) | sequence or view, a vote table per phase, what was executed, the lock | a handler per phase, each to its end with what the re-entrant broadcast does inside it |
| `Avalanche` | known and accepted transactions, confidence, conflict sets | `add_tx` on both paths; a query with the sample's answers read at that moment |
| `Hashgraph` | events it knows, the last of each member, the decision | create an event, take one in, in any order |
| `Relay` | the decision | propose, observe |
| `DAGcoin` | transactions, tips, confirmed ones | propose on the tips or on a named parent, observe |
| `Lattice` | blocks, a chain per account, claimed sends, votes | open, send, receive (any account any send, as the code does not compare recipients), observe, cast and hear votes |
| `MinedChain` | the fork-aware chain, what mining has read | read the tip, read the height, finish, observe |
| `BeaconChain` | the same with timestamps, sources and derivations | the same, and a clock |
| `SnowFamily` | colour, counters, answers per query | propose, answer, adopt on a query, collect and settle |

`ForkChain` is `ForkAwareChain` as operators: `AddBlock` keeps the tips
incrementally, rewrites the canonical chain and reports what it reverted and
extended, as the code does.

**SharedObjects** composes in the same way (`use`) what a node carries besides
an engine:

| Module | Models |
| --- | --- |
| `CoreObjects` | `CoreSharedObject`: two stores, the cache before them, the attachment that exchanges them; `add_message` of every class that keeps a view, with the record the merkelized ledgers put into the cache under the message's digest |
| `MerkleSync` | `Blockchain`, `DAGObject`, `TransactionChain` at several nodes, gossip that may lose posts, digest requests and answers |
| `PeerTable` | `connect_to_peer` as check and append, `max_peers`, advertisements, local discovery, relay introductions, bans, restarts with what `json` makes of addresses |
| `ExampleChain` | the example's ledger and mempool, fork choice, reverted transactions, a miner that takes the best `MaxCount` |
| `ChatRoom` | a room at every node that anybody may create, verdict and addition as two steps of two threads, three policies |
| `GossipStores` | the last-write-wins map with its clock skew; topics |
| `UTXOLedger` | unspent outputs, named by what their ids hash |

## 3. Runs

| Run | Instance | Distinct states | What it shows |
| --- | --- | --- | --- |
| `gossip_safety` | 2 nodes, one with a `dict`, one with a `dbm` database whose handle is closed and opened and whose sends may fail, each publishing one of 2 payloads, the second of which needs the first; loss, 1 restart each | 1.5 million | `TypeOK`, `Inv` (the inductive invariant), `RemoteAppliedOnce` (a payload of another node is applied once, and again only for a store that a closed handle made fail), `ImplementsDissemination` (refinement) |
| `gossip_delivery` | 3 nodes with `dict` databases in a one-way line, a chain of 2 payloads, loss and reordering | 9,000 | `EventualDelivery` under `Fairness`: what one node stored, all store |
| `gossip_own_echo` | 2 nodes, 1 payload | - | violated: `AppliedOnce` (section 5) |
| `gossip_restart` | 2 nodes, 1 payload, 1 restart | - | violated: `StateMaintained` (section 5) |
| `tendermint_agreement` | 4 validators, 1 faulty and leading height 1, 2 heights, 2 values | 258,000 | `Inv` (the inductive invariant, types included), `Agreement`, `NoEquivocation` (honest validators say one thing of a kind at a height), `CommitsInOrder`, `ImplementsLog` (refinement) |
| `tendermint_value` | 4 validators, 1 height; the leader proposes B to one of them and votes A | - | violated: `ValueAgreement` (section 5) |
| `block_production` | 6 assemblies (all policies, payload pricings, pools of 2 to 4, replacement on and off, time-to-live, base fees 1 and 8), 3 accounts, 5 transactions, 3 blocks | 36,000 | `PoolConsistent` (entries, index and limits agree), `ValueConserved`, `NonceOrder` (no gap, no replay, reinjection included), `ChargesSound` (a fee is priced again at settlement, and covers the data), `NoOverdraftAtBid`, `LostForMore` (a transaction leaves the pool for a block or a higher fee only) |
| `block_overdraft` | the median policy, 1 block | - | violated: `NoNegativeBalance` (section 5) |
| `consensus_engines` | each engine alone, see below | 539,000 | see below |
| `shared_objects` | each part alone, see below | 1.2 million | see below |
| `utxo_coinbase` | one owner, a miner, 2 blocks that burn | - | violated: `UtxoConserved` (section 5) |
| `pbft_primary` | 4 replicas, the primary Byzantine, 1 sequence | - | violated: `PbftAgreement` (section 5) |

| Property | Instance | Shows |
| --- | --- | --- |
| `PbftImplementsLog` | 4 replicas; a Byzantine backup sends a pre-prepare and a commit to one and the other commit to another; 2 sequences | a replicated log: no sequence number is skipped, executed twice or executed differently |
| `HsImplementsLog` | 4 replicas; the Byzantine leader of view 0 shows one replica a second proposal, a correct leader proposes once; 2 views | a replicated log: no view is skipped, committed twice or committed differently |
| `AvaPreferenceLeads` | 2 nodes, 2 rivals and a child of one, samples of 1 | the preference leads in confidence, and what is accepted won a query, although the counter is the set's |
| `HgDecidedSupported` | 3 members, 4 events in any order | a supermajority built on what is decided |
| `RelaySpread` | 3 nodes, 2 values | all decide or none |
| `DagOrderFree` | 2 nodes, 4 transactions of unequal weight, 2 in conflict | the same transactions are confirmed alike in any order, ancestors first; tips are the unapproved |
| `LatConserved`, `LatOneConfirmed` | 2 nodes, 2 accounts, 2 representatives, 4 blocks, sends to anybody and received by anybody, one account perhaps used from both nodes | no money is made or lost unless an account is used from two nodes or two nodes race for a send; votes confirm one rival |
| `PowBestChain`, `PowResultExact` | 2 nodes, 4 blocks | the tip is the best block known; reverted and extended are exactly the change |
| `BeaconDrawAgreed`, `BeaconDrawStable` | 2 nodes, 3 blocks, 4 sources, all derivations, a clock to 2 | equal knowledge draws alike; a draw never changes while its block is canonical |
| `SnowValidity`, `SnowCountedOnce` | 3 nodes, samples of 2, 2 queries each, 3 rules | no colour from nowhere; a query counts once however late its answers |
| `StoreReadsBack` | 3 keys and a digest, a cache of 2 | a read returns the object's own view after any evictions, deletions, attachment |
| `SyncBringsUpToDate` | 2 nodes, 4 posts | the answer to a digest is accepted post by post and leaves nothing out |
| `DiscoveryMeshes` | 3 nodes, tables of 2, 2 calls | when all is quiet and nobody was displaced, connected nodes know each other |
| `ExLedgerSound` | 2 wallets, 2 payments, 3 blocks in any order | balances are those of the best chain after any reorganisation |
| `ChatPostsByMembers` | 2 users who may both create, 4 messages, 3 policies | a post stands after what admitted its author; where creations replaced the room, at most one message stands without |
| `KvConverges` | 2 writers, 3 writes, a clock to 3 | equal writes, equal data |
| `UtxoConservedAtTip` | 2 owners, 3 blocks | where nothing burns outputs are worth genesis and rewards |

Why these bounds are enough to be of interest:

* Two nodes are where every race of `GossipNode` is: the three threads of one
  node and the echo of its neighbour. Both kinds of database, a dependency
  between payloads, and a `db_sync` of each of the three threads (a store of the
  publisher, a ban, a failed send of any thread) are in one instance.
  Three nodes in a line are the least where delivery depends on forwarding. The
  links of the line go one way, since `connect_to_peer` tells the peer nothing.
* Four validators are the least number that tolerates a faulty one; the faulty
  one leads, so it can split the others by proposals as well as by votes. The
  second height is where a vote recorded after the re-entrant commit lands.
* The five transactions compete for a slot (one replaces the other), for room,
  for the sender's funds and for the nonce order; the miner sends too, and one
  transaction is from an account to itself, so every pair of roles coincides.
  Three blocks let the base fee rise, fall and price out a pending transaction.
* Of the other engines each instance is the least in which its hazard shows: two
  rivals and a third that builds on one, two forks of two blocks, an answer that
  comes after its query was judged, a cache smaller than the set of keys.
  `EngineTypeOK` and `ObjectTypeOK` are the conjunctions of the modules' type
  invariants; the second bounds the cache and the peer table.

The repository's tests run nodes in one process with sleeps between calls and
blocks of few transactions, so they meet few of these interleavings.

## 4. Proofs

TLAPS proves the following without bounds on nodes, payloads, validators,
transactions, blocks, heights, views or values. `tlapm` checks each module by
itself.

| Theorem | States | Of |
| --- | --- | --- |
| `GossipNodeProofs!TypeCorrect`, `Invariant` | `TypeOK`, `Inv` | `GossipNode` |
| `GossipNodeProofs!RemoteOnce` | `RemoteAppliedOnce` | |
| `GossipNodeProofs!Refinement` | `ImplementsDissemination` | |
| `TendermintProofs!TypesHold`, `Invariant` | `TypeOK`, `Inv` | `Tendermint` |
| `TendermintProofs!AgreementHolds` | `Agreement` | |
| `TendermintProofs!HonestVotes` | `NoEquivocation` | |
| `TendermintProofs!CommitOrder` | `CommitsInOrder` | |
| `TendermintProofs!LogInvariant`, `LogsConsistent` | a hash for every height below the engine's own and none from there on; of two logs one is a prefix of the other | |
| `TendermintProofs!ReplicatedLogRefined` | `ImplementsLog` | |
| `ReplicaProofs!PbftAgreementHolds` | `PbftAgreement`, under `CorrectPrimary` | `PBFT` |
| `ReplicaProofs!HsSteadyAgreementHolds` | agreement in every view whose leader is correct and was asked to propose once, under `HsMinority` | `HotStuff` |
| `ReplicaProofs!HsAgreementHolds` | `HsAgreement`, under `HsOrderly` | |
| `ReplicaProofs!PbftLogInvariant`, `HsLogInvariant` | a digest for every number or view below the engine's own and none from there on, for any Byzantine replicas | `PBFT`, `HotStuff` |
| `ReplicaProofs!PbftLogGrowsHolds`, `HsLogGrowsHolds` | a step adds at most one decision and revises none, for any Byzantine replicas | |
| `ReplicaProofs!PbftAgreementMakesLog`, `HsAgreementMakesLog` | `PbftImplementsLog`, `HsImplementsLog` wherever `PbftAgreement`, `HsAgreement` hold | |
| `ReplicaProofs!PbftLogRefined`, `HsLogRefined` | `PbftImplementsLog` under `CorrectPrimary`; `HsImplementsLog` under `HsOrderly` | |
| `GossipEngineProofs!RelaySpreads` | `RelaySpread` | `Relay` |
| `GossipEngineProofs!SnowValidityHolds` | `SnowValidity`, for a positive threshold | `SnowFamily` |
| `GossipEngineProofs!SnowCountedOnceHolds` | `SnowCountedOnce` | |
| `GossipEngineProofs!AvaPreferenceHolds` | `AvaPreferenceLeads` | `Avalanche` |
| `GossipEngineProofs!HgSupportHolds` | `HgDecidedSupported` | `Hashgraph` |
| `GossipEngineProofs!LatOneConfirmedHolds` | `LatOneConfirmed` | `Lattice` |
| `GossipEngineProofs!LatConservedHolds` | `LatConserved` | |
| `GossipEngineProofs!DagOrderFreeHolds` | `DagOrderFree` | `DAGcoin` |
| `LedgerProofs!BlockProductionTypes` | `TypeOK` | `BlockProduction` |
| `LedgerProofs!PoolConsistentHolds` | `PoolConsistent` | |
| `LedgerProofs!ChargesSoundHolds` | `ChargesSound` | |
| `LedgerProofs!ValueConservedHolds` | `ValueConserved` | |
| `LedgerProofs!NoOverdraftAtBidHolds` | `NoOverdraftAtBid` | |
| `LedgerProofs!NonceOrderHolds` | `NonceOrder` | |
| `LedgerProofs!LostForMoreHolds` | `LostForMore` | |
| `ObjectProofs!KvConvergesHolds` | `KvConverges` | `GossipStores` |
| `ObjectProofs!ChatPostsByMembersHolds` | `ChatPostsByMembers` | `ChatRoom` |
| `ObjectProofs!StoreReadsBackHolds` | `StoreReadsBack` | `CoreObjects` |
| `ObjectProofs!UtxoConservedAtTipHolds` | `UtxoConservedAtTip` | `UTXOLedger` |
| `ObjectProofs!SyncBringsUpToDateHolds` | `SyncBringsUpToDate` | `MerkleSync` |
| `ObjectProofs!DiscoveryMeshesHolds` | `DiscoveryMeshes` | `PeerTable` |
| `ObjectProofs!ExLedgerSoundHolds` | `ExLedgerSound` | `ExampleChain` |
| `ObjectProofs!ObjectParts`, `ObjectsSound` | a behaviour of the composition is one of each part; the seven above of the composition | `SharedObjects` |
| `ObjectProofs!ObjectsTyped` | `ObjectTypeOK` | `SharedObjects` |
| `EngineProofs!PowBestChainHolds` | `PowBestChain` | `MinedChain`, `ForkChain` |
| `EngineProofs!PowResultExactHolds` | `PowResultExact` | |
| `EngineProofs!BeaconDrawAgreedHolds` | `BeaconDrawAgreed` | `BeaconChain`, `ForkChain` |
| `EngineProofs!BeaconDrawStableHolds` | `BeaconDrawStable` | |
| `EngineProofs!EnginesTyped` | `EngineTypeOK` | `ConsensusEngines` |
| `EngineProofs!EngineParts`, `EnginesSound`, `EnginesKeepLogs` | a behaviour of the composition is one of each engine; the engines' invariants and the replicated logs of the composition | `ConsensusEngines` |

**GossipNode.** That a foreign payload is applied once does not follow from the
look-up alone: it is made in `Receive`, and the application happens two steps
later, while other threads write the database and close it. `OnceInv` keeps the
account: of payloads a node did not publish, only its listener writes, so what
the listener holds before processing is not stored and was applied as often as a
store of it has raised (`unstored`), and what was applied once more is stored or
about to be. `HandleInv` says that a closed handle is about to be opened by
some thread and that a `dict` never closes, so that with a `dict` the account is
"once"; `CallerInv` that a thread with failed peers left is still inside the
broadcast that found them. `AppInv` and `ListenerInv` say what a
thread's place implies (published, valid when checked, applied before it is
stored or sent) and `PublishedInv` that only published payloads travel. Validity
survives until it is used since prerequisites are only ever added while the
process lives (`ProcessMonotone`); a restart ends the threads with it. The
refinement maps `published` to `Published`, `integrated` to the payloads applied
at least once and `stored` to `db`: `AppValidate` is `Publish`, the two process
steps are `Integrate`, the two store steps `Store`, all others stutter.

**Tendermint.** `Inv` has a part on the messages (`SentInv`: one message of a
kind per validator and height; a precommit only on a quorum of prevotes) and a
part on each engine (`VotesReached`: an engine has not spoken for a step it has
not reached; `TablesBacked`: a recorded vote was sent, or its author is faulty,
or it is the stale copy the engine left of its own vote; `CommitsBacked`: a
commit has a quorum of prevotes). The stale copy is why the invariant is not the
textbook one: it counts as a vote nobody cast, and it is harmless because the
engine overwrites its own entry when it votes at that height, and cannot count
it before. The cascade is proved operator by operator (`OwnPrevoteSafe`,
`CastPrecommitSafe`, ... ), each lemma on one engine record; `NextMoves` gathers
the actions, `MovesPreserve` lifts them to the network. Agreement follows from
`OnePolka`: with `3F < N` two quorums share an honest validator (`QuorumSize`,
`HonestMember`), who prevoted once.

**PBFT and HotStuff.** Their replicas keep no record of having voted, so a
quorum proves less than in Tendermint: not that its correct members voted once,
only that there is one (`OutweighsByzantine`), and that it voted for what the
leader proposed. `PbftInv` and `HsInv` therefore follow a digest back to its
proposal: what a correct replica sent, what stands in a table under a correct
name and what was executed was proposed by the leader, and a correct leader
proposes once. That last part is not the code's doing: neither `propose` looks
whether it has a proposal under way. It is a premise about the callers, of
`CorrectPrimary` for PBFT; for HotStuff it is stated of each view by what its
leader has sent (`HsAskedOnce`), so that `HsSteadyAgreementHolds` assumes nothing
of other views. The exception is a replica's own entry, which the re-entrant
broadcast may write under the sequence that follows; it is one entry, and a
quorum has another correct member.

**Replicated log.** The refinements need more than agreement. An entry of the
log is read from a table by its position, so the table must be filled exactly up
to the place the engine works on (`LogInv`, `PbftLogInv`, `HsLogInv`): then a
step that fills that place and goes on is one `Append` (`LogOfAdvance`,
`DecisionsGrow`), and what another log has in the place is not an empty entry,
so that agreement in the next state says it is the same. That a handler fills
one place at most, although its broadcast runs the later phases inside it, is
proved along the cascade (`PbftOnCommitMoves` to `PbftAcceptMoves`,
`HsOnCommitMoves` to `HsOwnPrepareMoves`); casting a vote and setting the lock
touch neither table nor place. This part holds of any number of Byzantine
replicas. Agreement is the only hypothesis, so the refinement of PBFT and
HotStuff is stated twice: from agreement alone, and from the conditions under
which agreement is proved. The run has a Byzantine leader in view 0, so there
the first form applies.

**Sampling.** `SnowInv` says that a colour in any place of any object or datagram
was proposed, that counters do not exceed the queries settled, and that in Slush
who asks in a round has settled the ones before. `AvaLeads` relates confidence
and preference: the preference is a member of its set that no member exceeds,
and a non-zero counter belongs to a member with confidence, which is what lets
the shared counter accept only what won a query. For hashgraph support only
grows, because ancestors, defined as a least closed set, grow with the known
events (`HgAncestorsGrow`). For the relay the invariant is that a node without a
decision leaves the first message to it under way.

**Block lattice.** `LatInv` relates the books of a node to what its peers have
published: what a node credits for a block it has received is claimed there
(`ClaimsSeen`), it knows its own blocks (`HomeKnows`), and the accounts, the
sends under way and the genesis stay in balance (`Balanced`), one change of two
terms of a sum at a time. `receive` credits whoever calls it and marks the send
where it was called, so a node receives a send once, but two nodes that race for
one both receive it, and money is made: `LatConserved` excludes that (`LatRaced`)
and an account used from two nodes, and nothing else. `VotedOnce` says that a
representative stands behind one block of rivals at most, so that the supporters
of two rivals are disjoint; `SumParts` says that disjoint sets weigh no more than
all, and `OneMajority` that two of them are not both more than half.

**DAG coin.** Order-freedom is a statement about two nodes that met the same
transactions in different orders. `DagInv` removes the order: a node knows the
parents of what it knows, the tips are the known transactions that no known one
approves, whatever is confirmed is heavy enough, and whatever is heavy enough
and has no conflict is confirmed. Weight is a sum over the least set with the
children of its members, so it is decided by what the node knows alone, and one
transaction more never lowers it. The approvers of a parent include those of its
children, hence ancestors are confirmed with their descendants.

**BlockProduction.** `Inv` is the shape of the state, the three properties on
value, and `ChainNonces`: the nonces of each sender on the chain are
0, 1, ... up to the ledger's. Selection, pricing, block application and eviction
are folds and recursive functions over sequences; each has a lemma on one step,
and the fold inherits it (below). That the index and the entries of the pool
agree is proved of `Admit` case by case (replacement, room, eviction of the
cheapest), of expiry, inclusion and reinjection. Conservation adds up over
accounts with `SumOver`; the lemmas on a sum after one or two changes take the
sender, recipient and miner to be any accounts, equal or not. `NoOverdraftAtBid`
rests on the comparison `validate` makes being with what is charged, which is
exactly what the median policy breaks (section 5). `LostForMore` is the action
property read off the same lemmas.

**Objects.** `StoreInv` does not mention convergence: it says that a register is the
last, by time and writer, of the writes its node applied (`Latest`), and that a
writer's clock tells its writes apart; equal sets of writes then have one last
write. `ChatInv` says what a verdict is still worth when its message is added.
While a room lives membership only grows and what admitted the author stays in
its log; but a creation, judged beside the one that made the room, replaces it.
Then a verdict about the room of before may be waiting in each of the two threads
(`Waiting`), one of them has just added the creation, and so one message at most
gets into the new room without anything there that admits it: `StrayInv` counts
the strays in the log and the waiting verdicts together. A message that is seen
again is not appended again, so a stray needs a second creation that the node
has seen. `CoreInv` says that the cache and the store behind it follow
the view for every key written since the attachment, which survives eviction,
deletion and the exchange of stores. `UtxoInv` has to show that no output ever
overwrites another, since an id is what it hashes. It keeps the set of all ids
ever taken: of an output that a transaction made, the inputs are spent and stay
spent, so the same inputs are never offered again; a coinbase id holds the total
supply at its block, which only grows where nothing is burned, so a later
coinbase has another id. The burning run (`utxo_coinbase`) breaks exactly this
step. The value of a change then adds up with `SumOver`, as for balances.

**Synchronisation.** Two logs hold the same posts in different orders, and a node
compares them by a digest of a log's end. What makes this work is that a post
names as parents what nobody built on before it: in a log that grew so (`Grown`)
the frontier is the set of posts without a child (`DigestGrown`), whatever the
order, and a set of posts that holds the parents of its members is given by its
tips (`TipsDecide`). The peer finds the digest at a place of its own log, so what
the node has is what stands there up to that place, and each post after it is
acceptable when its turn comes, because the node then has what the peer had
before it (`ReplayCatchesUp`, an induction along the peer's log).

**Discovery.** `Spread` says, while nobody was displaced, banned or lost: who is in
the table of a node has its advertisement or it is on its way; who is advertised
at a node is in its table; and of two nodes advertised at one node one has the
other's advertisement or it is on its way. The third part is what the code's
order provides: a new advertisement is forwarded in the step that stores it. When
nothing is under way the three close the mesh.

**Example blockchain.** The ledger computes the balances of a block from those of its
parent, along forks that may never be the chain. `ExInv` says, of each known
block, that its parent is known, that its balances are that one step, that they
cover everybody and sum up to the rewards of its own chain; the tip is better
than any other known block, since height and hash order all blocks
(`BestAfter`). Replaying a chain from the genesis block then gives what was
computed block by block (`StatesReplayed`). That nobody owes anything needs what
`is_valid` compares to be the balance before each transaction of the block:
`NextStateSound` walks along the transactions with it.

**Fork choice.** `ChainSound` is what `add_block` keeps: with a block its parent,
a block that is no tip is lower than some tip, and the canonical chain is the way
to the best of the tips. Nothing in the code compares a new block with all known
ones: it compares the tips. That this finds the best block (`SoundIsBest`) is
what the second conjunct is for. `ChainTo` is a path through parents, so the
lemmas on ways (`WayRooted`, `WayPositions`, `WayCut`) give that a block stands at
the height it claims, and `WayRewritten` that `reverted` and `extended`, which
the code computes from a common prefix, are exactly the change. `PowInv` and
`BeaconInv` add what their engines keep beside the chain. For the beacon this is
that a source whose id fixes the timestamp makes no two blocks with one id and
different timestamps (`Copies`), hence nodes agree on what they hash (`Stamped`).

**Induction over data.** The library's induction theorems take an operator,
which no installed prover can instantiate. `FoldTheorems` replaces them by
statements about sets: the set `P` of sequences (of finite sets, of positions in
a tree) with a property contains the empty one and is closed under one more
element, so it contains all. A proof that needs induction defines its `P` and
shows these two facts. What a fold, `Only` and `SumOver` return, and which
paths a tree has, is proved there once.

**Composition.** `ConsensusEngines` and `SharedObjects` let one part step at a
time. `EngineParts` and `ObjectParts` prove that a behaviour of the composition
satisfies the specification of each part, so what is proved of a part holds of
what the runs check. `EnginesTyped` and `ObjectsTyped` need a type invariant of each part, most of
which follow from the invariants above; PBFT and HotStuff have lemmas of their own on
what a handler with the re-entrance inside it returns.

The assumptions and where the code has them:

| Assumption | Says | Justified by |
| --- | --- | --- |
| `GossipAssumption`, `RelayAssumption`, `ChatAssumption`, `HgAssumption`, `AvaAssumption`, `SnowAssumption`, `CoreAssumption` | types of the constants, markers (`NoTx`, `Undecided`, ...) outside the sets, thresholds at least 1, bounds are numbers | `AvalancheConsensus.__init__` refuses other thresholds; otherwise nothing to justify |
| `TendermintAssumption` | fewer than a third are faulty | the engine's documentation |
| `LiesAssumption` | a faulty validator sends under its own name only | a condition on the deployment: the engine checks no signatures |
| `CorrectPrimary` | PBFT: the primary is correct and waits for a decision before it proposes again, at most `F` replicas are faulty | a condition; run `pbft_primary` shows what happens under a faulty primary |
| `HsMinority` | HotStuff: fewer than a third are faulty | the engine's documentation |
| `HsOrderly` | HotStuff: `HsMinority`, every view's leader is correct, and callers propose once in a view (`HsPipelined` is false) | a condition: `propose` checks nothing of this; the callers in the repository (`examples/consensus_bft_demo.py`, `tests/test_hotstuff_consensus.py`) propose once |
| `SnowThreshold > 0` | `int(alpha * k)` is not 0 | a condition: with `k = 1` and the default `alpha` it is 0, and Slush and Snowflake change colour without a vote for the other one |
| `ConfigAssumption` | a configuration is one `validate` and `__post_init__` accept | `fees/eip1559.py`, `fees/payload.py`, `mempool/policy.py`, `ledger/balance.py` |
| `TransactionAssumption` | amounts, fees, sizes and nonces are not negative, and there are finitely many accounts | `BalanceTransaction` and `validate` of the ledger |
| `SyncAssumption`, `PeerAssumption` | finitely many nodes, bounds are numbers | `max_peers` is an `int`; otherwise bounds of the model |
| `ExampleAssumption` | hashes differ, amounts are positive and fees not negative, the miner takes at least one transaction, finitely many addresses | `Transaction.create` and `is_valid` of `examples/blockchain.py` |
| `StoreAssumption` | no write is the empty register; ranks of writers differ | `protocols/` compares `(timestamp, sender)` |
| `DagAssumption`, `LatAssumption`, `UtxoAssumption` | finitely many accounts, representatives and owners, positive weights, sends and rewards, bounds are numbers | constructors and checks of `dag/` (`confirmation_weight must be positive`), `ledger/utxo.py` |
| `PowAssumption`, `BeaconAssumption` | ids differ, sources and derivations are those of the code, bounds are numbers | ids are hashes (section 6) |

Left to TLC, and why:

* Liveness (`EventualDelivery`) and `ENABLED` (deadlock): out of the prover's reach.
* The refuted properties of section 5.

## 5. Disagreements between code and documents

* **A node processes its own payload twice** (`gossip_own_echo`).
  `create_shared_message` broadcasts before it stores (`node.py:903`). An echo
  that comes in between passes the listener's look-up, of which the comment
  says "Only handle if we've never seen this message".
* **Persistent nodes forget** (`gossip_restart`). `docs/hello-world.md` says that
  persistent storage maintains state across restarts. The database is kept, but
  nothing hands its payloads to the new shared objects, and the look-up drops
  every copy a peer sends.
* **Tendermint commits a value under another value's hash** (`tendermint_value`).
  `_commit` records `self._values.get(bh, self.proposal)`: a validator that was
  shown another proposal records that proposal's value. The hashes agree, which
  is what `AgreementHolds` proves; the values the module promises need not.
* **A balance becomes negative with overdraft off** (`block_overdraft`).
  `validate` compares the funds with the declared fee; the median policy charges
  the clearing price, which is more than the lower bids. A test is named for the
  opposite (`test_no_negative_balance_after_transfer`).
* **PBFT is not safe under a faulty primary** (`pbft_primary`). A warning in
  `pbft.py` gives N >= 4 as what safety against one fault needs. With four
  replicas a primary that sends two pre-prepares of one sequence makes a correct
  replica prepare and commit both (`_handle_preprepare` keeps no earlier one,
  `_handle_prepare` commits on every quorum), and two others execute different
  values. With a faulty backup agreement holds (`consensus_engines`).
* **A coinbase output overwrites another** (`utxo_coinbase`). The id hashes
  owner, reward and total supply. When a later block burns what an earlier one
  was rewarded with, the supplies, and so the ids, are the same, and one reward
  is lost, although the ledger is to preserve value.

Seen while modelling and not the subject of a run:

* `submit` never asks the ledger, and a selected transaction that cannot be
  applied makes `produce_block` raise and stays in the pool. As selection orders
  by fee and not by nonce, two transactions of one sender are enough: the second
  pays more, is tried first and fails, in this block and the next. The branch of
  `test_no_negative_balance_after_transfer` that expects a refusal by `submit`
  is never reached by the test's inputs.
* An EIP-1559 base fee under 8 does not fall on an empty block (integer
  division), and rises by more than the documented eighth when a block holds
  more than twice its target.
* **PBFT.** The quorum is 2f + 1 with f = (n - 1) div 3: with five replicas two
  quorums of 3 meet in one replica only, which may be the faulty one.
  **HotStuff** has the vote tables of PBFT and no record of having voted either;
  `propose` may be called twice in a view, and then replicas commit different
  values with no faulty replica at all (`HsPipelined = TRUE`: two replicas are
  enough). The lock stops a second proposal, but a vote handled again after another one
  (an own echo is enough) replaces it in the table, and a leader that proposes
  and votes on both sides makes two replicas commit different values. The run
  has the leader propose twice only.
* **Avalanche.** Both of two rivals can be accepted at one node: the first by the
  threshold for a transaction without rivals before the second is known, the
  second by its own successes. The module's text says at most one may be; the
  protocol promises it with a probability, so no run refutes it.
  **Hashgraph** members may decide differently. **Snowflake** stops for ever
  when a query stays without a majority or an answer is lost.
* **DAG coin.** A transaction that comes before its parent is dropped "until
  gossip redelivers it", which the node's look-up prevents. **Lattice**: votes
  confirm a block of a fork, but the chain it competes with stays as it was.
  `receive` does not compare the account with the send's recipient; of accounts
  at two nodes that receive one send both are credited.
* **Beacon.** With sources whose ids do not cover the timestamp, draws that mix
  the timestamp in differ between nodes. A block refused as too late is refused
  with all its descendants. One source's blocks are not verified.
* **Synchronisation.** A node without any post has the digest "", which
  `MerkelizedObject` does not recognise as valid, so it is never sent the
  history (a `DAGObject` is). The digest of a `TransactionChain` says nothing of
  earlier posts. Two posts published at once on one head of a `DAGObject`
  refuse each other for ever.
* **Core objects.** Records written before the attachment are not moved to the
  node's database; its keys hold `id(self)`, so a restart orphans them. The
  ledgers apply a message again that comes twice.
* **Closed handles.** While a thread is inside `db_sync` the other threads of a
  persistent node work on a closed database: a payload is applied and lost for
  the log, the next copy is applied again, and a look-up at that moment ends the
  listener thread, after which the node receives nothing until it restarts.
* **Peers.** A removed peer cannot come back by an advertisement that is already
  stored; restored peers fail their first send, restored bans match nobody; a
  ban does not survive an advertisement or an introduction, the latter even with
  NAT traversal disabled. Two threads may exceed `max_peers` by one.
* **Message index.** Its SQLite connection belongs to the constructor's thread;
  the listener's calls raise and are swallowed, so that payloads of other nodes
  are not indexed. **Filter**: a `dict` message makes it raise when a plain type
  is listed before the schema; control messages are filtered too.
* **Chat.** Two creations judged at the same time replace the room, and two
  nodes keep different administrators; a message judged under the first room
  enters the second unadmitted, although `membership.py` says that rooms
  "require admin approval to join". Under `admin_approval` the founder must
  accept itself. **Topics**: an own echo is listed twice, and an unsubscription
  that overtakes its subscription is refused, so that nodes differ.
* **Example blockchain.** The first block's hash contains the time. A block of a
  losing fork removes its transactions from the pool; one that arrives after its
  block is mined again; one that cannot be paid and pays most stops mining.
* **UTXO ledger.** Two pooled spendings of one output make every block fail.

## 6. Bounds, fairness and abstractions

Bounds: `MaxRestarts` (restarts of a node), `MaxHeight` (no proposal above it),
`MaxBlocks` (blocks produced); in the engines and objects `MaxSequence`, `MaxView`,
`MaxSuccess`, `MaxEvents`, `MaxTx`, `MaxMined`, `MaxBeacon`, `MaxTime`, `MaxQuery`,
`MaxBalance`, `MaxPosts`, `MaxRequests`, `MaxCalls`, `MaxMinted`, `MaxSaid`, `MaxClock`,
`MaxWrites`, `MaxUtxoBlocks` (each named a bound where it is declared), and the
constants of each configuration. The proofs hold for every value of them.
`consensus_engines` has one `CONSTRAINT`: hashgraph members, who are
interchangeable there, create their first events in a fixed order.

`CHECK_DEADLOCK FALSE` is set for all but the block runs: a network in
which everything is published, delivered and nothing restarts may stop, and so may
validators above `MaxHeight`, engines that have decided and nodes at a bound. The
block runs check deadlock.

Fairness, in `GossipNode` only:

* weak fairness of the steps inside `create_shared_message` and `handle_message`,
  and of what a thread does after a broadcast and in `db_sync`: nothing blocks in
  them (sends are non-blocking UDP, there is no lock);
* weak fairness of each payload's broadcast by the gossip thread, which walks
  the whole database twice a second for as long as the process lives;
* a datagram that is in flight again and again between two linked nodes is
  received again and again, as long as a listener thread lives there: the
  network loses any number of copies, but not all of them for ever. Without it
  no protocol over UDP delivers anything.

No fairness is assumed of publication, failing sends, loss or restarts, and
`gossip_delivery` has no failing sends: a peer whose send fails is removed for
good, and no code adds it back. Its databases are dicts: a persistent node's
listener may end in a closed handle and hear nothing any more, so delivery to it
is not a property of the code.

Abstractions that a reader should know:

* A payload is its hash, and validity is a set of payloads that must be applied
  first. Objects whose `is_valid` can turn false again are outside of the model.
* The sends of one broadcast are one step, and a peer is its address: they change
  only the network. Taking out the peers that failed is a step for each.
* `restored` peers from the database are not in the list after a restart: their
  first send raises and removes them. The operator connects the node again.
* A `dbm` handle is open or closed. Two handles of one file at once (a thread
  opens while another has opened already) are taken to work, locks of other `dbm`
  flavours and the thread restriction of the SQLite index are left out.
* Tendermint: one engine per network and a fixed validator set; the round is
  always 0, as in the code; the engine's own tables stand in for the node's
  database, so that a handler may see a message more often than a node would
  show it, never one that was not sent. Votes for other heights are dropped.
* BlockProduction: the balance ledger with enforced nonces and no overdraft; a
  transaction is its id; time is the number of oldest entries that have
  outlived the limit when a call looks; an oversized payload is refused like a
  fee that is too low. The miner is always named.
* A hash or id is the position of what it names among all that was made, with
  a rank where the code sorts by it; signatures and proofs of work are taken to
  hold. Where ids can coincide they are modelled by what they hash
  (`UTXOLedger`, `BeaconChain`).
* In the composed modules nodes run one engine or object at a time. What one
  object does to another is modelled where the code has it: ledger and mempool
  of the example, the store behind every core object, the peer table.
* What Byzantine replicas may send is a constant (`PbftLies`, `HsLies`). PBFT and
  HotStuff know a value by its digest: the look-up of the value at execution, and
  the execution of nothing where it is not known, are left out. `add_block` of a
  fork-aware chain, which no lock guards, is one step.
* `HsPipelined` is false in `consensus_engines`: with one proposal in a view the
  leader is never locked on another digest when it proposes, so that branch of
  `HsPropose` is covered by the proofs and not by the run.
* `ChatRoom` has one room and one user at each node; what a user says differs in
  its kind, member and time. The skew check of timestamps is left out.
* The amounts of the lattice's run are 1, and the example's miner may take two
  transactions where the code takes ten, which two payments never exceed; the
  proofs hold for all amounts and limits.
* The Avalanche query reads the sample's answers in the step that records them,
  since the caller of `record_query` is the application.

## 7. What is not modelled

* **Tendermint demonstration and command line** (`examples/tendermint_bft.py`,
  `tendermint_cli.py`, `chaincraft_cli.py`): some 1,800 lines of timers, threads
  and terminal programs around the protocol that the engine, which is modelled,
  implements; its nested calls across unlocked threads would have to be a module
  of the size of the engine for code no other part uses.
* **Cryptographic primitives**: number theory without state.
* **Message-type filter**: a pure check of one message; its verdict is a strike.
* **Message index** and **STUN**: I/O with SQLite and one external server.
* Parts of modelled components: see the notes in `PROJECT.json`. The largest are
  the sockets and framing of `node.py`, keys and serialisations of the example blockchain, and block exchange by its
  digests.

## 8. What remains

Every invariant and action property that a passing run checks is stated by a
theorem. What could be added:

1. Agreement of HotStuff in the views of a faulty leader, or of one that is asked
   twice, is not true of the code (section 5), and where it is true by the numbers
   of the votes, as in the run, it is only model-checked.
2. That logs with the same hashes hold the same values: `tendermint_value`
   refutes it for Tendermint; PBFT and HotStuff look the value up by its digest
   and would record none for a digest they never saw.
