# Ganache in TLA+

Specifications, model-checking configurations and machine-checked proofs for Ganache, the Ethereum
simulator of this repository. Paths below are relative to the repository; `E/` stands for
`src/chains/ethereum/ethereum/src/`. (In `PROJECT.json` they start with `src/`, the directory the
repository is in.)

The core of Ganache is single-threaded and asynchronous. Its difficulties are not data races but
what happens *between two awaits*: every model here takes the code between two awaits as one step
and lets everything else come in between.

## 1. The system

### Parts and how they interact

```
 client ── Server ── Connector/Provider ── RequestCoordinator ── Executor ── EthereumApi
                                                                               │
                  ┌────────────────────────────────────────────────────────────┤
                  v                                                            v
     TransactionManager ── PromiseQueue                              snapshot / revert / mine
                  │                                                            │
                  v      "drain"            "block"                            v
     TransactionPool ─────────> Miner ─────────────> Blockchain (save, emit, snapshots, database)
        (Heap per origin)       (Heap of prices)           │
                  ^                    └── runs ─> VM, trie │
                  └───────────── inProgress ────────────────┘
```

A raw transaction is prepared by `TransactionManager`/`TransactionPool`, put in the `pending` or
`future` heap of its sender, and the pool emits `drain`. The blockchain's listener then calls
`Miner.mine` (instamining), or a timer does (interval mining), or a client does (`evm_mine`). The
miner runs transactions in the order of their prices, collects blocks and emits `block`; the
blockchain saves blocks one after the other in a chain of promises and then tells clients about
them. `evm_snapshot` and `evm_revert` cut across all of it: they pause the miner and the
transaction manager, clear the pool, delete blocks and set the VM's state back.

| Part | State it keeps | Operations | What is hard | What makes it correct |
|---|---|---|---|---|
| Promise queue (`src/packages/promise-queue`) | entries with their outer promise, the live array, cancelled arrays | `add`, `clear`, reactions of settled promises | promises settle in any order, `clear` in between | outer promises resolve in the order of `add`, once, to the right value |
| Request coordinator (`src/packages/utils/src/utils/request-coordinator.ts`) | `pending`, `runningTasks`, `paused`, replaced methods after `stop` | `queue`, `#process`, `pause`, `resume`, `stop`, `end` | re-entrance, the loader's `resume` racing `disconnect` | FIFO, limit kept, no idle slot, every request answered |
| Heap (`src/packages/utils/src/utils/heap.ts`) | array and length | `push`, `removeBest`, `replaceBest`, `remove`, `refresh`, ... | refresh when the order changes | best on top, nothing lost |
| Transaction pool and manager (`E/transaction-pool.ts`, `E/data-managers/transaction-manager.ts`) | `pending`, `future`, `inProgress`, one lookup per account | prepare, triage, replace, drain, clear, pause, resume | stale nonce after the await of the account; replacement while mined | pending is a gapless run of nonces; no answer is broken |
| Miner (`E/miner/miner.ts`) | `#priced`, `#origins`, `#pending`, `#isBusy`, `#paused`, `#currentlyExecutingPrice` | `mine`, `#mine`, `#mineTxs`, `#runTx`, `pause`, `resume` | two heaps in step while the pool changes during each await | one loop, each transaction run once, none left |
| Blockchain (`E/blockchain.ts`) | `#blockBeingSavedPromise`, `#snapshots`, `blocks.latest`, the database | save, emit, snapshot, revert, start, stop | saving lags behind mining; revert in several awaits; restart | the database is one chain; revert restores |
| Filters, subscriptions (`E/api.ts`, `src/packages/core/src/servers/ws-server.ts`) | filters with their updates, listeners, sockets | install, poll, remove, subscribe, unsubscribe | polling and closing sockets between the saving of a block and its events | every block once, in order |
| Forking: requests (`E/forking/handlers`, `E/forking/rate-limiter`, `E/forking/fork.ts`) | promises and values cached, semaphore, windows of counters, puts under way | look up, send, retry, fail, close | lookups between a check and its use, retries, lost connections | equal requests are sent once, errors are not kept, everyone is answered |
| Forking: state (`E/forking/trie.ts`) | the trie, markers of deleted keys, checkpoints of both | get, put, del, checkpoint, commit, revert, `revertMetaData` | two stores in step over checkpoints, blocks and `evm_revert` | a plain history of states |
| Forking: persistent cache (`E/forking/persistent-cache`) | a tree of fork blocks on disk, the ancestors loaded | initialize, re-balance, get, put, close | re-balancing in the background, cut off anywhere by close | only blocks of the session's own chain answer |
| Server (`src/packages/core`) | status, sockets, connections | `listen`, `close`, requests | close during start, a start that fails, ports in use | status and socket are true; every call ends |
| Wallet (`E/wallet.ts`) | known and unlocked accounts, key files, timers | add, import, remove, lock, unlock | key derivation takes its time, timers of earlier unlocks | an account is unlocked just as long as was asked |
| Time of blocks (`E/blockchain.ts`, `#timeAdjustment`) | the adjustment, those of the snapshots, the blocks' times | `mine`, `evm_increaseTime`, `evm_setTime`, snapshot, revert | the adjustment is read when a block is prepared and changed when it is saved | times in order; what is asked for applies once |
| Base fee and prices (`src/chains/ethereum/block/src/block.ts`, `E/transaction-pool.ts`, `E/miner`) | base fee, gas used, the price of each transaction | next base fee, default fee, re-pricing | three roundings on top of each other; a heap whose order changes | the fee can always rise again; the default lasts three blocks; the best paid runs first |
| Making of transactions (`src/chains/ethereum/transaction/src`) | type, fees, signature, chain; what is stored of them | ask, sign, send raw, store, read | four hardforks, three types, three ways in | the payer has signed what runs; read as it was stored |
| Reads of the chain (`E/api.ts`, `E/data-managers`) | the database's tables, the pool, the fork's remote | seven methods, in one to three reads each | blocks are saved and reverted between the reads | complete, whole, of this chain |
| Gas estimation (`E/helpers/gas-estimator.ts`) | a range of gas | grow, halve | off by one | the least gas that is enough |
| Tracing (`#traceTransaction`, `storageRangeAt` in `E/blockchain.ts`) | a copy of the state, a stack of storage maps, the log of steps, sorted keys | rerun, listen to a step, page | calls that end without a step, keys in any order | storage and gas shown are those of the step; a page is complete |
| Simulated calls (`E/helpers/simulation-handler.ts`) | a copy of the state, what is warm, the previous list | price, override, charge, run, list | the order of the set-up, a list that must settle | the call sees what was asked for; the list is what is touched |
| JSON-RPC calls (`E/connector.ts`, `E/provider.ts`, the two servers of `src/packages/core`) | messages under way, their calls' outcomes, sockets | parse, handle, answer, drop, publish | calls of a batch end in any order, clients go away | each answer is its message's, and goes to nobody who has left |
| Options (`src/packages/options`, `src/chains/ethereum/options`) | the configuration so far, the options supplied | fill, default, refuse | defaults read what was filled before; three options share an old name | the configuration is the one asked for |
| CLI (`src/packages/cli`) | flags, the exit code | start, signal, close | a signal at any time of the start | the server is closed once |
| Filecoin (`src/chains/filecoin/filecoin/src`) | pool, nonces, tipsets, deals, three locks, a timer; accounts, keys, the database of tipsets; the things sent and stored | push, mine, clear, switch, stop; start deals; make a message, sign, store, read, follow | locks in different orders, writes nobody awaits, restarts between two of them, conversions there and back | each message once, quiet after stop, deals become active; what is pooled is paid for and signed; money kept; tipsets found as they were mined |
| Tezos, value types, `console.log`, build scripts | none of interest | | | not modelled |

`PROJECT.json` lists every part with its status, and under `hazards` the places in the code where
an unlucky order, a stale value or a failed step bites, with the property that watches each.

### Reading order

`RequestCoordinator`, `PromiseQueue`, `Heap`, `Miner`, `TransactionPool`, `Chain`; then `Clock`,
`BaseFee`, `Pricing`, `Transactions`, `ChainReads`; then
`StateHistory`, `ForkTrie`, `ForkRequests`, `RateLimiter`, `PersistentCache`; then `Server`,
`Cli`, `Rpc`, `Wallet`, `Notifications`, `FilecoinChain`, `FilecoinDeals`, `Serialization`, `FilecoinMessages`,
`FilecoinWallet`, `FilecoinStore`, `Tracing`, `Simulation`, `Options`.

## 2. The modules

| Module | Models | Is used by |
|---|---|---|
| `PromiseQueue` | `packages/promise-queue/index.ts` | `MCUtilities` (which extends it) |
| `RequestCoordinator` | `request-coordinator.ts` with the calls of `Executor`, `packages/core`'s connector loader and `EthereumProvider.disconnect` | `MCServices` |
| `Heap` | `heap.ts` as operators on sequences: `Push`, `RemoveBest`, `ReplaceBest`, `Replace`, `Remove`, `Heapify`; the comparator is a Boolean function of pairs | `HeapOperations`, `Miner`, `TransactionPool` |
| `HeapOperations` | every sequence of calls of one heap | `MCUtilities` |
| `Miner` | `miner.ts` with the `drain` listener, the calls of `mine`, and the saving of blocks | `MCMiner` (two instances) |
| `TransactionPool` | `transaction-pool.ts` and `transaction-manager.ts`, with the miner reduced to lock, run, save | `MCTransactions` |
| `Chain` | saving, events, snapshots, reverts, the database and restarts, with the miner reduced to "a block is being made on this parent" | `ChainProofs` |
| `Clock` | the time adjustment of `blockchain.ts` and the calls of `api.ts` that change it | `ClockProofs`, `MCChainReads` |
| `BaseFee` | the base fee of `block.ts` and the default fee of a transaction | `Pricing`, `MCMiner` (which extends it) |
| `Pricing` | effective prices: when they are computed, how the miner orders by them, what is stored | `MCMiner` |
| `Transactions` | the transaction package, and the calls of `api.ts` that make and send transactions | `TransactionsProofs`, `MCTransactions` |
| `ChainReads` | the reading methods of `api.ts` over the managers of blocks, transactions, receipts and logs | `MCChainReads` |
| `ForkRequests` | the three handlers, `base-handler.ts`, the semaphore and retries of the rate limiter, the fork's start and end | `ForkProofs`, `MCFork` |
| `RateLimiter` | the windows and counters of `rate-limiter.ts`, `limit-counter.ts` | `MCUtilities` |
| `StateHistory` | the abstract specification: plain maps with checkpoints and a history of blocks | `ForkTrie` (refinement) |
| `ForkTrie` | `forking/trie.ts` under the steps of the miner, `evm_set...` and `evm_revert` | `ForkProofs`, `MCFork` |
| `PersistentCache` | `persistent-cache.ts`, `ancestry.ts`, `tree.ts`, `helpers.ts` | `MCFork` |
| `MCMiner` | four parts side by side (`part`), with the run's properties | `MinerProofs` |
| `MCUtilities` | seven parts side by side (`part`), with the run's properties | `UtilitiesProofs` |
| `MCServices` | six services side by side (`part`), with the run's properties | `ServicesProofs` |
| `Server` | `server.ts`, the HTTP server's requests, the blockchain's start and stop as they see it | `MCServices` |
| `Wallet` | `wallet.ts` with the calls of `personal_*`, `evm_addAccount`, `evm_removeAccount` | `MCServices` |
| `Notifications` | filters, subscriptions and the events of blocks | `MCServices` |
| `Tracing` | the listener of `debug_traceTransaction`, the rerun and the pages of `debug_storageRangeAt` | `MCUtilities` |
| `Simulation` | `simulation-handler.ts` with the price of `api.ts` and the comparison of `access-lists.ts`; the search of `gas-estimator.ts` | `MCUtilities` |
| `Options` | `create.ts` over the definitions of fork, wallet, logging and miner options | `MCUtilities` |
| `Cli` | `cli.ts` around `Server`, which it extends | `MCServices` |
| `Rpc` | `connector.ts`, `provider.ts` and the message handlers of the HTTP and web socket servers | `MCServices` |
| `FilecoinChain` | the Filecoin flavor's `blockchain.ts`: pool, tipsets, the miner's switch, `stop` | `FilecoinProofs`, `MCFilecoin` (which extends it) |
| `FilecoinDeals` | `startDeal` and what each tipset does to the deals | `MCFilecoin` |
| `Serialization` | `things/*.ts` over `serializable-object.ts`: what is made of what is sent, stored, and read again | `MCChainReads` |
| `FilecoinMessages` | `push`, `pushSigned`, `checkMessage`, gas and funds, signing | `FilecoinProofs`, `MCFilecoin` |
| `FilecoinWallet` | `account-manager.ts`, `private-key-manager.ts` and the wallet's methods of `api.ts` | `FilecoinProofs`, `MCFilecoin` |
| `FilecoinStore` | the managers of tipsets, headers and messages, the methods that read them, `ChainNotify` | `MCFilecoin` |

Parts that share no state are model-checked *side by side*: `MCUtilities`, `MCServices`, `MCMiner`,
`MCTransactions`, `MCChainReads`, `MCFork` and `MCFilecoin` have a variable `part` that is chosen at the
start, and a behaviour is one of the chosen part with the others at rest. Nothing is composed by this;
it is a way to write one configuration for several small systems. `Chain` has a run of its own; the cache of
`MCFork` is checked by a run of its own too, as `Parts` chooses the parts of a run.

### How state and actions correspond to the code

**PromiseQueue.** `array[0]` is `this.#queue`; `clear()` moves the live entries to
a `cancelledQueue`, so `array[k]` is the one of the k-th call. `entryQueue`, `value`, `resolved` and `promise` are
the fields of an entry. `Add`, `Clear` and `Settle` are the calls and the reaction of an entry's own
promise: if it is at the head of its array it is shifted out with all the resolved ones
behind it (`#drainQueue`), if not it is marked.

**RequestCoordinator.** `pending`, `runningTasks`, `paused` are the fields; `stopped` says that
`stop()` has replaced `resume` and `queue` by functions that throw. `Process` is the loop of
`#process` as a function of the state: it is called from `Queue`, `Resume` and from the `finally` of each
task (`Settle`), and those actions contain it. `BlockchainReady`/`Resume` are the
loader, `Stop`/`BlockchainStopped`/`End` the steps of `EthereumProvider.disconnect`.

**Heap.** Sequences from 1 stand for the array up to `length`. What `remove` leaves behind `length`
is not represented; `RemoveBest` of the last element empties the sequence.

**Miner.** Each element of `Loops` is room for one running call of `#mine`; the code intends one,
`OneLoop` checks it. A loop's `pc` says where it is: `loop` (it is about to select the best
transaction), `running` (at `await #runTx`), `finish` (the block is being sealed), `after`
(`#mineTxs` has returned, `#mine` not yet gone on). `waiting` and `released` are the calls at `await
#resumer`, before and after `resume()`. `priced`, `origins`, `again` (`#pending`), `isBusy`,
`paused`, `currentPrice` are the fields. The pool is present as `pending`, `inProgress`,
`locked` and `finalized`, and clients `Send` and replace transactions at any
time. `emitted` is the sequence of blocks emitted, `saved` how many of them the blockchain has saved;
`BlockSaved`, `Released` and `Drain` are the continuations on the blockchain's side.

**TransactionPool.** A call of `prepareTransaction` either starts the lookup of the sender's account
or waits for the one under way (`lookup`, `waiters`, the `#accountPromises` map); `Prepare` is
everything after that await: validation of funds, triage (`TriagePending`, `TriageAccount`,
`TriageFuture`), assignment of the nonce, replacement in place, insertion, and the move of what
waited (`Drain`). `added` and `answer` are the promise queue and what the callers are told. `Pause`,
`Clear`, `Resume` are what a revert does to the manager and the pool. Module `PromiseQueue`'s
guarantee (resolution in order) is used, not repeated.

**Chain.** Blocks are numbered as they are created; `parent` and `number` give their place. `vm` is
the state root of the VM, `mining` the parent of the block being made, `held` the calls of `mine`
that wait for `resume` with a block already prepared. `saving` and `queue` are the chain of promises
`#blockBeingSavedPromise`, `unemitted` the `setImmediate`d `block` events, `byNumber`, `byHash` and
`latestIndex` the database, `snaps`, `listening` and `list` are `#snapshots`. A call of
`revert` is a record with a program counter, in the order of the awaits: `Revert` (pause), `Paused`
(the saving under way is awaited), `Cut` (snapshots and their blocks are cut off), `Read`
(`getByHash`), `Delete` (the batch is written, the VM set back, the miner resumed). `Restart` loses
everything but the database. `overlap` is chosen at the start: what may come at an inconvenient time, such as
`late`, a revert that goes on between the saving of a block and its delayed event.

**Clock.** `adjustment` is `#timeAdjustment`, `increment` the option `timestampIncrement`. `Mine` prepares the
block with `AdjustedTime`, `Mined` is the miner's block, on which it may prepare the next, `Save` the
chain of saves, `Return` the rest of `mine()` behind them, where the adjustment is reset. `wanted`, `told`
and `steady` are history: what the properties are stated with.

**BaseFee.** `NextBaseFee` and `ThreeBlocksMaxBaseFee` are the two functions of `block.ts`, division by
division. A behaviour is a chain of blocks, each as full as it likes, with a transaction given its
default fee in between.

**Pricing.** `price` is `effectiveGasPrice` of each transaction: `Enter` computes it with the latest
block's fee, `Mine` and `Finish` for the heads and for the heap, and `Replace` does not. `priced` is a set: its best is any
of the highest price. Gas is one unit per transaction.

**Transactions.** A transaction has a `body` (type, chain, nonce, fees), a `v`, and a signature that knows who
signed what with which parity. `TypeFor` is the choice of `transaction-factory.ts`, `BodyOf` the
constructors from JSON, `Filled` the defaults of `api.ts`, `FromArray` the constructors from fields,
`RawOf` and `Loaded` the database. `Recovered` returns the signer when the hash and the parity that
are computed from the fields are those that were signed.

**ChainReads.** `db` has a table per manager. A request is one call whose `rows` are the reads made so
far: `Request` asks for the first, `Replied` takes what the database gives and goes on (`NextRows`), asks
the remote node for what is not there, or answers. `replies` is the order in which the database's
callbacks run; `Mine`, `Write`, `Written` and `Revert` are the chain that goes on meanwhile.

**ForkRequests.** `phase` says where a request is: looking in the caches and the disk, waiting for
the socket or the semaphore, sent, in its backoff, joined to another's promise, answered.
`requestCache` holds the request whose promise is cached, `valueCache` and `disk` the values, `puts`
is `fireForget`. `Receive` is a whole reply, `BodyEndsEarly` one that breaks off, `AnswerIsDropped` one by web socket that is not JSON or has
an unknown id, `Refuse` the answer
LIMIT_EXCEEDED after which the request is sent again, `Disconnected` the socket's close event.
`Initialized`, `InitializeFails` and `Close` are the fork's life. `before`, `raced` and `refused` are
history: what failed before a request looked, which keys were looked up together or refused.

**ForkTrie.** `roots` is a stack of tries, one per checkpoint, `marks` the stack of the `metadata`
trie's markers `<<block, key>>`; the first of each is what is in the database. `blocks` are the state
roots of the blocks. `Push`, `PopInto` and `PopAway` are checkpoint, commit and revert of both. A key
is looked up in the trie, then in the markers, then at the remote. `SetAccount` writes between blocks,
as `evm_setAccountNonce` and its like do, and mines an empty block.

**PersistentCache.** `tree` is the database of known fork blocks, with ancestor and descendants as in
`tree.ts`. The remote chains are given by the branch that each block ends (`Branch`), as is its height. `Open` is
`initialize`, one atomic batch. `Balanced(h)` is what the re-balancing writes when it gets up to the height `h`, of the blocks
(`Moved`) that are neither descendants already nor known (`KnownAt`) to be descendants of one; it goes on in the order of heights,
in which a branch has one block each. It is one action `ReBalanced` while the session runs (its reads and writes are
of nodes nobody else writes then), and `Close` lets it end or cuts it off at any height. `Get` ... `Return` are
`get()` with `Ancestry.has`: `Found`, `Missed`, `StartLoading`, `Loaded` are its awaits.

**Server.** `pc` is where a call of `listen()` or `close()` is. Both can be inside `close()`:
`listen()` calls it when its socket or the start fails. `chain` and `ready` are the blockchain's
status and its event, `initializer` the promise of the connector, `bound` the sockets that accept
connections. A connection is idle, or has a request pending (in the coordinator) or running.

**Wallet.** `call` is what each asynchronous call is doing, between what it checks and what it writes
once a key is derived. `lockTimers` is the map of timers, `running` those that will fire. With `serial`
calls come one at a time (`asyncRequestProcessing` off).

**Notifications.** `mined`, `latest`, `saved` and `emitted` are the last block handed over, set as
the latest, stored, and announced. A filter has its kind, range and updates; `polled` is the history of
what it has returned. A subscription goes from asked to subscribed (the listener is added), answered
(its socket passes messages on) and dropped (the socket closed).

**RateLimiter.** Time in units, two windows per period; `Send` is one pass of `schedule`
to the call of `fn`, `Tick` the clock. `sent` is history: which requests went out when.

**Simulation**, `eth_estimateGas`. The search is translated line by line over small numbers;
one call of the VM is one comparison with `needed`. Its variables and those of `eth_call` have nothing to do with each other.

**Tracing.** `frames` is the EVM's stack of calls, each with its gas, the state to go back to and the slots it has
touched (history, for the property). `Listens` is `stepListener`: it takes one map off `storageStack` or
puts one on (`Tracked`), and sets the gas cost of the step before. `SLOAD` shows the slot it reads, `SSTORE` not yet the one
it writes. `Return` and `Fail` are steps, `FallOff` is none. `KeyArrives`
and `KeysEnd` are the stream of `storageRangeAt`, `RunEarlier` the transactions before.

**Simulation.** `accounts` is the copy of the state, `warmed` what the state manager remembers. `Initialize`,
`ApplyOverride`, `ChargeSender` are `initialize()` in its order, with a failure at each place that throws;
`RunForList` is one round of `createAccessList`, in which the run touches what was chosen at the start.

**Options.** `at` is the loop's index in `fill`, `config` the target, `supplied` the set that conflicts are looked for in.
`Take`, `PassOver`, `Refuse` and `FillDefault` are the four ways through the loop's body. `given`
is the namespace, or what a user has put in its place (`--fork URL`), `old` the options by their old names.

**Cli, Rpc.** `Cli` adds the signals and the handler's flags to the actions of `Server`. In `Rpc`, `outcomes` are the calls of a
message that have ended; `CanSend` is what is looked at before an answer is sent; `heard` collects
what a socket was sent that it should not have been (history).

**FilecoinChain, FilecoinDeals.** Locks are sequences whose head holds them. A `pc` says where each
caller of `push`, `mineTipset`, the timer and the switches is; `MineOf` names the call of `mineTipset()` that
a push makes. A message is pushed unsigned (`Push`, `GetNonce`, `PushSigned`) or signed by a client, with a nonce of `GivenNonces`, by `MpoolPush` or
as one of `MpoolBatchPush` (`MpoolPush`, `PushSigned`); `signed` remembers which, and a message pushed twice has two names. `mining` is the batch of the tipset being mined: the messages `left`, those `done`, the nonce it has
`read`, its `parent`. `increments` are the calls of `incrementNonce` that nobody awaits, each a read and a write;
`gone` are the messages cleared, left out for lack of funds, or lost by a restart (history). Deals have numbers for states, from 1 to
`Active`; `updates` is what a tipset has still to write of them.

**Serialization.** A value is a pair of its kind and its content; a class is the list of its properties, each with
the name it is serialized under and the functions that read and write it. `Receive`, `Store` and `Read` are the
constructor on what a client sends, `serialize()` into the database, and the constructor on what is read there.

**FilecoinMessages.** One message from the call to the pool, by `MpoolPushMessage` or, signed before,
by `MpoolPush`: the gas is filled in, the funds are compared with what the pool's messages may cost,
it is signed, checked (`checkMessage` in the order of its tests) and put. Addresses are told apart by the protocol that is parsed.

**FilecoinWallet.** `records`, `keys` and `stored` are the database, `list` the addresses in memory. `writes` are
the writes given to the database and not done yet, so that `Restart` can come between two of them. Each client is in one call,
with what it has read of the accounts; `stale` and `torn` are history.

**FilecoinStore.** `tipsets`, `headers`, `blockMessages`, `signedMessages` are the tables. `mining` is the list of
writes of the tipset being mined, in the code's order; a crash loses what is left of it. `reads` are the
clients' reads by height, by key, of a block or of its messages, one database access each; `chain` is what was mined and counts (history).

### What the models assume of their environment

- `Miner`: three things happen a few microtasks after their cause: `#mine` goes on after `#mineTxs`,
  the `drain` listener runs, and calls released by `resume()` go on. What waits for the database, a
  timer or a client does not come before them (`NoMicrotask`). The timer and explicit calls of
  `mine` come when no call mines or waits (`Idle`); `drain` comes at any time. `MaxUnsaved` bounds
  how far saving lags behind; with 2, a call of `mine` can find `blocks.latest` behind the miner. `EachBlockOnTheLast` excepts the
  first block of such a call (`behind`; section 6). Re-pricing by the base fee is left out: `refresh` is checked in
  `HeapOperations`.
- `TransactionPool`: with `racing = FALSE` a client waits until what was run is saved and does not use a
  nonce again (`MaySend`), and the miner and a revert come when nothing is being prepared
  (`MayInterfere`); the claims about nonces (`PendingIsARun`, `NothingExecutableWaits`, `NoncesInOrder`) are made
  for those behaviours only, because the code's comment (`E/transaction-pool.ts:202-208`) and the
  model agree that they fail in others. The rest is checked with `racing = TRUE` too.
- `Chain`: a `setImmediate`d `block` event comes before the next write to the database ends, and, without `late`,
  before a revert that waits for the saving goes on.
  `overlap` says what may come at an inconvenient time: `mine`, `snapshot`, `revert` during
  a revert; `event`, a snapshot before the event of its own block; `late`, a revert that goes on before that event;
  `lag`, a call of `mine` when `blocks.latest` is behind the miner. Section 6 says which claims break under which.
- `Clock`: calls of `mine` come one at a time and no revert comes during one: `Chain` has the overlaps.
- `Pricing`: transactions enter while the miner is stopped; `Miner` has what comes in between, at fixed prices.
- `Transactions`: gas, recipient, value and data are under every signature and are left out; `r` and
  `s` are one value. Only a transaction of the next nonce waits: `TransactionPool` has the others.
- `ChainReads`: the database reads when it is asked and writes a batch at once, and its callbacks run in
  the order of what was done. One request at a time stands for all, as requests change nothing here. Saving
  keeps up with the miner, and a revert goes to the first block: `Chain` has the rest. Each transaction has one log, which
  passes every filter. `MaxBlocks` and `MaxReverts` are bounds.
- `ForkRequests`: `MaxRefusals` bounds LIMIT_EXCEEDED. `Fork.abort()` is never called, so the abort
  signal is left out. The remote's answers are not told apart beyond value and error.
- `ForkTrie`: a key is an account or a storage slot. `Zeroing = FALSE`: `evm_setAccountStorageAt`
  does not write zero between blocks (section 6). `MaxBlocks`, `MaxDepth` bound blocks and nested calls.
- `PersistentCache`: the remote chain is a fixed tree of blocks; each session sees one branch
  (`MaxSessions` of them). Reading and writing the database never fail, but for not found.
- `Notifications`: `MaxBlocks`. A block's log passes every filter of addresses and topics.
- `Tracing`: the EVM tells the listener of each step before it takes it, also of the one that fails; a step costs 1.
  `StepsAreTrue` is claimed while no contract is entered twice and no frame of a call ends without a step (`clean`).
- `Simulation`: fees, overrides and lists are varied one after the other. The state manager's `generateAccessList`
  is modelled from how it is called: exclusions never, the target only with a slot.
- `Options`: a key of each kind; strings that are no URL, and so throw in the URL's parser, are left out.
- `Cli`: what follows a promise runs before the next signal (`GoesOn`).
- `Rpc`: methods are external: they succeed, fail or subscribe. An answer is sent in one piece.
- `FilecoinDeals`: `Racing = FALSE`, no two `addDealInfo()` at once, and `Duration` is more than the
  tipsets that can be mined while a deal becomes active: section 6 says what happens otherwise.
- `FilecoinChain`: `MaxHeight` and `Switches` bound tipsets and switchings. Callers have names of their own
  (`CallersAssumption`), and each push of a message is one. In the run one of the two messages may come signed, with a nonce of `GivenNonces`: 0, which the other may
  have too. `mpoolClear(false)`, which keeps the messages of accounts that Ganache has the keys of, is left out.
- `FilecoinMessages`: one message at a time, what others may cost is a number: the nonces are in `FilecoinChain`.
- `FilecoinWallet`: `MaxCalls` bounds calls and restarts, `MaxDrawn` the random keys. `Seeded = FALSE`: without a
  given seed, random keys are new (section 6 says what happens with one). The money is claimed to be kept if no call has
  put an account that was changed since it was read.
- `FilecoinStore`: a put is one write, and clients read while the next tipset is written, one read at a time; the
  subscribers are a part of its own (`notify`), as they change nothing that readers see. `MaxMined`, `MaxCrashes`,
  `MaxMessages` and `NumNewBlocks` bound tipsets, crashes, messages and blocks of a tipset.

## 3. The runs

| Run | Instance | What it shows |
|---|---|---|
| `Utilities` | queue: 4 `add`, 2 `clear`, 2 values; heap: 7 elements, 2 contexts; limiter: 1 request per second, windows of 2 units, time to 8; gas from 252 to 270; options: every choice of 2 to 8 values for each of 6 keys; tracing: 2 contracts, 3 slots, 5 gas, pages of up to 2; simulation: 4 addresses, 2 slots | `ResolvedInOrder`, `ResultIsOwnOrFirstClear`: the queue's order and results; `HeapIsRight`: best on top, nothing lost, drained in order; `WindowsAreCounted`; `EstimateIsEnough`; `ConfigIsAsAsked`: one source, its own block and mnemonic, refused only for a reason; `RerunsAreTrue`: traces, pages, simulated calls and access lists |
| `Services` | coordinator: 4 requests, limits 0, 1, 2; server: 2 `listen`, 2 `close`, 2 connections; wallet: 2 accounts, 4 calls; notifications: 4 blocks, a filter of every range, a subscription; CLI: one listen, two closes, signals without bound; JSON-RPC: 2 messages, batches of 2, four ways | `KeepsToLimit`: neither above the limit nor idle; `StartsInOrder`; `NothingStartsAfterStop`; `StatusIsTrue`: status and socket are true at rest; `WalletIsExact`: accounts listed, locked and unlocked as asked; `ClientsAreTold`: each block once, in order; `AnswersMatch`: each answer is its message's, to a client that is there; `CallsEnd`: all queued requests, signals, messages, calls of `listen` and `close` and HTTP requests |
| `Miner` | instamining: 2 accounts, 4 transactions of one price, one of which fails; interval: 5 transactions at 3 prices, `evm_mine`, `evm_setAccount`, `miner_stop`, `pause`, blocks of 5 gas; prices: 6 transactions of 3 origins, blocks of 3, 5 blocks; fees: limits 2, 7, 12, first fees 7, 11, 30 | `OneLoopAtATime`: one loop, none when paused; at an interval, one as long as the miner is busy; `BlocksAreSound`: both heaps, the locks and what runs in step, each transaction once and, as far as `blocks.latest` was not behind when `mine` was called, one chain; instamining without calls from outside, a loop as long as the miner is busy; `MinedBestFirst`: the best paid at the block's fee runs first, and what is stored as the price is of the block or of the entry; `FeeMovesByAnEighth`: the fee stays where it can rise again; `DefaultIsEnough`: for three blocks |
| `Transactions` | making: 6 requests, chains 3 and 4, 4 hardforks, 2 accounts, one transaction on the way, 3 calls; pool: 5 mixes of 3 or 4 transactions, 2 at a time, one revert, with and without races | `SignedAsAsked`: who pays has signed what runs, with the fees asked for as far as its type has them, and says when others are dropped; `AcceptsItsOwn`: exactly what is for this chain is accepted raw; `StoredIsItself`: read back as it was; `PoolIsExact`: pending is a run of nonces, each once unless a replacement was pushed twice, nothing executable waits, nonces as sent, answers are kept |
| `Chain` | 3 blocks, 2 snapshots, 2 reverts, 1 restart; eager and not; with 3 overlaps | `DatabaseIsSound`: one chain that the index leads to, snapshots are stored; `RevertIsExact`: a revert removes what is newer and restores; `MinerGoesOn` |
| `ChainReads` | clock: a second of 2 ticks; increment 2 or the clock; 3 blocks, 2 snapshots, shifts of -1 and 1, one time to set; reads: 2 transactions, 3 blocks, 1 revert, forked at block 1 or not, 7 methods; things: every class of the Filecoin flavor with its inputs | `TimesInOrder`: unless a time is set; `AppliedOnce`: with an increment, shifts apply once, over reverts too; `AnswersAreSound`: they miss nothing that was stored or sent, receipts come with their block, nothing of the remote after the fork; things are read as they were stored |
| `Fork` | trie: 2 keys, one of them at the remote; 3 blocks, 3 checkpoints deep; requests: one of the start, three equal ones, 1 refusal; three transports | `ImplementsHistory`: the trie refines `StateHistory`; `RequestsAreSound`: equal requests are in flight together only in the two ways the code leaves open, errors do not answer later requests by url; `Answered`: everyone is answered or was lost on the way |
| `PersistentCache` (`MCFork`, `CacheSpec`) | 7 blocks on 3 branches, 4 sessions, 2 `get` | `CacheIsSound`: hits are of the session's chain, and the tree is one; `GetsEnd` |
| `Filecoin` | chain: 2 messages, one of which a client may have signed, a call of `MineTipset`, a timer, a switch, `stop`, a restart; deals: 2, and another's tipsets; push: 4 amounts, 3 balances, 6 kinds of addresses; wallet: 2 clients, 3 calls and restarts, 3 keys; store: 2 tipsets of 2 blocks, 1 message, 1 crash, a reader; notify: the same with a subscriber | `MessagesAreSound`: no push lost or twice, tipsets a chain, a nonce that `push()` chooses above those before it in the pool; `StoreIsSound`: tipsets and messages found by height, key and block, subscribers told of each; `AccountsAreSound`: what is pooled is paid for and signed, what is ordinary is not refused, money is kept, the list in the database is the one in memory and of the keys; `QuietOnceStopped`; `DealsEnd`: `startDeal` ends |
| `MinerBusy`, `FilecoinStop`, `ReadsPending` | small instances of `MCMiner`, `MCFilecoin`, `MCChainReads` | the findings of section 5 |

### Why the bounds are enough

- *Utilities, queue*: 4 entries give a head, a settled run behind it, one after; 2 calls of `clear` give
  entries in the live array and in two cancelled ones. The proofs remove these bounds.
- *Services, coordinator*: limit 2 with 4 tasks has two running and two pending; 0 is "no limit". The
  proofs remove these bounds as well, but for `CallsEnd`.
- *Utilities, heap*: seven elements fill three levels, so a sift has a left and a right child to
  choose from, a grandchild to go to, and removal from the middle can go up or down. Prices have ties.
- *Miner, mining*: two origins with two nonces each are the least for which a transaction of another origin
  comes while one runs, and the next nonce of the same origin follows it. The gas limit of 5
  makes a transaction overflow (4+2) and one that seems to fit by its intrinsic gas and does not. Three calls
  suffice for one that mines, a `pause` or `miner_stop` while it does, and one held until `resume`.
- *Transactions, pool*: the mixes pair each triage outcome with the others: automatic nonces and a
  replacement and a gap; a gap that closes with one that never does; two that compete in
  the future queue; two accounts. Two prepared at a time are enough for a shared lookup and a waiter.
- *Chain*: three blocks: one before both snapshots, one between, one after, with all partitions into
  saved, saving, queued; the second revert goes to an earlier snapshot, to a
  later one that must be gone, or overlaps a block of the first.
- *ChainReads, clock*: half a second is the least fraction that rounding can lose; three blocks and two snapshots put a block before,
  between and after, and a shift can be undone by either. The proof removes the bounds.
- *Miner, fees*: an odd limit, the least one, and one whose target is not a power of two; fees at the floor,
  above it, and where two roundings differ. The proofs remove the bounds.
- *Miner, prices*: at a base fee of 16 a fixed price is ahead of the dynamic ones, at 18 behind them; the chain starts at
  20 and passes both; one origin has a fixed, a dynamic and an underpaid transaction in a row.
- *Transactions, making*: each request differs in one thing the choice of a type looks at. Three calls are a
  transaction, its replacement, and one that follows; the v of chain 4 must not be taken for a parity. The proofs remove the bounds.
- *ChainReads, reads*: the longest request reads three times, and between two reads a block can be saved or deleted, which
  takes two batches; a second block with a removed one's number shows what was left of it.
- *Utilities, limiter*: time to 8 is four windows, so a counter is evicted after the third and a
  backoff of 3 crosses a window. *Gas*: from 252 on the growth by 64/63 takes steps of 4, so a range
  has a middle and odd and even lengths; every pair of start and need is tried.
- *Fork, requests*: three equal requests are one that is sent, one that finds its promise, and one that looked
  before it was there; the request of the start is uncached and comes before the disk is attached.
- *Fork, trie*: depth 4 is a block, a transaction and a call in it, so a commit into an open checkpoint,
  one into the database and both reverts happen; three blocks let a marker be in a block that is kept,
  one that is removed, and one re-mined. The proofs remove these bounds.
- *Services, the others*: two calls of each kind give a second `listen` while the first fails and a second
  `close`; four calls of the wallet are two unlocks with timers around a removal and an import. Four
  blocks give a range with blocks before, in and after it.
- *Utilities, tracing*: two contracts and a call in a call are enough for a map of the wrong frame; three slots and a
  block with an earlier transaction for a page with a key more, and a value written before. *Options*: every pair of
  keys that exclude or read each other. *Simulation*: both ends of each comparison of fees; a list settles in three runs.
- *Services, CLI and JSON-RPC*: any number of signals, of which two can be during one close; two messages on one socket,
  one of them a batch whose calls end in either order.
- *PersistentCache*: the branches leave after the first and the third of four blocks, so a new block can come
  between an ancestor and two of its descendants, beside them, or below; four sessions are what
  it takes to re-balance twice and use the result.
- *Filecoin*: two messages of one sender, each with its auto-mined tipset, compete with a call and the
  timer for the three locks. The proofs remove these bounds; their invariant was first checked on 353 525 states of this
  instance and on 4 277 369 of one with three messages of two accounts and two switches. *Push*: each amount is
  on one side or the other of the funds, the gas limit of a block and the base fee. *Wallet*: two calls overlap, the third
  sees what they leave. *Store*: with two blocks per tipset a key can be a part of one; two tipsets put one above the latest when a crash comes.
- *Chain, proved*: the inductive invariant was first checked on the run's instance, with both overlaps at once too:
  1 049 602 states.

### Fairness

`RequestCoordinator`: weak fairness of settling tasks and of the loader's and `disconnect`'s
continuations: promises that are settled have their reactions run by the event loop, and API methods end. Nothing is assumed
of clients. `Miner`: weak fairness of the loops' awaits (VM and trie operations end), of saving, of
the delivery of events, and of whoever paused or stopped the miner (revert's `resume`;
`miner_start` by the user who said `miner_stop`); of this only the small run `MinerBusy` makes use. `Chain`: a block being made is finished,
writes end, continuations run. No strong fairness is used anywhere: an await whose promise
is resolved stays enabled. `ForkRequests`: promises go on, and the node answers or the handler's five
seconds pass, as the code does by url; a lost connection, a body that ends early or a web socket's answer that is dropped is not assumed away,
`Answered` names it. `Server`: the blockchain starts or fails, sockets open or are in use, handlers
end. `Cli`: the same, and the callback of `listen` runs; nothing is assumed of signals. `Rpc`: methods end.
`PersistentCache`: reads of the database end. Filecoin: calls go on when their lock is given to them.
`MCMiner`, `MCServices`, `MCUtilities`, `MCFork` and `MCFilecoin` state the fairness of the parts of which they
claim liveness, and claim only safety of the others. `Wallet`, `Notifications`, `TransactionPool`, `ForkTrie`,
`Clock`, `BaseFee`, `Pricing`, `Transactions`, `ChainReads`, `Options`, `Tracing`, `Simulation`, `Serialization`,
`FilecoinMessages`, `FilecoinWallet` and `FilecoinStore` have safety properties only.

Deadlock checking is off where the bounded number of calls makes the system stop
when all is done.

### Mutants

For each property of a passing run `PROJECT.json` names a change of one mapped definition that a slip in the code
would make (a forgotten guard, a missing reset, a wrong order) and under which TLC refutes
the property. Their alternative definitions stand in the modules, marked *Mutant*.

## 4. What is proved

TLAPS checks all proofs of eight modules from the assumptions on constants only (`TasksAssumption`:
finitely many tasks, of any number; `LimitsAssumption`; for the queue `BoundsAssumption`,
`OwnAssumption`, `PendingAssumption`: any number of calls, values distinct from the two markers;
`ForkTrieAssumption`: any keys, values, remote state, number of blocks and depth of calls, with
`Zero` and `None` no values that are written;
`RequestsAssumption`: any requests and keys, as long as what is asked for without the cache (the latest block's number) is
asked for in no other way; `ClockAssumption`: any times, increments and shifts;
`BaseFeeAssumption`: any limits from 2 on and any fees; `TransactionsAssumption`: any chains, accounts,
requests and fees; `LimiterAssumption` of `MCUtilities`: any rate, limits above 0, a window of two halves; `HeapAssumption`: any
elements and contexts, integer priorities; `IntervalAssumption` of `MCMiner`: what an explicit call of `mine()` asks for ends after a
block, as `evm_mine` (api.ts:430) and `evm_setAccount*` (api.ts:490) do; `CacheAssumption` of `MCFork`: any blocks, each the end of a branch that starts at the first one
and contains the branches of the blocks on it; `BoundsAssumption` of `Chain`: any bounds; `CallersAssumption` of `FilecoinChain`: any messages, senders,
nonces of clients, calls and bounds, as long as each call, a push too, has a name of its own and there is an interval;
`ServicesAssumption` of `MCServices`: any calls, accounts, clients, blocks and messages, as long as the accounts made at startup
are finitely many, a batch is a sequence, the calls of `listen()` and `close()` are distinct and `None` is none of the values
it stands in for; `PushAssumption` and `WalletAssumption` of `MCFilecoin`: any amounts, funds and gas, a premium by default that pays the minimum
base fee and a transfer that fits in a block, as in `gas.ts` and `message.ts`; any finite set of clients, any first balance, at least as
many keys as accounts of the start, and again a `None` of its own).

**ServicesProofs**, the request coordinator. `Spec => []TypeOK`, `[]KeepsToLimit`, `[]StartsInOrder` and `NothingStartsAfterStop`. None of the first is inductive alone. The invariant `CoordinatorInv`
adds: the pending tasks are distinct and are exactly those of status pending; `pending` is a
suffix of `queued` (hence what has left it left in order); `runningTasks` is the number of tasks in flight; a stopped
coordinator is paused. `ProcessLemma` says what the loop of `#process` does: it moves the first
`Startable` tasks and leaves no idle slot. It is used by each of the three callers, so that one
step of the proof per action (`QueueStep`, `SettleStep`, `ResumeStep`, `EndStep`, ...) shows only that
the action re-establishes what `ProcessLemma` asks for. The lemmas on suffixes and on the
cardinality of prefixes stand at the front.

**ServicesProofs**, the wallet. `W!Spec => []WalletIsExact`. `TimersOK`: the timer recorded for an account is a call that has
unlocked that account, so no timer is recorded twice; a timer that runs is recorded, unless its account has been removed; an account has one
that runs just if it is unlocked for a while. Without the second `lockAccount()` and a new unlocking would clear one timer and
leave another, and without the exception for removed accounts it is false: removing forgets the timer (section 6). `SerialOK`, for calls that come one at a time: one is in progress,
and an account whose removal has begun is still known when it ends. The hard step is `splice()` (`OthersStayListed`): it
takes out the index that `indexOf` has found, the least, and every other address stays; when it finds none, -1 takes out the last,
and only the second part of `SerialOK` excludes that.

**ServicesProofs**, JSON-RPC calls. `P!Spec => []AnswersMatch`. While calls run their outcomes are those their methods
allow on the transport (`OutcomesOK`); an answer is the formatted outcomes, and all of them have come (`AnswersOK`); listeners belong to answered
messages of an open socket and nothing has been sent to an aborted request (`ListenersOK`). `FormattedMatches` is about
`formatResponse`: lengths, order and ids of what it makes, which includes the single call whose id 0 becomes null in an error.

**ServicesProofs**, notifications. `N!Spec => []ClientsAreTold`. `NumbersOK`: a block is the latest before it is saved and is saved before its events,
by one block each, except in the eager mode. With it a block is in the range of a filter when its event is emitted just if the
filter is meant to see it (`SeesWhatIsMeant`), although tags are looked up at that moment. Then what a filter has returned and still
holds, taken together, grows by that block at its end (`FiltersAreToldOf`), whatever polls have moved between the two (`ConcatOfAppend`), and what a
subscriber has been sent grows likewise (`SubscribersAreToldOf`). `IsExact` is stated by the set of the blocks and their order.

**ServicesProofs**, the server and the program. `S!Spec => [](S!StatusIsTrue /\ S!SocketIsKnown)`, and `MCSpec => []StatusIsTrue`, which adds
`ShutdownIsGraceful`. `StatusIsTrue` speaks of rest only, so the invariant has to say what each status means while calls are in
progress (`StatusOK`) and what a call that waits or has ended has done (`CloseOK`, `StartOK`). `SocketsOK`: at most one call waits for its
socket, and nothing is bound then; this is why `SocketOpens`, which overwrites `#listenSocket`, loses no socket. `ClosesOK`: once the program has
called `close()` no socket opens any more, so that only a `listen()` that fails can stop a server under another that has opened, the case that `OpenedLate`
excludes. The steps of `Cli` are those of `Server` or leave it alone (`SameServer`, `ProgramSteps`); `ProgramInv` says that it listens
once, and closes only what is open, so what is announced has a `listen()` that ended well, which the server's invariant ties to the rest.

`ServicesAreRight` puts the parts together: `MCSpec`, the specification of the run, keeps all six of its invariants.

**UtilitiesProofs**, the promise queue. `Spec => []TypeOK`, `[]ResolvedInOrder`, `ResultIsOwnOrFirstClear` and
`[]NotBusyMeansDrained` (which no run checks any more: it is proved). The
invariant: each unresolved entry is in the array it believes it is in (`InItsArray`, `NoneLost`),
arrays are in the order of `add` (`Increasing`), the numbers not yet used are fresh (`Fresh`), an entry is marked `resolved` just when it has
settled behind one that has not (`FlagsRight`), the head of a non-empty array has not settled
(`HeadWaits`), what is ahead of a resolved entry has settled (`AheadSettled`), and an entry's value is its own or that of its `clear`
(`ValueRight`). It is needed because the code decides by `entry.queue[0] === entry`: that this
is the right test depends on all of these. The hard step is a settled head (`ShiftStep`), which removes the longest
resolved prefix; that there is a longest one is `PrefixExists`, from `LeastElement`, the
well-foundedness of the naturals.

**UtilitiesProofs**, the heap. `MCSpec => []HeapIsRight`, for any elements, contexts and priorities (`HeapAssumption`: they are
integers). The library's induction theorems cannot be used here, but a strong induction whose predicate is a *set* of numbers can:
`StrongInduction` follows from `LeastElement`, and from it `Recursion`: for a function given by its domain, the next argument, what is made of
the result there, and a measure that decreases, a solution exists. `up()`, `down()`, `init()` and the
reference `drain` are instances (`UpUnfolds`, `DownUnfolds`, `HeapifyUnfolds`, `DrainExists`), so that what they compute is proved, not assumed. `MayRise` and `MaySink` say what
is between two turns of the loops of `up()` and `down()`: a heap but for one place, whose children are in order with its parent.
The code's `fix()` relies on this: `ChangedMayMove` says that one changed element leaves such an array, and `FixIsRight`
that `down()` mends it, or else leaves it as it was and `up()` does. `Holding` says of an array that it has each item once;
every operation keeps it. `DrainSorts` is the induction on the number of elements.

**UtilitiesProofs**, the rate limiter. `MCSpec => []WindowsAreCounted`. The invariant (`LimiterInv`) says that the counters of this window and the last are the numbers
of requests sent in them (the code's `evict` drops no counter of either, because a counter is not touched after its window), and that
the two counters are far enough below some limit (`Few`). That is kept by sending, since `status()` weighs the last window
by how much of it the sliding window covers (`Room`, `SentHasRoom`, `FewMore`), by `evict`, which spares both (`EvictionSpares`), and by the
beginning of a window, since the counter before it is then the last one (`TickStep`). The two bounds of the property follow: a stretch as long as a window lies in two of them.

**ForkProofs**, of `ForkTrie`. `Spec => []IInv`, `[]MarkersAreInBlocks` (proved, not run), and `ImplementsHistory`: the trie with
its markers implements `StateHistory`, in which a state is a plain map and a block, a checkpoint, a
commit and a revert do what their names say. The refinement mapping takes each open checkpoint to
what a transaction would see if it were the top (`SeenAtDepth`), and each block to what a call at it
sees (`SeenAtBlock`). It holds only with the invariant that every marker of the database belongs to a
block there is and every marker of an open checkpoint to the block being mined (`MarksAreOfOpenBlock`):
else a marker would become visible, or stop being visible, when the block number moves. Each action has
a lemma of its own that says what the maps seen before and after it are; the proof of `Implements` puts
them together.

**ForkProofs**, of `ForkRequests` as `MCFork` instantiates it. `R!Spec => []RequestsAreSound`: who coalesces, and what a failure
reaches, for any requests, keys, transports and refusals. Nothing of this is inductive alone. `SemInv`: who is in flight is in the
limiter's queue, once; so the one that is sent is its head, and leaving the queue in the `finally` takes out that one.
`CacheInv`: under a key that is not excused the promise cached is that of whoever is in flight, and while one looks in the persistent
cache no equal one does so or is in flight; the second half is what the first needs when the lookup ends without a find.
`PromiseInv`: a cached promise still pends, except with the provider's handler, and whoever joined it came before it failed, so
the failure it hands on is not an old one. Five lemmas stand for the five things that can happen to a request (`QueueStep`,
`SettleStep`, `JoinStep`, `LookStep`, `MoveStep`), and each action is one of them or several by cases; `EnterStep` is the four ways of
`queueRequest`.

**ForkProofs**, of `PersistentCache` as `MCFork` instantiates it. `P!Spec => []CacheIsSound`: hits are of the session's own chain and the tree
of fork blocks is one, for any tree of remote blocks, any sessions and concurrent calls. At the front stands what branches are:
two blocks of one branch are on each other's (`Linear`), and a branch through a block is that block's own up to it (`SharedBelow`),
which is why an ancestor's answers are the session's (`HitsAre`). The invariant (`PersistentInv`): the stored tree is one (`TreeIsOne`: besides
what the property says, descendants are known blocks and the first block has no ancestor), all that a session knows of
ancestors is on its branch, and the one call that loads loads the next (`SessionInv`, `LoadInv`). `InitializedIs` and `BalancedIs` say that
the two writers keep `TreeIsOne`. Both take blocks out of lists by `splice(findIndex(...), 1)`, which removes the wrong one if nothing
is found; `SplicedIs` needs that the block is listed, and the invariant gives it. The hard step is the re-balancing, which reads a
block's old parent from the database even if it has changed it before: it is right because the parent of a moved block is never itself
moved nor the target (else its descendants would be known), so each parent loses one of the blocks moved and keeps the others, listed
once too often (section 6) but never too rarely. `OnlyIs`, by `StrongInduction`, is what a filtered sequence contains.

**ClockProofs.** `Spec => []TimesInOrder`. The invariant `InOrder` says, besides, that the adjustment and the clock
together are never behind the last block (`ClockIsAhead`), or, with an increment, that the adjustment is not negative
(`AdjustmentAdds`), and the same of each snapshot with the block it would revert to: without that, a block
mined after a revert could be older than its parent.

`[]AppliedOnce`, that with an increment what is asked for is in the times of the blocks exactly once, over any snapshots
and reverts. The invariant `Exact` says in each phase of `mine()` that the last block's time and the adjustment together are what is due
(or the time of the block being mined is), and the same of each snapshot's block with the snapshot's adjustment, as a revert brings
that adjustment back and forgets what was asked for since.

**ChainProofs.** `[]DatabaseIsSound` and `RevertIsExact`, for any number of blocks, snapshots, reverts and restarts,
under the hypothesis `NoOverlappingReverts`: of the overlaps of `Chain`, a call of `mine` during a revert and a snapshot
before its block's event may happen, as in the run; under the others the properties are false (section 6). The inductive
invariant has seven parts. `MinerInv`: the VM is at the last block mined, saved or not, and the miner is paused only while a revert
goes on. `StoreInv`, `SavingInv`: what is stored at a number has it, nothing is stored above the latest, and what is to be saved comes
above, in order. `SnapInv`: the snapshots' blocks are stored or being saved, in order. `ListInv`: the list of blocks to delete has stored
blocks only, the newest first, and all of those above the first snapshot, but for the one whose event is delayed and those that
a revert has taken. `RevertInv`: one revert at a time; what it is about to delete is everything above its snapshot's block, and nothing else that
is listed or has a snapshot. The last two are what the code relies on without saying so: it deletes a list collected by events and trusts that
this is the chain above the snapshot. Two facts come out on the way: no revert finds its blocks gone (`Read` does not fail), and the miner
is never left paused. The hard steps are `Cut`, which splits list and snapshots at an index, and `Delete`.

**FilecoinProofs.** `[]MessagesAreSound` and `QuietOnceStopped`, for any messages, accounts, calls, tipsets and restarts. `LockInv`: who takes
messages from the pool or mines holds the mining lock, and so does `stop()` from when it waits for the pool's; this is all
that `QuietOnceStopped` needs. `TipsetInv`: one batch while one caller mines, and "latest-tipset" is at most one tipset behind.
`NonceInv`: who signs holds the pool's lock and has a nonce above those of its account in the pool; the code takes the
greatest of those, wherever it is, as clients may have signed any; that there is a greatest (`Greatest`) is well-foundedness. `PlaceInv`: a message that has been pushed is in exactly one of the pool, the batch,
the chain and `gone`. The hard step is a restart (`RestartPlaces`), after which a tipset
above the latest is not of the chain, so its messages count as gone. That each place has a message once (`Places = 1`) then
follows by counting, from lemmas on the cardinality of the positions in a sequence and in a concatenation.

`[]AccountsAreSound`, for any amounts, accounts, clients, calls and restarts. Of a pushed message `PushInv` says what each stage
knows: what was filled in has the fees that were paid for, and what is pooled has passed `checkMessage`. Of accounts and keys
`ListIsOfKeys` and `MoneyIsKept` speak only of states in which nothing is left to write, so the invariant `WalletInv` follows each write on
its way. `KeyInv`: done in their order, and cut off wherever a restart cuts them, the writes lead the keys and the list in the database to the list in memory
(`Leads`). `CallInv`: each call is about to put what it owes and nothing else, and waits just while exactly one write is its own, which adds what
the call owes. `MoneyInv`: the money there is, and one amount for each transfer that has taken it from one account and not
given it to the other yet, are what was minted. That a write changes the sum by what it adds is an induction over the addresses (`SumsExist`,
`SumsDiffer`), and what is left of a list without an address (`Without`) one over its length, both by `StrongInduction`.
The part about money has the hypothesis `~Seeded`: with a seed, a restart that finds no keys makes the same accounts again, with
their first balances, and this is what the property's exceptions `stale` and `torn` do not cover.

**MinerProofs**, the miner. `MCSpec => []OneLoopAtATime`. Neither transactions nor heaps matter for it, so `LoopStep` abstracts from
them: it says what a step may do to the places of the loops (`pc`), `#isBusy` and the pausing, and every step of both
instances of `Miner` is shown to be one (`MStep`, `VStep`); this is where all the `await`s are. The invariant `LoopsInv` adds to the
property what keeps a second call out: a loop that may use the VM makes the miner busy, and until `pause()`'s caller lets go, the miner
is paused and no call is on its way past the `#resumer`. A loop that has returned from `#mineTxs` is not covered by
`#isBusy`; that it is alone nevertheless rests on its continuation being a microtask, as section 2 says.
That a busy miner has a loop holds at an interval (`IntervalInv`: every request that waits, or is mined for, ends after a block, and
then the flag is down); instamining it is checked, by TLC, as long as nobody pauses or stops the miner, and
refuted otherwise (`MinerBusy`, section 5).

**MinerProofs**, the base fee. `[]FeeMovesByAnEighth` (from `StaysAboveZero` and `EighthAtMost`) and `[]DefaultIsEnough`, for all limits and fees.
The lemmas at the front are about rounding: what an integer division loses, and that a product
divided twice is what one expects when the factor is at most the target. `BlockByBlock` is the invariant that the
default counts down with: with `k` blocks to go, the fee raised `k` times is still within it.

**TransactionsProofs.** `[]SignedAsAsked` (from `SenderIsSigner` and `FeesAreAsGiven`), `[]AcceptsItsOwn` and
`[]StoredIsItself`, of
any set of requests, chains and accounts. `FeesAreAsGiven` is of the fees that the type made has, and of when given fees of the
other kind are dropped (`TypeMade`). The invariant has three parts: what waits or was mined is signed by its
sender (`PoolIsSigned`), what is on the way is a well-formed signature for some chain (`WiresAreSigned`), and what is stored is
what was mined, field by field (`StoredIsMined`). That a `v` for one chain is never one for another is
arithmetic; that an array is read as the type it was written as rests on the lengths of the arrays.

**Model-checked only.** Liveness (`Answered`, `MinerGoesOn`, `CallsEnd`, `GetsEnd`, `DealsEnd`, `EstimateIsEnough`) is out of this
prover's reach. `Tracing`, `Options`, `Simulation` and `Serialization` compute over data by folds and recursion; what they compute for every
input needs, for each function, an induction like the heap's, which has not been made. No proof has been made yet of the safety of `Pricing`, `ChainReads`,
`TransactionPool`, the heaps, locks and blocks of `Miner`,
`FilecoinDeals` and `FilecoinStore`; nor of `Chain` where reverts and snapshots overlap.

## 5. Findings

Each is a run that TLC ends with a violation of what a comment, a test or the documentation says.

1. `MinerBusy`: when a block's last transaction leaves `priced` empty, and one of another origin has
   been queued meanwhile, the loop ends with `#isBusy` set. The next `mine()` sets `#pending`
   and nobody mines (`E/miner/miner.ts:418`).
2. `FilecoinStop`: `stop()` takes the mining lock, then the pool's, then waits for the timeout lock,
   which `intervalMine()` keeps while it waits for the mining lock: both wait for ever
   (`src/chains/filecoin/filecoin/src/blockchain.ts:248`).
3. `ReadsPending`: in a fork, a transaction that is saved while the remote node is asked for it is
   answered with null (`E/api.ts:1956`).

## 6. Other observations

Made while reading and modelling. Where a property is named, it is defined in the module and TLC
refutes it when the configuration of the module's run asks for it; no run claims it. The first nineteen disagree with what a
comment, a test or the documentation says; the runs of section 5 are those that take the most steps.

- `AppliedToOneBlock` (`Clock`): a `mine()` that mines several blocks adds the adjustment to each of them, as it is
  reset only when all have been saved (`E/blockchain.ts:599`; the comment at 597).
- `DefaultIsAlwaysEnough` (`BaseFee`): below 8 an eighth is nothing, so the default fee is not raised, but a full block
  raises the base fee by one (`src/chains/ethereum/block/src/block.ts:186`; the comment at 179).
- `StoredIsPaid` (`Pricing`): the transaction that follows another of its origin keeps the price of its entry
  into the pool, and is stored with it, not with what it paid (`E/miner/replace-from-heap.ts:13`).
- `OnlyOfThisChain` (`Transactions`): the chain of a type 2 transaction asked for as JSON is not compared
  (`src/chains/ethereum/transaction/src/eip1559-fee-market-transaction.ts:101`; for a raw one it is, 84-89).
- `SignedCanBeSent` (`Transactions`): `eth_signTransaction` fills in no fees, so what it returns for a request without
  them cannot be mined (`E/api.ts:2131`; the documentation at 2088).
- `ErrorsChangeNothing` (`Transactions`): `eth_sendTransaction` of a signed transaction that replaces another answers
  an error and leaves it in the pool (`E/transaction-pool.ts:344`).
- `LogsEndAtTheFork` (`ChainReads`): in a fork, `eth_getLogs` returns the remote's logs at numbers after the fork
  (`E/data-managers/blocklog-manager.ts:20`; the comment at `block-manager.ts:126`).
- `HashIsOfTheBlock` (`ChainReads`): a revert leaves the numbers of the hashes it removes, so an old hash finds the new
  block of its number (`E/blockchain.ts:878`).
- `MissingIsNull` (`ChainReads`): an index that a block does not have is a TypeError, where null is documented
  (`E/api.ts:1498`).
- `ReceiptHasTheBlocksLogs` (`ChainReads`): the logs of a receipt are numbered from 0, those of the block over the
  block (`src/chains/ethereum/transaction/src/transaction-receipt.ts:155`).
- `PageIsComplete` (`Tracing`): a page of storage has the keys of the parent block only, so what earlier transactions of the
  block have set is missing, and the transaction itself is not run (`E/blockchain.ts:1352-1373`; the comment at 1521 says "prior to
  and including the requested transaction").
- `EveryStepIsTrue` (`Tracing`): when a call's code just ends and the depth has fallen by two at the next step, or when
  a call is followed by another without a step between, the step is shown the storage of another contract (`E/blockchain.ts:1283`; the stack
  is meant to be one of depths).
- `StateIsCleared` (`Simulation`): `state: {}` clears nothing
  (`E/helpers/simulation-handler.ts:427-434`; the comment at 432 says "clears all storage and sets just the specified slots").
- `GivenPriceIsPaid` (`Simulation`): the price of a simulated call is 0 before London if one is given, by an inverted test, and a
  `gasPrice` is never used after it (`E/api.ts:136-139`).
- `SenderIsNotRicher` (`Simulation`): a sender that cannot pay has a negative balance, of which the magnitude is stored
  (`simulation-handler.ts:217`; the comment at 209 says that what relies on these values is to be correct).
- `OnlyAskedForks`, `NoNetworkIsDropped`, `BlockZeroIsABlock`, `ProtocolIsAllowed` (`Options`): `fork: true` and options of a fork
  without a source are taken for a provider; of two networks one is dropped; a URL that ends in "@0" forks the latest
  block; protocols are looked at only if there is an "@" (`src/chains/ethereum/options/src/fork-options.ts:256-382`).
- `QuietOverrides` (`Options`): a logger that is given logs though `quiet` is asked for, which only chooses the default logger
  (`src/chains/ethereum/options/src/logging-options.ts:101`; the comment at 66-69 says that it overrides `logging.logger`).
  `ConfigIsAsAsked` says nothing of the two together.
- `SignalExitsWith0` (`Cli`): a signal while the socket is open and the blockchain still starts lets `close()` run before the
  start ends; the start then fails, and the exit code is 1 (`src/packages/cli/src/cli.ts:78`; the comment at 74
  says "waiting" is for a server that is starting).
- `IdsMatch`, `CallbacksAreCalled`, `SubscribersAreHeard` (`Rpc`): the error of a call with id 0 has id null
  (`E/connector.ts:163`); a batch by `send()` with an error in it never calls back, as `mainError.errors` is not there
  (`E/provider.ts:449`); an `eth_subscribe` in a batch is answered but its news are not passed on
  (`src/packages/core/src/servers/ws-server.ts:145`).

- Tracing. The last step of a call is shown with a negative cost if the caller has kept more gas than it gave
  (`CostsAreNotNegative`; 1237). With `disableStack` and storage, `SLOAD` throws in the listener and the request never ends
  (`NeverStuck`; 1309). The block that is run again has the parent's miner and gas limit (1411-1423).
- Simulation. `ganache:vm:tx:before` is not followed by `after` when the gas is not enough (`EventsArePaired`). Entries the user gave
  stay in an access list though the call does not touch them (`ListIsTouched`).
- Miner. A better paid transaction that arrives while another runs is put on top of `priced`, and
  `removeBest` then removes it instead of the one that ran; the test that is to prevent this is inverted
  (566; `RunningIsBest` with `PricedTxs`). A transaction that does not fit keeps its origin in `origins` (378-390), so
  later ones of that origin are not queued until `#reset`. With `onlyOneBlock` or `Empty`, `#pending`
  does not lead to another block (203-212). `evm_mine` while the miner is busy mines nothing of its own. After a committed
  transaction that set `keepMining`, one that the VM refuses leaves it set: if `priced` is empty then, the
  loop goes on with the same `runtimeBlock` and emits a second, empty block with the number and parent of
  the first (227, 360, 438). It takes more than one transaction per block and `onlyOneBlock` false, as
  `miner_start` mines: TLC refutes `EachBlockOnTheLast` with the
  constants of `MinerBusy.cfg`. `mine` prepares its block on `blocks.latest`, which saving sets and nothing waits for
  (`E/blockchain.ts:544-553`, 587): when two blocks are not saved, an instamining `drain` makes a second block of the number of
  the later one (`OneChain` with the constants of `Miner.cfg`). The comment at 164 promises the transactions of the *first* block, the
  code returns those of the last iteration.
- Transaction pool. After a replacement in place, `highestNonce` is that of the transaction before the
  replaced one, so the replacement counts as the next executable one and is pushed again (251-281; `InPoolOnce`).
  Its second entry is run after the first and rejected, though a block has the first. `twice` has these transactions:
  `PendingIsARun` and `RunIsNotRejected` except them, and the mix with `rival` has one.
- Transaction manager. `pause()` emits `idle` where a reader expects it to wait for it (148-152); `clear()` says that nothing
  of before will be added, yet a `prepareTransaction` past its lookup adds (120-129).
- Blockchain. Eagerly instamining, `queueTransaction` waits for `finalized` of a transaction that a revert
  may have cleared (1024). Of the overlaps in `Chain`, TLC refutes: `event`: `StoredIsAChain` (a
  snapshot before its block's event puts its own block in the list of those to delete); `late`: with an event so delayed
  that a revert goes on before it, the block is listed after the revert has deleted it; three or four reverts later one
  deletes by this entry, or reads a number with nothing stored, throws, and leaves everything paused; `snapshot`
  and `lag`: `TypeOK`, `StoredIsAChain`, `SnapshotsAreStored`, `SettledAtLatest`; `revert`: all
  five invariants. `getByHash` failing in a revert leaves everything paused. Reverting metadata in fork mode with an
  empty list of blocks throws (859-864). `stop()` while paused overwrites the status (1663).
  `mine()` prepares its block before it waits for the paused miner; after the
  revert the block is mined on a block that has been removed (587; `StoredIsAChain`).
  Conflict markers of git stand in a comment (1078, 1154, 1168).
- Time. `evm_mine` with a null timestamp sets the clock to 1970; with a timestamp, while the miner is busy, it
  mines nothing and sets the clock all the same. An `evm_increaseTime` that comes during a `mine()` with an increment is
  lost (599).
- Prices. A block ends when exactly the gas of a transfer is left, so one that fits is left out
  (`E/miner/miner.ts`, the test `blockGasLeft <= TRANSACTION_GAS`). The order within a block is by the stale price of
  followers (`StoredIsPaid`).
- Transactions. Fees that the type of a transaction does not have are dropped without an error, and a default may take
  their place (`NoFeeIsDropped`; `src/chains/ethereum/transaction/src/transaction-factory.ts:56-149`): `maxFeePerGas` before
  London, a `gasPrice` with type 2, both given. `FeesAreAsGiven` lists when. A signature whose `s` is exactly half the order is refused where the comment says "greater
  than" (`src/chains/ethereum/transaction/src/transaction-factory.ts:26-30`). A request whose `from` is left out, not null, throws
  (`runtime-transaction.ts:200`).
- Reads. `eth_getLogs` by the hash of a block before the fork returns none, though `eth_getBlockByHash` finds the block.
  `eth_getBlockByNumber` of "latest" shows a block that has not been stored yet.
- Forking, requests. A failed promise stays in `requestCache` when a provider is given instead of a url,
  and answers later requests (`ErrorsAreNotCached`). When a socket is lost, `WsHandler.open` stays a rejected
  or old promise and later requests are not sent; a body that ends early settles nothing, and
  neither does an answer by web socket that is not JSON, for which `onMessage` throws, or that has an unknown id
  (`E/forking/handlers/ws-handler.ts:90-106`; its TODO at 97 knows of the first): the request keeps the semaphore, and nothing
  after it is sent. `Fork.abort()` is never called.
- Forking, rate limit. The limit documented per second over a period of 30 seconds is applied
  to each of its two windows, so twice the documented rate passes
  (`src/chains/ethereum/options/src/fork-options.ts:482`). The `allowed_rps` of a refusal overwrites the
  user's limit for good. The sleep is negative, so waiting is a busy wait (220).
- Forking, state. `evm_setAccountStorageAt` of zero between blocks leaves a marker of the next block's
  number, or of none, which the next revert does not remove (`RevertToRestores` with `Zeroing = TRUE`).
- Persistent cache. A block may be listed by two ancestors (`ListedOnce`). The lock of `Ancestry` is
  not released if a read fails. A known ancestor can be missed by a `get()` that comes while another loads.
- Server. `close()` during a start that fails waits for ever (`StuckInStart`). A `listen()` whose port is in
  use resets the status and so lets another one in before it has closed the server (`OpenedLate`).
  `listen()` after `close()` throws a TypeError, as `#app` is null.
- Wallet. `(duration * 1000) | 0` overflows for long durations (a sign change locks at once). An account
  added and removed by calls in flight may be known and not listed (`AllKnownAreListed`). Removing
  an account forgets its timer without clearing it, so it locks the account if it has been added again (`UnlockedForGood`).
- Notifications. In eager mode a filter "from latest" compares with a later latest and misses blocks
  (`EveryFilterIsExact`). A socket's close does not remove its listeners. `BlockLogManager.getLogs` with `fromBlock` after `toBlock`
  returns the logs of `fromBlock`.
- Gas estimation. The growth need not end if the VM refuses any gas above the block's limit;
  `BN.muln` drops the carry for large numbers.
- Filecoin. Two messages can have one nonce (`NoncesAreDistinct`; blockchain.ts:371-375), as nobody
  awaits `incrementNonce`, and as `MpoolPush` takes the nonce a client has signed: `checkMessage` looks neither at it nor at what is in the pool, so the nonces
  of an account in the pool need not increase (`PoolNoncesIncrease` claims it of those that `push()` chooses), and one signed message that is pushed twice is mined twice. Enabling the miner twice starts two timers, of which disabling clears one
  (`QuietWhenDisabled`). Two `addDealInfo()` at once lose a deal, and a `minBlocksDuration` shorter than the
  way to active lets the deal expire before, after which `startDeal()` mines for ever (`DealsEnd` with `Racing = TRUE`, or a smaller `Duration`).
  Transfers to oneself create money; concurrent transfers lose updates (`MoneyIsAlwaysKept`).
- Filecoin, wallet. With a given seed, `WalletNew` after a restart draws the keys of the first accounts again and
  overwrites their balances with 0 (`NewIsNew` with `Seeded = TRUE`). `WalletDefaultAddress` of an empty list throws (`HasDefault`). A call
  that has read an account before `WalletDelete` puts its key back. `getAccount` of an unknown address stores a record of
  balance 0, and an address in capitals has a record of its own.
- Filecoin, messages. Senders with secp256k1 keys are refused, as every signature is given the type of BLS (`SecpIsPooled`; the error's
  text says "please use a BLS or SECP256K1 address"). A message with Params is refused by `MpoolPush`, and one with them is stored encoded
  once more each time it is read and stored (`ParamsArePooled`, `ReadAsStoredExactly` of `Serialization`).
- Filecoin, tipsets. A key of any one block of a tipset finds it, where the documentation of `api.ts` says "must be an exact match" (`KeysMatch`).
  A crash in the first start between the genesis tipset and "latest-tipset" leaves a database that cannot be opened (`Reopens`).
- Promise queue. `clear()` does not resolve at once what it clears (index.ts:25-27), and `idle` is emitted
  when a cancelled array empties (96).
- Request coordinator. `end()` may run with tasks in flight although its comment says otherwise
  (105-108; `E/provider.ts:426-434`).
- Heap. `remove` leaves a stale first element behind an empty heap.

## 7. Not modelled, and the plan

Data is abstracted throughout: encodings, hashing, gas arithmetic beyond "fits or not" and the base fee, the
contents of receipts and logs. The models stand for about 30 % of the lines of the source; of the rest, most is generated
(the signatures of `console.log`), documentation in comments (the larger half of both `api.ts`), types, the descriptions of options and
conversions, which have no behaviour to check. Not modelled, and why:

- the EVM, which is a library: `Tracing`, `Simulation` and `Miner` choose what it does;
- Tezos (a stub), options that depend on no others, the CLI's arguments and detached processes, value
  types, RLP, secp256k1 (conversions without state), `console.log` signatures (generated);
- of the Ethereum API the reading of accounts, storage and code, the uncles, mining and network methods, which
  answer constants or one value, and the formatting of answers; of Filecoin the IPFS server and its pins, the retrieval of
  data, and the cryptography of signatures.

Next, in this order:

1. An atomic "chain with snapshots" that `Chain` implements in peace; a composition of `TransactionPool`
   and `Miner` in place of their simplified views of each other.
2. Proofs: `LockedIffPriced` of `Miner` while all prices are the same; `PoolIsExact` of `TransactionPool`.
3. `ForkEndsAtItsBlock` of `ChainReads` for any chain; several requests at once with a saving that lags.
4. The creation of genesis accounts.

## 8. Running it

```
tlc -workers 2 -config Chain.cfg Chain.tla
tlapm ForkProofs.tla
```

Each `.cfg` belongs to the module of the same run in `PROJECT.json`. The longest runs (`Filecoin`,
`Fork`, `PersistentCache`, `Chain`, `ChainReads`, `Transactions`) take one to three minutes, the proofs some minutes
each, those of `FilecoinProofs` about a quarter of an hour.
