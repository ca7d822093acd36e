------------------------------ MODULE Pricing ------------------------------
(***************************************************************************)
(* The effective gas price of transactions: the miner orders them by it,    *)
(* and it is stored with them.  A transaction of type 2 has one per base    *)
(* fee; it is computed when the transaction enters the pool, with the fee   *)
(* of the latest block, and again when it is its origin's turn.             *)
(*                                                                         *)
(* Transactions enter while the miner is stopped, each uses one unit of     *)
(* gas, and mine() is called once at a time: Miner has what happens in      *)
(* between, with fixed prices, and Heap the ties.                          *)
(***************************************************************************)
EXTENDS Integers, Sequences, FiniteSets

CONSTANTS
  Txs,         \* the transactions: from, nonce, dynamic (of type 2), maxFee, tip
  gasLimit,    \* of a block
  firstFee,    \* the base fee of the block that the chain starts with
  MaxBlocks    \* bound: blocks mined

FillBlock == -1
Single == 1

\* evm_mine, miner_start, and instamining when "drain" comes: maxTransactions, onlyOneBlock.
Capacities == {<<FillBlock, TRUE>>, <<FillBlock, FALSE>>, <<Single, FALSE>>}

TransferGas == 1

Origins == {t.from : t \in Txs}

VARIABLES
  pending,   \* executables.pending: per origin, by nonce
  sent,      \* the transactions that have entered the pool
  price,     \* effectiveGasPrice of those
  priced,    \* #priced, as a set; its best has the highest price
  fee,       \* #currentBlockBaseFeePerGas, that of the runtime block
  txs,       \* the transactions of the runtime block so far
  mode,      \* of the call of mine() that mines, or <<>>
  keep,      \* keepMining
  latest,    \* blocks.latest: its base fee, the gas it used, the account nonces after it
  vmNonce,   \* the account nonces in the VM's state
  stored,    \* the transactions in the database: with their price, and their block's base fee
  blocks,    \* how many have been mined
  entered,   \* history: the base fee of the latest block when a transaction entered
  followers  \* history: the priced transactions that have replaced one of their origin

poolVars == <<sent, entered>>
vars == <<pending, price, priced, fee, txs, mode, keep, latest, vmNonce, stored,
          blocks, followers, poolVars>>

Fee(parentFee, parentUsed) ==
  INSTANCE BaseFee WITH
    GasLimits <- {gasLimit}, FirstFees <- {firstFee}, gasLimit <- gasLimit,
    baseFee <- parentFee, gasUsed <- parentUsed,
    maxFeePerGas <- 0, nextFee <- 0, blocks <- 0

\* The base fee of a block that follows one.
FeeAfter(block) == Fee(block.fee, block.used)!NextBaseFee

\* updateEffectiveGasPrice
Effective(t, baseFee) ==
  IF ~t.dynamic THEN t.maxFee
  ELSE IF t.maxFee - baseFee < t.tip THEN t.maxFee
  ELSE baseFee + t.tip

Repriced(S, baseFee) ==
  [t \in DOMAIN price |-> IF t \in S THEN Effective(t, baseFee) ELSE price[t]]

Heads == {Head(pending[o]) : o \in {p \in Origins : pending[p] # <<>>}}

Best == {t \in priced : \A u \in priced : price[t] >= price[u]}

Init ==
  /\ pending = [o \in Origins |-> <<>>]
  /\ sent = {}
  /\ price = [t \in Txs |-> 0]
  /\ priced = {}
  /\ fee = 0  /\ txs = <<>>  /\ mode = <<>>  /\ keep = FALSE
  /\ vmNonce = [o \in Origins |-> 0]
  /\ latest = [fee |-> firstFee, used |-> 0, nonces |-> vmNonce]
  /\ stored = {}
  /\ blocks = 0
  /\ entered = [t \in Txs |-> 0]
  /\ followers = {}

\* prepareTransaction, of one that is executable.
Enter(t) ==
  LET queue == pending[t.from]
  IN  /\ mode = <<>>
      /\ t \notin sent
      /\ t.nonce = IF queue = <<>> THEN latest.nonces[t.from] ELSE queue[Len(queue)].nonce + 1
      /\ sent' = sent \cup {t}
      /\ pending' = [pending EXCEPT ![t.from] = Append(queue, t)]
      /\ price' = [price EXCEPT ![t] = Effective(t, latest.fee)]
      /\ entered' = [entered EXCEPT ![t] = latest.fee]
      /\ UNCHANGED <<priced, fee, txs, mode, keep, latest, vmNonce, stored, blocks, followers>>

\* mine() on a block of this base fee; #setPricedHeap.
Mine(m) ==
  /\ mode = <<>>
  /\ blocks < MaxBlocks
  /\ mode' = m
  /\ fee' = FeeAfter(latest)
  /\ priced' = Heads
  /\ price' = Repriced(Heads, fee')
  /\ txs' = <<>>
  /\ keep' = FALSE
  /\ followers' = {}
  /\ UNCHANGED <<pending, latest, vmNonce, stored, blocks, poolVars>>

\* The next of its origin replaces a transaction that has run, with the price it has.
Replace(t) ==
  LET rest == Tail(pending[t.from])
      next == IF rest = <<>> THEN {} ELSE {Head(rest)}
  IN  /\ pending' = [pending EXCEPT ![t.from] = rest]
      /\ priced' = (priced \ {t}) \cup next
      /\ followers' = (followers \ {t}) \cup next

\* Not even the smallest of transactions fits, or there are enough of them.
Full(block) == gasLimit - Len(block) <= TransferGas \/ Len(block) = mode[1]

Mining == mode # <<>> /\ ~Full(txs)

Runs(t) == t.nonce = vmNonce[t.from] /\ t.maxFee >= fee

RunCommits(t) ==
  /\ Mining /\ t \in Best /\ Runs(t)
  /\ Replace(t)
  /\ txs' = Append(txs, t)
  /\ vmNonce' = [vmNonce EXCEPT ![t.from] = @ + 1]
  /\ keep' = (priced' # {})
  /\ UNCHANGED <<price, fee, mode, latest, stored, blocks, poolVars>>

\* The VM throws: the nonce is wrong, or the maximal fee is below the base fee.
RunRejected(t) ==
  /\ Mining /\ t \in Best /\ ~Runs(t)
  /\ Replace(t)
  /\ UNCHANGED <<price, fee, txs, mode, keep, latest, vmNonce, stored, blocks, poolVars>>

\* Mutant: only the order is refreshed, not the prices.
NotRefreshed(baseFee) == price

\* refresh() of the heap of prices.
Refreshed(baseFee) == Repriced(priced, baseFee)

Block == [fee |-> fee, used |-> Len(txs), nonces |-> vmNonce]

\* serializeForDb, of the block's transactions.
Stored == stored \cup {[tx |-> txs[i], price |-> price[txs[i]], fee |-> fee] : i \in DOMAIN txs}

(***************************************************************************)
(* The block is emitted and saved.  Unless there is to be but one, and when *)
(* some are left, another follows; keepMining alone, after rejections, goes *)
(* on with the same one.  All that wait are priced: none is left to add.    *)
(***************************************************************************)
Finish ==
  /\ mode # <<>>
  /\ priced = {} \/ Full(txs)
  /\ stored' = Stored
  /\ latest' = Block
  /\ blocks' = blocks + 1
  /\ txs' = <<>>
  /\ keep' = FALSE
  /\ LET more == ~mode[2] /\ keep
     IN  /\ mode' = IF more THEN mode ELSE <<>>
         /\ IF ~mode[2] /\ priced # {}
            THEN /\ fee' = FeeAfter(Block)
                 /\ price' = Refreshed(fee')
                 /\ followers' = {}
                 /\ UNCHANGED priced
            ELSE /\ priced' = {}
                 /\ UNCHANGED <<fee, price, followers>>
  /\ UNCHANGED <<pending, vmNonce, poolVars>>

Next ==
  \/ \E t \in Txs : Enter(t) \/ RunCommits(t) \/ RunRejected(t)
  \/ \E m \in Capacities : Mine(m)
  \/ Finish

Spec == Init /\ [][Next]_vars

(***************************************************************************)
(* Properties                                                              *)
(***************************************************************************)

\* Of the transactions that were priced for this block, the one that pays most at its base
\* fee runs first, though the order changes from one block to the next
\* (tests/miner/miner.test.ts:55-72).  A follower has the price of an older block.
BestPaidFirst ==
  \A t, u \in priced \ followers :
    txs' = Append(txs, t) => Effective(t, fee) >= Effective(u, fee)

\* A stored price was computed with the base fee of the transaction's block, or with that of
\* the latest block when it entered the pool; never with that of a block in between.
StoredIsOfABlock ==
  \A s \in stored : s.price \in {Effective(s.tx, s.fee), Effective(s.tx, entered[s.tx])}

\* Both, of every step: who runs is chosen, and what is stored is computed, by the prices of
\* the right block.
PricesAreOfABlock == [][BestPaidFirst /\ StoredIsOfABlock']_vars

\* "this value is updated in the miner as we're more sure of what block the tx will actually
\* go on" (transaction-pool.ts:184-186): eth_getTransactionByHash reports, as gasPrice, what
\* the transaction has paid.
StoredIsPaid == \A s \in stored : s.price = Effective(s.tx, s.fee)
=============================================================================
