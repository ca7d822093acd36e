------------------------------ MODULE MCMiner -------------------------------
(***************************************************************************)
(* Four parts that share no state, checked side by side: an instamining    *)
(* miner, which "drain" events call; one that mines at an interval and on  *)
(* request; the prices by which a miner orders transactions; and the base  *)
(* fee.  A behaviour is of one of the four (part says of which), with the  *)
(* others at rest.                                                         *)
(***************************************************************************)
EXTENDS BaseFee, Sequences, FiniteSets

CONSTANTS
  MaxFee,                                                               \* BaseFee
  Txs, NoTx, Loops, blockGasLimit, TRANSACTION_GAS, Instamine, Modes,   \* Miner
  MaxCalls, MaxUnsaved,
  IntervalTxs, IntervalLimit, IntervalModes, IntervalCalls,             \* of the interval miner
  MaxBlocks                                                             \* Pricing

VARIABLES
  part,
  pending, pendingOrder, inProgress, locked, finalized, sent, priced, origins, again, isBusy,
  currentPrice, loops, paused, waiting, released, pauser, vmNonce, emitted, saved, stopped,
  drains, calls,
  queues, entrants, prices, heads, fee, txs, mode, keep, latest, nonces, stored, mined, entered,
  followers

M == INSTANCE Miner

Tx(from, nonce, price, intrinsic, gas, fails) ==
  [from |-> from, nonce |-> nonce, price |-> price, intrinsic |-> intrinsic,
   gas |-> gas, fails |-> fails]

\* All at the default price, and one that the VM refuses.
DefaultTxs ==
  {Tx(1, 0, 1, 1, 2, FALSE), Tx(1, 1, 1, 1, 2, FALSE),
   Tx(2, 0, 1, 1, 2, FALSE), Tx(2, 1, 1, 1, 1, TRUE)}

(***************************************************************************)
(* Of different prices: a replacement, one that cannot fit in a block with *)
(* another, and one that looks as if it would.                             *)
(***************************************************************************)
PricedTxs ==
  {Tx(1, 0, 1, 1, 4, FALSE), Tx(1, 0, 2, 1, 4, FALSE),
   Tx(1, 1, 3, 3, 3, FALSE), Tx(2, 0, 2, 1, 2, FALSE),
   Tx(2, 1, 1, 1, 1, TRUE)}

NoModes == {}
IntervalMCModes == {<<M!FillBlock, TRUE>>, <<M!Empty, FALSE>>}

(***************************************************************************)
(* The interval miner: transactions, bounds and modes of its own, the same *)
(* variables.                                                              *)
(***************************************************************************)
V == INSTANCE Miner WITH
       Txs <- IntervalTxs, Instamine <- FALSE, blockGasLimit <- IntervalLimit,
       Modes <- IntervalModes, MaxCalls <- IntervalCalls

(***************************************************************************)
(* evm_mine asks for one block (api.ts:430), the evm_setAccount* calls for *)
(* one without transactions (api.ts:490), and nobody asks for anything     *)
(* else: then the miner stops after the block.                             *)
(***************************************************************************)
StopsAfter(max, only) == only \/ max = M!Empty

ASSUME IntervalAssumption ==
  /\ IntervalModes \subseteq Int \X BOOLEAN
  /\ \A m \in IntervalModes : StopsAfter(m[1], m[2])

(***************************************************************************)
(* Three origins, one with several transactions.  At a base fee of 16 the  *)
(* transaction with gas price 19 is before the dynamic ones, at 18 after.  *)
(***************************************************************************)
FeeTx(from, nonce, dynamic, maxFee, tip) ==
  [from |-> from, nonce |-> nonce, dynamic |-> dynamic, maxFee |-> maxFee, tip |-> tip]

FeeTxs ==
  {FeeTx(1, 0, FALSE, 25, 25), FeeTx(1, 1, TRUE, 30, 2), FeeTx(1, 2, TRUE, 17, 1),
   FeeTx(2, 0, TRUE, 30, 2), FeeTx(2, 1, FALSE, 22, 22),
   FeeTx(3, 0, FALSE, 19, 19)}

P == INSTANCE Pricing WITH
       Txs <- FeeTxs, gasLimit <- 3, firstFee <- 20, pending <- queues, sent <- entrants,
       price <- prices, priced <- heads, vmNonce <- nonces, blocks <- mined

\* Base fees to start with: around the one at which an eighth is nothing.
MCFirstFees == {7, 11, 30}

minerVars == <<pending, pendingOrder, inProgress, locked, finalized, sent, priced, origins,
               again, isBusy, currentPrice, loops, paused, waiting, released, pauser, vmNonce,
               emitted, saved, stopped, drains, calls>>
priceVars == <<queues, entrants, prices, heads, fee, txs, mode, keep, latest, nonces, stored,
               mined, entered, followers>>

MCInit ==
  /\ part \in {"instamine", "interval", "prices", "fees"}
  /\ IF part = "interval" THEN V!Init ELSE M!Init
  /\ P!Init
  /\ Init
  /\ part # "fees" => gasLimit = 2 /\ baseFee = 7

MCNext ==
  \/ part = "instamine" /\ M!Next /\ UNCHANGED <<part, vars, priceVars>>
  \/ part = "interval" /\ V!Next /\ UNCHANGED <<part, vars, priceVars>>
  \/ part = "prices" /\ P!Next /\ UNCHANGED <<part, vars, minerVars>>
  \/ part = "fees" /\ Next /\ baseFee' <= MaxFee /\ UNCHANGED <<part, minerVars, priceVars>>

\* Miner's Fairness, of the instamining one: only of it is liveness claimed.
Instamining(A) == part = "instamine" /\ A

MCFairness ==
  /\ WF_minerVars(Instamining(\E l \in Loops : M!Loop(l)))
  /\ WF_minerVars(Instamining(M!BlockSaved))
  /\ WF_minerVars(Instamining(M!Released))
  /\ WF_minerVars(Instamining(M!Drain))
  /\ WF_minerVars(Instamining(M!Resume))
  /\ WF_minerVars(Instamining(M!MinerStart))

MCSpec == MCInit /\ [][MCNext]_<<part, vars, minerVars, priceVars>> /\ MCFairness

Either(instamine, interval) ==
  /\ part = "instamine" => instamine
  /\ part = "interval" => interval

\* One call of mine() mines at a time, and once pause() has returned nothing mines until
\* resume(); at an interval, one mines as long as the miner is busy.
OneLoopAtATime ==
  Either(M!OneLoop /\ M!PausedIsQuiet, V!OneLoop /\ V!PausedIsQuiet /\ V!BusyIffActive)

\* The heap of prices, the pool and the locks stay in step with the blocks, which form a chain
\* as far as saving keeps up: no transaction is lost, or rejected after all; instamining at equal
\* prices, what runs is the best of the heap until it is removed, and one call of mine() mines as
\* long as the miner is busy.
BlocksAreSound ==
  Either(M!HeapsInStep /\ M!RunningIsBest /\ M!BlocksAreSound /\ M!BusyIffActive,
         V!HeapsInStep /\ V!BlocksAreSound)

\* Instamining, a call of mine() that comes while the miner is busy is served.
AgainIsServed == part = "instamine" => M!AgainIsServed

\* Instamining, every executable transaction is mined or rejected; of those priced for a block
\* the best paid runs first, and the price that is stored is of that block, or of the one
\* before the transaction entered the pool.
MinedBestFirst == (part = "instamine" => M!EveryTxMined) /\ P!PricesAreOfABlock
=============================================================================
