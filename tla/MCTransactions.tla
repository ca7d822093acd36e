--------------------------- MODULE MCTransactions ---------------------------
(***************************************************************************)
(* Two parts checked side by side: the making of transactions, and the     *)
(* transaction pool.  A behaviour is of one of the two (part says of       *)
(* which), with the other at rest.                                         *)
(***************************************************************************)
EXTENDS Transactions

CONSTANTS
  Alice, Bob, MaxCalls,                                       \* Transactions
  Txs, Scenarios, NoTx, priceBump, StartNonces, Racing,       \* TransactionPool
  MaxAtOnce, MaxReverts

VARIABLES
  part,
  pending, future, lookup, looked, waiters, ready, nonce, added, outcome, answer,
  paused, resuming, locked, rejected, poolMined, vmNonce, savedNonce, startNonce,
  sending, racing, reverts, batch, twice

P == INSTANCE TransactionPool WITH mined <- poolMined

\* Requests of every type, with and without fees, of one kind and of both, a list and a chain.
Request(type, gasPrice, maxFee, tip, list, chainId) ==
  [from |-> Alice, type |-> type, gasPrice |-> gasPrice, maxFee |-> maxFee, tip |-> tip,
   list |-> list, chainId |-> chainId]

MCRequests ==
  {Request(Null, Null, Null, Null, FALSE, Null),
   Request(Null, Null, 9, 2, FALSE, Null),
   Request(EIP2930AccessList, 9, Null, Null, TRUE, Null),
   Request(EIP2930AccessList, 9, 2, Null, FALSE, 4),
   Request(EIP1559AccessList, Null, 9, Null, TRUE, Null),
   Request(EIP1559AccessList, 2, 9, 2, FALSE, 4)}

Tx(id, from, k, tip, maxFee, funds) ==
  [id |-> id, from |-> from, nonce |-> k, tip |-> tip, maxFee |-> maxFee,
   funds |-> funds]

\* The nonce of a transaction that leaves it to the pool, TransactionPool's NoNonce.
NoNonce == -1

\* Transactions that leave the nonce to the pool, of nonces that wait until their turn comes,
\* and two each that compete for the first nonce, for a later one, which pushes the winner
\* twice, and for one that is never reached.
MixedTx ==
  [first   |-> Tx(1, 1, NoNonce, 10, 10, TRUE),
   second  |-> Tx(2, 1, NoNonce, 10, 10, TRUE),
   better  |-> Tx(3, 1, 0, 11, 11, TRUE),
   gap     |-> Tx(4, 1, 2, 10, 20, TRUE),
   next    |-> Tx(5, 1, 1, 10, 20, TRUE),
   rival   |-> Tx(11, 1, 1, 11, 22, TRUE),
   far     |-> Tx(6, 1, 5, 10, 20, TRUE),
   farther |-> Tx(7, 1, 5, 12, 22, TRUE),
   poor    |-> Tx(8, 1, NoNonce, 10, 20, FALSE),
   other   |-> Tx(9, 2, NoNonce, 10, 20, TRUE),
   waits   |-> Tx(10, 2, 1, 10, 20, TRUE)]

MixedTxs == {MixedTx[x] : x \in DOMAIN MixedTx}

MixedScenarios ==
  {{MixedTx.first, MixedTx.second, MixedTx.better, MixedTx.gap},
   {MixedTx.first, MixedTx.gap, MixedTx.next, MixedTx.far},
   {MixedTx.far, MixedTx.farther, MixedTx.poor},
   {MixedTx.better, MixedTx.next, MixedTx.rival},
   {MixedTx.first, MixedTx.other, MixedTx.waits}}

poolVars == <<pending, future, lookup, looked, waiters, ready, nonce, added, outcome,
              answer, paused, resuming, locked, rejected, poolMined, vmNonce, savedNonce,
              startNonce, sending, racing, reverts, batch, twice>>

MCInit ==
  /\ part \in {"making", "pool"}
  /\ Init
  /\ part # "making" => hardfork = London
  /\ P!Init
  /\ part # "pool" => /\ racing = CHOOSE r \in Racing : TRUE
                      /\ sending = CHOOSE S \in Scenarios : TRUE

\* One transaction at a time is being carried from a signer to the network.
MCNext ==
  \/ /\ part = "making"
     /\ Next
     /\ Cardinality(wires') + Cardinality(answered') <= MaxCalls
     /\ UNCHANGED <<part, poolVars>>
  \/ part = "pool" /\ P!Next /\ UNCHANGED <<part, vars>>

MCSpec == MCInit /\ [][MCNext]_<<part, vars, poolVars>>

\* The two queues of an account together are exact, automatic nonces are in order, and what
\* a sender is told stays true: neither lost nor rejected once it runs, but for replacements
\* that are pushed twice (transaction-pool.ts:175-425).
PoolIsExact == P!QueuesAreExact /\ P!NoncesInOrder /\ P!AnswersAreKept
=============================================================================
