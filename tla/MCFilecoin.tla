----------------------------- MODULE MCFilecoin -----------------------------
(***************************************************************************)
(* The parts of the Filecoin flavor, checked side by side: messages and      *)
(* tipsets; deals; a message on its way to the pool; the wallet; and the     *)
(* database of tipsets, with those who read it and, as a part of its own,    *)
(* with those who have subscribed: neither changes anything the other sees.  *)
(* A behaviour is one of them (part says which), with the others at rest.    *)
(***************************************************************************)
EXTENDS FilecoinChain

CONSTANTS
  Autos,                                           \* FilecoinChain
  Deals, Others, Active, Duration, Racing,         \* FilecoinDeals
  MessageGas, SendBase, TransferGas, DefaultPremium, MinimumBaseFee,
  BlockGasLimit, TotalFilecoin, Amounts, Funds,    \* FilecoinMessages
  Clients, MaxCalls, MaxDrawn, TotalAccounts, DefaultBalance, Amount,
  Seeded,                                          \* FilecoinWallet
  Readers, Subscribers, MaxMined, MaxCrashes, MaxMessages,
  NumNewBlocks                                     \* FilecoinStore

\* Gas and prices are numbers; what Ganache fills in for a transfer is enough and fits into a
\* block (DefaultPremium is 100000, MinimumBaseFee 100, BlockGasLimit ten thousand million).
ASSUME PushAssumption ==
  /\ {MessageGas, SendBase, TransferGas, DefaultPremium, MinimumBaseFee, BlockGasLimit,
      TotalFilecoin} \cup Amounts \cup Funds \subseteq Nat
  /\ MinimumBaseFee <= DefaultPremium
  /\ MessageGas + SendBase + TransferGas <= BlockGasLimit

\* There are as many keys as accounts at least; None is no client, no balance, no account,
\* no key and no list.
ASSUME WalletAssumption ==
  /\ IsFiniteSet(Clients)
  /\ {TotalAccounts, MaxDrawn, DefaultBalance, Amount} \subseteq Nat
  /\ TotalAccounts <= MaxDrawn
  /\ None \notin Clients \cup Nat \cup Seq(Nat) \cup [address : Nat, has : BOOLEAN]
                \cup [address : Nat, balance : Nat, read : Nat \cup {None}, key : BOOLEAN]

VARIABLES
  part,
  states, cids, expirations, readCids, dealLock, updates, dealPc,
  way, asked, maxFee, funds, pending, message, signature, pushStage,
  records, keys, storedList, list, writes, calls, drawn, count, minted, stale, torn,
  storeTipsets, headers, blockMessages, signedMessages, storeKey, storeLatest, storing,
  ready, reads, subscriptions, chain, mined, crashes

\* All the messages are alice's; each has the call of mineTipset() its push makes.
MCFrom == [m \in Messages |-> "alice"]
MCMineOf ==
  CHOOSE f \in [Messages -> Autos] : \A m, n \in Messages : f[m] = f[n] => m = n

Dealing == INSTANCE FilecoinDeals WITH miningLock <- dealLock, pc <- dealPc
Sending == INSTANCE FilecoinMessages WITH stage <- pushStage
Wallet == INSTANCE FilecoinWallet WITH stored <- storedList
Store == INSTANCE FilecoinStore WITH
       Clients <- Readers, tipsets <- storeTipsets, latestKey <- storeKey,
       latest <- storeLatest, mining <- storing, count <- mined

dealVars == <<states, cids, expirations, readCids, dealLock, updates, dealPc>>
pushVars == <<way, asked, maxFee, funds, pending, message, signature, pushStage>>
walletVars == <<records, keys, storedList, list, writes, calls, drawn, count, minted, stale,
                torn>>
storeVars == <<storeTipsets, headers, blockMessages, signedMessages, storeKey, storeLatest,
               storing, ready, reads, subscriptions, chain, mined, crashes>>

allVars == <<part, vars, dealVars, pushVars, walletVars, storeVars>>

MCInit ==
  /\ part \in {"chain", "deals", "push", "wallet", "store", "notify"}
  /\ part # "chain" => blockTime = 0 /\ enabled = TRUE
  /\ part # "push" =>
       /\ way = "push" /\ asked = Sending!Plain /\ maxFee = 0 /\ pending = 0
       /\ funds = CHOOSE f \in Funds : TRUE
  /\ Init /\ Dealing!Init /\ Sending!Init /\ Wallet!Init /\ Store!Init

MCNext ==
  \/ part = "chain" /\ Next
       /\ UNCHANGED <<part, dealVars, pushVars, walletVars, storeVars>>
  \/ part = "deals" /\ Dealing!Next
       /\ UNCHANGED <<part, vars, pushVars, walletVars, storeVars>>
  \/ part = "push" /\ Sending!Next
       /\ UNCHANGED <<part, vars, dealVars, walletVars, storeVars>>
  \/ part = "wallet" /\ Wallet!Next
       /\ UNCHANGED <<part, vars, dealVars, pushVars, storeVars>>
  \/ part = "store" /\ Store!Next /\ UNCHANGED subscriptions
       /\ UNCHANGED <<part, vars, dealVars, pushVars, walletVars>>
  \/ part = "notify" /\ Store!Next /\ UNCHANGED reads
       /\ UNCHANGED <<part, vars, dealVars, pushVars, walletVars>>

\* Of messages and tipsets the large run claims only safety; StopSpec is for the small one.
MCSpec ==
  /\ MCInit
  /\ [][MCNext]_allVars
  /\ Dealing!Fairness

StopSpec == MCInit /\ part = "chain" /\ [][MCNext]_allVars /\ Fairness

\* What is stored and read is what it was, and the tipsets that count are found by height,
\* by key and by whoever has subscribed.
StoreIsSound == Store!StoreIsSound

\* Messages in the pool are paid for and signed; no money is made or lost, and the wallet's
\* list is of its keys.
AccountsAreSound == Sending!PushIsSound /\ Wallet!AccountsAreSound

\* Every call of startDeal() ends.
DealsEnd == Dealing!DealsEnd
=============================================================================
