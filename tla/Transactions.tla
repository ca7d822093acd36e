---------------------------- MODULE Transactions ----------------------------
(***************************************************************************)
(* The making of transactions: which of the three types one becomes, what   *)
(* its defaults are, what its signature covers, how its sender is recovered,*)
(* and what is stored (transaction-factory.ts, the three classes of         *)
(* transactions, signing.ts, and the calls of api.ts that make them).       *)
(*                                                                         *)
(* gas, to, value and data are covered by every signature and are left out; *)
(* r and s are one value, of whoever signed what.  Transactions wait only    *)
(* if their nonce is the next one: TransactionPool has those of the future.  *)
(***************************************************************************)
EXTENDS Integers, Sequences, FiniteSets

CONSTANTS
  ChainId,          \* of this chain
  Chains,           \* the chains that wallets sign for
  Accounts,         \* the accounts, unlocked, whose keys sign
  Requests,         \* the transactions that callers ask for
  Fees,             \* the fees that they, and other wallets, give
  Gwei,             \* the default tip
  defaultGasPrice,  \* of the options
  defaultMaxFee,    \* calcNBlocksMaxBaseFee, of BaseFee
  baseFee,          \* of the next block
  MaxNonce,         \* bound
  MaxWires,         \* bound: transactions signed to be sent
  Null              \* what is not given

\* Hardforks, in their order.
Homestead == 1
SpuriousDragon == 2
Berlin == 3
London == 4

Legacy == 0
EIP2930AccessList == 1
EIP1559AccessList == 2
Types == {Legacy, EIP2930AccessList, EIP1559AccessList}

ASSUME TransactionsAssumption ==
  /\ ChainId \in Chains  /\ Chains \subseteq Nat
  /\ Fees \subseteq Nat
  /\ {Gwei, defaultGasPrice, defaultMaxFee, baseFee, MaxNonce, MaxWires} \subseteq Nat
  /\ Null \notin Chains \cup Nat \cup Accounts
  /\ \A r \in Requests :
       /\ r.from \in Accounts
       /\ r.type \in Types \cup {Null}
       /\ r.chainId \in Chains \cup {Null}
       /\ {r.gasPrice, r.maxFee, r.tip} \subseteq Fees \cup {Null}
       /\ r.list \in BOOLEAN

VARIABLES
  hardfork,
  wires,    \* what has been signed to be sent: type, payload and, for history, the request
  pool,     \* the transactions that wait
  db,       \* those that have been mined: [raw, from]
  mined,    \* history: the same, as they were when they ran
  answered  \* history: those that a call has answered with their hash, with its request

vars == <<hardfork, wires, pool, db, mined, answered>>

Init ==
  /\ hardfork \in Homestead..London
  /\ wires = {}  /\ pool = {}  /\ db = {}  /\ mined = {}  /\ answered = {}

(***************************************************************************)
(* A transaction: what its classes have, with Null for what a type does not *)
(***************************************************************************)

Body(type, chainId, nonce, gasPrice, maxFee, tip, list) ==
  [type |-> type, chainId |-> chainId, nonce |-> nonce, gasPrice |-> gasPrice,
   maxFee |-> maxFee, tip |-> tip, list |-> list]

Signed(body, v, sig, from) == [body |-> body, v |-> v, sig |-> sig, from |-> from]

\* What is hashed: a legacy transaction's fields, and the chain's id if it is bound to it.
Message(body, chain) == IF body.type = Legacy THEN [body EXCEPT !.chainId = chain] ELSE body

eip155V(chain) == chain * 2 + 35

\* v: the parity of the signature, recid, alone or with the chain.
VOf(body, chain, recid) ==
  IF body.type # Legacy THEN recid
  ELSE IF chain = Null THEN 27 + recid
  ELSE eip155V(chain) + recid

\* signAndHash
Sign(body, key, chain, recid) ==
  Signed(body, VOf(body, chain, recid),
         [key |-> key, message |-> Message(body, chain), recid |-> recid], key)

SigningChain == IF hardfork >= SpuriousDragon THEN ChainId ELSE Null

\* Mutant: one of them only.
IsEvenEip155(tx) == tx.body.type = Legacy /\ tx.v = eip155V(ChainId)

\* The two values of v that belong to this chain.
IsEip155(tx) == tx.body.type = Legacy /\ tx.v \in {eip155V(ChainId), eip155V(ChainId) + 1}

RecIdOf(tx) ==
  IF tx.body.type # Legacy THEN tx.v
  ELSE IF IsEip155(tx) THEN tx.v - eip155V(ChainId)
  ELSE tx.v - 27

HashedOf(tx) == Message(tx.body, IF IsEip155(tx) THEN ChainId ELSE Null)

\* secp256k1: it is the signer's, if that is what was signed; else it is anybody's.
Recovered(tx) ==
  IF HashedOf(tx) = tx.sig.message /\ RecIdOf(tx) = tx.sig.recid THEN tx.sig.key ELSE Null

\* computeIntrinsics throws for a v that has no parity.
HasSender(tx) == RecIdOf(tx) \in {0, 1}

(***************************************************************************)
(* JSON                                                                    *)
(***************************************************************************)

typeOfRPC(r) == IF r.type = Null THEN Legacy ELSE r.type

toEIP1559(r) == hardfork >= London /\ typeOfRPC(r) # EIP1559AccessList /\ r.gasPrice = Null

\* Before Berlin everything is a legacy transaction; from London on one without a gas price
\* is of type 2, and one of type 1 without a list is legacy.
TypeFor(r) ==
  IF hardfork < Berlin THEN Legacy
  ELSE IF hardfork < London THEN typeOfRPC(r)
  ELSE IF toEIP1559(r) THEN EIP1559AccessList
  ELSE IF typeOfRPC(r) = EIP2930AccessList /\ ~r.list THEN Legacy
  ELSE typeOfRPC(r)

\* The chain's id is compared for type 1 only.
Refuses(r) ==
  \/ TypeFor(r) = EIP1559AccessList /\ hardfork < London
  \/ TypeFor(r) = EIP2930AccessList /\ r.chainId \notin {Null, ChainId}

ChainOf(r) == IF r.chainId = Null THEN ChainId ELSE r.chainId

TipOf(r) == IF toEIP1559(r) /\ r.tip = Null THEN Gwei ELSE r.tip

\* fromRpc
BodyOf(r, nonce) ==
  CASE TypeFor(r) = Legacy ->
         Body(Legacy, Null, nonce, r.gasPrice, Null, Null, FALSE)
    [] TypeFor(r) = EIP2930AccessList ->
         Body(EIP2930AccessList, ChainOf(r), nonce, r.gasPrice, Null, Null, r.list)
    [] OTHER ->
         Body(EIP1559AccessList, ChainOf(r), nonce, Null, r.maxFee, TipOf(r), r.list)

Default(fee, default) == IF fee = Null THEN default ELSE fee

\* autofillDefaultTransactionValues
Filled(body) ==
  IF body.type = EIP1559AccessList
  THEN [body EXCEPT !.maxFee = Default(@, defaultMaxFee), !.tip = Default(@, Gwei)]
  ELSE [body EXCEPT !.gasPrice = Default(@, defaultGasPrice)]

\* Signed without being filled in: what is null is encoded as zero is.
Zeroed(body) ==
  IF body.type = EIP1559AccessList
  THEN [body EXCEPT !.maxFee = Default(@, 0), !.tip = Default(@, 0)]
  ELSE [body EXCEPT !.gasPrice = Default(@, 0)]

(***************************************************************************)
(* Raw transactions: arrays of fields, after their type if they have one    *)
(***************************************************************************)

Payload(tx) ==
  LET b == tx.body
  IN  CASE b.type = Legacy -> <<b.nonce, b.gasPrice, tx.v, tx.sig>>
        [] b.type = EIP2930AccessList -> <<b.chainId, b.nonce, b.gasPrice, b.list, tx.v, tx.sig>>
        [] OTHER -> <<b.chainId, b.nonce, b.tip, b.maxFee, b.list, tx.v, tx.sig>>

\* Mutant: the type is not stored.
UntypedRaw(tx) == Payload(tx)

RawOf(tx) ==
  IF tx.body.type = Legacy THEN Payload(tx) ELSE <<tx.body.type>> \o Payload(tx)

\* serialized, with the request that it was signed for.
WireOf(tx, request) == [type |-> tx.body.type, payload |-> Payload(tx), request |-> request]

\* The constructors, of an array.
FromArray(type, p, from) ==
  CASE type = Legacy ->
         Signed(Body(Legacy, Null, p[1], p[2], Null, Null, FALSE), p[3], p[4], from)
    [] type = EIP2930AccessList ->
         Signed(Body(type, p[1], p[2], p[3], Null, Null, p[4]), p[5], p[6], from)
    [] OTHER ->
         Signed(Body(type, p[1], p[2], Null, p[4], p[3], p[5]), p[6], p[7], from)

typeOf(first) == IF first \in {EIP2930AccessList, EIP1559AccessList} THEN first ELSE Legacy

\* A legacy transaction has nine fields in the code.
LEGACY_LENGTH == 4

typeOfRaw(raw) == IF Len(raw) = LEGACY_LENGTH THEN Legacy ELSE typeOf(raw[1])

\* fromDatabaseTx; the sender is stored beside it and is not recovered.
Loaded(stored) ==
  LET type == typeOfRaw(stored.raw)
  IN  FromArray(type, IF type = Legacy THEN stored.raw ELSE Tail(stored.raw), stored.from)

\* fromString
Parsed(wire) ==
  LET tx == FromArray(wire.type, wire.payload, Null)
  IN  [tx EXCEPT !.from = Recovered(tx)]

IsActivated(type) ==
  /\ type = EIP2930AccessList => hardfork >= Berlin
  /\ type = EIP1559AccessList => hardfork >= London

\* Mutant: no type's chain is compared.
AcceptsAnyChain(wire) == IsActivated(wire.type) /\ HasSender(Parsed(wire))

\* A typed one does not decode before Berlin.
Accepts(wire) ==
  /\ IsActivated(wire.type)
  /\ wire.type # Legacy => wire.payload[1] = ChainId
  /\ HasSender(Parsed(wire))

(***************************************************************************)
(* Calls                                                                   *)
(***************************************************************************)

Of(from) == {t \in pool : t.from = from}

Nonce(from) == Cardinality({t \in mined : t.from = from})

\* The nonce after all that wait, or the account's.
IsNext(nonce, from) ==
  IF Of(from) = {} THEN nonce = Nonce(from)
  ELSE /\ \A t \in Of(from) : t.body.nonce < nonce
       /\ \E t \in Of(from) : t.body.nonce = nonce - 1

MaxPrice(body) == IF body.type = EIP1559AccessList THEN body.maxFee ELSE body.gasPrice

\* Those of its nonce, if it pays more; the price bump is TransactionPool's.
Replaced(tx) ==
  {t \in Of(tx.from) : t.body.nonce = tx.body.nonce /\ MaxPrice(t.body) < MaxPrice(tx.body)}

\* prepareTransaction
Place(tx) == pool' = (pool \ Replaced(tx)) \cup {tx}

Answer(request, tx) ==
  /\ IsNext(tx.body.nonce, tx.from) \/ Replaced(tx) # {}
  /\ Place(tx)
  /\ answered' = answered \cup {[request |-> request, tx |-> tx]}

\* eth_sendTransaction, personal_sendTransaction; the nonce is given or the next.
SendTransaction(r, nonce, recid) ==
  /\ ~Refuses(r)
  /\ Answer(r, Sign(Filled(BodyOf(r, nonce)), r.from, SigningChain, recid))
  /\ UNCHANGED <<hardfork, wires, db, mined>>

\* eth_signTransaction, personal_signTransaction: nothing is filled in.
SignTransaction(r, nonce, recid) ==
  /\ ~Refuses(r)  /\ Cardinality(wires) < MaxWires
  /\ wires' = wires \cup {WireOf(Sign(Zeroed(BodyOf(r, nonce)), r.from, SigningChain, recid), r)}
  /\ UNCHANGED <<hardfork, pool, db, mined, answered>>

\* Another wallet signs for a chain, a legacy transaction for any or for that one.
WalletSigns(type, key, chain, bound, nonce, fee, recid) ==
  LET body == CASE type = Legacy ->
                     Body(Legacy, Null, nonce, fee, Null, Null, FALSE)
                [] type = EIP2930AccessList ->
                     Body(EIP2930AccessList, chain, nonce, fee, Null, Null, TRUE)
                [] OTHER ->
                     Body(EIP1559AccessList, chain, nonce, Null, fee, 0, FALSE)
  IN  /\ Cardinality(wires) < MaxWires
      /\ wires' = wires \cup {WireOf(Sign(body, key, IF bound THEN chain ELSE Null, recid), Null)}
      /\ UNCHANGED <<hardfork, pool, db, mined, answered>>

\* eth_sendRawTransaction
SendRawTransaction(wire) ==
  /\ Accepts(wire)
  /\ Answer(Null, Parsed(wire))
  /\ UNCHANGED <<hardfork, wires, db, mined>>

(***************************************************************************)
(* eth_sendTransaction of one that has its signature.  The chain of type 2  *)
(* is not compared.  signAndHash throws for all: nothing has changed, but    *)
(* when another was replaced (transaction-pool.ts:239-345).                 *)
(***************************************************************************)
SendSigned(wire) ==
  LET tx == Parsed(wire)
  IN  /\ Accepts(wire) \/ (wire.type = EIP1559AccessList /\ hardfork >= London)
      /\ HasSender(tx)
      /\ Replaced(tx) # {}
      /\ Place(tx)
      /\ UNCHANGED <<hardfork, wires, db, mined, answered>>

\* The miner takes an account's transactions by their nonces.  The VM refuses one that does
\* not pay the base fee, and those after it.
First(tx) == \A t \in Of(tx.from) : t.body.nonce >= tx.body.nonce

Pays(body) == hardfork >= London => MaxPrice(body) >= baseFee

Mine(tx) ==
  /\ First(tx)
  /\ pool' = pool \ {tx}
  /\ IF tx.body.nonce = Nonce(tx.from) /\ Pays(tx.body)
     THEN /\ db' = db \cup {[raw |-> RawOf(tx), from |-> tx.from]}
          /\ mined' = mined \cup {tx}
     ELSE UNCHANGED <<db, mined>>
  /\ UNCHANGED <<hardfork, wires, answered>>

Nonces == 0..MaxNonce

Next ==
  \/ \E r \in Requests, nonce \in Nonces, recid \in {0, 1} :
       SendTransaction(r, nonce, recid) \/ SignTransaction(r, nonce, recid)
  \/ \E type \in Types, key \in Accounts, chain \in Chains, bound \in BOOLEAN,
        nonce \in Nonces, fee \in Fees, recid \in {0, 1} :
       WalletSigns(type, key, chain, bound, nonce, fee, recid)
  \/ \E wire \in wires : SendRawTransaction(wire) \/ SendSigned(wire)
  \/ \E tx \in pool : Mine(tx)

Spec == Init /\ [][Next]_vars

(***************************************************************************)
(* Properties                                                              *)
(***************************************************************************)

\* Whoever pays for a transaction has signed it as it runs: its type, nonce, fees and, if it
\* is bound to one, its chain, whichever call it came by and whatever was filled in.
SenderIsSigner ==
  \A t \in pool \cup mined : t.sig.key = t.from /\ t.sig.message = HashedOf(t)

SignatureOf(wire) == wire.payload[Len(wire.payload)]

\* Of all that is signed anywhere, exactly what is meant for this chain and of a type of this
\* hardfork can be sent raw (tests/index.test.ts:281, 330 of the transaction package): the v
\* of another chain's legacy transaction is never taken for a parity.
AcceptsItsOwn ==
  \A wire \in wires :
    Accepts(wire) <=>
      /\ SignatureOf(wire).message.chainId \in {Null, ChainId}
      /\ IsActivated(wire.type)

\* A transaction is read from the database as it ran: an array of fields is taken for its
\* own type again, though a legacy one begins with a nonce that may be 1 or 2.
StoredIsItself == {Loaded(stored) : stored \in db} = mined

\* Whichever type a request is made, of the fees that the type has none that is given is
\* replaced by a default ("there's still a chance they sent us this data",
\* transaction-factory.ts:132-134).  Those of the other kind are dropped, and that without a
\* word (56-149): a gas price only if type 2 is asked for, a cap and a tip only before London
\* or beside a gas price (see NoFeeIsDropped).
FeesAreAsGiven ==
  \A a \in answered : a.request # Null =>
    LET r == a.request  b == a.tx.body
    IN  /\ a.tx.from = r.from
        /\ IF b.type = EIP1559AccessList
           THEN /\ b.maxFee = Default(r.maxFee, defaultMaxFee)
                /\ b.tip = Default(r.tip, Gwei)
                /\ r.gasPrice # Null => r.type = EIP1559AccessList
           ELSE /\ b.gasPrice = Default(r.gasPrice, defaultGasPrice)
                /\ {r.maxFee, r.tip} # {Null} => hardfork < London \/ r.gasPrice # Null

\* Whoever pays has signed what was asked for, but for the fees that are dropped.
SignedAsAsked == SenderIsSigner /\ FeesAreAsGiven

\* Refuted: no fee is dropped (see the README).
NoFeeIsDropped ==
  \A a \in answered : a.request # Null =>
    LET r == a.request
    IN  IF a.tx.body.type = EIP1559AccessList THEN r.gasPrice = Null
                                              ELSE {r.maxFee, r.tip} = {Null}

\* "Invalid chain id" (eip1559-fee-market-transaction.ts:84-87): no transaction of another
\* chain is taken, however it is sent.
OnlyOfThisChain ==
  \A t \in pool \cup mined : t.body.type # Legacy => t.body.chainId = ChainId

\* "Signs a transaction that can be submitted to the network at a later time using
\* `eth_sendRawTransaction`" (api.ts:2088), if the fees that it was asked for pay.
SignedCanBeSent ==
  \A wire \in wires :
    wire.request # Null /\ wire.request.chainId = Null
      /\ (\A fee \in {wire.request.gasPrice, wire.request.maxFee} \ {Null} : fee >= baseFee)
    => Accepts(wire) /\ Pays(Parsed(wire).body)

\* "Throws if the transaction is invalid" (transaction-manager.ts:99-100): what is in the
\* pool is what callers have been answered.
ErrorsChangeNothing ==
  \A t \in pool \cup mined : \E a \in answered : a.tx = t
=============================================================================
