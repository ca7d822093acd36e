------------------------- MODULE TransactionsProofs -------------------------
(***************************************************************************)
(* Proofs about Transactions, for all chains, accounts, requests and fees.  *)
(* Everything in it is made by Sign from a body as its class makes it: what  *)
(* has an array's form is read from the array again, and its v tells for     *)
(* which chain it is.                                                      *)
(***************************************************************************)
EXTENDS Transactions, SequenceTheorems, TLAPS

IsLegacy(b) == \E n, p : b = Body(Legacy, Null, n, p, Null, Null, FALSE)
IsAccessList(b) == \E c, n, p, l : b = Body(EIP2930AccessList, c, n, p, Null, Null, l)
IsFeeMarket(b) == \E c, n, m, t, l : b = Body(EIP1559AccessList, c, n, Null, m, t, l)
IsBody(b) == IsLegacy(b) \/ IsAccessList(b) \/ IsFeeMarket(b)

SignedFor(tx, chain) ==
  \E b, key, recid : /\ IsBody(b)  /\ recid \in {0, 1}
                     /\ chain \in Chains \cup {Null}
                     /\ tx = Sign(b, key, chain, recid)

IsSigned(tx) == \E chain : SignedFor(tx, chain)

\* The four kinds of records have their fields.
LEMMA Fields ==
  /\ \A ty, c, n, p, m, t, l :
       LET b == Body(ty, c, n, p, m, t, l)
       IN  b.type = ty /\ b.chainId = c /\ b.nonce = n /\ b.gasPrice = p /\ b.maxFee = m
             /\ b.tip = t /\ b.list = l
  /\ \A b, v, s, f :
       LET tx == Signed(b, v, s, f)
       IN  tx.body = b /\ tx.v = v /\ tx.sig = s /\ tx.from = f
BY DEF Body, Signed

LEMMA SignFields ==
  ASSUME NEW b, NEW key, NEW chain, NEW recid
  PROVE  LET tx == Sign(b, key, chain, recid)
         IN  /\ tx.body = b  /\ tx.v = VOf(b, chain, recid)  /\ tx.from = key
             /\ tx.sig.key = key  /\ tx.sig.recid = recid
             /\ tx.sig.message = Message(b, chain)
             /\ tx = Signed(tx.body, tx.v, tx.sig, tx.from)
BY DEF Sign, Signed

LEMMA TypeOfBody ==
  ASSUME NEW b
  PROVE  /\ IsLegacy(b) => b.type = Legacy
         /\ IsAccessList(b) => b.type = EIP2930AccessList
         /\ IsFeeMarket(b) => b.type = EIP1559AccessList
<1>1. IsLegacy(b) => b.type = Legacy
  BY DEF IsLegacy, Body
<1>2. IsAccessList(b) => b.type = EIP2930AccessList
  BY Fields DEF IsAccessList
<1>3. IsFeeMarket(b) => b.type = EIP1559AccessList
  BY Fields DEF IsFeeMarket
<1> QED BY <1>1, <1>2, <1>3

\* Reading the fields of a transaction in their order gives it back.
LEMMA ArrayIsItself ==
  ASSUME NEW b, NEW v, NEW s, NEW f, NEW g, IsBody(b)
  PROVE  FromArray(b.type, Payload(Signed(b, v, s, f)), g) = Signed(b, v, s, g)
<1> DEFINE tx == Signed(b, v, s, f)
<1>0. tx.body = b /\ tx.v = v /\ tx.sig = s
  BY Fields
<1>1. CASE IsLegacy(b)
  <2>1. PICK n, p : b = Body(Legacy, Null, n, p, Null, Null, FALSE)
    BY <1>1 DEF IsLegacy
  <2>2. b.type = Legacy /\ b.nonce = n /\ b.gasPrice = p
    BY <2>1 DEF Body
  <2>3. Payload(tx) = <<n, p, v, s>>
    BY <1>0, <2>2 DEF Payload, Legacy, EIP2930AccessList
  <2>4. FromArray(Legacy, <<n, p, v, s>>, g) = Signed(b, v, s, g)
    BY <2>1 DEF FromArray, Legacy, EIP2930AccessList
  <2> QED BY <2>2, <2>3, <2>4
<1>2. CASE IsAccessList(b)
  <2>1. PICK c, n, p, l : b = Body(EIP2930AccessList, c, n, p, Null, Null, l)
    BY <1>2 DEF IsAccessList
  <2>2. b.type = EIP2930AccessList /\ b.chainId = c /\ b.nonce = n /\ b.gasPrice = p /\ b.list = l
    BY <2>1, Fields
  <2>3. Payload(tx) = <<c, n, p, l, v, s>>
    BY <1>0, <2>2 DEF Payload, Legacy, EIP2930AccessList
  <2>4. FromArray(EIP2930AccessList, <<c, n, p, l, v, s>>, g) = Signed(b, v, s, g)
    BY <2>1 DEF FromArray, Legacy, EIP2930AccessList
  <2> QED BY <2>2, <2>3, <2>4
<1>3. CASE IsFeeMarket(b)
  <2>1. PICK c, n, m, t, l : b = Body(EIP1559AccessList, c, n, Null, m, t, l)
    BY <1>3 DEF IsFeeMarket
  <2>2. b.type = EIP1559AccessList /\ b.chainId = c /\ b.nonce = n /\ b.maxFee = m
          /\ b.tip = t /\ b.list = l
    BY <2>1, Fields
  <2>3. Payload(tx) = <<c, n, t, m, l, v, s>>
    BY <1>0, <2>2 DEF Payload, Legacy, EIP2930AccessList, EIP1559AccessList
  <2>4. FromArray(EIP1559AccessList, <<c, n, t, m, l, v, s>>, g) = Signed(b, v, s, g)
    BY <2>1 DEF FromArray, Legacy, EIP2930AccessList, EIP1559AccessList
  <2> QED BY <2>2, <2>3, <2>4
<1> QED BY <1>1, <1>2, <1>3 DEF IsBody

\* v tells whether a legacy transaction is bound to this chain: what it hashes is then what
\* was signed; bound to another, its v is too large to be a parity, whatever the chains.
LEMMA ChainOfV ==
  ASSUME NEW b, NEW key, NEW chain, NEW recid,
         IsBody(b), recid \in {0, 1}, chain \in Chains \cup {Null}
  PROVE  LET tx == Sign(b, key, chain, recid)
         IN  /\ HasSender(tx) <=> (b.type = Legacy => chain \in {Null, ChainId})
             /\ HasSender(tx) => RecIdOf(tx) = tx.sig.recid /\ HashedOf(tx) = tx.sig.message
<1> DEFINE tx == Sign(b, key, chain, recid)
<1>0. tx.body = b /\ tx.v = VOf(b, chain, recid) /\ tx.sig.recid = recid
        /\ tx.sig.message = Message(b, chain)
  BY SignFields
<1>1. ChainId \in Nat /\ Null \notin Nat /\ (chain # Null => chain \in Nat)
  BY TransactionsAssumption DEF TransactionsAssumption
<1> HIDE DEF tx
<1>2. CASE b.type # Legacy
  <2>1. ~IsEip155(tx) /\ tx.v = recid /\ RecIdOf(tx) = recid
    BY <1>0, <1>2 DEF IsEip155, VOf, RecIdOf
  <2>2. HashedOf(tx) = b /\ Message(b, chain) = b
    BY <1>0, <1>2 DEF HashedOf, Message
  <2> QED BY <1>0, <1>2, <2>1, <2>2 DEF HasSender, tx
<1>3. CASE b.type = Legacy /\ chain = Null
  <2>1. tx.v = 27 + recid
    BY <1>0, <1>3 DEF VOf
  <2>2. ~IsEip155(tx)
    BY <1>0, <1>1, <2>1 DEF IsEip155, eip155V
  <2>3. RecIdOf(tx) = recid
    BY <1>0, <1>3, <2>1, <2>2 DEF RecIdOf
  <2>4. HashedOf(tx) = Message(b, chain)
    BY <1>0, <1>3, <2>2 DEF HashedOf
  <2> QED BY <1>0, <1>3, <2>3, <2>4 DEF HasSender, tx
<1>4. CASE b.type = Legacy /\ chain # Null /\ chain = ChainId
  <2>1. tx.v = ChainId * 2 + 35 + recid
    BY <1>0, <1>4 DEF VOf, eip155V
  <2>2. IsEip155(tx)
    BY <1>0, <1>1, <1>4, <2>1 DEF IsEip155, eip155V
  <2>3. RecIdOf(tx) = recid
    BY <1>0, <1>1, <1>4, <2>1, <2>2 DEF RecIdOf, eip155V
  <2>4. HashedOf(tx) = Message(b, chain)
    BY <1>0, <1>4, <2>2 DEF HashedOf
  <2> QED BY <1>0, <1>4, <2>3, <2>4 DEF HasSender, tx
<1>5. CASE b.type = Legacy /\ chain # Null /\ chain # ChainId
  <2>1. tx.v = chain * 2 + 35 + recid
    BY <1>0, <1>5 DEF VOf, eip155V
  <2>2. ~IsEip155(tx)
    BY <1>0, <1>1, <1>5, <2>1 DEF IsEip155, eip155V
  <2>3. RecIdOf(tx) = chain * 2 + 8 + recid
    BY <1>0, <1>1, <1>5, <2>1, <2>2 DEF RecIdOf
  <2>4. ~HasSender(tx)
    BY <1>1, <1>5, <2>3 DEF HasSender
  <2> QED BY <1>5, <2>4 DEF tx
<1> QED BY <1>2, <1>3, <1>4, <1>5 DEF tx

\* What is made of JSON is a body, and stays one when its fees are filled in.
LEMMA BodyOfIsBody ==
  ASSUME NEW r, NEW nonce
  PROVE  IsBody(BodyOf(r, nonce))
<1>1. CASE TypeFor(r) = Legacy
  <2>1. BodyOf(r, nonce) = Body(Legacy, Null, nonce, r.gasPrice, Null, Null, FALSE)
    BY <1>1 DEF BodyOf, Legacy, EIP2930AccessList
  <2> QED BY <2>1 DEF IsBody, IsLegacy
<1>2. CASE TypeFor(r) = EIP2930AccessList
  <2>1. BodyOf(r, nonce)
          = Body(EIP2930AccessList, ChainOf(r), nonce, r.gasPrice, Null, Null, r.list)
    BY <1>2 DEF BodyOf, Legacy, EIP2930AccessList
  <2> QED BY <2>1 DEF IsBody, IsAccessList
<1>3. CASE TypeFor(r) \notin {Legacy, EIP2930AccessList}
  <2>1. BodyOf(r, nonce)
          = Body(EIP1559AccessList, ChainOf(r), nonce, Null, r.maxFee, TipOf(r), r.list)
    BY <1>3 DEF BodyOf
  <2> QED BY <2>1 DEF IsBody, IsFeeMarket
<1> QED BY <1>1, <1>2, <1>3

LEMMA FilledIsBody ==
  ASSUME NEW b, IsBody(b)
  PROVE  IsBody(Filled(b)) /\ IsBody(Zeroed(b))
<1>1. CASE IsLegacy(b)
  <2>1. PICK n, p : b = Body(Legacy, Null, n, p, Null, Null, FALSE)
    BY <1>1 DEF IsLegacy
  <2>0. \A l : LET c == Body(Legacy, Null, n, p, Null, Null, l)
              IN  /\ Filled(c) = Body(Legacy, Null, n, Default(p, defaultGasPrice), Null, Null, l)
                  /\ Zeroed(c) = Body(Legacy, Null, n, Default(p, 0), Null, Null, l)
    BY DEF Filled, Zeroed, Body, Legacy, EIP1559AccessList
  <2>2. Filled(b) = Body(Legacy, Null, n, Default(p, defaultGasPrice), Null, Null, FALSE)
    BY <2>0, <2>1
  <2>3. Zeroed(b) = Body(Legacy, Null, n, Default(p, 0), Null, Null, FALSE)
    BY <2>0, <2>1
  <2>4. IsLegacy(Filled(b)) /\ IsLegacy(Zeroed(b))
    BY <2>2, <2>3 DEF IsLegacy
  <2> QED BY <2>4 DEF IsBody
<1>2. CASE IsAccessList(b)
  <2>1. PICK c, n, p, l : b = Body(EIP2930AccessList, c, n, p, Null, Null, l)
    BY <1>2 DEF IsAccessList
  <2>2. Filled(b) = Body(EIP2930AccessList, c, n, Default(p, defaultGasPrice), Null, Null, l)
    BY <2>1 DEF Filled, Body, EIP2930AccessList, EIP1559AccessList
  <2>3. Zeroed(b) = Body(EIP2930AccessList, c, n, Default(p, 0), Null, Null, l)
    BY <2>1 DEF Zeroed, Body, EIP2930AccessList, EIP1559AccessList
  <2>4. IsAccessList(Filled(b)) /\ IsAccessList(Zeroed(b))
    BY <2>2, <2>3 DEF IsAccessList
  <2> QED BY <2>4 DEF IsBody
<1>3. CASE IsFeeMarket(b)
  <2>1. PICK c, n, m, t, l : b = Body(EIP1559AccessList, c, n, Null, m, t, l)
    BY <1>3 DEF IsFeeMarket
  <2>2. Filled(b)
          = Body(EIP1559AccessList, c, n, Null, Default(m, defaultMaxFee), Default(t, Gwei), l)
    BY <2>1 DEF Filled, Body
  <2>3. Zeroed(b) = Body(EIP1559AccessList, c, n, Null, Default(m, 0), Default(t, 0), l)
    BY <2>1 DEF Zeroed, Body
  <2>4. IsFeeMarket(Filled(b)) /\ IsFeeMarket(Zeroed(b))
    BY <2>2, <2>3 DEF IsFeeMarket
  <2> QED BY <2>4 DEF IsBody
<1> QED BY <1>1, <1>2, <1>3 DEF IsBody

\* Who has sent a transaction is no part of what tells it.
LEMMA SenderOfFields ==
  ASSUME NEW b, NEW v, NEW s, NEW f, NEW g
  PROVE  LET t == Signed(b, v, s, f)  u == Signed(b, v, s, g)
         IN  /\ HasSender(t) <=> HasSender(u)
             /\ Recovered(t) = Recovered(u)
<1> DEFINE t == Signed(b, v, s, f)
           u == Signed(b, v, s, g)
<1>1. t.body = u.body /\ t.v = u.v /\ t.sig = u.sig
  BY Fields
<1> HIDE DEF t, u
<1>2. IsEip155(t) <=> IsEip155(u)
  BY <1>1 DEF IsEip155
<1>3. RecIdOf(t) = RecIdOf(u) /\ HashedOf(t) = HashedOf(u)
  BY <1>1, <1>2 DEF RecIdOf, HashedOf
<1>4. (HasSender(t) <=> HasSender(u)) /\ Recovered(t) = Recovered(u)
  BY <1>1, <1>3 DEF HasSender, Recovered
<1> QED BY <1>4 DEF t, u

\* What is signed is sent and parsed to itself, if it has a sender.
LEMMA ParsedIsItself ==
  ASSUME NEW tx, NEW chain, NEW q, SignedFor(tx, chain)
  PROVE  LET w == WireOf(tx, q)
         IN  /\ HasSender(Parsed(w)) <=> HasSender(tx)
             /\ HasSender(tx) => Parsed(w) = tx
<1>1. PICK b, key, recid : IsBody(b) /\ recid \in {0, 1} /\ chain \in Chains \cup {Null}
                             /\ tx = Sign(b, key, chain, recid)
  BY DEF SignedFor
<1> DEFINE w == WireOf(tx, q)
           u == Signed(b, tx.v, tx.sig, Null)
<1>2. tx.body = b /\ tx = Signed(b, tx.v, tx.sig, key) /\ tx.sig.key = key
  BY <1>1, SignFields
<1>3. w.type = b.type /\ w.payload = Payload(tx)
  BY <1>2 DEF WireOf
<1>4. FromArray(w.type, w.payload, Null) = u
  BY <1>1, <1>2, <1>3, ArrayIsItself
<1>5. Parsed(w) = Signed(b, tx.v, tx.sig, Recovered(u))
  BY <1>4 DEF Parsed, Signed
<1>6. HasSender(Parsed(w)) <=> HasSender(tx)
  BY <1>2, <1>5, SenderOfFields
<1>7. HasSender(tx) => Recovered(tx) = key
  BY <1>1, <1>2, ChainOfV DEF Recovered
<1>8. Recovered(u) = Recovered(tx)
  BY <1>2, SenderOfFields
<1>9. HasSender(tx) => Parsed(w) = tx
  BY <1>2, <1>5, <1>7, <1>8
<1> QED BY <1>6, <1>9

\* The array with a type before it.
LEMMA Prefixed ==
  ASSUME NEW S, NEW t \in S, NEW u \in Seq(S), NEW r \in Seq(S),
         Len(r) = Len(u) + 1, r[1] = t, \A i \in 1..Len(u) : r[i + 1] = u[i]
  PROVE  <<t>> \o u = r
<1>1. <<t>> \in Seq(S) /\ Len(<<t>>) = 1 /\ <<t>>[1] = t
  OBVIOUS
<1>2. <<t>> \o u \in Seq(S) /\ Len(<<t>> \o u) = Len(r)
  BY <1>1, ConcatProperties, LenProperties
<1>3. \A i \in 1..Len(r) : (<<t>> \o u)[i] = r[i]
  <2> TAKE i \in 1..Len(r)
  <2>1. (<<t>> \o u)[i] = IF i <= 1 THEN <<t>>[i] ELSE u[i - 1]
    BY <1>1, ConcatProperties, LenProperties
  <2>2. CASE i = 1
    BY <1>1, <2>1, <2>2
  <2>3. CASE i > 1
    BY <2>1, <2>3, LenProperties
  <2> QED BY <2>2, <2>3, LenProperties
<1> QED BY <1>2, <1>3, SeqEqual

\* What is stored is read as itself: nine fields are a legacy transaction's only.
LEMMA LoadedIsItself ==
  ASSUME NEW tx, IsSigned(tx)
  PROVE  Loaded([raw |-> RawOf(tx), from |-> tx.from]) = tx
<1>1. PICK chain, b, key, recid : IsBody(b) /\ tx = Sign(b, key, chain, recid)
  BY DEF IsSigned, SignedFor
<1>2. tx.body = b /\ tx.from = key /\ tx = Signed(b, tx.v, tx.sig, key)
  BY <1>1, SignFields
<1> DEFINE stored == [raw |-> RawOf(tx), from |-> tx.from]
<1>3. stored.raw = RawOf(tx) /\ stored.from = key
  BY <1>2
<1>4. FromArray(b.type, Payload(tx), key) = tx
  BY <1>1, <1>2, ArrayIsItself
<1> HIDE DEF stored
<1>5. ASSUME typeOfRaw(stored.raw) = b.type,
             (IF b.type = Legacy THEN stored.raw ELSE Tail(stored.raw)) = Payload(tx)
      PROVE  Loaded(stored) = tx
  BY <1>3, <1>4, <1>5 DEF Loaded
<1>6. CASE IsLegacy(b)
  <2>1. b.type = Legacy /\ Payload(tx) = <<b.nonce, b.gasPrice, tx.v, tx.sig>>
    BY <1>2, <1>6, TypeOfBody DEF Payload, Legacy, EIP2930AccessList
  <2>2. stored.raw = <<b.nonce, b.gasPrice, tx.v, tx.sig>>
    BY <1>2, <1>3, <2>1 DEF RawOf
  <2>3. typeOfRaw(stored.raw) = Legacy
    BY <2>2 DEF typeOfRaw, LEGACY_LENGTH
  <2> QED BY <1>5, <2>1, <2>2, <2>3 DEF stored
<1>7. CASE IsAccessList(b)
  <2>1. b.type = EIP2930AccessList
          /\ Payload(tx) = <<b.chainId, b.nonce, b.gasPrice, b.list, tx.v, tx.sig>>
    BY <1>2, <1>7, TypeOfBody DEF Payload, Legacy, EIP2930AccessList
  <2>2. stored.raw = <<b.type, b.chainId, b.nonce, b.gasPrice, b.list, tx.v, tx.sig>>
    <3> DEFINE S == {b.type, b.chainId, b.nonce, b.gasPrice, b.list, tx.v, tx.sig}
               r == <<b.type, b.chainId, b.nonce, b.gasPrice, b.list, tx.v, tx.sig>>
    <3>1. /\ b.type \in S /\ Payload(tx) \in Seq(S) /\ r \in Seq(S)
          /\ Len(r) = Len(Payload(tx)) + 1 /\ r[1] = b.type
          /\ \A i \in 1..Len(Payload(tx)) : r[i + 1] = Payload(tx)[i]
      BY <2>1
    <3>2. <<b.type>> \o Payload(tx) = r
      <4> HIDE DEF S, r
      <4> QED BY <3>1, Prefixed
    <3> QED BY <1>2, <1>3, <2>1, <3>2 DEF RawOf, Legacy, EIP2930AccessList
  <2>3. Len(stored.raw) = 7 /\ stored.raw[1] = b.type /\ Tail(stored.raw) = Payload(tx)
    BY <2>1, <2>2
  <2>4. typeOfRaw(stored.raw) = b.type
    BY <2>1, <2>3 DEF typeOfRaw, typeOf, LEGACY_LENGTH
  <2> QED BY <1>5, <2>1, <2>3, <2>4 DEF stored, Legacy, EIP2930AccessList
<1>8. CASE IsFeeMarket(b)
  <2>1. b.type = EIP1559AccessList
          /\ Payload(tx) = <<b.chainId, b.nonce, b.tip, b.maxFee, b.list, tx.v, tx.sig>>
    BY <1>2, <1>8, TypeOfBody DEF Payload, Legacy, EIP2930AccessList, EIP1559AccessList
  <2>2. stored.raw = <<b.type, b.chainId, b.nonce, b.tip, b.maxFee, b.list, tx.v, tx.sig>>
    <3> DEFINE S == {b.type, b.chainId, b.nonce, b.tip, b.maxFee, b.list, tx.v, tx.sig}
               r == <<b.type, b.chainId, b.nonce, b.tip, b.maxFee, b.list, tx.v, tx.sig>>
    <3>1. /\ b.type \in S /\ Payload(tx) \in Seq(S) /\ r \in Seq(S)
          /\ Len(r) = Len(Payload(tx)) + 1 /\ r[1] = b.type
          /\ \A i \in 1..Len(Payload(tx)) : r[i + 1] = Payload(tx)[i]
      BY <2>1
    <3>2. <<b.type>> \o Payload(tx) = r
      <4> HIDE DEF S, r
      <4> QED BY <3>1, Prefixed
    <3> QED BY <1>2, <1>3, <2>1, <3>2 DEF RawOf, Legacy, EIP1559AccessList
  <2>3. Len(stored.raw) = 8 /\ stored.raw[1] = b.type /\ Tail(stored.raw) = Payload(tx)
    BY <2>1, <2>2
  <2>4. typeOfRaw(stored.raw) = b.type
    BY <2>1, <2>3 DEF typeOfRaw, typeOf, LEGACY_LENGTH
  <2> QED BY <1>5, <2>1, <2>3, <2>4 DEF stored, Legacy, EIP1559AccessList
<1> QED BY <1>1, <1>6, <1>7, <1>8 DEF IsBody, stored

(***************************************************************************)
(* The inductive invariant                                                 *)
(***************************************************************************)

\* What is in the pool, or was, has been signed as it is, and has its sender.
PoolIsSigned == \A t \in pool \cup mined : IsSigned(t) /\ HasSender(t)

\* What has been signed to be sent, for a chain that a typed transaction names itself.
WiresAreSigned ==
  \A w \in wires : \E tx, q, chain :
    /\ SignedFor(tx, chain)  /\ w = WireOf(tx, q)
    /\ tx.body.type # Legacy => tx.body.chainId # Null

StoredIsMined == db = {[raw |-> RawOf(t), from |-> t.from] : t \in mined}

IInv == PoolIsSigned /\ WiresAreSigned /\ StoredIsMined

LEMMA SigningChainIsOne == SigningChain \in Chains \cup {Null} /\ SigningChain \in {Null, ChainId}
BY TransactionsAssumption DEF TransactionsAssumption, SigningChain

LEMMA SignIsSignedFor ==
  ASSUME NEW b, NEW key, NEW chain \in Chains \cup {Null}, NEW recid \in {0, 1}, IsBody(b)
  PROVE  SignedFor(Sign(b, key, chain, recid), chain)
BY DEF SignedFor

LEMMA PlacedIsSigned ==
  ASSUME PoolIsSigned, NEW tx, IsSigned(tx), HasSender(tx), Place(tx), UNCHANGED mined
  PROVE  PoolIsSigned'
BY DEF PoolIsSigned, Place

LEMMA ParsedIsSigned ==
  ASSUME WiresAreSigned, NEW w \in wires, HasSender(Parsed(w))
  PROVE  IsSigned(Parsed(w))
<1>1. PICK tx, q, chain : SignedFor(tx, chain) /\ w = WireOf(tx, q)
  BY DEF WiresAreSigned
<1>2. HasSender(tx) /\ Parsed(w) = tx
  BY <1>1, ParsedIsItself
<1> QED BY <1>1, <1>2 DEF IsSigned

LEMMA InitInvariant == Init => IInv
BY DEF Init, IInv, PoolIsSigned, WiresAreSigned, StoredIsMined

\* One more that is signed to be sent.
LEMMA WireAdded ==
  ASSUME WiresAreSigned, NEW b, NEW key, NEW chain \in Chains \cup {Null}, NEW recid \in {0, 1},
         NEW q, IsBody(b), b.type # Legacy => b.chainId # Null,
         wires' = wires \cup {WireOf(Sign(b, key, chain, recid), q)}
  PROVE  WiresAreSigned'
<1> DEFINE tx == Sign(b, key, chain, recid)
<1>1. SignedFor(tx, chain)
  BY SignIsSignedFor
<1>2. tx.body = b
  BY SignFields
<1>3. \E x, r, c : /\ SignedFor(x, c) /\ WireOf(tx, q) = WireOf(x, r)
                   /\ x.body.type # Legacy => x.body.chainId # Null
  BY <1>1, <1>2
<1> QED BY <1>3 DEF WiresAreSigned

LEMMA ChainOfBody ==
  ASSUME NEW r, NEW nonce
  PROVE  LET b == BodyOf(r, nonce)
         IN  /\ b.type # Legacy => b.chainId # Null
             /\ Zeroed(b).type # Legacy => Zeroed(b).chainId # Null
<1> DEFINE b == BodyOf(r, nonce)
<1>1. ChainOf(r) # Null
  BY TransactionsAssumption DEF TransactionsAssumption, ChainOf
<1>2. CASE TypeFor(r) = Legacy
  BY <1>2, TypeOfBody, BodyOfIsBody DEF BodyOf, Body, Zeroed, Legacy, EIP2930AccessList, EIP1559AccessList
<1>3. CASE TypeFor(r) = EIP2930AccessList
  BY <1>1, <1>3 DEF BodyOf, Body, Zeroed, Legacy, EIP2930AccessList, EIP1559AccessList
<1>4. CASE TypeFor(r) \notin {Legacy, EIP2930AccessList}
  BY <1>1, <1>4 DEF BodyOf, Body, Zeroed, Legacy, EIP2930AccessList, EIP1559AccessList
<1> QED BY <1>2, <1>3, <1>4

LEMMA NextInvariant ==
  ASSUME IInv, [Next]_vars
  PROVE  IInv'
<1> USE DEF IInv
<1>1. ASSUME NEW r \in Requests, NEW nonce \in Nonces, NEW recid \in {0, 1},
             SendTransaction(r, nonce, recid)
      PROVE  IInv'
  <2> DEFINE b == Filled(BodyOf(r, nonce))
             tx == Sign(b, r.from, SigningChain, recid)
  <2>1. IsBody(b)
    BY BodyOfIsBody, FilledIsBody
  <2>2. SignedFor(tx, SigningChain) /\ HasSender(tx)
    BY <2>1, SigningChainIsOne, SignIsSignedFor, ChainOfV
  <2>3. Place(tx) /\ UNCHANGED <<wires, db, mined>>
    BY <1>1 DEF SendTransaction, Answer
  <2> HIDE DEF tx, b
  <2>4. PoolIsSigned'
    BY <2>2, <2>3, PlacedIsSigned DEF IsSigned
  <2>5. WiresAreSigned' /\ StoredIsMined'
    BY <2>3 DEF WiresAreSigned, StoredIsMined
  <2> QED BY <2>4, <2>5
<1>2. ASSUME NEW r \in Requests, NEW nonce \in Nonces, NEW recid \in {0, 1},
             SignTransaction(r, nonce, recid)
      PROVE  IInv'
  <2> DEFINE b == Zeroed(BodyOf(r, nonce))
  <2>1. IsBody(b) /\ (b.type # Legacy => b.chainId # Null)
    BY BodyOfIsBody, FilledIsBody, ChainOfBody
  <2>2. wires' = wires \cup {WireOf(Sign(b, r.from, SigningChain, recid), r)}
          /\ UNCHANGED <<pool, db, mined>>
    BY <1>2 DEF SignTransaction
  <2> HIDE DEF b
  <2>3. WiresAreSigned'
    BY <2>1, <2>2, SigningChainIsOne, WireAdded
  <2>4. PoolIsSigned' /\ StoredIsMined'
    BY <2>2 DEF PoolIsSigned, StoredIsMined
  <2> QED BY <2>3, <2>4
<1>3. ASSUME NEW type \in Types, NEW key \in Accounts, NEW chain \in Chains, NEW bound \in BOOLEAN,
             NEW nonce \in Nonces, NEW fee \in Fees, NEW recid \in {0, 1},
             WalletSigns(type, key, chain, bound, nonce, fee, recid)
      PROVE  IInv'
  <2> DEFINE for == IF bound THEN chain ELSE Null
  <2>1. PICK b : /\ IsBody(b)
                 /\ b.type # Legacy => b.chainId # Null
                 /\ wires' = wires \cup {WireOf(Sign(b, key, for, recid), Null)}
    <3>1. chain # Null
      BY TransactionsAssumption DEF TransactionsAssumption
    <3>2. CASE type = Legacy
      <4> DEFINE b == Body(Legacy, Null, nonce, fee, Null, Null, FALSE)
      <4>1. IsLegacy(b) /\ b.type = Legacy
        BY TypeOfBody DEF IsLegacy
      <4>2. wires' = wires \cup {WireOf(Sign(b, key, for, recid), Null)}
        BY <1>3, <3>2 DEF WalletSigns, Legacy, EIP2930AccessList
      <4> QED BY <4>1, <4>2 DEF IsBody
    <3>3. CASE type = EIP2930AccessList
      <4> DEFINE b == Body(EIP2930AccessList, chain, nonce, fee, Null, Null, TRUE)
      <4>1. IsAccessList(b) /\ b.chainId = chain
        BY DEF IsAccessList, Body
      <4>2. wires' = wires \cup {WireOf(Sign(b, key, for, recid), Null)}
        BY <1>3, <3>3 DEF WalletSigns, Legacy, EIP2930AccessList
      <4> QED BY <3>1, <4>1, <4>2 DEF IsBody
    <3>4. CASE type = EIP1559AccessList
      <4> DEFINE b == Body(EIP1559AccessList, chain, nonce, Null, fee, 0, FALSE)
      <4>1. IsFeeMarket(b) /\ b.chainId = chain
        BY DEF IsFeeMarket, Body
      <4>2. wires' = wires \cup {WireOf(Sign(b, key, for, recid), Null)}
        BY <1>3, <3>4 DEF WalletSigns, Legacy, EIP2930AccessList, EIP1559AccessList
      <4> QED BY <3>1, <4>1, <4>2 DEF IsBody
    <3> QED BY <3>2, <3>3, <3>4 DEF Types
  <2>2. WiresAreSigned'
    <3>1. for \in Chains \cup {Null} /\ WiresAreSigned
      BY DEF IInv
    <3> HIDE DEF for
    <3> QED BY <2>1, <3>1, WireAdded
  <2>3. PoolIsSigned' /\ StoredIsMined'
    BY <1>3 DEF WalletSigns, PoolIsSigned, StoredIsMined
  <2> QED BY <2>2, <2>3
<1>4. ASSUME NEW w \in wires, SendRawTransaction(w) \/ SendSigned(w)
      PROVE  IInv'
  <2>1. HasSender(Parsed(w)) /\ Place(Parsed(w)) /\ UNCHANGED <<wires, db, mined>>
    BY <1>4 DEF SendRawTransaction, SendSigned, Accepts, Answer
  <2>2. PoolIsSigned'
    BY <2>1, ParsedIsSigned, PlacedIsSigned
  <2>3. WiresAreSigned' /\ StoredIsMined'
    BY <2>1 DEF WiresAreSigned, StoredIsMined
  <2> QED BY <2>2, <2>3
<1>5. ASSUME NEW tx \in pool, Mine(tx)
      PROVE  IInv'
  <2>1. PoolIsSigned'
    BY <1>5 DEF Mine, PoolIsSigned
  <2>2. StoredIsMined'
    <3>1. CASE UNCHANGED <<db, mined>>
      BY <3>1 DEF StoredIsMined
    <3>2. CASE db' = db \cup {[raw |-> RawOf(tx), from |-> tx.from]} /\ mined' = mined \cup {tx}
      BY <3>2 DEF StoredIsMined
    <3> QED BY <1>5, <3>1, <3>2 DEF Mine
  <2>3. WiresAreSigned'
    BY <1>5 DEF Mine, WiresAreSigned
  <2> QED BY <2>1, <2>2, <2>3
<1>6. CASE UNCHANGED vars
  BY <1>6 DEF vars, PoolIsSigned, WiresAreSigned, StoredIsMined
<1> QED BY <1>1, <1>2, <1>3, <1>4, <1>5, <1>6 DEF Next

LEMMA Invariant == Spec => []IInv
<1>1. Init => IInv
  BY InitInvariant
<1>2. IInv /\ [Next]_vars => IInv'
  BY NextInvariant
<1> QED BY <1>1, <1>2, PTL DEF Spec

(***************************************************************************)
(* Theorems                                                                *)
(***************************************************************************)

\* Whoever pays for a transaction has signed it as it runs, for every chain's id and all
\* requests, fees and hardforks.
THEOREM SendersSign == Spec => []SenderIsSigner
<1>1. IInv => SenderIsSigner
  <2> SUFFICES ASSUME IInv, NEW t \in pool \cup mined
               PROVE  t.sig.key = t.from /\ t.sig.message = HashedOf(t)
    BY DEF SenderIsSigner
  <2>1. HasSender(t)
    BY DEF IInv, PoolIsSigned
  <2>2. PICK chain, b, key, recid :
          IsBody(b) /\ recid \in {0, 1} /\ chain \in Chains \cup {Null} /\ t = Sign(b, key, chain, recid)
    BY DEF IInv, PoolIsSigned, IsSigned, SignedFor
  <2> QED BY <2>1, <2>2, ChainOfV, SignFields
<1> QED BY <1>1, Invariant, PTL

\* A transaction is read from the database as it ran.
THEOREM StoredIsReadAsItself == Spec => []StoredIsItself
<1>1. IInv => StoredIsItself
  <2> SUFFICES ASSUME IInv
               PROVE  {Loaded(stored) : stored \in db} = mined
    BY DEF StoredIsItself
  <2>1. \A t \in mined : Loaded([raw |-> RawOf(t), from |-> t.from]) = t
    BY LoadedIsItself DEF IInv, PoolIsSigned
  <2>2. db = {[raw |-> RawOf(t), from |-> t.from] : t \in mined}
    BY DEF IInv, StoredIsMined
  <2> QED BY <2>1, <2>2
<1> QED BY <1>1, Invariant, PTL

\* Exactly what is meant for this chain can be sent raw: no chain's id makes a v that is
\* taken for this chain's, or for a parity.
THEOREM OwnAreAccepted == Spec => []AcceptsItsOwn
<1>1. IInv => AcceptsItsOwn
  <2> SUFFICES ASSUME IInv, NEW w \in wires
               PROVE  Accepts(w) <=> /\ SignatureOf(w).message.chainId \in {Null, ChainId}
                                     /\ IsActivated(w.type)
    BY DEF AcceptsItsOwn
  <2>1. PICK tx, q, chain : /\ SignedFor(tx, chain)  /\ w = WireOf(tx, q)
                            /\ tx.body.type # Legacy => tx.body.chainId # Null
    BY DEF IInv, WiresAreSigned
  <2>2. PICK b, key, recid :
          IsBody(b) /\ recid \in {0, 1} /\ chain \in Chains \cup {Null} /\ tx = Sign(b, key, chain, recid)
    BY <2>1 DEF SignedFor
  <2>3. tx.body = b /\ tx.sig.message = Message(b, chain)
    BY <2>2, SignFields
  <2>4. w.type = b.type /\ w.payload = Payload(tx)
    BY <2>1, <2>3 DEF WireOf
  <2>5. HasSender(Parsed(w)) <=> (b.type = Legacy => chain \in {Null, ChainId})
    BY <2>1, <2>2, ParsedIsItself, ChainOfV
  <2>6. SignatureOf(w) = tx.sig /\ (b.type # Legacy => w.payload[1] = b.chainId)
    <3>1. CASE IsLegacy(b)
      BY <2>3, <2>4, <3>1, TypeOfBody DEF Payload, SignatureOf, Legacy, EIP2930AccessList
    <3>2. CASE IsAccessList(b)
      BY <2>3, <2>4, <3>2, TypeOfBody DEF Payload, SignatureOf, Legacy, EIP2930AccessList
    <3>3. CASE IsFeeMarket(b)
      BY <2>3, <2>4, <3>3, TypeOfBody
         DEF Payload, SignatureOf, Legacy, EIP2930AccessList, EIP1559AccessList
    <3> QED BY <2>2, <3>1, <3>2, <3>3 DEF IsBody
  <2>7. Message(b, chain).chainId = IF b.type = Legacy THEN chain ELSE b.chainId
    <3>1. CASE IsLegacy(b)
      <4>1. b.type = Legacy /\ "chainId" \in DOMAIN b
        BY <3>1, TypeOfBody DEF IsLegacy, Body
      <4> QED BY <4>1 DEF Message
    <3>2. CASE ~IsLegacy(b)
      BY <2>2, <3>2, TypeOfBody DEF Message, IsBody, Legacy, EIP2930AccessList, EIP1559AccessList
    <3> QED BY <3>1, <3>2
  <2> QED BY <2>1, <2>3, <2>4, <2>5, <2>6, <2>7 DEF Accepts
<1> QED BY <1>1, Invariant, PTL

FeesOf(r, tx) ==
  /\ tx.from = r.from
  /\ IF tx.body.type = EIP1559AccessList
     THEN /\ tx.body.maxFee = Default(r.maxFee, defaultMaxFee)
          /\ tx.body.tip = Default(r.tip, Gwei)
          /\ r.gasPrice # Null => r.type = EIP1559AccessList
     ELSE /\ tx.body.gasPrice = Default(r.gasPrice, defaultGasPrice)
          /\ {r.maxFee, r.tip} # {Null} => hardfork < London \/ r.gasPrice # Null

\* A request is made of type 2 if it asks for it, or has no gas price, and that from London on.
LEMMA TypeMade ==
  ASSUME NEW r \in Requests, hardfork \in Homestead..London, ~Refuses(r)
  PROVE  /\ TypeFor(r) \in Types
         /\ TypeFor(r) = EIP1559AccessList => r.gasPrice = Null \/ r.type = EIP1559AccessList
         /\ TypeFor(r) # EIP1559AccessList => hardfork < London \/ r.gasPrice # Null
<1>1. r.type \in Types \cup {Null}
  BY TransactionsAssumption DEF TransactionsAssumption
<1>2. typeOfRPC(r) \in Types /\ (typeOfRPC(r) = EIP1559AccessList => r.type = EIP1559AccessList)
  BY <1>1 DEF typeOfRPC, Types, Legacy, EIP1559AccessList
<1> QED BY <1>1, <1>2
        DEF TypeFor, toEIP1559, Types, Legacy, EIP2930AccessList, EIP1559AccessList,
            Homestead, Berlin, London

LEMMA SentWithItsFees ==
  ASSUME NEW r \in Requests, NEW nonce, NEW chain, NEW recid,
         hardfork \in Homestead..London, ~Refuses(r)
  PROVE  FeesOf(r, Sign(Filled(BodyOf(r, nonce)), r.from, chain, recid))
<1> DEFINE b == BodyOf(r, nonce)
           tx == Sign(Filled(b), r.from, chain, recid)
<1>0. tx.from = r.from /\ tx.body = Filled(b)
  BY SignFields
<1> USE TypeMade
<1>1. CASE TypeFor(r) = Legacy
  <2>1. b.type = Legacy /\ b.gasPrice = r.gasPrice /\ "gasPrice" \in DOMAIN b
    BY <1>1, TypeOfBody, Fields DEF BodyOf, Body, Legacy, EIP2930AccessList
  <2>2. Filled(b).type = Legacy /\ Filled(b).gasPrice = Default(r.gasPrice, defaultGasPrice)
    BY <2>1 DEF Filled, Legacy, EIP1559AccessList
  <2> QED BY <1>0, <1>1, <2>2 DEF FeesOf, Legacy, EIP1559AccessList
<1>2. CASE TypeFor(r) = EIP2930AccessList
  <2>1. b = Body(EIP2930AccessList, ChainOf(r), nonce, r.gasPrice, Null, Null, r.list)
    BY <1>2 DEF BodyOf, Legacy, EIP2930AccessList
  <2>2. Filled(b).type = EIP2930AccessList
          /\ Filled(b).gasPrice = Default(r.gasPrice, defaultGasPrice)
    BY <2>1 DEF Filled, Body, EIP2930AccessList, EIP1559AccessList
  <2> QED BY <1>0, <1>2, <2>2 DEF FeesOf, EIP2930AccessList, EIP1559AccessList
<1>3. CASE TypeFor(r) \notin {Legacy, EIP2930AccessList}
  <2>1. b = Body(EIP1559AccessList, ChainOf(r), nonce, Null, r.maxFee, TipOf(r), r.list)
    BY <1>3 DEF BodyOf
  <2>2. Filled(b).type = EIP1559AccessList
          /\ Filled(b).maxFee = Default(r.maxFee, defaultMaxFee)
          /\ Filled(b).tip = Default(TipOf(r), Gwei)
    BY <2>1 DEF Filled, Body
  <2>3. Default(TipOf(r), Gwei) = Default(r.tip, Gwei)
    BY TransactionsAssumption DEF TransactionsAssumption, TipOf, Default
  <2>4. TypeFor(r) = EIP1559AccessList
    BY <1>3 DEF Types
  <2> QED BY <1>0, <2>2, <2>3, <2>4 DEF FeesOf
<1> QED BY <1>1, <1>2, <1>3

\* Of the fees that its type has, those that a request gives are its transaction's, and others
\* are the defaults; given fees of the other kind are dropped only by a request that asks for
\* type 2, that gives both kinds, or before London: for all requests and hardforks.
THEOREM FeesAreKept == Spec => []FeesAreAsGiven
<1> DEFINE Inv == /\ hardfork \in Homestead..London
                  /\ \A a \in answered : a.request # Null => FeesOf(a.request, a.tx)
<1>1. Init => Inv
  BY DEF Init
<1>2. Inv /\ [Next]_vars => Inv'
  <2> SUFFICES ASSUME Inv, [Next]_vars
               PROVE  Inv'
    OBVIOUS
  <2>0. UNCHANGED hardfork
    BY DEF Next, SendTransaction, SignTransaction, WalletSigns, SendRawTransaction, SendSigned, Mine,
           vars
  <2>1. ASSUME NEW request, NEW tx, Answer(request, tx), request # Null => FeesOf(request, tx)
        PROVE  Inv'
    <3>1. answered' = answered \cup {[request |-> request, tx |-> tx]}
      BY <2>1 DEF Answer
    <3>2. \A a \in answered' : a \in answered \/ (a.request = request /\ a.tx = tx)
      BY <3>1
    <3>3. \A a \in answered' : a.request # Null => FeesOf(a.request, a.tx)
      BY <2>1, <3>2
    <3> QED BY <2>0, <3>3 DEF FeesOf, Default
  <2>2. ASSUME NEW r \in Requests, NEW nonce \in Nonces, NEW recid \in {0, 1},
               SendTransaction(r, nonce, recid)
        PROVE  Inv'
    BY <2>1, <2>2, SentWithItsFees DEF SendTransaction
  <2>3. ASSUME NEW w \in wires, SendRawTransaction(w)
        PROVE  Inv'
    BY <2>1, <2>3 DEF SendRawTransaction
  <2>4. CASE UNCHANGED answered
    BY <2>0, <2>4 DEF FeesOf, Default
  <2> QED BY <2>2, <2>3, <2>4
          DEF Next, SignTransaction, WalletSigns, SendSigned, Mine, vars
<1>3. Inv => FeesAreAsGiven
  BY DEF FeesAreAsGiven, FeesOf
<1> QED BY <1>1, <1>2, <1>3, PTL DEF Spec

\* Whoever pays for a transaction has signed it with the sender and the fees that were asked
\* for, but for the dropped ones: the two above.
THEOREM SignersAsked == Spec => []SignedAsAsked
<1>1. SenderIsSigner /\ FeesAreAsGiven => SignedAsAsked
  BY DEF SignedAsAsked
<1> QED BY <1>1, SendersSign, FeesAreKept, PTL
=============================================================================
