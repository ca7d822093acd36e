-------------------------- MODULE FilecoinMessages --------------------------
(***************************************************************************)
(* How a message gets into the pool of the Filecoin flavor.  push()         *)
(* (MpoolPushMessage) fills in the gas, looks at the funds, signs and       *)
(* checks the message.  A client may instead have it signed first          *)
(* (WalletSignMessage) and send it signed (MpoolPush): pushSigned() only    *)
(* checks it.                                                              *)
(*                                                                         *)
(* Params are 0 when they are empty, else how often they have been encoded: *)
(* a message made of a serialized one has its Params encoded once more.    *)
(* Signatures are external: a BLS one holds for its signer and content,    *)
(* one of secp256k1 for whoever it is recovered from.                      *)
(***************************************************************************)
EXTENDS Naturals, FiniteSets

CONSTANTS
  MessageGas,      \* getGasForOnChainMessage(): of the message's size
  SendBase, TransferGas,
  DefaultPremium, MinimumBaseFee, BlockGasLimit, TotalFilecoin,
  Amounts,         \* values, gas limits and fees that are sent
  Funds            \* what the sender may have

VARIABLES
  way,        \* "push" or "signed"
  asked,      \* the message that the client wants to send
  maxFee,     \* of MessageSendSpec, 0 if there is none
  funds,      \* the sender's balance
  pending,    \* what the sender's messages in the pool may cost
  message, signature,
  stage       \* "called", "filled", "paid", "signed", "pooled", "refused"

vars == <<way, asked, maxFee, funds, pending, message, signature, stage>>

\* Addresses, by what parseProtocol() makes of them.
BLS == "bls"
Secp == "secp256k1"
Addresses == {BLS, Secp, "id", "unknown", "empty", "zero"}

ParseProtocol(address) ==
  CASE address \in {BLS, "zero"} -> "bls"
    [] address = Secp -> "secp256k1"
    [] address = "id" -> "id"
    [] OTHER -> "unknown"

Plain ==
  [version |-> 0, to |-> BLS, from |-> BLS, nonce |-> 0, value |-> 1, gasLimit |-> 0,
   gasFeeCap |-> 0, gasPremium |-> 0, method |-> 0, params |-> 0]

\* Messages that differ from a plain one in value and gas, or in one of the others.
ClientMessages ==
  [version : {0}, to : {BLS}, from : {BLS}, nonce : {0}, value : Amounts, gasLimit : Amounts,
   gasFeeCap : Amounts, gasPremium : Amounts, method : {0}, params : {0, 1}]
  \cup {[Plain EXCEPT ![k] = 1] : k \in {"version", "nonce", "method"}}
  \cup {[Plain EXCEPT !.from = p[1], !.to = p[2]] : p \in Addresses \X Addresses}

NoSignature == [type |-> "unknown", by |-> "nobody", content |-> Plain]

Init ==
  /\ way \in {"push", "signed"}
  /\ asked \in ClientMessages
  /\ maxFee \in IF way = "push" THEN Amounts ELSE {0}
  /\ funds \in Funds
  /\ pending \in {0, 2}
  /\ message = asked
  /\ signature = NoSignature
  /\ stage = "called"

Refused ==
  /\ stage' = "refused"
  /\ UNCHANGED <<message, signature>>

(***************************************************************************)
(* fillGasInformation()                                                    *)
(***************************************************************************)

GasForMethodInvocation(m) ==
  SendBase + (IF m.value # 0 THEN TransferGas ELSE 0)

GasForMessage(m) == MessageGas + GasForMethodInvocation(m)

Or(n, default) == IF n = 0 THEN default ELSE n

WithGas(m) ==
  LET premium == Or(m.gasPremium, DefaultPremium)
  IN [m EXCEPT !.gasLimit = Or(m.gasLimit, GasForMessage(m)),
               !.gasPremium = premium,
               !.gasFeeCap = Or(m.gasFeeCap, premium)]

Least(a, b) == IF a <= b THEN a ELSE b

\* Mutant: only a premium is lowered, the cap stays.
CappedPremium(m, max) ==
  IF max = 0 \/ m.gasLimit * m.gasFeeCap <= max THEN m
  ELSE [m EXCEPT !.gasPremium = Least(max \div m.gasLimit, m.gasPremium)]

\* The fee cap, and the premium with it, are lowered to what the sender would spend.
Capped(m, max) ==
  IF max = 0 \/ m.gasLimit * m.gasFeeCap <= max THEN m
  ELSE LET cap == max \div m.gasLimit
       IN [m EXCEPT !.gasFeeCap = cap, !.gasPremium = Least(cap, m.gasPremium)]

FillGasInformation(m, max) == Capped(WithGas(m), max)

(***************************************************************************)
(* push()                                                                  *)
(***************************************************************************)

Remade(m) == [m EXCEPT !.params = IF m.params = 0 THEN 0 ELSE m.params + 1]

InvalidProtocol(address) == ParseProtocol(address) \in {"id", "unknown"}

Push ==
  /\ way = "push" /\ stage = "called"
  /\ IF \/ message.method # 0 \/ message.nonce # 0
        \/ InvalidProtocol(message.from) \/ InvalidProtocol(message.to)
       THEN Refused
       ELSE /\ message' = FillGasInformation(message, maxFee)
            /\ stage' = "filled"
            /\ UNCHANGED signature
  /\ UNCHANGED <<way, asked, maxFee, funds, pending>>

Required(m) == m.gasFeeCap * m.gasLimit + m.value

CheckFunds ==
  /\ stage = "filled"
  /\ IF funds < Required(message) + pending
       THEN Refused
       ELSE stage' = "paid" /\ UNCHANGED <<message, signature>>
  /\ UNCHANGED <<way, asked, maxFee, funds, pending>>

\* Address.signMessage(), and the type that the caller gives the signature.
SignMessage(m, type) == [type |-> type, by |-> m.from, content |-> m]

\* The signature is of the message, the signed message is made of it serialized.
Sign ==
  /\ stage = "paid"
  /\ signature' = SignMessage(message, "bls")
  /\ message' = Remade(message)
  /\ stage' = "signed"
  /\ UNCHANGED <<way, asked, maxFee, funds, pending>>

\* The client gets the signed message serialized, and sends it like that.
WalletSignMessage ==
  /\ way = "signed" /\ stage = "called"
  /\ IF ParseProtocol(message.from) \notin {"bls", "secp256k1"}
       THEN Refused
       ELSE /\ signature' = SignMessage(message, ParseProtocol(message.from))
            /\ message' = Remade(message)
            /\ stage' = "signed"
  /\ UNCHANGED <<way, asked, maxFee, funds, pending>>

(***************************************************************************)
(* pushSigned()                                                            *)
(***************************************************************************)

ValidForBlockInclusion(m) ==
  /\ m.version = 0
  /\ m.to \notin {"empty", "zero"}
  /\ m.from # "empty"
  /\ m.value <= TotalFilecoin
  /\ m.gasPremium <= m.gasFeeCap
  /\ m.gasLimit <= BlockGasLimit

\* A signature of secp256k1 is shorter than the 90 bytes of BLS that sigCacheKey() asks for.
TooShort(s) == s.type = "bls" /\ s.by = Secp

\* Address.verifySignature()
VerifySignature(address, content, s) ==
  CASE ParseProtocol(address) = "bls" -> s.by = address /\ s.content = content
    [] ParseProtocol(address) = "secp256k1" -> s.by = Secp
    [] OTHER -> FALSE

VerifyMessageSignature(m, s) ==
  /\ s.type \in {"bls", "secp256k1"}
  /\ ~TooShort(s)
  /\ ParseProtocol(m.from) # "id"
  /\ VerifySignature(m.from, m, s)

CheckMessage(m, s) ==
  /\ ValidForBlockInclusion(m)
  /\ m.gasFeeCap >= MinimumBaseFee
  /\ VerifyMessageSignature(m, s)

PushSigned ==
  /\ stage = "signed"
  /\ IF CheckMessage(message, signature)
       THEN stage' = "pooled" /\ UNCHANGED <<message, signature>>
       ELSE Refused
  /\ UNCHANGED <<way, asked, maxFee, funds, pending>>

Next == Push \/ CheckFunds \/ Sign \/ WalletSignMessage \/ PushSigned

Spec == Init /\ [][Next]_vars

(***************************************************************************)
(* Properties                                                              *)
(***************************************************************************)

MinerFee(m) == m.gasLimit * m.gasPremium

\* A message that is pushed can pay its miner and its value with what the sender has, next
\* to all that is in the pool; it costs no more than the sender would spend.
PushedIsPaidFor ==
  way = "push" /\ stage = "pooled" =>
    /\ MinerFee(message) + message.value + pending <= funds
    /\ maxFee # 0 => MinerFee(message) <= maxFee

\* What is in the pool has been signed by its sender, with the Params that it has there.
PooledIsSigned ==
  stage = "pooled" =>
    /\ signature.by = message.from
    /\ ParseProtocol(message.from) = "bls" => signature.content = message

\* A transfer within the sender's means that leaves the gas to Ganache: from an account
\* of this protocol, and with these Params.
Ordinary(protocol, params) ==
  /\ asked = [Plain EXCEPT !.from = protocol, !.value = asked.value, !.params = asked.params]
  /\ asked.value <= TotalFilecoin
  /\ asked.params \in params
  /\ way = "push" /\ maxFee = 0
  /\ funds >= Required(WithGas(asked)) + pending

\* It is not refused if it is from a BLS account and without Params.
OrdinaryIsPooled == stage = "refused" => ~Ordinary(BLS, {0})

PushIsSound == PushedIsPaidFor /\ PooledIsSigned /\ OrdinaryIsPooled

\* Refuted: "please use a BLS or SECP256K1 address", but those of secp256k1 are refused.
SecpIsPooled == stage = "refused" => ~Ordinary(Secp, {0})

\* Refuted: nor may there be Params, as what is checked is not what was signed.
ParamsArePooled == stage = "refused" => ~Ordinary(BLS, {0, 1})
=============================================================================
