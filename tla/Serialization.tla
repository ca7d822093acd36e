---------------------------- MODULE Serialization ----------------------------
(***************************************************************************)
(* The things of the Filecoin flavor (things/*.ts): what clients send,      *)
(* what they are answered and what the database holds.  A class lists its   *)
(* fields, each with two names and a default.  A thing is made from an     *)
(* object with either names, is serialized to one with the second ones, as *)
(* JSON, and is made from that again when it is read.                      *)
(*                                                                         *)
(* A value of JavaScript is a pair of its type and its content; strings    *)
(* that encode something have a type of their own.  Bytes are given by the *)
(* string that they are the characters of.                                 *)
(***************************************************************************)
EXTENDS Integers, Sequences, FiniteSets

UndefinedValue == <<"undefined", 0>>
Null == <<"null", 0>>
Num(n) == <<"number", n>>
Bool(b) == <<"boolean", b>>
Big(n) == <<"bigint", n>>
Bytes(s) == <<"bytes", s>>
Day(n) == <<"date", n>>
Array(s) == <<"array", s>>
Object(f) == <<"object", f>>
Literal(class, v) == <<"literal", <<class, v>>>>
Thing(class, f) == <<"thing", <<class, f>>>>

\* Strings: plain, of digits, in base 64, of a date, and the CID of what is serialized.
Text(s) == <<"text", s>>
Decimal(n) == <<"decimal", n>>
Base64(s) == <<"base64", s>>
Iso(n) == <<"iso", n>>
Hash(v) == <<"cid", v>>

Is(type, v) == v[1] = type

Truthy(v) == v \notin {UndefinedValue, Null, Num(0), Bool(FALSE), Big(0), Text("")}

ToBase64(s) == IF s = Text("") THEN s ELSE Base64(s)

\* Buffer.from(literal)
FromText(s) == s

\* Buffer.from(literal, "base64")
FromBase64(s) == IF s = Text("") THEN s ELSE s[2]

ZeroByte == Bytes(Text("0"))

(***************************************************************************)
(* The defaults: a value, or a function of what was serialized.            *)
(***************************************************************************)

F(name, serial, default) == [name |-> name, serial |-> serial, default |-> default]

Plain(v) == [kind |-> "plain", value |-> v]
Given(v) == [kind |-> "given", value |-> v]       \* the input unless it is undefined
Or(v) == [kind |-> "or", value |-> v]             \* the input unless it is falsy
Integer(n) == [kind |-> "integer", value |-> Big(n)]
Binary == [kind |-> "binary"]
TextBinary == [kind |-> "text binary"]
New(class) == [kind |-> "new", class |-> class]
NewOr(class, v) == [kind |-> "new or", class |-> class, value |-> v]
List(class) == [kind |-> "list", class |-> class]

CIDOf(s) == Thing("RootCID", [root |-> Literal("CID", s)])
NullCID == Text("cid of 0")
MinerAddress == Literal("Address", Text("t01000"))
FirstAddress == Literal("Address", Text("t0100"))
RandomAddress == Literal("Address", Text("random"))

(***************************************************************************)
(* The classes.                                                            *)
(***************************************************************************)

RootCID == <<F("root", "/", NewOr("CID", Literal("CID", NullCID)))>>

Ticket == <<F("vrfProof", "VRFProof", Binary)>>

ElectionProof ==
  <<F("winCount", "WinCount", Plain(Num(1))), F("vrfProof", "VRFProof", Binary)>>

BeaconEntry == <<F("round", "Round", Plain(Num(0))), F("data", "Data", Binary)>>

PoStProof ==
  <<F("postProof", "PoStProof", Plain(Num(0))), F("proofBytes", "ProofBytes", Binary)>>

SigTypeUnknown == Num(255)
SigTypeBLS == Num(2)

Signature == <<F("type", "Type", Plain(SigTypeUnknown)), F("data", "Data", Binary)>>

KeyInfo == <<F("type", "Type", Plain(Text("bls"))), F("privateKey", "PrivateKey", Binary)>>

BlockHeader == <<
  F("miner", "Miner", NewOr("Address", MinerAddress)),
  F("ticket", "Ticket", New("Ticket")),
  F("electionProof", "ElectionProof", New("ElectionProof")),
  F("beaconEntries", "BeaconEntries", List("BeaconEntry")),
  F("winPoStProof", "WinPoStProof", List("PoStProof")),
  F("parents", "Parents", List("RootCID")),
  F("parentWeight", "ParentWeight", Integer(0)),
  F("height", "Height", Plain(Num(0))),
  F("parentStateRoot", "ParentStateRoot", New("RootCID")),
  F("parentMessageReceipts", "ParentMessageReceipts", New("RootCID")),
  F("messages", "Messages", New("RootCID")),
  F("blsAggregate", "BLSAggregate", New("Signature")),
  F("timestamp", "Timestamp", Given(Num(1000))),
  F("blockSignature", "BlockSig", New("Signature")),
  F("forkSignaling", "ForkSignaling", Plain(Num(0))),
  F("parentBaseFee", "ParentBaseFee", Integer(0))>>

Tipset == <<
  F("cids", "Cids", List("RootCID")),
  F("blocks", "Blocks", List("BlockHeader")),
  F("height", "Height", Plain(Num(0)))>>

HeadChange == <<F("type", "Type", Or(Text("current"))), F("val", "Val", New("Tipset"))>>

Message == <<
  F("version", "Version", Plain(Num(0))),
  F("to", "To", Plain(Text(""))),
  F("from", "From", Plain(Text(""))),
  F("nonce", "Nonce", Plain(Num(0))),
  F("value", "Value", Integer(0)),
  F("gasLimit", "GasLimit", Plain(Num(0))),
  F("gasFeeCap", "GasFeeCap", Integer(0)),
  F("gasPremium", "GasPremium", Integer(0)),
  F("method", "Method", Plain(Num(0))),
  F("params", "Params", TextBinary)>>

MessageSendSpec == <<F("maxFee", "MaxFee", Integer(0))>>

SignedMessage ==
  <<F("message", "Message", New("Message")), F("signature", "Signature", New("Signature"))>>

BlockMessages == <<
  F("blsMessages", "BlsMessages", List("Message")),
  F("secpkMessages", "SecpkMessages", List("SignedMessage")),
  F("cids", "Cids", List("RootCID"))>>

Account == <<
  F("address", "Address", NewOr("Address", RandomAddress)),
  F("balance", "Balance", NewOr("Balance", Literal("Balance", Big(0)))),
  F("nonce", "Nonce", Plain(Num(0)))>>

PowerClaim == <<
  F("rawBytePower", "RawBytePower", Integer(1)),
  F("qualityAdjPower", "QualityAdjPower", Integer(1))>>

MinerPower == <<
  F("minerPower", "MinerPower", New("PowerClaim")),
  F("totalPower", "TotalPower", New("PowerClaim")),
  F("hasMinPower", "HasMinPower", Plain(Bool(FALSE)))>>

NoChange == Num(-1)

MinerInfo == <<
  F("owner", "Owner", NewOr("Address", MinerAddress)),
  F("worker", "Worker", NewOr("Address", MinerAddress)),
  F("newWorker", "NewWorker", NewOr("Address", MinerAddress)),
  F("controlAddresses", "ControlAddresses", Plain(Array(<<>>))),
  F("workerChangeEpoch", "WorkerChangeEpoch", Given(NoChange)),
  F("peerId", "PeerId", Plain(Text("0"))),
  F("multiaddrs", "Multiaddrs", Plain(Array(<<>>))),
  F("sealProofType", "SealProofType", Given(Num(5))),
  F("sectorSize", "SectorSize", Plain(Num(2048))),
  F("windowPoStPartitionSectors", "WindowPoStPartitionSectors", Given(Num(0))),
  F("consensusFaultElapsed", "ConsensusFaultElapsed", Given(NoChange))>>

Version == <<
  F("version", "Version", Plain(Text("@ganache/filecoin"))),
  F("apiVersion", "APIVersion", Plain(Num(66560))),
  F("blockDelay", "BlockDelay", Integer(0))>>

FileRef ==
  <<F("path", "Path", Plain(Text(""))), F("isCAR", "IsCAR", Plain(Bool(FALSE)))>>

ChannelID == <<
  F("initiator", "Initiator", Plain(Text(""))),
  F("responder", "Responder", Plain(Text(""))),
  F("id", "ID", Plain(Num(0)))>>

DataTransferChannel == <<
  F("transferId", "TransferID", Plain(Num(0))),
  F("status", "Status", Plain(Num(0))),
  F("baseCID", "BaseCID", NewOr("RootCID", CIDOf(Text("Unknown")))),
  F("isInitiator", "IsInitiator", Plain(Bool(FALSE))),
  F("isSender", "IsSender", Plain(Bool(FALSE))),
  F("voucher", "Voucher", Plain(Text(""))),
  F("message", "Message", Plain(Text(""))),
  F("otherPeer", "OtherPeer", Plain(Text(""))),
  F("transferred", "Transferred", Plain(Num(0)))>>

StorageMarketDataRef == <<
  F("transferType", "TransferType", Plain(Text("graphsync"))),
  F("root", "Root", New("RootCID")),
  F("pieceCid", "PieceCid",
    NewOr("RootCID", CIDOf(Text("Piece CIDs are not supported in Ganache")))),
  F("pieceSize", "PieceSize", Plain(Num(0)))>>

StartDealParams == <<
  F("data", "Data", New("StorageMarketDataRef")),
  F("wallet", "Wallet", NewOr("Address", Null)),
  F("miner", "Miner", NewOr("Address", MinerAddress)),
  F("epochPrice", "EpochPrice", Integer(2500)),
  F("minBlocksDuration", "MinBlocksDuration", Plain(Num(300))),
  F("providerCollateral", "ProviderCollateral", Integer(0)),
  F("dealStartEpoch", "dealStartEpoch", Plain(Num(0))),
  F("fastRetrieval", "FastRetrieval", Plain(Bool(FALSE))),
  F("verifiedDeal", "VerifiedDeal", Plain(Bool(FALSE)))>>

DealInfo == <<
  F("proposalCid", "ProposalCid", New("RootCID")),
  F("state", "State", Plain(Num(0))),
  F("message", "Message", Plain(Text(""))),
  F("provider", "Provider", NewOr("Address", MinerAddress)),
  F("dataRef", "DataRef", New("StorageMarketDataRef")),
  F("pieceCid", "PieceCID", NewOr("RootCID", Null)),
  F("size", "Size", Plain(Num(0))),
  F("pricePerEpoch", "PricePerEpoch", Integer(0)),
  F("duration", "Duration", Plain(Num(0))),
  F("dealId", "DealID", Plain(Num(0))),
  F("creationTime", "CreationTime", Plain(Day(1))),
  F("verified", "Verified", Plain(Bool(FALSE))),
  F("transferChannelId", "TransferChannelID", New("ChannelID")),
  F("dataTransfer", "DataTransfer", New("DataTransferChannel"))>>

RetrievalPeer == <<
  F("address", "Address", NewOr("Address", MinerAddress)),
  F("id", "ID", Plain(Text("0"))),
  F("pieceCID", "PieceCID", New("RootCID"))>>

QueryOffer == <<
  F("err", "Err", Plain(Text(""))),
  F("root", "Root", New("RootCID")),
  F("piece", "Piece", New("RootCID")),
  F("size", "Size", Plain(Num(0))),
  F("minPrice", "MinPrice", Integer(0)),
  F("unsealPrice", "UnsealPrice", Integer(0)),
  F("paymentInterval", "PaymentInterval", Plain(Num(1048576))),
  F("paymentIntervalIncrease", "PaymentIntervalIncrease", Plain(Num(1048576))),
  F("miner", "Miner", NewOr("Address", MinerAddress)),
  F("minerPeer", "MinerPeer", New("RetrievalPeer"))>>

RetrievalOrder == <<
  F("root", "Root", New("RootCID")),
  F("piece", "Piece", New("RootCID")),
  F("size", "Size", Plain(Num(0))),
  F("total", "Total", Integer(0)),
  F("unsealPrice", "UnsealPrice", Integer(0)),
  F("paymentInterval", "PaymentInterval", Plain(Num(1048576))),
  F("paymentIntervalIncrease", "PaymentIntervalIncrease", Plain(Num(1048576))),
  F("client", "Client", NewOr("Address", FirstAddress)),
  F("miner", "Miner", NewOr("Address", MinerAddress)),
  F("minerPeer", "MinerPeer", New("RetrievalPeer"))>>

Config == [
  RootCID |-> RootCID, Ticket |-> Ticket, ElectionProof |-> ElectionProof,
  BeaconEntry |-> BeaconEntry, PoStProof |-> PoStProof, Signature |-> Signature,
  KeyInfo |-> KeyInfo, BlockHeader |-> BlockHeader, Tipset |-> Tipset,
  HeadChange |-> HeadChange, Message |-> Message, MessageSendSpec |-> MessageSendSpec,
  SignedMessage |-> SignedMessage, BlockMessages |-> BlockMessages, Account |-> Account,
  PowerClaim |-> PowerClaim, MinerPower |-> MinerPower, MinerInfo |-> MinerInfo,
  Version |-> Version, FileRef |-> FileRef, ChannelID |-> ChannelID,
  DataTransferChannel |-> DataTransferChannel, StorageMarketDataRef |-> StorageMarketDataRef,
  StartDealParams |-> StartDealParams, DealInfo |-> DealInfo, RetrievalPeer |-> RetrievalPeer,
  QueryOffer |-> QueryOffer, RetrievalOrder |-> RetrievalOrder]

Classes == DOMAIN Config

Fields(class) == {Config[class][i] : i \in DOMAIN Config[class]}

FieldOf(class, name) == CHOOSE f \in Fields(class) : f.name = name

(***************************************************************************)
(* Making a thing, and serializing it.                                     *)
(***************************************************************************)

RECURSIVE Make(_, _), Serialize(_), CidOf(_)

\* Mutant: every buffer is read as the one of a message is.
ReadBytesAsText(s) == FromText(s)

ReadBytes(s) == FromBase64(s)

\* A literal that is given is kept, but a balance is made a number of.
MakeLiteral(class, v) ==
  IF class # "Balance" THEN Literal(class, v)
  ELSE Literal(class, IF Truthy(v) THEN Big(v[2]) ELSE Big(100))

DefaultValue(default, s) ==
  CASE default.kind = "plain" -> IF s # UndefinedValue THEN s ELSE default.value
    [] default.kind = "given" -> IF s # UndefinedValue THEN s ELSE default.value
    [] default.kind = "or" -> IF Truthy(s) THEN s ELSE default.value
    [] default.kind = "integer" -> IF Truthy(s) THEN Big(s[2]) ELSE default.value
    [] default.kind = "binary" -> IF s # UndefinedValue THEN Bytes(ReadBytes(s)) ELSE ZeroByte
    [] default.kind = "text binary" -> IF s # UndefinedValue THEN Bytes(FromText(s)) ELSE ZeroByte
    [] default.kind = "new" -> Make(default.class, s)
    [] default.kind = "new or" -> IF Truthy(s) THEN Make(default.class, s) ELSE default.value
    [] default.kind = "list" ->
         IF Truthy(s) THEN Array([i \in DOMAIN s[2] |-> Make(default.class, s[2][i])])
         ELSE Array(<<>>)

InitializeValue(f, options) ==
  IF f.name \in DOMAIN options THEN options[f.name]
  ELSE DefaultValue(f.default,
                    IF f.serial \in DOMAIN options THEN options[f.serial] ELSE UndefinedValue)

CidsOf(things) == [i \in DOMAIN things |-> CIDOf(CidOf(things[i]))]

WithCids(f, things) == [f EXCEPT !.cids = Array(f.cids[2] \o CidsOf(things))]

\* Tipset's constructor, unless it is given CIDs.
OfTipset(f) == IF f.cids[2] = <<>> THEN WithCids(f, f.blocks[2]) ELSE f

\* initializeCids()
OfMessages(f) ==
  IF Len(f.cids[2]) # Len(f.blsMessages[2]) + Len(f.secpkMessages[2])
    THEN WithCids(f, f.blsMessages[2] \o f.secpkMessages[2])
    ELSE f

Make(class, v) ==
  IF class \notin Classes THEN MakeLiteral(class, v)
  ELSE LET options == IF Truthy(v) THEN v[2] ELSE <<>>
           fields == [name \in {f.name : f \in Fields(class)} |->
                        InitializeValue(FieldOf(class, name), options)]
       IN Thing(class, CASE class = "Tipset" -> OfTipset(fields)
                         [] class = "BlockMessages" -> OfMessages(fields)
                         [] OTHER -> fields)

SerializeThing(class, fields) ==
  Object([serial \in {f.serial : f \in Fields(class)} |->
            Serialize(fields[(CHOOSE f \in Fields(class) : f.serial = serial).name])])

Serialize(v) ==
  CASE Is("bigint", v) -> Decimal(v[2])
    [] Is("bytes", v) -> ToBase64(v[2])
    [] Is("literal", v) -> Serialize(v[2][2])
    [] Is("thing", v) -> SerializeThing(v[2][1], v[2][2])
    [] Is("array", v) -> Array([i \in DOMAIN v[2] |-> Serialize(v[2][i])])
    [] OTHER -> v

\* A message signed with BLS has the CID of the message.
CidOf(thing) ==
  IF thing[2][1] = "SignedMessage" /\ thing[2][2].signature[2][2].type = SigTypeBLS
    THEN CidOf(thing[2][2].message)
    ELSE Hash(Serialize(thing))

\* JSON.parse(JSON.stringify(v)) of what serialize() returns: only dates change.
Json(v) ==
  Object([k \in DOMAIN v[2] |-> IF Is("date", v[2][k]) THEN Iso(v[2][k][2]) ELSE v[2][k]])

(***************************************************************************)
(* What clients send: no field, one of them, or all; as a rule not the      *)
(* default, and also what is false as a condition.                         *)
(***************************************************************************)

Another(v) ==
  CASE Is("number", v) -> Num(v[2] + 7)
    [] Is("boolean", v) -> Bool(TRUE)
    [] Is("text", v) -> Text("x")
    [] Is("array", v) -> Array(<<Text("x")>>)
    [] Is("date", v) -> Iso(2)

RECURSIVE Sample(_)

Sample(default) ==
  CASE default.kind \in {"plain", "given", "or"} -> Another(default.value)
    [] default.kind = "integer" -> Decimal(7)
    [] default.kind \in {"binary", "text binary"} -> Base64(Text("x"))
    [] default.kind \in {"new", "new or"} ->
         IF default.class \notin Classes
           THEN IF default.class = "Balance" THEN Decimal(7) ELSE Text("x")
           ELSE Object([serial \in {f.serial : f \in Fields(default.class)} |->
                  Sample((CHOOSE f \in Fields(default.class) : f.serial = serial).default)])
    [] default.kind = "list" -> Array(<<Sample(New(default.class)), Object(<<>>)>>)

Falsy(default) ==
  CASE default.kind = "plain" /\ Is("number", default.value) -> {Num(0)}
    [] default.kind = "given" -> {Num(0)}
    [] default.kind = "plain" /\ Is("text", default.value) -> {Text("")}
    [] default.kind = "or" -> {Text("")}
    [] default.kind = "integer" -> {Decimal(0)}
    [] default.kind \in {"binary", "text binary"} -> {Text("")}
    [] default.kind = "new or" /\ default.value = Null -> {Null}
    [] default.kind = "list" -> {Array(<<>>)}
    [] OTHER -> {}

\* Block messages are made of messages, or of their CIDs as they are stored.
All(class) ==
  LET sample == Sample(New(class))[2]
  IN IF class = "BlockMessages" THEN [k \in DOMAIN sample \ {"Cids"} |-> sample[k]]
     ELSE sample

Inputs(class) ==
  {<<>>, All(class)} \cup
  UNION {{[serial \in {f.serial} |-> s] : s \in {Sample(f.default)} \cup Falsy(f.default)} :
           f \in Fields(class)}

\* The same fields by their other names, with the values that the code has there.
Deserialized(class, input) ==
  LET given == {f \in Fields(class) : f.serial \in DOMAIN input}
  IN [name \in {f.name : f \in given} |->
        DefaultValue(FieldOf(class, name).default, input[FieldOf(class, name).serial])]

(***************************************************************************)
(* Manager: a thing is stored as JSON, and made from it when it is read.    *)
(***************************************************************************)

VARIABLES class, input, thing, stored, stage

vars == <<class, input, thing, stored, stage>>

Init ==
  /\ class \in Classes
  /\ input \in Inputs(class)
  /\ thing = UndefinedValue
  /\ stored = UndefinedValue
  /\ stage = "sent"

Receive ==
  /\ stage = "sent"
  /\ thing' = Make(class, Object(input))
  /\ stage' = "made"
  /\ UNCHANGED <<class, input, stored>>

Set ==
  /\ stage = "made"
  /\ stored' = Json(Serialize(thing))
  /\ stage' = "set"
  /\ UNCHANGED <<class, input, thing>>

Get ==
  /\ stage = "set"
  /\ thing' = Make(class, stored)
  /\ stage' = "got"
  /\ UNCHANGED <<class, input, stored>>

Next == Receive \/ Set \/ Get

Spec == Init /\ [][Next]_vars

(***************************************************************************)
(* Properties                                                              *)
(***************************************************************************)

RECURSIVE WithoutParams(_)
WithoutParams(v) ==
  CASE Is("object", v) ->
         Object([k \in DOMAIN v[2] \ {"Params"} |-> WithoutParams(v[2][k])])
    [] Is("array", v) -> Array([i \in DOMAIN v[2] |-> WithoutParams(v[2][i])])
    [] OTHER -> v

\* A thing read from the database is serialized as it was when it was stored, but for the
\* Params of messages, which are decoded the other way than they are encoded.
ReadAsStored ==
  stage = "got" => WithoutParams(Json(Serialize(thing))) = WithoutParams(stored)

\* "can create a new object from both a serialized object and a deserialized object"
FormsAgree ==
  stage = "made" =>
    Json(Serialize(Make(class, Object(Deserialized(class, input))))) = Json(Serialize(thing))

ThingsAreKept == ReadAsStored /\ FormsAgree

\* Refuted by messages, of which the Params are encoded once more every time.
ReadAsStoredExactly == stage = "got" => Json(Serialize(thing)) = stored
=============================================================================
