---------------------------- MODULE MCChainReads ----------------------------
(***************************************************************************)
(* The chain as clients see it: the times of its blocks, what the API reads *)
(* of it, and, in the Filecoin flavor, the things that are sent and read;  *)
(* parts that share no state, checked side by side.  A behaviour is of one *)
(* of them (part says of which), with the others at rest.                  *)
(***************************************************************************)
EXTENDS Clock, TLC

CONSTANTS
  Parts,
  MaxNow, MaxBlocks, MaxSnapshots, MaxWanted,                  \* Clock
  Txs, None, Latest, Modes, Requests, ForkNumber, MaxReverts   \* ChainReads

VARIABLES
  part,
  forking, made, number, content, latest, pool, db, batch, reverts, replies, call,
  class, input, thing, stored, stage

R == INSTANCE ChainReads WITH phase <- batch
T == INSTANCE Serialization

readsVars == <<forking, made, number, content, latest, pool, db, batch, reverts, replies, call>>
thingVars == <<class, input, thing, stored, stage>>

\* A second of two ticks makes the roundings of Clock visible.
MCShifts == {-1, 1}

\* Every method, over a fork of block 1 of a remote chain that has gone on, or no fork.
AllMethods ==
  {"TransactionByHash", "TransactionByIndex", "Receipt", "BlockByNumber", "BlockByHash",
   "Logs", "LogsByHash"}
ForkOrNot == BOOLEAN

\* One method, in a fork.
OnlyTransactions == {"TransactionByHash"}
Forked == {TRUE}

Symmetric == Permutations(Txs)

MCInit ==
  /\ part \in Parts
  /\ Init
  /\ part # "clock" => /\ increment = SystemClock
                       /\ times = <<now \div Second>>
                       /\ adjustment = 0
  /\ R!Init
  /\ part # "reads" => forking = CHOOSE mode \in Modes : TRUE
  /\ T!Init
  /\ part # "things" => class = "Ticket" /\ input = <<>>

MCNext ==
  \/ part = "reads" /\ R!Next /\ UNCHANGED <<part, vars, thingVars>>
  \/ part = "things" /\ T!Next /\ UNCHANGED <<part, vars, readsVars>>
  \/ /\ part = "clock"
     /\ Next
     /\ now' <= MaxNow
     /\ Len(times') + Len(unsaved') <= MaxBlocks
     /\ Len(snaps') <= MaxSnapshots
     /\ wanted' <= MaxWanted
     /\ UNCHANGED <<part, readsVars, thingVars>>

MCSpec == MCInit /\ [][MCNext]_<<part, vars, readsVars, thingVars>>

\* An answer tells of all that was stored when it was asked for, and, without a fork, a
\* transaction that was sent is found until it is reverted; what is answered is of this
\* chain, and a receipt comes with its block (api.ts:1933-2043, block-manager.ts:100-174).
\* A thing of the Filecoin flavor is read as it was stored (serializable-object.ts:104-190).
AnswersAreSound ==
  /\ R!AnswersAreComplete
  /\ R!SentIsFoundLocally
  /\ R!ForkEndsAtItsBlock
  /\ R!ReceiptsAreWhole
  /\ T!ThingsAreKept

\* A transaction that was sent is found until it is reverted, in a fork too.
SentIsFound == R!SentIsFound
=============================================================================
