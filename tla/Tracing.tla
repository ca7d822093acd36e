------------------------------ MODULE Tracing ------------------------------
(***************************************************************************)
(* Two calls that run a mined transaction again: debug_traceTransaction,   *)
(* which shows the storage of the contract at every step, and              *)
(* debug_storageRangeAt, which shows a page of a contract's storage before *)
(* the transaction (blockchain.ts).  Both start from the state of the      *)
(* parent block and run the earlier transactions of the block first.       *)
(*                                                                         *)
(* The EVM is external: it tells the listener of each step before it takes *)
(* it; a frame whose code just ends tells nobody.  Here a step costs 1 gas.*)
(***************************************************************************)
EXTENDS Integers, SequencesExt

CONSTANTS
  Contracts, Slots,   \* Slots: the hashed keys, numbers with their order
  Examined,           \* the contract the page is of and the transaction calls
  GasLimit, MaxResult,
  None

VARIABLES
  call,     \* "trace" or "range", and its arguments
  block,    \* the transactions up to the one asked for: the slots that each writes
  i,        \* the next of them
  stage,    \* "keys", "rerun", "target", "done", "stuck"
  state,    \* the storage of every contract
  frames, currentDepth, storageStack, gas,
  log,      \* the last of structLogs, and what should be in it
  priced,   \* the one before, which its gas is known of by then
  clean,    \* no contract was entered twice, and no frame of a call just ended
  arriving, keys, page

vars == <<call, block, i, stage, state, frames, currentDepth, storageStack, gas, log, priced,
          clean, arriving, keys, page>>

With(map, key, value) == [k \in DOMAIN map \cup {key} |-> IF k = key THEN value ELSE map[k]]

Traces == [of : {"trace"}, disableStack : BOOLEAN, disableStorage : BOOLEAN]

Ranges == [of : {"range"}, startKey : Slots, maxResult : 0..MaxResult]

(***************************************************************************)
(* The parent's state has a 1 in each slot that is set; the transaction at *)
(* n of the block writes n + 1.                                            *)
(***************************************************************************)
StateOf(set) == [c \in Contracts |-> [s \in Slots |-> IF c = Examined /\ s \in set THEN 1 ELSE 0]]

IsSet(s) == state[Examined][s] # 0

Init ==
  /\ call \in Traces \cup Ranges
  /\ \E writes \in SUBSET Slots : block \in {<<>>, <<writes>>, <<Slots, writes>>}
  /\ call.of = "trace" => block \in {<<>>, <<Slots>>}
  /\ i = 1
  /\ \E set \in SUBSET Slots :
       /\ call.of = "trace" => set = {}
       /\ state = StateOf(set)
       /\ arriving = set
  /\ stage = IF call.of = "trace" THEN "rerun" ELSE "keys"
  /\ frames = <<>>
  /\ currentDepth = -1
  /\ storageStack = <<>>
  /\ gas = 0
  /\ log = None
  /\ priced = None
  /\ clean = TRUE
  /\ keys = <<>>
  /\ page = None

(***************************************************************************)
(* The keys: the trie streams them in no order that counts.                *)
(***************************************************************************)

\* upper_bound: search[offset, count] is the place of val in a sorted array.
FindInsertPosition(array, val) ==
  LET search[offset \in 0..Len(array), count \in 0..Len(array)] ==
        LET step == count \div 2
        IN IF count = 0 THEN offset
           ELSE IF val >= array[offset + step + 1]
             THEN search[offset + step + 1, count - step - 1]
             ELSE search[offset, step]
  IN search[0, Len(array)]

\* Mutant: one too few is kept, so that there is no next key.
IsIrrelevantAtLast(position) == position >= call.maxResult

IsIrrelevant(position) == position > call.maxResult

rangeRest == <<call, block, i, state, frames, currentDepth, storageStack, gas, log, priced, clean>>

KeyArrives(key) ==
  LET position == FindInsertPosition(keys, key)
  IN /\ stage = "keys"
     /\ key \in arriving
     /\ arriving' = arriving \ {key}
     /\ keys' = IF key < call.startKey \/ IsIrrelevant(position)
                  THEN keys
                  ELSE InsertAt(keys, position + 1, key)
     /\ UNCHANGED <<rangeRest, stage, page>>

KeysEnd ==
  /\ stage = "keys"
  /\ arriving = {}
  /\ keys' = IF Len(keys) > call.maxResult THEN SubSeq(keys, 1, call.maxResult) ELSE keys
  /\ page' = [nextKey |-> IF Len(keys) > call.maxResult THEN keys[call.maxResult + 1] ELSE None,
              storage |-> <<>>]
  /\ stage' = "rerun"
  /\ UNCHANGED <<rangeRest, arriving>>

(***************************************************************************)
(* The rerun.                                                              *)
(***************************************************************************)

RunEarlier ==
  /\ stage = "rerun"
  /\ i <= Len(block)
  /\ state' = [state EXCEPT ![Examined] = [s \in Slots |-> IF s \in block[i] THEN i + 1 ELSE @[s]]]
  /\ i' = i + 1
  /\ UNCHANGED <<call, block, stage, frames, currentDepth, storageStack, gas, log, priced, clean,
                 arriving, keys, page>>

\* The transaction itself is not run for a page.
ReadPage ==
  /\ stage = "rerun"
  /\ i > Len(block)
  /\ call.of = "range"
  /\ page' = [page EXCEPT !.storage = [s \in ToSet(keys) |-> state[Examined][s]]]
  /\ stage' = "done"
  /\ UNCHANGED <<rangeRest, arriving, keys>>

Frame(contract, limit) ==
  [address |-> contract, gas |-> limit, entry |-> state, touched |-> {}]

RunTarget ==
  /\ stage = "rerun"
  /\ i > Len(block)
  /\ call.of = "trace"
  /\ frames' = <<Frame(Examined, GasLimit)>>
  /\ stage' = "target"
  /\ UNCHANGED <<call, block, i, state, currentDepth, storageStack, gas, log, priced, clean,
                 arriving, keys, page>>

(***************************************************************************)
(* The listener.                                                           *)
(***************************************************************************)

Top == Last(frames)
EventDepth == Len(frames) - 1

\* Mutant: the storage of a call that is over is kept.
TrackedForever ==
  IF currentDepth < EventDepth THEN Append(storageStack, <<>>) ELSE storageStack

\* storageStack, for the depth of this step: one is taken off or put on.
Tracked ==
  CASE currentDepth > EventDepth -> Front(storageStack)
    [] currentDepth < EventDepth -> Append(storageStack, <<>>)
    [] OTHER -> storageStack

Key(slot) == IF call.disableStack THEN None ELSE slot

(***************************************************************************)
(* The listener of a step that touches a slot or None, and leaves value in *)
(* it; the storage is shown with the slot if it is read, and without if it *)
(* is written.                                                             *)
(***************************************************************************)
Listens(op, slot, value) ==
  LET here == EventDepth + 1
      maps == Tracked
      touching == IF slot = None THEN maps
                  ELSE [maps EXCEPT ![here] = With(@, Key(slot), value)]
      shown == IF op = "SLOAD" THEN touching[here] ELSE maps[here]
      total == GasLimit - Top.gas
  IN /\ gas' = total
     /\ priced' = IF log = None THEN None ELSE [op |-> log.op, gasCost |-> total - gas]
     /\ log' = [op |-> op, depth |-> EventDepth, address |-> Top.address, gas |-> Top.gas,
                storage |-> IF call.disableStorage THEN None ELSE shown,
                true |-> [s \in Top.touched \cup (IF op = "SLOAD" THEN {slot} ELSE {}) |->
                            state[Top.address][s]]]
     /\ IF call.disableStorage
          THEN UNCHANGED <<currentDepth, storageStack>>
          ELSE currentDepth' = EventDepth /\ storageStack' = touching

\* The frames when the last has used 1 gas, and touched the slots.
Used(slots) ==
  [frames EXCEPT ![Len(frames)].gas = @ - 1, ![Len(frames)].touched = @ \cup slots]

\* The frames when the last is over and what is left of its gas is given back.
Ended(left) ==
  IF Len(frames) = 1 THEN <<>>
  ELSE [Front(frames) EXCEPT ![Len(frames) - 1].gas = @ + left]

Runs == stage = "target" /\ frames # <<>>

traceRest == <<call, block, i, arriving, keys, page>>

Plain ==
  /\ Runs
  /\ Top.gas > 0
  /\ Listens("ADD", None, None)
  /\ frames' = Used({})
  /\ UNCHANGED <<traceRest, stage, state, clean>>

Sstore(slot, value) ==
  /\ Runs
  /\ Top.gas > 0
  /\ Listens("SSTORE", slot, IF call.disableStack THEN None ELSE value)
  /\ state' = [state EXCEPT ![Top.address][slot] = value]
  /\ frames' = Used({slot})
  /\ UNCHANGED <<traceRest, stage, clean>>

Sload(slot) ==
  /\ Runs
  /\ Top.gas > 0
  /\ ~(call.disableStack /\ ~call.disableStorage)
  /\ Listens("SLOAD", slot, state[Top.address][slot])
  /\ frames' = Used({slot})
  /\ UNCHANGED <<traceRest, stage, state, clean>>

\* Without a stack there is no key to read: the listener throws, and the VM waits for it.
SloadThrows ==
  /\ Runs
  /\ Top.gas > 0
  /\ call.disableStack /\ ~call.disableStorage
  /\ stage' = "stuck"
  /\ UNCHANGED <<traceRest, state, frames, currentDepth, storageStack, gas, log, priced, clean>>

Call(contract, limit) ==
  /\ Runs
  /\ Top.gas > limit
  /\ Listens("CALL", None, None)
  /\ frames' = Append([Used({}) EXCEPT ![Len(frames)].gas = @ - limit], Frame(contract, limit))
  /\ clean' = (clean /\ \A n \in DOMAIN frames : frames[n].address # contract)
  /\ UNCHANGED <<traceRest, stage, state>>

Return ==
  /\ Runs
  /\ Top.gas > 0
  /\ Listens("RETURN", None, None)
  /\ frames' = Ended(Top.gas - 1)
  /\ UNCHANGED <<traceRest, stage, state, clean>>

\* A REVERT, and any step for which there is no gas.
Fail(left) ==
  /\ Runs
  /\ left \in {0, Top.gas - 1}
  /\ Listens("REVERT", None, None)
  /\ state' = Top.entry
  /\ frames' = Ended(left)
  /\ UNCHANGED <<traceRest, stage, clean>>

FallOff ==
  /\ Runs
  /\ frames' = Ended(Top.gas)
  /\ clean' = (clean /\ Len(frames) = 1)
  /\ UNCHANGED <<traceRest, stage, state, currentDepth, storageStack, gas, log, priced>>

TraceEnds ==
  /\ stage = "target"
  /\ frames = <<>>
  /\ stage' = "done"
  /\ UNCHANGED <<traceRest, state, frames, currentDepth, storageStack, gas, log, priced, clean>>

Next ==
  \/ \E key \in Slots : KeyArrives(key)
  \/ KeysEnd
  \/ RunEarlier
  \/ ReadPage
  \/ RunTarget
  \/ Plain
  \/ \E slot \in Slots : Sload(slot) \/ Sstore(slot, 9)
  \/ SloadThrows
  \/ \E contract \in Contracts, limit \in 1..GasLimit : Call(contract, limit)
  \/ Return
  \/ \E left \in 0..GasLimit : Fail(left)
  \/ FallOff
  \/ TraceEnds

Spec == Init /\ [][Next]_vars

(***************************************************************************)
(* The storage shown with a step is that of the slots its frame has        *)
(* touched, as the contract then has them, and the gas cost shown is that  *)
(* of the step if the next is of the same frame (blockchain.ts:1234-1330). *)
(***************************************************************************)
StepsAreTrue ==
  /\ clean /\ log # None /\ log.storage # None /\ ~call.disableStack => log.storage = log.true
  /\ clean /\ priced # None /\ priced.op \in {"ADD", "SLOAD", "SSTORE"} => priced.gasCost = 1

(***************************************************************************)
(* A page has the first of the keys that the parent block's storage has    *)
(* from startKey on, maxResult of them, with their values just before the  *)
(* transaction, and nextKey is the key that follows them                   *)
(* (blockchain.ts:1350-1373, 1566-1612).                                    *)
(***************************************************************************)
ValueBefore(s, set) ==
  LET writers == {n \in DOMAIN block : s \in block[n]}
  IN IF writers = {} THEN (IF s \in set THEN 1 ELSE 0)
     ELSE 1 + CHOOSE n \in writers : \A m \in writers : m <= n

PageIsRight ==
  stage = "done" /\ call.of = "range" =>
    /\ \A s \in DOMAIN page.storage :
         /\ s >= call.startKey
         /\ page.storage[s] = ValueBefore(s, DOMAIN page.storage)
         /\ page.nextKey # None => s < page.nextKey
    /\ Len(keys) = (IF page.nextKey = None THEN Len(keys) ELSE call.maxResult)
    /\ \A s \in Slots :
         IsSet(s) /\ s >= call.startKey /\ s \notin DOMAIN page.storage /\ s # page.nextKey =>
           \/ page.nextKey # None /\ s > page.nextKey
           \/ \E n \in DOMAIN block : s \in block[n]

RerunIsTrue == StepsAreTrue /\ PageIsRight

(***************************************************************************)
(* Refuted: the same of every trace; a step's cost is never negative; the  *)
(* trace ends with an answer; a page has the keys that the earlier         *)
(* transactions of the block have set (see the README).                    *)
(***************************************************************************)
EveryStepIsTrue ==
  log # None /\ log.storage # None /\ ~call.disableStack => log.storage = log.true

CostsAreNotNegative == priced # None => priced.gasCost >= 0

NeverStuck == stage # "stuck"

PageIsComplete ==
  stage = "done" /\ call.of = "range" /\ page.nextKey = None =>
    \A s \in Slots : IsSet(s) /\ s >= call.startKey => s \in DOMAIN page.storage
=============================================================================
