----------------------------- MODULE Simulation -----------------------------
(***************************************************************************)
(* The calls that run a transaction and keep nothing of it.                *)
(*                                                                         *)
(* eth_call and eth_createAccessList (simulation-handler.ts): a call is    *)
(* run on a copy of the state, in which the accounts have been overridden  *)
(* and the sender has paid; an access list is made by running the call     *)
(* until the list is the same twice.                                       *)
(*                                                                         *)
(* The EVM and its state manager are external: what the call touches is    *)
(* chosen.  The code of an account is left out of its overrides.           *)
(*                                                                         *)
(* eth_estimateGas, at the end of the module, has variables of its own.    *)
(***************************************************************************)
EXTENDS Integers, FiniteSetsExt, SequencesExt

CONSTANTS
  Sender, Target, Other, Precompile,  \* addresses
  Slots,
  IntrinsicGas, BaseFee,
  None, Empty, Invalid,               \* what is not given, "", and no value for a slot
  Gas                                 \* the amounts of an estimate; the least is above 62

VARIABLES
  request,    \* the transaction, of eth_call or of eth_createAccessList
  overrides,  \* of eth_call: what is asked for of an address
  touches,    \* what running the call touches: pairs of an address and a slot or None
  accounts,   \* the copy
  pending,    \* the overrides not yet applied
  warmed,     \* all that the state manager has seen touched
  previous, runs, result,
  stage,      \* "start", "overriding", "ready", "answered", "failed"
  events,
  startingGas, \* the estimate of exactimate() and the refund
  needed,      \* the least gas the transaction runs with
  lo, hi,      \* range
  phase        \* "first": is startingGas enough? Then "growing", "halving", "done"

vars == <<request, overrides, touches, accounts, pending, warmed, previous, runs, result,
          stage, events>>

Addresses == {Sender, Target, Other, Precompile}

With(map, key, value) == [k \in DOMAIN map \cup {key} |-> IF k = key THEN value ELSE map[k]]

(***************************************************************************)
(* Requests.  Fees and overrides are varied one after the other.           *)
(***************************************************************************)

NoOverride == [nonce |-> None, balance |-> None, state |-> None, stateDiff |-> None]

\* Storage as it is asked for: some slots and their values.
Storages == UNION {[set -> {7, Invalid}] : set \in SUBSET Slots}

Overrides ==
  [nonce : {None, Empty, 5}, balance : {None, 20}, state : {None}, stateDiff : {None}]
  \cup [nonce : {None}, balance : {None}, state : Storages \cup {None}, stateDiff : Storages]
  \cup [nonce : {None}, balance : {None}, state : Storages, stateDiff : {None}]

Plain == [is |-> "call", gas |-> 4, london |-> TRUE, gasPrice |-> None, maxFeePerGas |-> None,
          maxPriorityFeePerGas |-> None, accessList |-> None]

Priced ==
  [is : {"call"}, gas : {1, 4}, london : BOOLEAN, gasPrice : {None, 2},
   maxFeePerGas : {None} \cup 0..6, maxPriorityFeePerGas : {None} \cup 0..3, accessList : {None}]

Touchable == {<<Sender, None>>, <<Target, None>>, <<Other, None>>, <<Precompile, None>>}
             \cup {Target, Other} \X Slots

\* An access list: what of an address is in it.
Lists == SUBSET {<<Target, None>>, <<Other, None>>, <<Other, 1>>}

Listing == {[Plain EXCEPT !.is = "list", !.accessList = list] : list \in Lists \cup {None}}

Initially == [nonce |-> 1, balance |-> 10, storage |-> [s \in Slots |-> 1]]

Init ==
  /\ \/ request \in Priced /\ overrides = <<>> /\ touches = {}
     \/ /\ request = Plain
        /\ overrides \in UNION {[set -> Overrides] : set \in {{Sender}, {Target}}}
                         \cup [{Sender, Target} -> {o \in Overrides : o.balance # None}]
        /\ touches = {}
     \/ request \in Listing /\ overrides = <<>> /\ touches \in SUBSET Touchable
  /\ accounts = [a \in Addresses |-> Initially]
  /\ pending = DOMAIN overrides
  /\ warmed = {}
  /\ previous = request.accessList
  /\ runs = 0
  /\ result = None
  /\ stage = "start"
  /\ events = <<>>

(***************************************************************************)
(* createSimulatedTransaction(): the price.  A gasPrice is never used:     *)
(* before London one that is given becomes 0 (api.ts:136).                 *)
(***************************************************************************)
Or0(fee) == IF fee = None THEN 0 ELSE fee

Least(a, b) == IF a < b THEN a ELSE b

\* Mutant: the tip is not limited by the most that the sender pays.
UnlimitedTip == Or0(request.maxPriorityFeePerGas)

Tip == Least(Or0(request.maxFeePerGas) - BaseFee, Or0(request.maxPriorityFeePerGas))

GasPrice ==
  IF ~request.london \/ (Or0(request.maxFeePerGas) = 0 /\ Or0(request.maxPriorityFeePerGas) = 0)
    THEN 0
    ELSE BaseFee + Tip

IsAmbiguous ==
  /\ request.london
  /\ request.gasPrice # None
  /\ request.maxFeePerGas # None \/ request.maxPriorityFeePerGas # None

(***************************************************************************)
(* initialize().                                                           *)
(***************************************************************************)

Rest == <<request, overrides, touches>>

Fails == stage' = "failed" /\ UNCHANGED <<Rest, accounts, pending, warmed, previous, runs, result>>

RefuseFees ==
  /\ stage = "start"
  /\ IsAmbiguous
  /\ Fails
  /\ UNCHANGED events

\* The gas is not enough to begin with: nothing is overridden or run.
OutOfGas ==
  /\ stage = "start"
  /\ ~IsAmbiguous
  /\ request.gas < IntrinsicGas
  /\ events' = <<"before">>
  /\ Fails

Listed(list) == IF list = None THEN {} ELSE list \cup {<<entry[1], None>> : entry \in list}

Initialize ==
  /\ stage = "start"
  /\ ~IsAmbiguous
  /\ request.gas >= IntrinsicGas
  /\ events' = <<"before">>
  /\ warmed' = {<<Sender, None>>, <<Precompile, None>>, <<Target, None>>} \cup Listed(request.accessList)
  /\ stage' = "overriding"
  /\ UNCHANGED <<Rest, accounts, pending, previous, runs, result>>

IsInvalid(override) ==
  \/ override.state # None /\ override.stateDiff # None
  \/ \E slots \in {override.state, override.stateDiff} \ {None} :
       \E s \in DOMAIN slots : slots[s] = Invalid

\* Mutant: the slots are set among those that are there.
SetAmong(storage, slots) == [s \in Slots |-> IF s \in DOMAIN slots THEN slots[s] ELSE storage[s]]

\* The storage is cleared for the first slot that is set, so never for none.
Replaced(storage, slots) ==
  IF DOMAIN slots = {} THEN storage
  ELSE [s \in Slots |-> IF s \in DOMAIN slots THEN slots[s] ELSE 0]

StorageOf(storage, override) ==
  CASE override.state # None -> Replaced(storage, override.state)
    [] override.stateDiff # None -> SetAmong(storage, override.stateDiff)
    [] OTHER -> storage

Overridden(account, override) ==
  [nonce |-> CASE override.nonce = None -> account.nonce
               [] override.nonce = Empty -> 0
               [] OTHER -> override.nonce,
   balance |-> IF override.balance = None THEN account.balance ELSE override.balance,
   storage |-> StorageOf(account.storage, override)]

ApplyOverride(address) ==
  /\ stage = "overriding"
  /\ address \in pending
  /\ ~IsInvalid(overrides[address])
  /\ accounts' = [accounts EXCEPT ![address] = Overridden(@, overrides[address])]
  /\ pending' = pending \ {address}
  /\ UNCHANGED <<Rest, warmed, previous, runs, result, stage, events>>

RefuseOverride(address) ==
  /\ stage = "overriding"
  /\ address \in pending
  /\ IsInvalid(overrides[address])
  /\ Fails
  /\ UNCHANGED events

\* An account keeps the magnitude of a balance, not its sign.
Magnitude(n) == IF n < 0 THEN -n ELSE n

ChargeSender ==
  /\ stage = "overriding"
  /\ pending = {}
  /\ accounts' = [accounts EXCEPT ![Sender].nonce = @ + 1,
                                  ![Sender].balance = Magnitude(@ - request.gas * GasPrice)]
  /\ stage' = "ready"
  /\ UNCHANGED <<Rest, pending, warmed, previous, runs, result, events>>

(***************************************************************************)
(* runCall(), once for a call and until it settles for a list.             *)
(***************************************************************************)

After == events' = Append(events, "after")

Answer ==
  /\ stage = "ready"
  /\ request.is = "call"
  /\ After
  /\ stage' = "answered"
  /\ UNCHANGED <<Rest, accounts, pending, warmed, previous, runs, result>>

RunFails ==
  /\ stage = "ready"
  /\ runs = 0
  /\ After
  /\ Fails

\* The state manager's list: the target only with a slot, the sender and precompiles never.
Generated ==
  LET seen == warmed' \cup {<<entry[1], None>> : entry \in warmed'}
  IN {entry \in seen :
        /\ entry[1] \notin {Sender, Precompile}
        /\ entry = <<Target, None>> => \E s \in Slots : <<Target, s>> \in seen}

\* areAccessListsSame(): a list that is not given is the same as none.
Same(list) == list # None /\ list = Generated

RunForList ==
  /\ stage = "ready"
  /\ request.is = "list"
  /\ After
  /\ runs' = runs + 1
  /\ warmed' = warmed \cup touches
  /\ IF Same(previous)
       THEN stage' = "answered" /\ result' = Generated /\ UNCHANGED previous
       ELSE previous' = Generated /\ UNCHANGED <<stage, result>>
  /\ UNCHANGED <<Rest, accounts, pending>>

Next ==
  \/ RefuseFees
  \/ OutOfGas
  \/ Initialize
  \/ \E address \in Addresses : ApplyOverride(address) \/ RefuseOverride(address)
  \/ ChargeSender
  \/ Answer
  \/ RunFails
  \/ RunForList

Spec == Init /\ [][Next]_vars

(***************************************************************************)
(* What the call is run with.                                              *)
(***************************************************************************)

\* The price a block would charge for the fees.
EffectivePrice ==
  IF request.maxFeePerGas = None /\ request.maxPriorityFeePerGas = None THEN 0
  ELSE Least(Or0(request.maxFeePerGas), BaseFee + Or0(request.maxPriorityFeePerGas))

AskedOf(address) == IF address \in DOMAIN overrides THEN overrides[address] ELSE NoOverride

SlotAsAsked(asked, s) ==
  CASE asked.state # None /\ s \in DOMAIN asked.state -> 7
    [] asked.stateDiff # None /\ s \in DOMAIN asked.stateDiff -> 7
    [] asked.state # None /\ DOMAIN asked.state # {} -> 0
    [] OTHER -> 1

AsAsked(address) ==
  LET asked == AskedOf(address)
      nonce == CASE asked.nonce = None -> 1 [] asked.nonce = Empty -> 0 [] OTHER -> asked.nonce
      balance == IF asked.balance = None THEN 10 ELSE asked.balance
      cost == IF request.london THEN request.gas * EffectivePrice ELSE 0
  IN /\ accounts[address].nonce = nonce + (IF address = Sender THEN 1 ELSE 0)
     /\ address # Sender => accounts[address].balance = balance
     /\ address = Sender /\ cost <= balance => accounts[address].balance = balance - cost
     /\ \A s \in Slots : accounts[address].storage[s] = SlotAsAsked(asked, s)

(***************************************************************************)
(* The call sees every account as it was asked for and a sender that has   *)
(* paid the price of its fees; an access list has all that the call        *)
(* touches and nothing that is neither touched nor was given, and takes    *)
(* three runs at most (api.ts:115-166, simulation-handler.ts:146-456).     *)
(***************************************************************************)
SimulationIsTrue ==
  /\ stage = "ready" => \A address \in Addresses : AsAsked(address)
  /\ stage = "answered" /\ request.is = "list" =>
       /\ \A entry \in touches :
            entry[1] \notin {Sender, Precompile} /\ entry # <<Target, None>> => entry \in result
       /\ \A entry \in result :
            \E seen \in touches \cup Listed(request.accessList) :
              seen = entry \/ (entry[2] = None /\ seen[1] = entry[1])
       /\ <<Target, None>> \in result => \E s \in Slots : <<Target, s>> \in result
  /\ runs <= 3

(***************************************************************************)
(* Refuted: a price that is given is paid; a balance is never more than it *)
(* was; "state" with no slots clears the storage; "after" follows          *)
(* "before"; a list has only what the call touches (see the README).       *)
(***************************************************************************)
GivenPriceIsPaid ==
  stage = "ready" /\ request.gasPrice # None => accounts[Sender].balance = 10 - 4 * request.gasPrice

SenderIsNotRicher ==
  stage = "ready" /\ request.london /\ overrides = <<>> => accounts[Sender].balance <= 10

StateIsCleared ==
  stage = "ready" =>
    \A a \in DOMAIN overrides :
      overrides[a].state # None =>
        \A s \in Slots \ DOMAIN overrides[a].state : accounts[a].storage[s] = 0

EventsArePaired ==
  stage \in {"answered", "failed"} /\ request.is = "call" => events \in {<<>>, <<"before", "after">>}

ListIsTouched == stage = "answered" /\ request.is = "list" => result \subseteq Listed(touches)

-----------------------------------------------------------------------------

(***************************************************************************)
(* binSearch() of helpers/gas-estimator.ts: eth_estimateGas has run the    *)
(* transaction once, knows what that took, and looks for the least gas it  *)
(* runs with.  That is not what it took: a call keeps a 64th of the gas    *)
(* from the callee, so a transaction with no more than it uses can fail.   *)
(* Every attempt runs on a fresh VM and is awaited.                        *)
(***************************************************************************)
estimateVars == <<startingGas, needed, lo, hi, phase>>

EstimateInit ==
  /\ startingGas \in Gas
  /\ needed \in Gas
  /\ lo = startingGas
  /\ hi = startingGas
  /\ phase = "first"

\* runTx() with that much gas.
IsEnoughGas(gas) == gas >= needed

\* The BN multiplied by 64/63, which drops the fraction.
Grown(gas) == (gas * 64) \div 63

First ==
  /\ phase = "first"
  /\ IF IsEnoughGas(hi)
       THEN phase' = "done" /\ UNCHANGED hi
       ELSE phase' = "growing" /\ hi' = Grown(hi)
  /\ UNCHANGED <<startingGas, needed, lo>>

Grow ==
  /\ phase = "growing"
  /\ IF IsEnoughGas(hi)
       THEN phase' = "halving" /\ UNCHANGED hi
       ELSE hi' = Grown(hi) /\ UNCHANGED phase
  /\ UNCHANGED <<startingGas, needed, lo>>

\* Mutant: the search stops while one amount is left between the two.
StillApartByTwo == lo + 2 < hi

StillApart == lo + 1 < hi

Halve ==
  /\ phase = "halving"
  /\ StillApart
  /\ LET mid == (lo + hi) \div 2
     IN IF IsEnoughGas(mid) THEN hi' = mid /\ UNCHANGED lo
                            ELSE lo' = mid /\ UNCHANGED hi
  /\ UNCHANGED <<startingGas, needed, phase>>

\* range.hi >= MAX is not an error: with that much the transaction runs.
Settle ==
  /\ phase = "halving"
  /\ ~StillApart
  /\ phase' = "done"
  /\ UNCHANGED <<startingGas, needed, lo, hi>>

EstimateNext == First \/ Grow \/ Halve \/ Settle

EstimateSpec == EstimateInit /\ [][EstimateNext]_estimateVars

EstimateFairness == WF_estimateVars(EstimateNext)

(***************************************************************************)
(* The search ends, and what it answers is what the transaction needs, or  *)
(* what it was started with if that is more (gas-estimator.ts:91-115).     *)
(***************************************************************************)
EstimateIsEnough ==
  <>[](phase = "done" /\ hi = Max({startingGas, needed}))
=============================================================================
