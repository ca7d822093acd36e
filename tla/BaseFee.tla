------------------------------ MODULE BaseFee ------------------------------
(***************************************************************************)
(* The base fee (chains/ethereum/block/src/block.ts): every block's follows *)
(* from its parent's and from the gas the parent used, up or down by an      *)
(* eighth at most.  A transaction without a maximal fee is given one         *)
(* (api.ts:80-85) that is to be enough for the next three blocks, whatever   *)
(* other transactions they are filled with.                                 *)
(***************************************************************************)
EXTENDS Integers

CONSTANTS
  GasLimits,   \* what miner.blockGasLimit may be
  FirstFees    \* the base fees of the block that the chain starts with

ASSUME BaseFeeAssumption ==
  /\ GasLimits \subseteq {limit \in Nat : limit >= 2}
  /\ FirstFees \subseteq Nat

ELASTICITY == 2
BASE_FEE_MAX_CHANGE_DENOMINATOR == 8

\* The least fee that an eighth can be taken from, less one.
Floor == BASE_FEE_MAX_CHANGE_DENOMINATOR - 1

VARIABLES
  gasLimit,      \* of every block
  baseFee,       \* of the latest block
  gasUsed,       \* by the latest block
  maxFeePerGas,  \* of the last transaction that was given the default
  nextFee,       \* history: the base fee of the block after that, as it was when it was given
  blocks         \* history: the blocks since then; 3 is the last it has to be good for

vars == <<gasLimit, baseFee, gasUsed, maxFeePerGas, nextFee, blocks>>

gasTarget == gasLimit \div ELASTICITY

\* An eighth of the fee for every target's worth of gas above or below the target.
FeeDelta(gas) == ((baseFee * gas) \div gasTarget) \div BASE_FEE_MAX_CHANGE_DENOMINATOR

AtLeastOne(n) == IF n > 1 THEN n ELSE 1

\* Mutant: a fee that falls falls by one at least, as one that rises does.
FallsByOne ==
  IF gasUsed = gasTarget THEN baseFee
  ELSE IF gasUsed > gasTarget THEN baseFee + AtLeastOne(FeeDelta(gasUsed - gasTarget))
  ELSE baseFee - AtLeastOne(FeeDelta(gasTarget - gasUsed))

\* calcNextBaseFeeBigInt
NextBaseFee ==
  IF gasUsed = gasTarget THEN baseFee
  ELSE IF gasUsed > gasTarget THEN baseFee + AtLeastOne(FeeDelta(gasUsed - gasTarget))
  ELSE baseFee - FeeDelta(gasTarget - gasUsed)

Raised(fee) == fee + fee \div BASE_FEE_MAX_CHANGE_DENOMINATOR

\* Mutant: one block less.
TwoBlocksMaxBaseFee == Raised(NextBaseFee)

\* calcNBlocksMaxBaseFee of three blocks, as it is called.
ThreeBlocksMaxBaseFee == Raised(Raised(NextBaseFee))

Init ==
  /\ gasLimit \in GasLimits
  /\ baseFee \in FirstFees
  /\ gasUsed = 0
  /\ maxFeePerGas = ThreeBlocksMaxBaseFee
  /\ nextFee = NextBaseFee
  /\ blocks = 0

\* A transaction without a maximal fee is sent.
Autofill ==
  /\ maxFeePerGas' = ThreeBlocksMaxBaseFee
  /\ nextFee' = NextBaseFee
  /\ blocks' = 0
  /\ UNCHANGED <<gasLimit, baseFee, gasUsed>>

\* A block is mined, with transactions that use that much gas.
Block(gas) ==
  /\ baseFee' = NextBaseFee
  /\ gasUsed' = gas
  /\ blocks' = IF blocks > 3 THEN blocks ELSE blocks + 1
  /\ UNCHANGED <<gasLimit, maxFeePerGas, nextFee>>

Next == Autofill \/ \E gas \in 0..gasLimit : Block(gas)

Spec == Init /\ [][Next]_vars

(***************************************************************************)
(* Properties                                                              *)
(***************************************************************************)

TypeOK ==
  /\ gasLimit \in GasLimits
  /\ baseFee \in Nat  /\ maxFeePerGas \in Nat  /\ nextFee \in Nat
  /\ gasUsed \in 0..gasLimit
  /\ blocks \in 0..4

EvenLimit == gasLimit % 2 = 0

\* The fee never leaves the range in which it can still fall and rise again: rounding takes
\* nothing from a fee of seven, so a chain of empty blocks does not end at zero, where the
\* next full block would be free.
StaysAboveZero == (\A fee \in FirstFees : fee >= Floor) => baseFee >= Floor

\* With an even limit, a full block raises the fee by an eighth, as its rounded product says,
\* and no block does by more; none takes more than an eighth.
EighthAtMost ==
  EvenLimit =>
    /\ NextBaseFee <= baseFee + AtLeastOne(baseFee \div BASE_FEE_MAX_CHANGE_DENOMINATOR)
    /\ NextBaseFee >= baseFee - baseFee \div BASE_FEE_MAX_CHANGE_DENOMINATOR

\* However blocks are filled, the fee moves by an eighth and cannot get stuck at zero.
FeeMovesByAnEighth == StaysAboveZero /\ EighthAtMost

\* The default is enough for the next three blocks, if the fee of the first of them is one
\* that an eighth can be taken from (block.ts:180-184).
DefaultIsEnough ==
  EvenLimit /\ nextFee > Floor /\ blocks \in 1..3 => baseFee <= maxFeePerGas

\* "maxPossibleBaseFee": the default is enough, whatever the fee.
DefaultIsAlwaysEnough == EvenLimit /\ blocks \in 1..3 => baseFee <= maxFeePerGas
=============================================================================
