------------------------------ MODULE ForkTrie ------------------------------
(***************************************************************************)
(* The state of a forked chain, E/forking/trie.ts.  The trie holds what    *)
(* was written since the fork; what it does not hold is asked from the     *)
(* forked node, unless a marker says that it was deleted here.  Markers    *)
(* are kept beside the trie ("metadata"), under the number of the block    *)
(* that deleted: they follow the trie's checkpoints, and evm_revert        *)
(* removes those of the blocks it removes.                                 *)
(*                                                                         *)
(* The steps are those of the miner, one block at a time, and of the calls *)
(* that write between blocks.  A key is an account or a slot of a          *)
(* contract's storage.  Left out: blocks before the forked one, the caches *)
(* of the VM's state manager (a library), calls and traces, which work on  *)
(* copies.  Blocks are counted from the forked one, which is the first.    *)
(***************************************************************************)
EXTENDS Integers, Sequences

CONSTANTS
  Keys,
  Locals,    \* the values that may be written
  Remote,    \* Remote[k]: the value of k at the forked block
  Zero,      \* the value of what does not exist
  None,      \* "not in the trie"
  Zeroing,   \* may evm_setAccountStorageAt write Zero?
  MaxDepth,  \* bound: open checkpoints, plus one
  MaxBlocks  \* bound: blocks, with the forked one

Values == Locals \cup {Zero}

ASSUME ForkTrieAssumption ==
  /\ Zero \notin Locals
  /\ None \notin Locals \cup {Zero}
  /\ Remote \in [Keys -> Values \cup {Remote[k] : k \in Keys}]
  /\ \A k \in Keys : Remote[k] # None
  /\ MaxDepth \in Nat /\ MaxBlocks \in Nat /\ MaxBlocks > 0

Stored == Locals \cup {None}

VARIABLES
  roots,       \* the trie, and above it one for each open checkpoint
  marks,       \* metadata: the markers in the db, and those of each checkpoint
  blocks,      \* the roots of the blocks
  blockNumber  \* trie.blockNumber

vars == <<roots, marks, blocks, blockNumber>>

Tries == [Keys -> Stored]
Markers == (Nat \ {0}) \X Keys

TypeOK ==
  /\ roots \in Seq(Tries) /\ Len(roots) > 0
  /\ marks \in Seq(SUBSET Markers) /\ Len(marks) = Len(roots)
  /\ blocks \in Seq(Tries) /\ Len(blocks) > 0
  /\ blockNumber \in Nat \ {0}

Empty == [k \in Keys |-> None]

Init ==
  /\ roots = <<Empty>>
  /\ marks = <<{}>>
  /\ blocks = <<Empty>>
  /\ blockNumber = 1

Depth == Len(roots)
Top == roots[Depth]
Latest == Len(blocks)

-----------------------------------------------------------------------------
(***************************************************************************)
(* Reading.                                                                *)
(***************************************************************************)

\* Mutant: the markers of the open checkpoints are not looked at.
KeyWasDeletedInDb(k, d, b) == \E m \in marks[1] : m[1] <= b /\ m[2] = k

\* keyWasDeleted: in any of d - 1 checkpoints, or in the db up to block b.
KeyWasDeleted(k, d, b) ==
  \/ \E i \in 2..d : \E m \in marks[i] : m[2] = k
  \/ \E m \in marks[1] : m[1] <= b /\ m[2] = k

\* get: the trie, then the markers, then the fork.
Get(root, k, d, b) ==
  IF root[k] # None THEN root[k]
  ELSE IF KeyWasDeleted(k, d, b) THEN Zero
  ELSE Remote[k]

\* What eth_call and the others see at block n, in a trie of their own.
At(n) == [k \in Keys |-> Get(blocks[n], k, 1, n)]

\* What a transaction sees, and what it would see if d were the top.
Current(d) == [k \in Keys |-> Get(roots[d], k, d, blockNumber)]

-----------------------------------------------------------------------------
(***************************************************************************)
(* The trie and its checkpoints.                                           *)
(***************************************************************************)

Push ==
  /\ roots' = Append(roots, Top)
  /\ marks' = Append(marks, {})

\* commit: the last checkpoint is written to the one below, or to the db.
PopInto ==
  /\ roots' = Append(SubSeq(roots, 1, Depth - 2), Top)
  /\ marks' = Append(SubSeq(marks, 1, Depth - 2), marks[Depth - 1] \cup marks[Depth])

PopAway ==
  /\ roots' = SubSeq(roots, 1, Depth - 1)
  /\ marks' = SubSeq(marks, 1, Depth - 1)

\* put, and del of what becomes zero: the key leaves the trie, with a marker.
Writes(k, v) ==
  /\ roots' = [roots EXCEPT ![Depth] = [@ EXCEPT ![k] = IF v = Zero THEN None ELSE v]]
  /\ marks' = IF v = Zero
              THEN [marks EXCEPT ![Depth] = @ \cup {<<blockNumber, k>>}]
              ELSE marks

-----------------------------------------------------------------------------
(***************************************************************************)
(* The miner.  Two checkpoints are open while a transaction runs, and one  *)
(* more for each message call.                                             *)
(***************************************************************************)

StartBlock ==
  /\ Depth = 1
  /\ Latest < MaxBlocks
  /\ Push
  /\ UNCHANGED <<blocks, blockNumber>>

NumberOfBlock == Latest + 1

StartTx ==
  /\ Depth = 2
  /\ Push
  /\ blockNumber' = NumberOfBlock
  /\ UNCHANGED blocks

StartCall ==
  /\ Depth > 2
  /\ Depth < MaxDepth
  /\ Push
  /\ UNCHANGED <<blocks, blockNumber>>

Write ==
  /\ Depth > 2
  /\ \E k \in Keys, v \in Values : Writes(k, v)
  /\ UNCHANGED <<blocks, blockNumber>>

\* A call or a transaction ends well.
Commit ==
  /\ Depth > 2
  /\ PopInto
  /\ UNCHANGED <<blocks, blockNumber>>

\* A call fails, or the transaction is rejected or does not fit.
Revert ==
  /\ Depth > 2
  /\ PopAway
  /\ UNCHANGED <<blocks, blockNumber>>

\* The block is finalized with the root of the trie, and becomes the latest.
EndBlock ==
  /\ Depth = 2
  /\ PopInto
  /\ blocks' = Append(blocks, Top)
  /\ UNCHANGED blockNumber

(***************************************************************************)
(* evm_setAccountStorageAt and the like, while no block is mined: a write  *)
(* outside of all checkpoints, and an empty block, which does not set the  *)
(* trie's block number.                                                    *)
(***************************************************************************)
SetAccount ==
  /\ Depth = 1
  /\ Latest < MaxBlocks
  /\ \E k \in Keys, v \in IF Zeroing THEN Values ELSE Locals :
       /\ Writes(k, v)
       /\ blocks' = Append(blocks, roots'[1])
  /\ UNCHANGED blockNumber

\* revertMetaData: the markers of the blocks from first to last go.
WithoutBlocks(first, last) == {m \in marks[1] : ~(first <= m[1] /\ m[1] <= last)}

\* evm_revert to block n; the trie's block number stays.
RevertTo ==
  /\ Depth = 1
  /\ \E n \in 1..(Latest - 1) :
       /\ blocks' = SubSeq(blocks, 1, n)
       /\ roots' = <<blocks[n]>>
       /\ marks' = <<WithoutBlocks(n + 1, Latest)>>
  /\ UNCHANGED blockNumber

Next ==
  \/ StartBlock \/ StartTx \/ StartCall
  \/ Write \/ Commit \/ Revert \/ EndBlock
  \/ SetAccount \/ RevertTo

Spec == Init /\ [][Next]_vars

-----------------------------------------------------------------------------

(***************************************************************************)
(* Markers of the db belong to blocks there are, and the trie looks at all *)
(* of them: a block number left behind by an empty block or by a revert    *)
(* does no harm.                                                           *)
(***************************************************************************)
MarkersAreInBlocks ==
  \A m \in marks[1] : m[1] <= Latest /\ m[1] <= blockNumber

(***************************************************************************)
(* The whole is a map with checkpoints and a history: a deletion is seen   *)
(* from its block on and not before, undone by a revert of its call, its   *)
(* transaction or its block, and nothing else of the fork is hidden.       *)
(***************************************************************************)
SeenAtDepth == [d \in 1..Depth |-> Current(d)]
SeenAtBlock == [n \in 1..Latest |-> At(n)]

History == INSTANCE StateHistory WITH
  Original <- Remote, stack <- SeenAtDepth, history <- SeenAtBlock

ImplementsHistory == History!Spec

(***************************************************************************)
(* "Revert the state of the blockchain to a previous snapshot": evm_revert *)
(* leaves the older blocks' states, and the current one, as they were.     *)
(***************************************************************************)
RevertToRestores ==
  [][Latest' < Latest => /\ Current(1)' = At(Latest')
                         /\ \A n \in 1..Latest' : At(n)' = At(n)]_vars
=============================================================================
