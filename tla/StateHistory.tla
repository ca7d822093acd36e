---------------------------- MODULE StateHistory ----------------------------
(***************************************************************************)
(* What the state of the chain promises, whatever it is stored in: a       *)
(* current map with checkpoints, and the maps at the end of each block.    *)
(* ForkTrie implements it with the little it keeps of a forked chain.      *)
(***************************************************************************)
EXTENDS Integers, Sequences

CONSTANTS Keys, Values, Original

VARIABLES
  stack,   \* stack[1]: the state; above it, one copy for each open checkpoint
  history  \* history[n]: the state at the end of the nth block; 1: the forked one

vars == <<stack, history>>

Init ==
  /\ stack = <<Original>>
  /\ history = <<Original>>

Top == stack[Len(stack)]

Below == SubSeq(stack, 1, Len(stack) - 1)

Checkpoint ==
  /\ stack' = Append(stack, Top)
  /\ UNCHANGED history

Write ==
  /\ \E k \in Keys, v \in Values :
       stack' = Append(Below, [Top EXCEPT ![k] = v])
  /\ UNCHANGED history

Commit ==
  /\ Len(stack) > 2
  /\ stack' = Append(SubSeq(stack, 1, Len(stack) - 2), Top)
  /\ UNCHANGED history

Revert ==
  /\ Len(stack) > 1
  /\ stack' = Below
  /\ UNCHANGED history

\* The last checkpoint is committed with the block it was opened for.
EndBlock ==
  /\ Len(stack) = 2
  /\ stack' = <<Top>>
  /\ history' = Append(history, Top)

\* A write between two blocks gets a block of its own.
SetValue ==
  /\ Len(stack) = 1
  /\ \E k \in Keys, v \in Values :
       LET new == [Top EXCEPT ![k] = v]
       IN  stack' = <<new>> /\ history' = Append(history, new)

RevertTo ==
  /\ Len(stack) = 1
  /\ \E n \in 1..Len(history) :
       /\ stack' = <<history[n]>>
       /\ history' = SubSeq(history, 1, n)

Next == Checkpoint \/ Write \/ Commit \/ Revert \/ EndBlock \/ SetValue \/ RevertTo

Spec == Init /\ [][Next]_vars
=============================================================================
