--------------------------- MODULE HeapOperations ---------------------------
(***************************************************************************)
(* Every sequence of calls of the heap of module Heap, over elements whose *)
(* priority is looked up in a context, as the miner's transactions have    *)
(* the price that the current block's base fee gives them.                 *)
(***************************************************************************)
EXTENDS Heap, FiniteSets

CONSTANTS
  Elements,     \* what is put in the heap, each at most once at a time
  Contexts,     \* refresh() is called with one of these
  price         \* price[c][x]: the priority of x in context c

VARIABLES
  heap,         \* the live part of the array
  context,      \* the context of the last refresh()
  members       \* what a caller expects to be in the heap

vars == <<heap, context, members>>

\* A higher price goes first, as in the miner's sortByPrice.
LessIn(c) == [p \in Elements \X Elements |-> price[c][p[1]] > price[c][p[2]]]

Less == LessIn(context)

Init ==
  /\ heap = <<>>
  /\ context \in Contexts
  /\ members = {}

DoPush(x) ==
  /\ x \notin members
  /\ heap' = Push(Less, heap, x)
  /\ members' = members \cup {x}
  /\ UNCHANGED context

DoRemoveBest ==
  /\ heap # <<>>
  /\ heap' = RemoveBest(Less, heap)
  /\ members' = members \ {Peek(heap)}
  /\ UNCHANGED context

DoReplaceBest(x) ==
  /\ heap # <<>>
  /\ x \notin members
  /\ heap' = ReplaceBest(Less, heap, x)
  /\ members' = (members \ {Peek(heap)}) \cup {x}
  /\ UNCHANGED context

DoReplace(i, x) ==
  /\ x \notin members
  /\ heap' = Replace(Less, heap, i, x)
  /\ members' = (members \ {heap[i]}) \cup {x}
  /\ UNCHANGED context

DoRemove(i) ==
  /\ heap' = Remove(Less, heap, i)
  /\ members' = members \ {heap[i]}
  /\ UNCHANGED context

Refreshed(c) == Heapify(LessIn(c), heap)

DoRefresh(c) ==
  /\ context' = c
  /\ heap' = Refreshed(c)
  /\ UNCHANGED members

Next ==
  \/ DoRemoveBest
  \/ \E x \in Elements : DoPush(x) \/ DoReplaceBest(x)
  \/ \E i \in DOMAIN heap :
       DoRemove(i) \/ \E x \in Elements : DoReplace(i, x)
  \/ \E c \in Contexts : DoRefresh(c)

Spec == Init /\ [][Next]_vars

-----------------------------------------------------------------------------

(***************************************************************************)
(* peek() returns an element of the highest priority there is, after any   *)
(* sequence of calls (heap.ts:66-71).                                      *)
(***************************************************************************)
PeekIsBest ==
  heap # <<>> => \A x \in members : ~Less[<<x, Peek(heap)>>]

(***************************************************************************)
(* No call loses, duplicates or resurrects an element: the live part of    *)
(* the array holds exactly the members, each once.                         *)
(***************************************************************************)
HoldsExactlyMembers ==
  /\ {heap[i] : i \in DOMAIN heap} = members
  /\ Len(heap) = Cardinality(members)

(***************************************************************************)
(* The reference definition of what removing the best over and over gives: *)
(* the members in the order of their priority.                             *)
(***************************************************************************)
DrainsInOrder ==
  LET drain[h \in Seq(Elements)] ==
        IF h = <<>> THEN <<>>
        ELSE <<Peek(h)>> \o drain[RemoveBest(Less, h)]
      out == drain[heap]
  IN  \A i, j \in DOMAIN out : i < j => ~Less[<<out[j], out[i]>>]

(***************************************************************************)
(* The heap answers every sequence of calls as a sorted collection would.  *)
(***************************************************************************)
HeapIsRight == PeekIsBest /\ HoldsExactlyMembers /\ DrainsInOrder

=============================================================================
