-------------------------------- MODULE Heap --------------------------------
(***************************************************************************)
(* src/packages/utils/src/utils/heap.ts: the binary heap behind the        *)
(* transaction pool's queues and the miner's price queue.                  *)
(*                                                                         *)
(* A heap is the live part of the code's array, array[0 .. length - 1], as *)
(* a sequence; indices are therefore one higher than in the code.  less is *)
(* the code's comparator as a function: less[<<x, y>>] says that x goes    *)
(* before y.                                                               *)
(***************************************************************************)
EXTENDS Integers, Sequences

Swap(h, i, j) == [h EXCEPT ![i] = h[j], ![j] = h[i]]

Arrays(h) == [DOMAIN h -> {h[i] : i \in DOMAIN h}]

\* How far an element has come in the array.
Places(h) == [at : 1..Len(h), array : Arrays(h)]

(***************************************************************************)
(* up(j): the element at j rises past every ancestor it goes before.       *)
(***************************************************************************)
Up(less, h, j) ==
  LET up[p \in Places(h)] ==
        IF p.at > 1 /\ less[<<p.array[p.at], p.array[p.at \div 2]>>]
        THEN up[[at |-> p.at \div 2, array |-> Swap(p.array, p.at, p.at \div 2)]]
        ELSE p.array
  IN  up[[at |-> j, array |-> h]]

\* Mutant: down() considers the left child only.
LeftChild(less, a, i) == 2 * i

\* The child that down() compares with its parent: the better of the two.
BestChild(less, a, i) ==
  IF 2 * i + 1 <= Len(a) /\ less[<<a[2 * i + 1], a[2 * i]>>]
  THEN 2 * i + 1
  ELSE 2 * i

(***************************************************************************)
(* down(i): the element at i sinks below every child that goes before it.  *)
(***************************************************************************)
Down(less, h, i) ==
  LET down[p \in Places(h)] ==
        LET j == BestChild(less, p.array, p.at)
        IN  IF 2 * p.at <= Len(p.array) /\ less[<<p.array[j], p.array[p.at]>>]
            THEN down[[at |-> j, array |-> Swap(p.array, p.at, j)]]
            ELSE p.array
  IN  down[[at |-> i, array |-> h]]

Peek(h) == h[1]

(***************************************************************************)
(* push(x), and the constructor-like Heap.from(x) for the first element.   *)
(***************************************************************************)
Push(less, h, x) == Up(less, Append(h, x), Len(h) + 1)

From(x) == <<x>>

\* replaceBest(x): x takes the place of the root.
ReplaceBest(less, h, x) == Down(less, [h EXCEPT ![1] = x], 1)

(***************************************************************************)
(* removeBest(), and shift() apart from its result: the last element moves *)
(* to the root and sinks.  The code tells callers not to do this to an     *)
(* empty heap (heap.ts:151); these operators are undefined there.          *)
(***************************************************************************)
RemoveBest(less, h) ==
  LET n == Len(h) - 1
  IN  IF n = 0 THEN <<>>
      ELSE Down(less, [SubSeq(h, 1, n) EXCEPT ![1] = h[n + 1]], 1)

\* What removeBest() returns: there are more elements.
HasMore(h) == Len(h) > 1

(***************************************************************************)
(* fix(i): re-establish the order around an element that changed.  down()  *)
(* reports whether it moved the element; up() is tried when it did not.    *)
(***************************************************************************)

Fix(less, h, i) ==
  LET sunk == Down(less, h, i)
  IN  IF sunk = h THEN Up(less, h, i) ELSE sunk

Replace(less, h, i, x) == Fix(less, [h EXCEPT ![i] = x], i)

\* remove(i): the last element takes the place of the one at i.
Remove(less, h, i) ==
  LET n == Len(h) - 1
  IN  IF i = n + 1 THEN SubSeq(h, 1, n)
      ELSE Fix(less, [SubSeq(h, 1, n) EXCEPT ![i] = h[n + 1]], i)

(***************************************************************************)
(* The loop of init(array) and of refresh(context): every node that has a  *)
(* child sinks, the last one first.                                        *)
(***************************************************************************)
Heapify(less, h) ==
  LET heapify[i \in 0..Len(h)] ==
        \* the array after nodes i + 1 .. Len(h) \div 2 have sunk
        IF i >= Len(h) \div 2 THEN h ELSE Down(less, heapify[i + 1], i + 1)
  IN  heapify[0]

=============================================================================
