---------------------------- MODULE PromiseQueue ----------------------------
(***************************************************************************)
(* src/packages/promise-queue: a queue of promises whose outer promises    *)
(* resolve in the order in which they were added, whatever the order in    *)
(* which the added promises settle.  TransactionManager queues one promise *)
(* per transaction in it, so a queue that resolved out of order would hand *)
(* transactions on out of order.                                           *)
(*                                                                         *)
(* Entries are numbered in the order of the calls of add().  clear() moves *)
(* the entries of the live array to an array of their own, so the model    *)
(* keeps a family of arrays: array[0] is this.#queue, array[k] is the      *)
(* cancelledQueue of the k-th call of clear().                             *)
(***************************************************************************)
EXTENDS Integers, Sequences

CONSTANTS
  MaxAdds,      \* bound: calls of add()
  MaxClears,    \* bound: calls of clear()
  Values,       \* the values clear() is called with
  Own           \* stands for "the outcome of the promise that was added"

ASSUME BoundsAssumption == MaxAdds \in Nat \ {0} /\ MaxClears \in Nat

ASSUME OwnAssumption == Own \notin Values

Pending == "pending"

ASSUME PendingAssumption == Pending \notin Values \cup {Own}

Entries == 1..MaxAdds

ArrayIds == 0..MaxClears

VARIABLES
  array,        \* array[0] is the live queue, array[k] the k-th cancelled one
  entryQueue,   \* entry.queue: the array the entry believes it is in
  value,        \* entry.value: what the outer promise will resolve to
  resolved,     \* entry.resolved: settled while others were ahead of it
  promise,      \* entry.promise, the outer promise: Pending or its result
  settled,      \* the entry's own promise has settled
  adds,         \* number of calls of add()
  clears,       \* number of calls of clear()
  batch,        \* history: the number of clears when the entry was added
  clearValue    \* history: the value given to each call of clear()

vars == <<array, entryQueue, value, resolved, promise, settled, adds, clears,
          batch, clearValue>>

TypeOK ==
  /\ array \in [ArrayIds -> Seq(Entries)]
  /\ entryQueue \in [Entries -> ArrayIds]
  /\ value \in [Entries -> Values \cup {Own}]
  /\ resolved \in [Entries -> BOOLEAN]
  /\ promise \in [Entries -> Values \cup {Own, Pending}]
  /\ settled \in [Entries -> BOOLEAN]
  /\ adds \in 0..MaxAdds
  /\ clears \in ArrayIds
  /\ batch \in [Entries -> ArrayIds]
  /\ clearValue \in [ArrayIds -> Values \cup {Own}]

Init ==
  /\ array = [k \in ArrayIds |-> <<>>]
  /\ entryQueue = [e \in Entries |-> 0]
  /\ value = [e \in Entries |-> Own]
  /\ resolved = [e \in Entries |-> FALSE]
  /\ promise = [e \in Entries |-> Pending]
  /\ settled = [e \in Entries |-> FALSE]
  /\ adds = 0
  /\ clears = 0
  /\ batch = [e \in Entries |-> 0]
  /\ clearValue = [k \in ArrayIds |-> Own]

-----------------------------------------------------------------------------

(***************************************************************************)
(* add(promise): the new entry goes to the end of the live array.          *)
(***************************************************************************)
Add ==
  /\ adds < MaxAdds
  /\ adds' = adds + 1
  /\ array' = [array EXCEPT ![0] = Append(@, adds + 1)]
  /\ batch' = [batch EXCEPT ![adds + 1] = clears]
  /\ UNCHANGED <<entryQueue, value, resolved, promise, settled, clears,
                 clearValue>>

(***************************************************************************)
(* #tryResolveChain: the number of entries at the front of queue q that    *)
(* have settled already, given the resolved flags.                         *)
(***************************************************************************)
ResolvedPrefix(q) ==
  CHOOSE n \in 0..Len(q) :
    /\ \A i \in 1..n : resolved[q[i]]
    /\ n < Len(q) => ~resolved[q[n + 1]]

(***************************************************************************)
(* #tryResolve(queue, entry), run as a reaction of the added promise: the  *)
(* entry at the front resolves, and with it every settled entry right      *)
(* behind it; any other entry is only marked.  Nobody listens to "idle".    *)
(***************************************************************************)
TryResolve(k, e) ==
  IF array[k] # <<>> /\ Head(array[k]) = e
  THEN LET rest == Tail(array[k])
           n == ResolvedPrefix(rest)
           out == {e} \cup {rest[i] : i \in 1..n}
       IN  /\ array' = [array EXCEPT ![k] = SubSeq(rest, n + 1, Len(rest))]
           /\ promise' = [f \in Entries |-> IF f \in out THEN value[f]
                                                         ELSE promise[f]]
           /\ UNCHANGED resolved
  ELSE /\ resolved' = [resolved EXCEPT ![e] = TRUE]
       /\ UNCHANGED <<array, promise>>

OnSettled(e) ==
  /\ e \in 1..adds
  /\ ~settled[e]
  /\ settled' = [settled EXCEPT ![e] = TRUE]
  /\ TryResolve(entryQueue[e], e)
  /\ UNCHANGED <<entryQueue, value, adds, clears, batch, clearValue>>

(***************************************************************************)
(* clear(value): the live entries move to an array of their own, know that *)
(* they did, and will all resolve to the value.                            *)
(***************************************************************************)
Live == {array[0][i] : i \in 1..Len(array[0])}

\* Mutant: the cancelled entries still look for themselves in the live array.
KeepQueues(k) == entryQueue

Repoint(k) ==
  [e \in Entries |-> IF e \in Live THEN k ELSE entryQueue[e]]

\* Mutant: a second clear() also reaches entries cancelled by the first.
RevalueAll(v) ==
  [e \in Entries |-> IF promise[e] = Pending THEN v ELSE value[e]]

Revalue(v) ==
  [e \in Entries |-> IF e \in Live THEN v ELSE value[e]]

Clear(v) ==
  /\ clears < MaxClears
  /\ clears' = clears + 1
  /\ array' = [array EXCEPT ![0] = <<>>, ![clears + 1] = array[0]]
  /\ entryQueue' = Repoint(clears + 1)
  /\ value' = Revalue(v)
  /\ clearValue' = [clearValue EXCEPT ![clears + 1] = v]
  /\ UNCHANGED <<resolved, promise, settled, adds, batch>>

Next ==
  \/ Add
  \/ \E e \in Entries : OnSettled(e)
  \/ \E v \in Values : Clear(v)

Spec == Init /\ [][Next]_vars

-----------------------------------------------------------------------------

(***************************************************************************)
(* The queue's whole promise (index.ts:6-8): an outer promise is resolved  *)
(* exactly when its own promise and every promise added before it since    *)
(* the last clear() have settled: never earlier (order) and never later    *)
(* (no entry is stranded behind settled ones, by clear() in particular).   *)
(***************************************************************************)
Ahead(e) == {f \in 1..e : batch[f] = batch[e]}

ResolvedInOrder ==
  \A e \in 1..adds :
    promise[e] # Pending <=> \A f \in Ahead(e) : settled[f]

(***************************************************************************)
(* The documented result of add() (index.ts:61-63): the outcome of the     *)
(* added promise, or the value of the first clear() that came before the   *)
(* entry was shifted off; later calls of clear() do not change it.         *)
(***************************************************************************)
ResultIsOwnOrFirstClear ==
  [][\A e \in Entries :
       promise[e] # promise'[e] =>
         /\ promise[e] = Pending
         /\ promise'[e] = IF batch[e] = clears THEN Own
                          ELSE clearValue[batch[e] + 1]]_vars

(***************************************************************************)
(* isBusy() is exact: the live array is empty precisely when every entry   *)
(* added since the last clear() has settled, so a caller that finds the    *)
(* queue not busy has nothing left to wait for.                            *)
(***************************************************************************)
NotBusyMeansDrained ==
  array[0] = <<>> <=>
    \A e \in 1..adds : batch[e] = clears => settled[e]

=============================================================================
