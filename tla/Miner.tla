-------------------------------- MODULE Miner --------------------------------
(***************************************************************************)
(* chains/ethereum/ethereum/src/miner/miner.ts, and the parts of           *)
(* blockchain.ts that feed it and consume its blocks: the calls of mine(), *)
(* the "drain" listener, and the chain of promises that saves the blocks.  *)
(*                                                                         *)
(* A step is what runs between two awaits.  Everything else may come in    *)
(* between: transactions enter the pool, mine() is called again, the miner *)
(* is paused.  A call of mine() that mines runs in a loop; the code wants  *)
(* one loop at a time, the model has room for several.                     *)
(*                                                                         *)
(* A transaction is a record: from, nonce, price (its effective gas price; *)
(* re-pricing by the base fee is left out), intrinsic (calculateIntrinsic- *)
(* Gas), gas (what it uses when it runs) and fails (the VM refuses it for  *)
(* a reason other than its nonce).                                         *)
(***************************************************************************)
EXTENDS Heap, FiniteSets

LOCAL Seqs == INSTANCE SequencesExt

LOCAL Range(s) == {s[i] : i \in DOMAIN s}

CONSTANTS
  Txs,            \* the transactions
  NoTx,
  Loops,          \* bound: mining loops running at a time
  blockGasLimit,
  TRANSACTION_GAS,
  Instamine,      \* "drain" makes the miner mine; if not, a timer does
  Modes,          \* explicit calls of mine(): <<maxTransactions, onlyOneBlock>>
  MaxCalls,       \* bound: calls of mine(), pause() and miner_stop
  MaxUnsaved      \* bound: how far saving may lag behind mining, in blocks

FillBlock == -1
Empty == 0
Single == 1

Origins == {t.from : t \in Txs}

VARIABLES
  pending,        \* executables.pending: per origin, by nonce
  pendingOrder,   \* the order of the keys of that Map
  inProgress,     \* executables.inProgress: executed, not yet finalized
  locked,         \* the transactions whose locked flag is set
  finalized,      \* what each transaction was finalized as, or "no"
  sent,           \* the transactions that have entered the pool
  priced,         \* #priced, a heap by price
  origins,        \* #origins
  again,          \* #pending: mine() was called while the miner was busy
  isBusy,
  currentPrice,   \* #currentlyExecutingPrice
  loops,          \* the calls of mine() that mine
  paused,
  waiting,        \* calls of mine() that await #resumer
  released,       \* calls whose #resumer has resolved
  pauser,         \* the caller of pause(): "no", "waiting" for idle, "holding"
  vmNonce,        \* the account nonces in the VM's state
  emitted,        \* the blocks emitted, in order
  saved,          \* how many of them are saved
  stopped,        \* the blockchain's paused bit: miner_stop
  drains,         \* "drain" events on their way
  calls           \* calls so far, of those MaxCalls bounds

poolVars == <<pending, pendingOrder, inProgress, finalized, sent>>
queueVars == <<priced, origins, locked>>
mineVars == <<queueVars, again, isBusy, loops>>
pauseVars == <<paused, waiting, released, pauser>>
chainVars == <<vmNonce, emitted, saved>>
callVars == <<stopped, drains, calls>>
vars == <<poolVars, mineVars, currentPrice, pauseVars, chainVars, callVars>>

-----------------------------------------------------------------------------

(***************************************************************************)
(* Blocks.  A block is known by its position in emitted; 0 is the genesis  *)
(* block.  blocks.latest is set when the saving of a block begins, which   *)
(* is when every block emitted before it has been saved.                   *)
(***************************************************************************)
\* Mutant: blocks.latest is set when the saving of a block is over.
LatestSaved == saved

latest == IF saved < Len(emitted) THEN saved + 1 ELSE saved

StateAt(b) ==
  IF b = 0 THEN [o \in Origins |-> 0] ELSE emitted[b].nonces

\* The locals of #mineTxs; parent is the parent of its runtime block, last the
\* block emitted last.  behind is kept for EachBlockOnTheLast.
FreeLoop ==
  [pc |-> "free", max |-> Single, only |-> FALSE, parent |-> 0, txs |-> <<>>,
   gasLeft |-> 0, best |-> NoTx, keep |-> FALSE, last |-> 0, behind |-> FALSE]

PCs == {"free", "loop", "running", "finish", "after"}

IsFree(l) == loops[l].pc = "free"

(***************************************************************************)
(* Three things happen a few microtasks after what causes them: #mine goes *)
(* on after #mineTxs has returned, the "drain" listener runs after a       *)
(* transaction has entered the pool, and the calls that await #resumer go  *)
(* on after resume().  Nothing else is assumed to have its turn before:    *)
(* all else waits for the database, a timer or a client.                   *)
(***************************************************************************)
NotAfterLoop == \A l \in Loops : loops[l].pc # "after"

NoMicrotask == drains = 0 /\ released = <<>> /\ NotAfterLoop

-----------------------------------------------------------------------------
(* The heap of prices. *)

Less == [x, y \in Txs |-> x.price > y.price]

PushAll(h, S) ==
  Seqs!FoldLeft(
    LAMBDA acc, o : IF pending[o] # <<>> /\ Head(pending[o]) \in S
                    THEN Push(Less, acc, Head(pending[o])) ELSE acc,
    h, pendingOrder)

\* The next transaction of every origin, unless it is locked.
Unlocked ==
  {Head(pending[o]) : o \in {p \in Origins : pending[p] # <<>>}} \ locked

(***************************************************************************)
(* #updatePricedHeap: those it adds while a transaction of the given price *)
(* is executing.                                                           *)
(***************************************************************************)
Late(price) == {t \in Unlocked : t.price >= price /\ t.from \notin origins}

\* Adds the transactions S, one per origin, to the heap h.
AddToPriced(h, os, S) ==
  /\ priced' = PushAll(h, S)
  /\ origins' = os \cup {t.from : t \in S}

\* #reset(), which also unlocks what is still in the heap.
Reset ==
  /\ priced' = <<>>
  /\ origins' = {}
  /\ locked' = locked \ Range(priced)

-----------------------------------------------------------------------------

(***************************************************************************)
(* Calls of mine().                                                        *)
(***************************************************************************)
\* The do of #mineTxs, up to its first await.
Begin(loop) ==
  [loop EXCEPT !.pc = IF loop.max = Empty THEN "finish" ELSE "loop",
               !.txs = <<>>, !.gasLeft = blockGasLimit,
               !.best = NoTx, !.keep = FALSE]

\* Mutant: the miner looks busy only while it has transactions queued.
BusyWhilePriced == priced # <<>>

Busy == isBusy

(***************************************************************************)
(* blocks.latest, which mine() reads for its block, was behind the blocks  *)
(* emitted: two of them or more were not saved, or it has moved on while   *)
(* the call waited for the miner to be resumed.                            *)
(***************************************************************************)
Behind(parent) == Len(emitted) - saved > 1 \/ parent # latest

\* mine() past its await of #resumer; the runtime block has this parent.
Enter(max, only, parent) ==
  IF Busy
  THEN /\ again' = TRUE
       /\ AddToPriced(priced, origins, Late(currentPrice))
       /\ locked' = locked \cup Late(currentPrice)
       /\ UNCHANGED <<isBusy, loops>>
  ELSE \E l \in Loops :
         /\ IsFree(l)
         /\ \A m \in Loops : m < l => ~IsFree(m)
         /\ AddToPriced(priced, origins, Unlocked)
         /\ locked' = locked \cup Unlocked
         /\ isBusy' = TRUE
         /\ loops' = [loops EXCEPT ![l] =
              Begin([FreeLoop EXCEPT !.max = max, !.only = only,
                                     !.parent = parent, !.behind = Behind(parent)])]
         /\ UNCHANGED again

Call(max, only) ==
  IF paused
  THEN /\ waiting' = Append(waiting, <<max, only, latest>>)
       /\ UNCHANGED mineVars
  ELSE Enter(max, only, latest) /\ UNCHANGED waiting

\* A call whose #resumer has resolved goes on, with the block it came with.
Released ==
  /\ NotAfterLoop
  /\ released # <<>>
  /\ released' = Tail(released)
  /\ Enter(released[1][1], released[1][2], released[1][3])
  /\ UNCHANGED <<poolVars, currentPrice, paused, waiting, pauser, chainVars,
                 callVars>>

\* The "drain" listener of instamine; while the miner is stopped it returns.
Drain ==
  /\ NotAfterLoop
  /\ drains > 0
  /\ drains' = drains - 1
  /\ IF stopped
     THEN UNCHANGED <<mineVars, waiting>>
     ELSE Call(Single, FALSE)
  /\ UNCHANGED <<poolVars, currentPrice, paused, released, pauser, chainVars,
                 stopped, calls>>

BoundedCall ==
  /\ NoMicrotask
  /\ calls < MaxCalls
  /\ calls' = calls + 1

(***************************************************************************)
(* The timer of interval mining, set again when its call of mine() has     *)
(* returned.  The timer and the explicit calls do not come while a call    *)
(* mines, or waits for the miner to be resumed.                            *)
(***************************************************************************)
Idle == waiting = <<>> /\ \A l \in Loops : IsFree(l)

Tick ==
  /\ BoundedCall
  /\ ~Instamine /\ ~stopped /\ Idle
  /\ Call(FillBlock, TRUE)
  /\ UNCHANGED <<poolVars, currentPrice, paused, released, pauser, chainVars,
                 stopped, drains>>

\* evm_mine and the evm_setAccount* calls.
ExplicitCall ==
  /\ BoundedCall
  /\ Idle
  /\ \E m \in Modes : Call(m[1], m[2])
  /\ UNCHANGED <<poolVars, currentPrice, paused, released, pauser, chainVars,
                 stopped, drains>>

MinerStop ==
  /\ BoundedCall
  /\ ~stopped
  /\ stopped' = TRUE
  /\ UNCHANGED <<poolVars, mineVars, currentPrice, pauseVars, chainVars, drains>>

\* miner_start: Blockchain.resume, which mines at once when instamining.
MinerStart ==
  /\ NoMicrotask
  /\ stopped
  /\ stopped' = FALSE
  /\ IF Instamine THEN Call(FillBlock, FALSE) ELSE UNCHANGED <<mineVars, waiting>>
  /\ UNCHANGED <<poolVars, currentPrice, paused, released, pauser, chainVars,
                 drains, calls>>

-----------------------------------------------------------------------------

(***************************************************************************)
(* The loop over the transactions.                                         *)
(***************************************************************************)
\* The heap without its n best.
Skip(n) ==
  LET skip[k \in 0..n] ==
        IF k = 0 THEN priced ELSE RemoveBest(Less, skip[k - 1])
  IN  skip[n]

Fits(h, gas) == h = <<>> \/ Peek(h).intrinsic <= gas

(***************************************************************************)
(* The top of the loop: the best transactions that cannot possibly fit in  *)
(* the block are unlocked and removed, with their origins, up to one that  *)
(* may fit, which is run.  Without any, the block is finished.             *)
(***************************************************************************)
SelectBest(l) ==
  LET loop == loops[l]
      n == CHOOSE k \in 0..Len(priced) :
             /\ Fits(Skip(k), loop.gasLeft)
             /\ \A j \in 0..(k - 1) : ~Fits(Skip(j), loop.gasLeft)
      skipped == {Peek(Skip(j)) : j \in 0..(n - 1)}
      rest == Skip(n)
  IN  /\ loop.pc = "loop"
      /\ priced' = rest
      /\ origins' = origins \ {t.from : t \in skipped}
      /\ locked' = locked \ skipped
      /\ IF rest = <<>>
         THEN /\ loops' = [loops EXCEPT ![l].pc = "finish"]
              /\ UNCHANGED currentPrice
         ELSE /\ loops' = [loops EXCEPT ![l].pc = "running",
                                       ![l].best = Peek(rest)]
              /\ currentPrice' = Peek(rest).price
      /\ UNCHANGED <<poolVars, again, isBusy, pauseVars, chainVars,
                     callVars>>

(***************************************************************************)
(* The removal of the transaction just run: the origin's heap loses its    *)
(* best, and the origin's next transaction replaces the best of priced     *)
(* (replaceFromHeap), or else the origin and the best of priced go.        *)
(***************************************************************************)
\* Mutant: the next transaction of the origin is not locked.
LockNothing(next) == locked

LockNext(next) == locked \cup {next}

RemoveRun(o) ==
  LET rest == Tail(pending[o])
  IN  /\ pending' = [pending EXCEPT ![o] = rest]
      /\ IF rest # <<>>
         THEN /\ priced' = ReplaceBest(Less, priced, Head(rest))
              /\ locked' = LockNext(Head(rest))
              /\ UNCHANGED origins
         ELSE /\ priced' = RemoveBest(Less, priced)
              /\ origins' = origins \ {o}
              /\ UNCHANGED locked

\* What becomes of keepMining.
MoreToMine(o) == Len(pending[o]) > 1 \/ HasMore(priced)

\* The VM accepts the transaction: its nonce is right, and all the rest.
Runs(t) == t.nonce = vmNonce[t.from] /\ ~t.fails

(***************************************************************************)
(* The best of an empty heap is undefined: the model goes no further where *)
(* one is removed or replaced.                                             *)
(***************************************************************************)
CanRemove(o) == pending[o] # <<>> /\ priced # <<>>

FitsInBlock(loop) == loop.best.gas <= loop.gasLeft

InProgressWith(t) ==
  IF finalized[t] = "no" THEN inProgress \cup {t} ELSE inProgress

GasLeft(loop) == loop.gasLeft - loop.best.gas

RunCommits(l) ==
  LET loop == loops[l]
      t == loop.best
      full == \/ GasLeft(loop) <= TRANSACTION_GAS
              \/ Len(loop.txs) + 1 = loop.max
  IN  /\ loop.pc = "running"
      /\ Runs(t) /\ FitsInBlock(loop)
      /\ CanRemove(t.from)
      /\ RemoveRun(t.from)
      /\ loops' = [loops EXCEPT ![l] =
           [loop EXCEPT !.pc = IF full THEN "finish" ELSE "loop",
                        !.txs = Append(@, t),
                        !.gasLeft = GasLeft(loop),
                        !.keep = MoreToMine(t.from)]]
      /\ vmNonce' = [vmNonce EXCEPT ![t.from] = @ + 1]
      /\ inProgress' = InProgressWith(t)
      /\ UNCHANGED <<pendingOrder, finalized, sent, again, isBusy,
                     currentPrice, pauseVars, emitted, saved, callVars>>

\* It ran, but used more gas than the block has left: undone, and put off.
RunDoesNotFit(l) ==
  LET loop == loops[l]
  IN  /\ loop.pc = "running"
      /\ Runs(loop.best) /\ ~FitsInBlock(loop)
      /\ priced # <<>>
      /\ priced' = RemoveBest(Less, priced)
      /\ locked' = locked \ {loop.best}
      /\ loops' = [loops EXCEPT ![l].pc = "loop", ![l].keep = HasMore(priced)]
      /\ UNCHANGED <<poolVars, origins, again, isBusy, currentPrice,
                     pauseVars, chainVars, callVars>>

Finalize(S, how) ==
  [t \in Txs |-> IF t \in S /\ finalized[t] = "no" THEN how ELSE finalized[t]]

\* The VM throws: #runTx cleans up and rejects; keepMining stays as it is.
RunFails(l) ==
  LET t == loops[l].best
  IN  /\ loops[l].pc = "running"
      /\ ~Runs(t)
      /\ CanRemove(t.from)
      /\ RemoveRun(t.from)
      /\ finalized' = Finalize({t}, "rejected")
      /\ inProgress' = inProgress \ {t}
      /\ loops' = [loops EXCEPT ![l].pc = "loop"]
      /\ UNCHANGED <<pendingOrder, sent, again, isBusy, currentPrice,
                     pauseVars, chainVars, callVars>>

StaysBusy(loop) == loop.keep

(***************************************************************************)
(* The end of #mineTxs's loop body: the block is emitted, and the heap is  *)
(* reset, or brought up to date and, if it holds anything, given a new     *)
(* runtime block on top of the one just emitted.                           *)
(***************************************************************************)
Finish(l) ==
  LET loop == loops[l]
      id == Len(emitted) + 1
      stop == loop.only \/ loop.max = Empty
      late == Late(0)
      next == [loop EXCEPT !.last = id, !.behind = FALSE,
                 !.parent = IF priced # <<>> \/ late # {} THEN id ELSE @]
  IN  /\ loop.pc = "finish"
      /\ Len(emitted) - saved < MaxUnsaved
      /\ emitted' = Append(emitted, [parent |-> loop.parent, txs |-> loop.txs,
                                     nonces |-> vmNonce, behind |-> loop.behind])
      /\ currentPrice' = IF loop.max = Empty THEN currentPrice ELSE 0
      /\ IF stop
         THEN /\ Reset
              /\ isBusy' = FALSE
              /\ loops' = [loops EXCEPT ![l] = [loop EXCEPT !.pc = "after",
                                                           !.last = id]]
         ELSE /\ IF priced = <<>> /\ late = {}
                 THEN Reset /\ isBusy' = StaysBusy(loop)
                 ELSE /\ AddToPriced(priced, origins, late)
                      /\ locked' = locked \cup late
                      /\ UNCHANGED isBusy
              /\ loops' = [loops EXCEPT ![l] =
                   IF loop.keep THEN Begin(next)
                                ELSE [next EXCEPT !.pc = "after"]]
      /\ UNCHANGED <<poolVars, again, pauseVars, vmNonce, saved,
                     callVars>>

(***************************************************************************)
(* The rest of #mine: if mine() was called in the meantime, mine on, on    *)
(* top of the last block.  Otherwise mine() returns and emits "idle".      *)
(***************************************************************************)
\* Mutant: only what is not queued yet makes the miner go on.
ContinuesForUnlocked(loop) == ~loop.only /\ Unlocked # {}

Continues(loop) == ~loop.only /\ (priced # <<>> \/ Unlocked # {})

After(l) ==
  LET loop == loops[l]
  IN  /\ loop.pc = "after"
      /\ again' = FALSE
      /\ IF again
         THEN /\ AddToPriced(priced, origins, Unlocked)
              /\ locked' = locked \cup Unlocked
         ELSE UNCHANGED queueVars
      /\ IF again /\ Continues(loop)
         THEN /\ loops' = [loops EXCEPT ![l] =
                             Begin([loop EXCEPT !.parent = loop.last,
                                                !.behind = FALSE])]
              /\ isBusy' = TRUE
              /\ UNCHANGED pauser
         ELSE /\ loops' = [loops EXCEPT ![l] = FreeLoop]
              /\ pauser' = IF pauser = "waiting" THEN "holding" ELSE pauser
              /\ UNCHANGED isBusy
      /\ UNCHANGED <<poolVars, currentPrice, paused, waiting, released,
                     chainVars, callVars>>

-----------------------------------------------------------------------------

(***************************************************************************)
(* pause() and resume(), as revert and stop use them.  The caller holds    *)
(* the miner once pause() has returned.                                    *)
(***************************************************************************)
PauseOutcome == IF isBusy THEN "waiting" ELSE "holding"

Pause ==
  /\ BoundedCall
  /\ pauser = "no"
  /\ paused' = TRUE
  /\ pauser' = PauseOutcome
  /\ UNCHANGED <<poolVars, mineVars, currentPrice, waiting, released, chainVars,
                 stopped, drains>>

Resume ==
  /\ NoMicrotask
  /\ pauser = "holding"
  /\ pauser' = "no"
  /\ paused' = FALSE
  /\ released' = released \o waiting
  /\ waiting' = <<>>
  /\ UNCHANGED <<poolVars, mineVars, currentPrice, chainVars, callVars>>

(***************************************************************************)
(* Saving: the oldest block that is not saved yet is; its transactions are *)
(* finalized (#emitNewBlock), and so leave inProgress.                     *)
(***************************************************************************)
BlockSaved ==
  /\ NoMicrotask
  /\ saved < Len(emitted)
  /\ saved' = saved + 1
  /\ LET txs == Range(emitted[saved + 1].txs)
     IN  /\ finalized' = Finalize(txs, "confirmed")
         /\ inProgress' = inProgress \ txs
  /\ UNCHANGED <<pending, pendingOrder, sent, mineVars, currentPrice, pauseVars,
                 vmNonce, emitted, callVars>>

(***************************************************************************)
(* The pool's side, as far as it concerns the miner: a transaction becomes *)
(* executable when its nonce follows the last pending one of its origin,   *)
(* or, without any, is the account's nonce at blocks.latest.               *)
(***************************************************************************)
IsExecutable(t) ==
  LET q == pending[t.from]
  IN  t.nonce = IF q = <<>> THEN StateAt(latest)[t.from]
                            ELSE q[Len(q)].nonce + 1

AddTx(t) ==
  /\ NoMicrotask
  /\ t \notin sent
  /\ IsExecutable(t)
  /\ sent' = sent \cup {t}
  /\ pending' = [pending EXCEPT ![t.from] = Append(@, t)]
  /\ pendingOrder' = IF t.from \in Range(pendingOrder) THEN pendingOrder
                                                       ELSE Append(pendingOrder, t.from)
  /\ drains' = IF Instamine THEN drains + 1 ELSE drains
  /\ UNCHANGED <<inProgress, finalized, mineVars, currentPrice, pauseVars,
                 chainVars, stopped, calls>>

\* shouldReplace: same nonce, better price, and not being mined.
CanReplace(old, t) ==
  old.nonce = t.nonce /\ t.price > old.price /\ old \notin locked

(***************************************************************************)
(* A better paid transaction takes the place of the next one of its        *)
(* origin.  Only nonce 0 is replaced here: there the pool does not add the *)
(* replacement a second time (see TransactionPool).                        *)
(***************************************************************************)
ReplaceTx(t) ==
  /\ NoMicrotask
  /\ t \notin sent
  /\ t.nonce = 0
  /\ pending[t.from] # <<>>
  /\ CanReplace(Head(pending[t.from]), t)
  /\ sent' = sent \cup {t}
  /\ finalized' = Finalize({Head(pending[t.from])}, "rejected")
  /\ pending' = [pending EXCEPT ![t.from][1] = t]
  /\ drains' = IF Instamine THEN drains + 1 ELSE drains
  /\ UNCHANGED <<pendingOrder, inProgress, mineVars, currentPrice, pauseVars,
                 chainVars, stopped, calls>>

-----------------------------------------------------------------------------

Init ==
  /\ pending = [o \in Origins |-> <<>>]
  /\ pendingOrder = <<>>
  /\ inProgress = {}
  /\ locked = {}
  /\ finalized = [t \in Txs |-> "no"]
  /\ sent = {}
  /\ priced = <<>>
  /\ origins = {}
  /\ again = FALSE
  /\ isBusy = FALSE
  /\ currentPrice = 0
  /\ loops = [l \in Loops |-> FreeLoop]
  /\ paused = FALSE
  /\ waiting = <<>>
  /\ released = <<>>
  /\ pauser = "no"
  /\ vmNonce = [o \in Origins |-> 0]
  /\ emitted = <<>>
  /\ saved = 0
  /\ stopped = FALSE
  /\ drains = 0
  /\ calls = 0

\* What the continuation of an await of loop l does.
Loop(l) ==
  \/ After(l)
  \/ /\ NoMicrotask
     /\ SelectBest(l) \/ RunCommits(l) \/ RunDoesNotFit(l) \/ RunFails(l)
        \/ Finish(l)

Client ==
  \/ \E t \in Txs : AddTx(t) \/ ReplaceTx(t)
  \/ Tick \/ ExplicitCall \/ MinerStop

Next ==
  \/ \E l \in Loops : Loop(l)
  \/ Released \/ Drain \/ MinerStart \/ Pause \/ Resume \/ BlockSaved
  \/ Client

Spec == Init /\ [][Next]_vars

(***************************************************************************)
(* Fairness: the awaits of the loops resolve, blocks get saved, events are *)
(* delivered, and whoever paused or stopped the miner resumes it.  Clients *)
(* owe nothing else.                                                       *)
(***************************************************************************)
Fairness ==
  /\ WF_vars(\E l \in Loops : Loop(l))
  /\ WF_vars(BlockSaved)
  /\ WF_vars(Released)
  /\ WF_vars(Drain)
  /\ WF_vars(Resume)
  /\ WF_vars(MinerStart)

FairSpec == Spec /\ Fairness

-----------------------------------------------------------------------------

TypeOK ==
  /\ pending \in [Origins -> Seq(Txs)]
  /\ pendingOrder \in Seq(Origins)
  /\ inProgress \subseteq Txs
  /\ locked \subseteq Txs
  /\ finalized \in [Txs -> {"no", "confirmed", "rejected"}]
  /\ sent \subseteq Txs
  /\ priced \in Seq(Txs)
  /\ origins \subseteq Origins
  /\ again \in BOOLEAN /\ isBusy \in BOOLEAN /\ paused \in BOOLEAN
  /\ currentPrice \in Nat
  /\ \A l \in Loops : /\ loops[l].pc \in PCs
                      /\ loops[l].best \in Txs \cup {NoTx}
                      /\ loops[l].txs \in Seq(Txs)
                      /\ loops[l].gasLeft \in 0..blockGasLimit
                      /\ loops[l].parent \in 0..Len(emitted)
  /\ pauser \in {"no", "waiting", "holding"}
  /\ vmNonce \in [Origins -> Nat]
  /\ saved \in 0..Len(emitted)
  /\ drains \in Nat

Active == {l \in Loops : ~IsFree(l)}

Mining == {l \in Loops : loops[l].pc \in {"loop", "running", "finish"}}

Mined == UNION {Range(emitted[b].txs) : b \in DOMAIN emitted}

(***************************************************************************)
(* One call of mine() mines at a time, however many come: the VM's state   *)
(* has one stack of checkpoints (miner.ts:175).                            *)
(***************************************************************************)
OneLoop == Cardinality(Mining) <= 1

(***************************************************************************)
(* The heap of prices holds one transaction of an origin at most, its next *)
(* one, although clients replace transactions all the time: the removal of *)
(* a transaction takes the best of both heaps (miner.ts:349-364).          *)
(***************************************************************************)
PricedIsNextOfOrigin ==
  /\ \A i \in DOMAIN priced :
       /\ pending[priced[i].from] # <<>>
       /\ priced[i] = Head(pending[priced[i].from])
  /\ Len(priced) = Cardinality({t.from : t \in Range(priced)})

(***************************************************************************)
(* A pending transaction is locked just when it is queued to be mined: if  *)
(* it was locked for nothing it would never be queued again, if it was not *)
(* locked it could be replaced while it runs (miner.ts:480-490).           *)
(***************************************************************************)
LockedIffPriced ==
  \A o \in Origins : \A i \in DOMAIN pending[o] :
    pending[o][i] \in locked <=> pending[o][i] \in Range(priced)

(***************************************************************************)
(* While a transaction runs nothing takes its place at the top of the heap *)
(* of prices, where it is removed from afterwards.  "don't insert a        *)
(* transaction into the miner's `priced` heap if it will be better than    *)
(* its last" (miner.ts:567-568).                                           *)
(***************************************************************************)
RunningIsBest ==
  \A l \in Loops :
    loops[l].pc = "running" => priced # <<>> /\ Peek(priced) = loops[l].best

(***************************************************************************)
(* No client is told that its transaction was rejected when a block has    *)
(* it: neither by a replacement nor by running it twice (miner.ts:489).    *)
(***************************************************************************)
NoMinedIsRejected == \A t \in Mined : finalized[t] # "rejected"

(***************************************************************************)
(* Between its execution and the end of the saving of its block a          *)
(* transaction can be found in inProgress, as the nonces of the pool need  *)
(* it (miner.ts:339-345).                                                  *)
(***************************************************************************)
NotLost ==
  \A t \in sent : \/ t \in inProgress
                  \/ finalized[t] # "no"
                  \/ t \in Range(pending[t.from])

(***************************************************************************)
(* A busy miner has a call of mine() that mines; otherwise every later     *)
(* call would leave its work to nobody (miner.ts:176-182).                 *)
(***************************************************************************)
BusyIffActive == isBusy => Active # {}

(***************************************************************************)
(* Once pause() has returned nothing mines until resume(): a revert        *)
(* changes the state root under the VM (miner.ts:106-117).                 *)
(***************************************************************************)
PausedIsQuiet == pauser = "holding" => Active = {}

(***************************************************************************)
(* The parent of each block is the block emitted before it, so there is    *)
(* one chain and one block of each number.  "`parentHash`: Hash of the     *)
(* parent block" (api.ts:1131).  mine() prepares its block on              *)
(* blocks.latest though, which the saving sets and the miner does not wait *)
(* for (blockchain.ts:544-553, 587): a call that found it behind makes     *)
(* another block of a number there is, and only such a call, in its first  *)
(* block only (see OneChain).                                              *)
(***************************************************************************)
EachBlockOnTheLast ==
  \A b \in DOMAIN emitted : emitted[b].parent = b - 1 \/ emitted[b].behind

\* Refuted: there is one chain, however far the saving lags behind (see the README).
OneChain == \A b \in DOMAIN emitted : emitted[b].parent = b - 1

(***************************************************************************)
(* A call of mine() that comes while the miner is busy makes it "start     *)
(* mining another block once it is done with its current work"             *)
(* (miner.ts:177-179).                                                     *)
(***************************************************************************)
AgainIsServed == again ~> ~again

(***************************************************************************)
(* Instamining, every transaction that becomes executable is executed, its *)
(* block saved and its sender answered (blockchain.ts:353-357).            *)
(***************************************************************************)
EveryTxMined == \A t \in Txs : (t \in sent) ~> (t \in sent /\ finalized[t] # "no")

\* The heap of prices, the pool's pending transactions and the locks stay in step.
HeapsInStep == TypeOK /\ PricedIsNextOfOrigin /\ LockedIffPriced

\* The blocks form a chain, and together they have every transaction once, or its sender
\* is told so.
BlocksAreSound == EachBlockOnTheLast /\ NotLost /\ NoMinedIsRejected

=============================================================================
