-------------------------- MODULE TransactionPool ---------------------------
(***************************************************************************)
(* chains/ethereum/ethereum/src/transaction-pool.ts, and the               *)
(* TransactionManager that adds transactions to the pool, answers them in  *)
(* the order in which they came, and empties the pool for a revert.        *)
(*                                                                         *)
(* prepareTransaction awaits the account of the sender (one lookup at a    *)
(* time per account) and then goes through without another await; that     *)
(* rest is one step.  The miner locks, runs and removes the pool's next    *)
(* transactions, and saves their blocks, in the meantime.                  *)
(*                                                                         *)
(* A transaction is a record: id, from, nonce (NoNonce if the pool is to   *)
(* choose it), tip, maxFee, and funds (the sender can pay for it).         *)
(***************************************************************************)
EXTENDS Heap, FiniteSets

LOCAL Seqs == INSTANCE SequencesExt

LOCAL Range(s) == {s[i] : i \in DOMAIN s}

CONSTANTS
  Txs,          \* the transactions
  Scenarios,    \* sets of transactions that clients may send
  NoTx,
  priceBump,    \* options.miner.priceBump, in percent
  StartNonces,  \* the nonces the accounts may have at the start
  Racing,       \* whether clients and the miner may race; see MaySend
  MaxAtOnce,    \* bound: transactions prepared at a time
  MaxReverts    \* bound: calls of evm_revert

NoNonce == -1

Origins == {t.from : t \in Txs}

VARIABLES
  pending,      \* executables.pending: per account a heap by nonce
  future,       \* origins: per account a heap of those that must wait
  lookup,       \* #accountPromises: the transaction that looks up the account
  looked,       \* what the lookup of a transaction finds: the account's nonce
  waiters,      \* the transactions that await the lookup of another
  ready,        \* those whose await is over, in the order they go on
  nonce,        \* transaction.nonce
  added,        \* the transactions in #queue, in the order of #queue.add()
  outcome,      \* what prepareTransaction came to
  answer,       \* what TransactionManager.add() returned
  paused,       \* #paused
  resuming,     \* calls of add() that await #resumer
  locked,       \* transactions the miner has locked
  rejected,     \* transactions finalized as rejected by the pool or miner
  mined,        \* the transactions run, in order
  vmNonce,      \* the nonces in the VM's state
  savedNonce,   \* the nonces in the state of blocks.latest
  startNonce,   \* the nonces a revert restores
  sending,      \* the transactions that clients send
  racing,       \* whether they race with the miner
  reverts,      \* calls of evm_revert so far
  batch,        \* history: reverts when the transaction was added
  twice         \* history: those that took another's place and were pushed besides

poolVars == <<pending, future>>
lookupVars == <<lookup, looked, waiters, ready>>
queueVars == <<added, outcome, answer, batch, twice>>
managerVars == <<paused, resuming, reverts>>
clientVars == <<sending, racing>>
minerVars == <<locked, mined, vmNonce, savedNonce, startNonce,
              clientVars>>
vars == <<poolVars, lookupVars, nonce, queueVars, managerVars, minerVars,
          rejected>>

-----------------------------------------------------------------------------

(***************************************************************************)
(* shouldReplace, for two transactions of the same nonce.                  *)
(***************************************************************************)
Premium(x) == x + (x * priceBump) \div 100

Underpriced(old, t) == t.tip < Premium(old.tip) \/ t.maxFee < Premium(old.maxFee)

CanReplace(old, t) == old \notin locked /\ ~Underpriced(old, t)

\* Where the array q first has a transaction of nonce k; 0 if nowhere.
IndexOf(q, k) ==
  LET hits == {i \in DOMAIN q : nonce[q[i]] = k}
  IN  IF hits = {} THEN 0 ELSE CHOOSE i \in hits : \A j \in hits : i <= j

\* The greatest nonce of the array q.
Highest(q) ==
  IF q = <<>> THEN 0
  ELSE CHOOSE k \in {nonce[q[i]] : i \in DOMAIN q} :
         \A i \in DOMAIN q : nonce[q[i]] <= k

(***************************************************************************)
(* The triage of transaction t, for whose account the lookup has found the *)
(* nonce n.  The result says where t goes, which transaction it replaces,  *)
(* and its nonce.                                                          *)
(***************************************************************************)
Triage(place, k, i) == [place |-> place, nonce |-> k, index |-> i]

\* highestNonce, when the loop over the pending array q ends at index i.
HighestBefore(q, i) == Highest(IF i = 0 THEN q ELSE SubSeq(q, 1, i - 1))

\* With transactions of the account pending.
TriagePending(t, q) ==
  LET i == IndexOf(q, t.nonce)
      next == HighestBefore(q, i) + 1
  IN  IF t.nonce = NoNonce THEN Triage("executable", next, 0)
      ELSE IF i > 0 /\ ~CanReplace(q[i], t) THEN Triage("error", t.nonce, 0)
      ELSE IF t.nonce = next THEN Triage("executable", t.nonce, i)
      ELSE IF i > 0 THEN Triage("replaces pending", t.nonce, i)
      ELSE Triage("future", t.nonce, 0)

\* Without: it is the account that tells the nonce.
TriageAccount(t, n) ==
  IF t.nonce \in {NoNonce, n} THEN Triage("executable", n, 0)
  ELSE IF t.nonce < n THEN Triage("error", t.nonce, 0)
  ELSE Triage("future", t.nonce, 0)

\* One that is to wait may replace another that waits.
TriageFuture(t, q) ==
  LET i == IndexOf(q, t.nonce)
  IN  IF i = 0 THEN Triage("future", t.nonce, 0)
      ELSE IF CanReplace(q[i], t) THEN Triage("replaces future", t.nonce, i)
      ELSE Triage("error", t.nonce, 0)

TriageOption(t, n) ==
  LET q == pending[t.from]
      first == IF q # <<>> THEN TriagePending(t, q) ELSE TriageAccount(t, n)
  IN  IF ~t.funds THEN Triage("error", t.nonce, 0)
      ELSE IF first.place = "future" THEN TriageFuture(t, future[t.from])
      ELSE first

-----------------------------------------------------------------------------

(***************************************************************************)
(* The insertion into the queues.                                          *)
(***************************************************************************)

\* Transactions in the order of the nonces N.
ByNonce(N) == [x, y \in Txs |-> N[x] < N[y]]

Pushed(N, q, t) == Push(ByNonce(N), q, t)

Popped(N, q) == RemoveBest(ByNonce(N), q)

\* Mutant: only one waiting transaction becomes executable.
DrainOne(N, q, f, k) ==
  IF f # <<>> /\ N[Peek(f)] = k
  THEN [pending |-> Pushed(N, q, Peek(f)), future |-> Popped(N, f)]
  ELSE [pending |-> q, future |-> f]

(***************************************************************************)
(* The waiting transactions of f whose turn has come, the first with nonce *)
(* k, move to q.                                                           *)
(***************************************************************************)
Drain(N, q, f, k) ==
  LET drain[i \in 0..Len(f)] ==
        IF i = 0 THEN [pending |-> q, future |-> f]
        ELSE LET prev == drain[i - 1]
                 expected == k + Len(f) - Len(prev.future)
             IN  IF prev.future # <<>> /\ N[Peek(prev.future)] = expected
                 THEN [pending |-> Pushed(N, prev.pending, Peek(prev.future)),
                       future |-> Popped(N, prev.future)]
                 ELSE prev
  IN  drain[Len(f)]

\* What t replaces, according to its triage r.
Replaced(t, r) ==
  IF r.index = 0 THEN {}
  ELSE IF r.place = "replaces future" THEN {future[t.from][r.index]}
  ELSE {pending[t.from][r.index]}

NonceFor(t, r) == r.nonce

\* Mutant: the replaced transaction keeps its place.
PutNowhere(q, i, t) == q

PutAt(q, i, t) == [q EXCEPT ![i] = t]

\* Both queues of the account of t, after the triage r of t.
Inserted(t, r) ==
  LET o == t.from
      N == [nonce EXCEPT ![t] = NonceFor(t, r)]
      q == IF r.index > 0 /\ r.place # "replaces future"
           THEN PutAt(pending[o], r.index, t) ELSE pending[o]
  IN  IF r.place = "executable"
      THEN Drain(N, Pushed(N, q, t), future[o], r.nonce + 1)
      ELSE [pending |-> q,
            future |-> IF r.place = "future" THEN Pushed(N, future[o], t)
                       ELSE IF r.place = "replaces future"
                       THEN PutAt(future[o], r.index, t)
                       ELSE future[o]]

-----------------------------------------------------------------------------

(***************************************************************************)
(* TransactionManager.                                                     *)
(***************************************************************************)
Unprepared == {t \in Range(added) : outcome[t] = "none"}

(***************************************************************************)
(* The pool's own comment warns of races between a client and the miner    *)
(* (transaction-pool.ts:202-208).  Without them a client waits until what  *)
(* was run is saved and does not use a nonce again, and the miner and a    *)
(* revert come when nothing is being prepared.                             *)
(***************************************************************************)
MaySend(t) ==
  racing \/ /\ vmNonce = savedNonce
            /\ t.nonce # NoNonce => t.nonce >= savedNonce[t.from]

MayInterfere == racing \/ Unprepared = {}

\* No microtask is due: neither a transaction whose lookup has resolved nor a
\* call of add() that may resume.
NothingDue == ready = <<>> /\ (paused \/ resuming = <<>>)

(***************************************************************************)
(* add(), past its await of #resumer: prepareTransaction up to its await   *)
(* of the account, and #queue.add().                                       *)
(***************************************************************************)
LooksUp(o) == lookup[o]

Add(t) ==
  /\ added' = Append(added, t)
  /\ batch' = [batch EXCEPT ![t] = reverts]
  /\ IF LooksUp(t.from) # NoTx
     THEN /\ waiters' = [waiters EXCEPT ![LooksUp(t.from)] = Append(@, t)]
          /\ UNCHANGED <<lookup, looked>>
     ELSE /\ lookup' = [lookup EXCEPT ![t.from] = t]
          /\ looked' = [looked EXCEPT ![t] = savedNonce[t.from]]
          /\ UNCHANGED waiters

Send(t) ==
  /\ NothingDue
  /\ MaySend(t)
  /\ Cardinality(Unprepared) < MaxAtOnce
  /\ t \in sending \ (Range(added) \cup Range(resuming))
  /\ IF paused
     THEN /\ resuming' = Append(resuming, t)
          /\ UNCHANGED <<added, batch, waiters, lookup, looked>>
     ELSE Add(t) /\ UNCHANGED resuming
  /\ UNCHANGED <<poolVars, ready, nonce, outcome, answer, twice, paused, reverts,
                 minerVars, rejected>>

\* A call of add() goes on after resume().
Resumed ==
  /\ ready = <<>>
  /\ ~paused /\ resuming # <<>>
  /\ Add(Head(resuming))
  /\ resuming' = Tail(resuming)
  /\ UNCHANGED <<poolVars, ready, nonce, outcome, answer, twice, paused, reverts,
                 minerVars, rejected>>

(***************************************************************************)
(* The lookup of t resolves: the account's promise is forgotten, whichever *)
(* it is by now, and t goes on, then those that waited for it.             *)
(***************************************************************************)
IsLooking(t) == t \in Unprepared /\ looked[t] # NoNonce

LookedUp(t) ==
  /\ NothingDue
  /\ IsLooking(t)
  /\ lookup' = [lookup EXCEPT ![t.from] = NoTx]
  /\ ready' = [i \in 1..(Len(waiters[t]) + 1) |->
                 [tx |-> (<<t>> \o waiters[t])[i], nonce |-> looked[t]]]
  /\ waiters' = [waiters EXCEPT ![t] = <<>>]
  /\ UNCHANGED <<poolVars, looked, nonce, queueVars, managerVars, minerVars,
                 rejected>>

(***************************************************************************)
(* The answers of the promise queue (PromiseQueue): once t is prepared, it *)
(* and those behind it are answered as far as all before them are          *)
(* prepared.  Those of an earlier batch have been cleared with FALSE.      *)
(***************************************************************************)
Ahead(t) ==
  LET i == CHOOSE j \in DOMAIN added : added[j] = t
  IN  {u \in Range(SubSeq(added, 1, i)) : batch[u] = batch[t]}

Answers(out) ==
  [t \in Txs |->
     IF answer[t] # "none" \/ t \notin Range(added) THEN answer[t]
     ELSE IF \E u \in Ahead(t) : out[u] = "none" THEN "none"
     ELSE IF out[t] = "error" THEN "error"
     ELSE IF batch[t] < reverts THEN "no"
     ELSE IF out[t] \in {"executable", "replaces pending"} THEN "yes"
     ELSE "no"]

(***************************************************************************)
(* The rest of prepareTransaction, and the answers that it lets out.       *)
(***************************************************************************)
Prepare ==
  /\ ready # <<>>
  /\ LET t == Head(ready).tx
         r == TriageOption(t, Head(ready).nonce)
         out == [outcome EXCEPT ![t] = r.place]
     IN  /\ pending' = [pending EXCEPT ![t.from] = Inserted(t, r).pending]
         /\ future' = [future EXCEPT ![t.from] = Inserted(t, r).future]
         /\ nonce' = [nonce EXCEPT ![t] = NonceFor(t, r)]
         /\ rejected' = rejected \cup Replaced(t, r)
         /\ twice' = IF r.place = "executable" /\ r.index > 0 THEN twice \cup {t} ELSE twice
         /\ outcome' = out
         /\ answer' = Answers(out)
  /\ ready' = Tail(ready)
  /\ UNCHANGED <<lookup, looked, waiters, added, batch, managerVars, minerVars>>

(***************************************************************************)
(* evm_revert: pause() does not wait for the transactions that are being   *)
(* prepared, only the miner and the saving of its blocks are waited for;   *)
(* then comes clear(), and with the state the nonces go back.              *)
(***************************************************************************)
Pause ==
  /\ NothingDue
  /\ ~paused /\ resuming = <<>>
  /\ reverts < MaxReverts
  /\ MayInterfere
  /\ paused' = TRUE
  /\ UNCHANGED <<poolVars, lookupVars, nonce, queueVars, resuming, reverts,
                 minerVars, rejected>>

Clear ==
  /\ NothingDue
  /\ paused /\ reverts < MaxReverts
  /\ locked = {} /\ savedNonce = vmNonce
  /\ reverts' = reverts + 1
  /\ pending' = [o \in Origins |-> <<>>]
  /\ future' = [o \in Origins |-> <<>>]
  /\ lookup' = [o \in Origins |-> NoTx]
  /\ vmNonce' = startNonce
  /\ savedNonce' = startNonce
  /\ UNCHANGED <<looked, waiters, ready, nonce, queueVars, paused, resuming,
                 locked, mined, startNonce, clientVars, rejected>>

\* resume(), once the revert that paused has cleared.
Resume ==
  /\ NothingDue
  /\ paused /\ reverts = MaxReverts
  /\ paused' = FALSE
  /\ UNCHANGED <<poolVars, lookupVars, nonce, queueVars, resuming, reverts,
                 minerVars, rejected>>

-----------------------------------------------------------------------------

(***************************************************************************)
(* The miner (Miner), as the pool sees it.                                 *)
(***************************************************************************)
Lock(o) ==
  /\ NothingDue
  /\ ~paused
  /\ pending[o] # <<>>
  /\ \A t \in locked : t.from # o
  /\ locked' = locked \cup {Peek(pending[o])}
  /\ UNCHANGED <<poolVars, lookupVars, nonce, queueVars, managerVars, mined,
                 vmNonce, savedNonce, startNonce, clientVars, rejected>>

\* A locked transaction has run, or was refused for its nonce; the best of its
\* account leaves the pool.
Run(t) ==
  /\ NothingDue
  /\ MayInterfere
  /\ t \in locked
  /\ locked' = locked \ {t}
  /\ pending' = [pending EXCEPT ![t.from] = Popped(nonce, @)]
  /\ IF nonce[t] = vmNonce[t.from]
     THEN /\ mined' = Append(mined, t)
          /\ vmNonce' = [vmNonce EXCEPT ![t.from] = @ + 1]
          /\ UNCHANGED rejected
     ELSE /\ rejected' = rejected \cup {t}
          /\ UNCHANGED <<mined, vmNonce>>
  /\ UNCHANGED <<future, lookupVars, nonce, queueVars, managerVars, savedNonce,
                 startNonce, clientVars>>

Save ==
  /\ NothingDue
  /\ savedNonce # vmNonce
  /\ savedNonce' = vmNonce
  /\ UNCHANGED <<poolVars, lookupVars, nonce, queueVars, managerVars, locked,
                 mined, vmNonce, startNonce, clientVars, rejected>>

-----------------------------------------------------------------------------

Init ==
  /\ pending = [o \in Origins |-> <<>>]
  /\ future = [o \in Origins |-> <<>>]
  /\ lookup = [o \in Origins |-> NoTx]
  /\ looked = [t \in Txs |-> NoNonce]
  /\ waiters = [t \in Txs |-> <<>>]
  /\ ready = <<>>
  /\ nonce = [t \in Txs |-> t.nonce]
  /\ added = <<>>
  /\ outcome = [t \in Txs |-> "none"]
  /\ answer = [t \in Txs |-> "none"]
  /\ paused = FALSE
  /\ resuming = <<>>
  /\ locked = {}
  /\ rejected = {}
  /\ mined = <<>>
  /\ startNonce \in [Origins -> StartNonces]
  /\ sending \in Scenarios
  /\ racing \in Racing
  /\ vmNonce = startNonce
  /\ savedNonce = startNonce
  /\ reverts = 0
  /\ batch = [t \in Txs |-> 0]
  /\ twice = {}

Next ==
  \/ \E t \in Txs : Send(t) \/ LookedUp(t)
  \/ Resumed \/ Prepare
  \/ Pause \/ Clear \/ Resume
  \/ \E o \in Origins : Lock(o)
  \/ \E t \in Txs : Run(t)
  \/ Save

Spec == Init /\ [][Next]_vars

-----------------------------------------------------------------------------

Outcomes == {"none", "error", "executable", "future", "replaces pending",
             "replaces future"}

TypeOK ==
  /\ \A o \in Origins :
       pending[o] \o future[o] \in Seq({t \in Txs : t.from = o /\ nonce[t] \in Nat})
  /\ lookup \in [Origins -> Txs \cup {NoTx}]
  /\ looked \in [Txs -> Nat \cup {NoNonce}]
  /\ waiters \in [Txs -> Seq(Txs)]
  /\ nonce \in [Txs -> Nat \cup {NoNonce}]
  /\ added \in Seq(Txs)
  /\ outcome \in [Txs -> Outcomes]
  /\ answer \in [Txs -> {"none", "yes", "no", "error"}]
  /\ paused \in BOOLEAN
  /\ resuming \in Seq(Txs)
  /\ locked \subseteq Txs
  /\ rejected \subseteq Txs
  /\ mined \in Seq(Txs)
  /\ vmNonce \in [Origins -> Nat]
  /\ savedNonce \in [Origins -> Nat]
  /\ startNonce \in [Origins -> Nat]
  /\ sending \subseteq Txs
  /\ racing \in BOOLEAN
  /\ reverts \in 0..MaxReverts
  /\ batch \in [Txs -> 0..MaxReverts]
  /\ twice \subseteq Txs

Nonces(q) == {nonce[q[i]] : i \in DOMAIN q}

(***************************************************************************)
(* The nonces of an account that are executable.  After a replacement      *)
(* highestNonce is that of the transaction before the replaced one, so the *)
(* new one counts as the next and is pushed besides (251-281): its second  *)
(* entry outlives its run.                                                 *)
(***************************************************************************)
LiveNonces(o) ==
  {nonce[t] : t \in {u \in Range(pending[o]) : u \in twice => nonce[u] >= vmNonce[o]}}

(***************************************************************************)
(* What is executable of an account are the nonces from the next one on,   *)
(* without a gap, however transactions were replaced, moved up or run, and *)
(* each once unless a replacement was pushed twice: the miner would have   *)
(* one rejected otherwise (transaction-pool.ts:347-383).  Not so if client *)
(* and miner race.                                                         *)
(***************************************************************************)
PendingIsARun ==
  ~racing =>
    \A o \in Origins :
      /\ LiveNonces(o) = vmNonce[o]..(vmNonce[o] + Cardinality(LiveNonces(o)) - 1)
      /\ \A i, j \in DOMAIN pending[o] :
           i < j /\ nonce[pending[o][i]] = nonce[pending[o][j]]
             => {pending[o][i], pending[o][j]} \cap twice # {}

(***************************************************************************)
(* Nothing waits in the future queue that is executable, and when the gap  *)
(* before it closes it moves up, with all that follow: nobody would look   *)
(* at it again (transaction-pool.ts:358-359).                              *)
(***************************************************************************)
NothingExecutableWaits ==
  ~racing =>
    \A o \in Origins : \A k \in Nonces(future[o]) :
      k > vmNonce[o] + Cardinality(LiveNonces(o))

(***************************************************************************)
(* The array behind a queue stays a heap by nonce although transactions    *)
(* are replaced in place (transaction-pool.ts:252-255, 324-327).           *)
(***************************************************************************)
SortedByNonce ==
  \A o \in Origins : \A q \in {pending[o], future[o]} :
    \A i \in 2..Len(q) : nonce[q[i \div 2]] <= nonce[q[i]]

(***************************************************************************)
(* The two queues of an account together: what is executable is a run of   *)
(* nonces, what waits is behind a gap, and both are heaps by nonce.        *)
(***************************************************************************)
QueuesAreExact == TypeOK /\ PendingIsARun /\ NothingExecutableWaits /\ SortedByNonce

(***************************************************************************)
(* Refuted: a transaction is in the pool once: "we don't want to mark this *)
(* transaction as "executable" and thus have it added to the pool again"   *)
(* (transaction-pool.ts:256-257; see the README).                          *)
(***************************************************************************)
InPoolOnce ==
  \A o \in Origins :
    LET q == pending[o] \o future[o]
    IN  Cardinality(Range(q)) = Len(q)

(***************************************************************************)
(* Transactions that leave their nonce to the pool get nonces in the order *)
(* in which they were sent (transaction-pool.ts:169-172).                  *)
(***************************************************************************)
NoncesInOrder ==
  \A i, j \in DOMAIN added :
    LET t == added[i]
        u == added[j]
    IN  /\ ~racing /\ i < j /\ t.from = u.from /\ batch[t] = batch[u]
        /\ t.nonce = NoNonce /\ u.nonce = NoNonce
        /\ nonce[t] # NoNonce /\ nonce[u] # NoNonce
        => nonce[t] < nonce[u]

(***************************************************************************)
(* At most one of the transactions of an account and a nonce is run or     *)
(* still can be, and the sender of one that was run is not told that it    *)
(* was replaced (transaction-pool.ts:41-48, 260-263).  A replacement that  *)
(* was pushed twice is run twice, and the second time it is rejected.      *)
(***************************************************************************)
RunIsNotRejected == \A i \in DOMAIN mined : mined[i] \in rejected => mined[i] \in twice

(***************************************************************************)
(* A sender who was told that its transaction is executable will see it    *)
(* executed, or rejected: it is in the pool until then, unless the pool    *)
(* was cleared (transaction-manager.ts:102-103).                           *)
(***************************************************************************)
AnsweredIsInPool ==
  \A t \in Txs :
    answer[t] = "yes" /\ batch[t] = reverts
      => \/ t \in Range(pending[t.from])
         \/ t \in Range(mined)
         \/ t \in rejected

\* What a sender is told stays true: neither lost nor, pushed once, rejected once it runs.
AnswersAreKept == AnsweredIsInPool /\ RunIsNotRejected

=============================================================================
