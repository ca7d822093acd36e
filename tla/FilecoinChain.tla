---------------------------- MODULE FilecoinChain ----------------------------
(***************************************************************************)
(* The blockchain of the Filecoin flavor: the pool of messages, the mining   *)
(* of tipsets on request, on a timer or for every message, the miner being   *)
(* switched on and off, and stop().  Three locks (Sema(1) of async-sema)     *)
(* order them: of the mining, of the pool, and of the timeout.               *)
(*                                                                         *)
(* A caller is the push of a message (MpoolPushMessage, or MpoolPush of one  *)
(* that a client has signed), a tipset asked for (Ganache.MineTipset), an    *)
(* auto-mined one, an interval or a switch.                                 *)
(***************************************************************************)
EXTENDS Naturals, SequencesExt, FiniteSetsExt

CONSTANTS Messages,   \* each is one push; what a client signs can be pushed again
          Signable,   \* those that clients may have signed, and
          GivenNonces, \* the nonces they choose for them
          From,       \* [Messages -> the accounts that send them]
          Mines,      \* calls of Ganache.MineTipset
          MineOf,     \* [Messages -> the call of mineTipset() a push makes]
          Intervals,  \* calls of intervalMine(), by a timer or by enableMiner()
          MaxHeight,  \* bound on the tipsets
          Switches,   \* bound on the calls of enableMiner() and disableMiner()
          None

Accounts == {From[m] : m \in Messages}
AutoMines == {MineOf[m] : m \in Messages}
Miners == Mines \cup AutoMines \cup Intervals

\* What a tipset being mined consists of.
Batches == [left : Seq(Messages), done : Seq(Messages), read : Nat \cup {None}, parent : Nat]

\* Every call has a name of its own, and None is neither a number nor a batch.
ASSUME CallersAssumption ==
  /\ Messages \cap Miners = {}
  /\ Mines \cap AutoMines = {}
  /\ Intervals \cap (Mines \cup AutoMines) = {}
  /\ \A m, n \in Messages : MineOf[m] = MineOf[n] => m = n
  /\ {"stop", "disable"} \cap (Messages \cup Miners) = {}
  /\ Intervals # {}
  /\ Signable \subseteq Messages
  /\ GivenNonces \subseteq Nat
  /\ None \notin Nat \cup Batches

VARIABLES
  blockTime,    \* 0 to mine every message, 1 to mine on a timer
  enabled,      \* #minerEnabled
  switched,     \* calls of enableMiner() and disableMiner() so far
  miningLock, poolLock, timeoutLock,  \* who has it, and who waits for it in turn
  pool,         \* messagePool
  nonces,       \* of the accounts, in the database
  nonceOf,      \* of the messages pushed
  signed,       \* those of them that clients have signed (history)
  pc,           \* where every caller is
  mining,       \* the batch of the tipset being mined, or None
  increments,   \* calls of incrementNonce(), which nothing awaits
  tipsets,      \* in the database: [parent, messages] of each height from 1
  latest,       \* tipsetManager.latest
  latestKey,    \* "latest-tipset" in the database
  miningTimeout,\* the interval the last timer is for, or None
  armed,        \* the intervals whose timers run
  gone,         \* messages cleared, refused for lack of funds or lost by a restart
  stopping      \* how far stop() is

locks == <<miningLock, poolLock, timeoutLock>>
messageVars == <<pool, nonces, nonceOf, signed, increments, gone>>
tipsetVars == <<mining, tipsets, latest, latestKey>>
timerVars == <<enabled, switched, miningTimeout, armed>>
vars == <<blockTime, locks, messageVars, pc, tipsetVars, timerVars, stopping>>

Holds(lock, p) == lock # <<>> /\ Head(lock) = p

\* The genesis tipset; a switched-on miner with a block time starts its first interval.
Init ==
  /\ blockTime \in {0, 1}
  /\ enabled \in BOOLEAN
  /\ switched = 0
  /\ miningLock = <<>> /\ poolLock = <<>> /\ timeoutLock = <<>>
  /\ pool = <<>>
  /\ nonces = [a \in Accounts |-> 0]
  /\ nonceOf = [m \in Messages |-> None]
  /\ signed = {}
  /\ pc = [p \in Messages \cup Miners |-> "idle"]
  /\ mining = None
  /\ increments = {}
  /\ tipsets = <<>> /\ latest = 0 /\ latestKey = 0
  /\ armed = IF enabled /\ blockTime > 0 THEN {CHOOSE i \in Intervals : TRUE} ELSE {}
  /\ miningTimeout = IF armed = {} THEN None ELSE CHOOSE i \in armed : TRUE
  /\ gone = {}
  /\ stopping = "no"

(***************************************************************************)
(* push(): the lock of the pool is held from the reading of the nonce to     *)
(* the message being in the pool.                                          *)
(***************************************************************************)

Push(m) ==
  /\ pc[m] = "idle"
  /\ stopping = "no"
  /\ poolLock' = Append(poolLock, m)
  /\ pc' = [pc EXCEPT ![m] = "waiting"]
  /\ UNCHANGED <<blockTime, miningLock, timeoutLock, messageVars, tipsetVars, timerVars,
                 stopping>>

PooledNonces(a) == {nonceOf[pool[i]] : i \in {j \in DOMAIN pool : From[pool[j]] = a}}

\* The account's nonce, or one more than it and than those in the pool.
NextNonce(a) ==
  IF PooledNonces(a) = {} THEN nonces[a] ELSE Max(PooledNonces(a) \cup {nonces[a]}) + 1

\* The account is read, then the message gets its nonce and is signed; or it is refused,
\* for lack of funds or by checkMessage().
GetNonce(m) ==
  /\ pc[m] = "waiting"
  /\ Holds(poolLock, m)
  /\ nonceOf' = [nonceOf EXCEPT ![m] = NextNonce(From[m])]
  /\ pc' = [pc EXCEPT ![m] = "signing"]
  /\ UNCHANGED <<blockTime, locks, pool, nonces, signed, increments, gone, tipsetVars, timerVars,
                 stopping>>

Released(lock) == Tail(lock)

Refuse(m) ==
  /\ pc[m] \in {"waiting", "signing"}
  /\ Holds(poolLock, m)
  /\ poolLock' = Released(poolLock)
  /\ pc' = [pc EXCEPT ![m] = "refused"]
  /\ UNCHANGED <<blockTime, miningLock, timeoutLock, messageVars, tipsetVars, timerVars,
                 stopping>>

\* MpoolPush, and each message of MpoolBatchPush, which goes on when stop() has been called:
\* checkMessage() looks neither at the nonce nor at what is in the pool.
MpoolPush(m) ==
  /\ pc[m] = "idle"
  /\ \E n \in GivenNonces : nonceOf' = [nonceOf EXCEPT ![m] = n]
  /\ signed' = signed \cup {m}
  /\ poolLock' = Append(poolLock, m)
  /\ pc' = [pc EXCEPT ![m] = "sent"]
  /\ UNCHANGED <<blockTime, miningLock, timeoutLock, pool, nonces, increments, gone,
                 tipsetVars, timerVars, stopping>>

\* checkMessage() refuses it before the lock is asked for.
RefuseSigned(m) ==
  /\ pc[m] = "idle"
  /\ pc' = [pc EXCEPT ![m] = "refused"]
  /\ UNCHANGED <<blockTime, locks, messageVars, tipsetVars, timerVars, stopping>>

\* mineTipset() waits for its turn to mine.
CallMine(p) == miningLock' = Append(miningLock, p)

\* pushSigned(), for push() or with the lock it has waited for itself: a switched-on miner
\* without a block time mines the message, but nothing waits for that.
PushSigned(m) ==
  /\ pc[m] \in {"signing", "sent"}
  /\ Holds(poolLock, m)
  /\ pool' = Append(pool, m)
  /\ poolLock' = Tail(poolLock)
  /\ IF enabled /\ blockTime = 0
       THEN CallMine(MineOf[m]) /\ pc' = [pc EXCEPT ![m] = "pushed", ![MineOf[m]] = "called"]
       ELSE UNCHANGED miningLock /\ pc' = [pc EXCEPT ![m] = "pushed"]
  /\ UNCHANGED <<blockTime, timeoutLock, nonces, nonceOf, signed, increments, gone, tipsetVars,
                 timerVars, stopping>>

\* mpoolClear(true), in one step: what it does while it holds the lock concerns the pool only.
MpoolClear ==
  /\ poolLock = <<>>
  /\ stopping = "no"
  /\ pool # <<>>
  /\ pool' = <<>>
  /\ gone' = gone \cup ToSet(pool)
  /\ UNCHANGED <<blockTime, locks, nonces, nonceOf, signed, increments, pc, tipsetVars, timerVars,
                 stopping>>

(***************************************************************************)
(* mineTipset()                                                            *)
(***************************************************************************)

MineTipset(p) ==
  /\ pc[p] = "idle"
  /\ stopping = "no"
  /\ CallMine(p)
  /\ pc' = [pc EXCEPT ![p] = "called"]
  /\ UNCHANGED <<blockTime, poolLock, timeoutLock, messageVars, tipsetVars, timerVars,
                 stopping>>

\* With the lock of the mining, it waits for that of the pool.
StartMining(p) ==
  /\ pc[p] = "called"
  /\ Holds(miningLock, p)
  /\ poolLock' = Append(poolLock, p)
  /\ pc' = [pc EXCEPT ![p] = "taking"]
  /\ UNCHANGED <<blockTime, miningLock, timeoutLock, messageVars, tipsetVars, timerVars,
                 stopping>>

\* Mutant: the messages taken stay in the pool.
NotEmptied(messages) == messages

Emptied(messages) == <<>>

TakePool(p) ==
  /\ pc[p] = "taking"
  /\ Holds(poolLock, p)
  /\ latest < MaxHeight
  /\ mining' = [left |-> pool, done |-> <<>>, read |-> None, parent |-> latest]
  /\ pool' = Emptied(pool)
  /\ poolLock' = Tail(poolLock)
  /\ pc' = [pc EXCEPT ![p] = "mining"]
  /\ UNCHANGED <<blockTime, miningLock, timeoutLock, nonces, nonceOf, signed, increments, gone,
                 tipsets, latest, latestKey, timerVars, stopping>>

\* transferFunds() reads the sender's account and writes it back some awaits later, with
\* the nonce it had; or there are no funds, and the message is left out.
ReadSender(p) ==
  /\ pc[p] = "mining"
  /\ mining.left # <<>>
  /\ mining.read = None
  /\ mining' = [mining EXCEPT !.read = nonces[From[Head(mining.left)]]]
  /\ UNCHANGED <<blockTime, locks, messageVars, pc, tipsets, latest, latestKey, timerVars,
                 stopping>>

LeaveOut(p) ==
  /\ pc[p] = "mining"
  /\ mining.left # <<>>
  /\ mining.read # None
  /\ mining' = [mining EXCEPT !.left = Tail(@), !.read = None]
  /\ gone' = gone \cup {Head(mining.left)}
  /\ UNCHANGED <<blockTime, locks, pool, nonces, nonceOf, signed, increments, pc, tipsets, latest,
                 latestKey, timerVars, stopping>>

\* incrementNonce() is called but not awaited.
Execute(p) ==
  /\ pc[p] = "mining"
  /\ mining.left # <<>>
  /\ mining.read # None
  /\ LET m == Head(mining.left) IN
       /\ nonces' = [nonces EXCEPT ![From[m]] = mining.read]
       /\ increments' = increments \cup {[of |-> m, read |-> None]}
       /\ mining' = [mining EXCEPT !.left = Tail(@), !.done = Append(@, m), !.read = None]
  /\ UNCHANGED <<blockTime, locks, pool, nonceOf, signed, gone, pc, tipsets, latest, latestKey,
                 timerVars, stopping>>

IncrementReads(i) ==
  /\ i.read = None
  /\ increments' = (increments \ {i}) \cup {[i EXCEPT !.read = nonces[From[i.of]]]}
  /\ UNCHANGED <<blockTime, locks, pool, nonces, nonceOf, signed, gone, pc, tipsetVars, timerVars,
                 stopping>>

IncrementWrites(i) ==
  /\ i.read # None
  /\ nonces' = [nonces EXCEPT ![From[i.of]] = i.read + 1]
  /\ increments' = increments \ {i}
  /\ UNCHANGED <<blockTime, locks, pool, nonceOf, signed, gone, pc, tipsetVars, timerVars,
                 stopping>>

\* putTipset(): the tipset of a height replaces one a crash has left there.
Stored(height, tipset) == SubSeq(tipsets, 1, height - 1) \o <<tipset>>

PutTipset(p) ==
  /\ pc[p] = "mining"
  /\ mining.left = <<>>
  /\ latest = mining.parent
  /\ tipsets' = Stored(mining.parent + 1,
                       [parent |-> mining.parent, messages |-> mining.done])
  /\ latest' = mining.parent + 1
  /\ UNCHANGED <<blockTime, locks, messageVars, pc, mining, latestKey, timerVars, stopping>>

\* The key "latest-tipset", the deals, the event "tipset"; then the lock is released.
Ended(p) == IF p \in Intervals THEN "mined" ELSE "done"

PutLatest(p) ==
  /\ pc[p] = "mining"
  /\ mining.left = <<>>
  /\ latest = mining.parent + 1
  /\ latestKey' = latest
  /\ mining' = None
  /\ miningLock' = Tail(miningLock)
  /\ pc' = [pc EXCEPT ![p] = Ended(p)]
  /\ UNCHANGED <<blockTime, poolLock, timeoutLock, messageVars, tipsets, latest, timerVars,
                 stopping>>

(***************************************************************************)
(* intervalMine(), enableMiner() and disableMiner()                        *)
(***************************************************************************)

\* stop() goes from a lock that is free to the next without any wait.
StopGoesOn ==
  \/ stopping = "mining" /\ Holds(miningLock, "stop")
  \/ stopping = "pool" /\ Holds(poolLock, "stop")
  \/ stopping = "timeout" /\ Holds(timeoutLock, "stop")

\* A timer fires: the call waits for the lock of the timeout.
Fire(i) ==
  /\ i \in armed
  /\ ~StopGoesOn
  /\ armed' = armed \ {i}
  /\ timeoutLock' = Append(timeoutLock, i)
  /\ pc' = [pc EXCEPT ![i] = "fired"]
  /\ UNCHANGED <<blockTime, miningLock, poolLock, messageVars, tipsetVars, enabled, switched,
                 miningTimeout, stopping>>

IntervalMines(i) ==
  /\ pc[i] = "fired"
  /\ Holds(timeoutLock, i)
  /\ CallMine(i)
  /\ pc' = [pc EXCEPT ![i] = "called"]
  /\ UNCHANGED <<blockTime, poolLock, timeoutLock, messageVars, tipsetVars, timerVars,
                 stopping>>

\* The next timer, for which the same name is used again.
Rearm(i) ==
  /\ pc[i] \in {"mined", "enabling"}
  /\ Holds(timeoutLock, i)
  /\ armed' = armed \cup {i}
  /\ miningTimeout' = i
  /\ timeoutLock' = Tail(timeoutLock)
  /\ pc' = [pc EXCEPT ![i] = "idle"]
  /\ UNCHANGED <<blockTime, miningLock, poolLock, messageVars, tipsetVars, enabled, switched,
                 stopping>>

\* enableMiner() starts an interval, also when one is running.
EnableMiner(i) ==
  /\ switched < Switches
  /\ stopping = "no"
  /\ enabled' = TRUE
  /\ switched' = switched + 1
  /\ IF blockTime > 0
       THEN /\ pc[i] = "idle"  /\ i \notin armed
            /\ timeoutLock' = Append(timeoutLock, i)
            /\ pc' = [pc EXCEPT ![i] = "enabling"]
       ELSE UNCHANGED <<timeoutLock, pc>>
  /\ UNCHANGED <<blockTime, miningLock, poolLock, messageVars, tipsetVars, miningTimeout,
                 armed, stopping>>

DisableMiner ==
  /\ switched < Switches
  /\ stopping = "no"
  /\ enabled' = FALSE
  /\ switched' = switched + 1
  /\ timeoutLock' = Append(timeoutLock, "disable")
  /\ UNCHANGED <<blockTime, miningLock, poolLock, messageVars, pc, tipsetVars, miningTimeout,
                 armed, stopping>>

Disabled ==
  /\ Holds(timeoutLock, "disable")
  /\ armed' = armed \ {miningTimeout}
  /\ miningTimeout' = None
  /\ timeoutLock' = Tail(timeoutLock)
  /\ UNCHANGED <<blockTime, miningLock, poolLock, messageVars, pc, tipsetVars, enabled,
                 switched, stopping>>

(***************************************************************************)
(* stop() takes the three locks one after the other and keeps them.         *)
(***************************************************************************)

Stop ==
  /\ stopping = "no"
  /\ stopping' = "mining"
  /\ miningLock' = Append(miningLock, "stop")
  /\ UNCHANGED <<blockTime, poolLock, timeoutLock, messageVars, pc, tipsetVars, timerVars>>

\* Mutant: stop() does not wait for the mining lock.
StopLocksPoolAtOnce ==
  /\ stopping = "mining"
  /\ stopping' = "pool"
  /\ poolLock' = Append(poolLock, "stop")
  /\ UNCHANGED <<blockTime, miningLock, timeoutLock, messageVars, pc, tipsetVars, timerVars>>

StopLocksPool ==
  /\ stopping = "mining"
  /\ Holds(miningLock, "stop")
  /\ stopping' = "pool"
  /\ poolLock' = Append(poolLock, "stop")
  /\ UNCHANGED <<blockTime, miningLock, timeoutLock, messageVars, pc, tipsetVars, timerVars>>

StopLocksTimeout ==
  /\ stopping = "pool"
  /\ Holds(poolLock, "stop")
  /\ stopping' = "timeout"
  /\ timeoutLock' = Append(timeoutLock, "stop")
  /\ UNCHANGED <<blockTime, miningLock, poolLock, messageVars, pc, tipsetVars, timerVars>>

Stopped ==
  /\ stopping = "timeout"
  /\ Holds(timeoutLock, "stop")
  /\ stopping' = "stopped"
  /\ armed' = armed \ {miningTimeout}
  /\ UNCHANGED <<blockTime, locks, messageVars, pc, tipsetVars, enabled, switched,
                 miningTimeout>>

\* The process ends, and starts again from its database.
Restart ==
  /\ stopping \in {"no", "stopped"}
  /\ switched < Switches
  /\ switched' = switched + 1
  /\ gone' = gone \cup ToSet(pool)
             \cup (IF mining = None THEN {} ELSE ToSet(mining.left) \cup ToSet(mining.done))
             \cup UNION {ToSet(tipsets[h].messages) : h \in latestKey + 1 .. Len(tipsets)}
  /\ pool' = <<>>  /\ mining' = None  /\ increments' = {}
  /\ miningLock' = <<>>  /\ poolLock' = <<>>  /\ timeoutLock' = <<>>
  /\ latest' = latestKey
  /\ armed' = IF enabled /\ blockTime > 0 THEN {CHOOSE i \in Intervals : TRUE} ELSE {}
  /\ miningTimeout' = IF armed' = {} THEN None ELSE CHOOSE i \in armed' : TRUE
  /\ pc' = [p \in Messages \cup Miners |->
              IF p \in Intervals \/ pc[p] = "idle" THEN "idle" ELSE
              IF pc[p] \in {"pushed", "refused", "done"} THEN pc[p] ELSE "lost"]
  /\ stopping' = "no"
  /\ UNCHANGED <<blockTime, nonces, nonceOf, signed, tipsets, latestKey, enabled>>

Mine(p) ==
  \/ StartMining(p) \/ TakePool(p) \/ ReadSender(p) \/ LeaveOut(p) \/ Execute(p)
  \/ PutTipset(p) \/ PutLatest(p)

Next ==
  \/ \E m \in Messages : Push(m) \/ GetNonce(m) \/ Refuse(m) \/ PushSigned(m)
  \/ \E m \in Signable : MpoolPush(m) \/ RefuseSigned(m)
  \/ MpoolClear
  \/ \E p \in Mines : MineTipset(p)
  \/ \E p \in Miners : Mine(p)
  \/ \E i \in increments : IncrementReads(i) \/ IncrementWrites(i)
  \/ \E i \in Intervals : Fire(i) \/ IntervalMines(i) \/ Rearm(i) \/ EnableMiner(i)
  \/ DisableMiner \/ Disabled
  \/ Stop \/ StopLocksPool \/ StopLocksTimeout \/ Stopped
  \/ Restart

Spec == Init /\ [][Next]_vars

\* Whatever has been called goes on; timers fire.
Fairness ==
  /\ \A m \in Messages : WF_vars(GetNonce(m) \/ Refuse(m) \/ PushSigned(m))
  /\ \A p \in Miners : WF_vars(Mine(p))
  /\ WF_vars(\E i \in increments : IncrementReads(i) \/ IncrementWrites(i))
  /\ \A i \in Intervals : WF_vars(Fire(i) \/ IntervalMines(i) \/ Rearm(i))
  /\ WF_vars(Disabled)
  /\ WF_vars(StopLocksPool \/ StopLocksTimeout \/ Stopped)

FairSpec == Spec /\ Fairness

(***************************************************************************)
(* Properties                                                              *)
(***************************************************************************)

Pushed(m) == pc[m] = "pushed"

Places(m) ==
  Cardinality({i \in DOMAIN pool : pool[i] = m})
  + (IF mining = None \/ latest # mining.parent THEN 0
     ELSE Cardinality({i \in DOMAIN (mining.left \o mining.done) :
                         (mining.left \o mining.done)[i] = m}))
  + Cardinality({h \in 1 .. latest : Contains(tipsets[h].messages, m)})
  + (IF m \in gone THEN 1 ELSE 0)

\* A push accepted has its message in one place only, the pool, the tipset being mined or one
\* that was, until it is cleared, refused for lack of funds, or lost by a restart.  (Clients
\* may push what they have signed again: it then is in as many places as it was pushed.)
MessagesKept == \A m \in Messages : Pushed(m) => Places(m) = 1

\* The tipsets up to the latest form a chain, also when a restart has found a tipset in
\* the database that it does not count as the latest.
TipsetsAreAChain ==
  /\ latest <= Len(tipsets)
  /\ \A h \in 1 .. latest : tipsets[h].parent = h - 1
  /\ latestKey \in {latest - 1, latest}

\* A nonce that push() has chosen is above those of its account before it in the pool, whoever
\* has chosen these; one that a client has chosen need not be.
PoolNoncesIncrease ==
  \A i, j \in DOMAIN pool :
    i < j /\ From[pool[i]] = From[pool[j]] /\ pool[j] \notin signed =>
      nonceOf[pool[i]] < nonceOf[pool[j]]

\* Messages and tipsets together: no push is lost or comes twice, and the nonces Ganache
\* chooses are above those they follow.
MessagesAreSound == MessagesKept /\ TipsetsAreAChain /\ PoolNoncesIncrease

\* "this will generate a nonce greater than any other nonce"
NoncesAreDistinct ==
  \A m, n \in Messages :
    m # n /\ From[m] = From[n] /\ Pushed(m) /\ Pushed(n) /\ ({m, n} \cap gone = {}) =>
      nonceOf[m] # nonceOf[n]

\* Once stop() has returned nothing is mined any more.
QuietOnceStopped == [][stopping = "stopped" => tipsets' = tipsets]_vars

\* "Gracefully shuts down the blockchain service and all of its dependencies."
StopEnds == stopping = "mining" ~> stopping \in {"stopped", "no"}

\* "If `false`, tipsets/blocks will only be mined with `Ganache.MineTipset`"
QuietWhenDisabled ==
  ~enabled /\ timeoutLock = <<>> /\ miningLock = <<>> => armed = {}
=============================================================================
