------------------------- MODULE RequestCoordinator -------------------------
(***************************************************************************)
(* src/packages/utils/src/utils/request-coordinator.ts, with the three     *)
(* parties that drive it: API calls (Executor.execute), the connector      *)
(* loader, which resumes it once the provider is ready, and                *)
(* EthereumProvider.disconnect, which stops and ends it.                   *)
(*                                                                         *)
(* Everything between two awaits is one step.  The API method a task calls *)
(* may take any time to settle, but it does not call the coordinator.      *)
(***************************************************************************)
EXTENDS Integers, Sequences, FiniteSets

CONSTANTS
  Tasks,        \* the requests; each is queued at most once
  Limits        \* 0: no limit (asyncRequestProcessing), else 1 in the source

ASSUME TasksAssumption == IsFiniteSet(Tasks)

ASSUME LimitsAssumption == Limits \subseteq Nat

VARIABLES
  limit,        \* how many tasks are processed at a time; 0: any number
  pending,      \* tasks waiting for their turn
  runningTasks, \* the counter the code compares with limit
  paused,
  stopped,      \* stop() has replaced resume and queue by functions that throw
  status,       \* what has become of each task
  blockchain,   \* "starting", "ready" or "stopped"
  loader,       \* "waiting" for the provider, then "resumed" or "threw"
  disconnect,   \* EthereumProvider.disconnect: "no", "stopping", "done"
  queued        \* history: the tasks ever accepted, in order

vars == <<limit, pending, runningTasks, paused, stopped, status, blockchain,
          loader, disconnect, queued>>

Statuses == {"idle", "pending", "running", "settled", "rejected", "refused"}

TypeOK ==
  /\ limit \in Limits
  /\ pending \in Seq(Tasks)
  /\ runningTasks \in Nat
  /\ paused \in BOOLEAN
  /\ stopped \in BOOLEAN
  /\ status \in [Tasks -> Statuses]
  /\ blockchain \in {"starting", "ready", "stopped"}
  /\ loader \in {"waiting", "resumed", "threw"}
  /\ disconnect \in {"no", "stopping", "done"}
  /\ queued \in Seq(Tasks)

\* The coordinator starts out paused.
Init ==
  /\ limit \in Limits
  /\ pending = <<>>
  /\ runningTasks = 0
  /\ paused = TRUE
  /\ stopped = FALSE
  /\ status = [t \in Tasks |-> "idle"]
  /\ blockchain = "starting"
  /\ loader = "waiting"
  /\ disconnect = "no"
  /\ queued = <<>>

-----------------------------------------------------------------------------

\* Mutant: the limit is compared after the increment of runningTasks.
StartableOffByOne(q, running, isPaused) ==
  IF isPaused THEN 0
  ELSE IF limit = 0 \/ Len(q) <= limit + 1 - running THEN Len(q)
  ELSE limit + 1 - running

(***************************************************************************)
(* #process: how many tasks its loop shifts off the pending queue q.       *)
(***************************************************************************)
Startable(q, running, isPaused) ==
  IF isPaused THEN 0
  ELSE IF limit = 0 \/ Len(q) <= limit - running THEN Len(q)
  ELSE limit - running

(***************************************************************************)
(* #process run with pending = q, runningTasks = running, the statuses st: *)
(* the tasks it shifts off start, in the order of the queue.               *)
(***************************************************************************)
Process(q, running, isPaused, st) ==
  LET n == Startable(q, running, isPaused)
      started == {q[i] : i \in 1..n}
  IN  /\ pending' = SubSeq(q, n + 1, Len(q))
      /\ runningTasks' = running + n
      /\ status' = [t \in Tasks |-> IF t \in started THEN "running" ELSE st[t]]

(***************************************************************************)
(* queue(): append and process; after stop() the call rejects instead.     *)
(***************************************************************************)
\* Mutant: the new task jumps the queue.
AtFront(t) == <<t>> \o pending

AtEnd(t) == Append(pending, t)

Queue(t) ==
  /\ status[t] = "idle"
  /\ IF stopped
     THEN /\ status' = [status EXCEPT ![t] = "refused"]
          /\ UNCHANGED <<pending, runningTasks, queued>>
     ELSE /\ queued' = Append(queued, t)
          /\ Process(AtEnd(t), runningTasks, paused,
                     [status EXCEPT ![t] = "pending"])
  /\ UNCHANGED <<limit, paused, stopped, blockchain, loader, disconnect>>

SettleAndProcess(t) ==
  Process(pending, runningTasks - 1, paused, [status EXCEPT ![t] = "settled"])

(***************************************************************************)
(* The promise of a running task settles, either way: .catch().finally().  *)
(***************************************************************************)
Settle(t) ==
  /\ status[t] = "running"
  /\ SettleAndProcess(t)
  /\ UNCHANGED <<limit, paused, stopped, blockchain, loader, disconnect, queued>>

(***************************************************************************)
(* Blockchain.initialize finishes: "ready" is emitted.                     *)
(***************************************************************************)
BlockchainReady ==
  /\ blockchain = "starting"
  /\ blockchain' = "ready"
  /\ UNCHANGED <<limit, pending, runningTasks, paused, stopped, status, loader,
                 disconnect, queued>>

(***************************************************************************)
(* connectPromise.then(() => requestCoordinator.resume()).  The connector  *)
(* promise resolves some time after "ready"; by then resume() may throw.   *)
(***************************************************************************)
\* Mutant: the loader keeps a reference to the resume() of before stop().
StaleResume ==
  /\ loader' = "resumed"
  /\ paused' = FALSE
  /\ Process(pending, runningTasks, FALSE, status)

CurrentResume ==
  IF stopped
  THEN /\ loader' = "threw"
       /\ UNCHANGED <<pending, runningTasks, paused, status>>
  ELSE /\ loader' = "resumed"
       /\ paused' = FALSE
       /\ Process(pending, runningTasks, FALSE, status)

Resume ==
  /\ blockchain # "starting"
  /\ loader = "waiting"
  /\ CurrentResume
  /\ UNCHANGED <<limit, stopped, blockchain, disconnect, queued>>

(***************************************************************************)
(* disconnect(): executor.stop(), then it waits for blockchain.stop().     *)
(***************************************************************************)
Stop ==
  /\ disconnect = "no"
  /\ disconnect' = "stopping"
  /\ paused' = TRUE
  /\ stopped' = TRUE
  /\ UNCHANGED <<limit, pending, runningTasks, status, blockchain, loader,
                 queued>>

(***************************************************************************)
(* Blockchain.stop: a blockchain that is starting gets ready first.        *)
(***************************************************************************)
BlockchainStopped ==
  /\ disconnect = "stopping"
  /\ blockchain = "ready"
  /\ blockchain' = "stopped"
  /\ UNCHANGED <<limit, pending, runningTasks, paused, stopped, status, loader,
                 disconnect, queued>>

\* Mutant: end() rejects only the first pending task.
FirstPending == IF pending = <<>> THEN {} ELSE {pending[1]}

AllPending == {pending[i] : i \in 1..Len(pending)}

(***************************************************************************)
(* disconnect() goes on: executor.end() rejects all that is pending.       *)
(***************************************************************************)
End ==
  /\ disconnect = "stopping"
  /\ blockchain = "stopped"
  /\ disconnect' = "done"
  /\ pending' = <<>>
  /\ status' = [t \in Tasks |-> IF t \in AllPending THEN "rejected"
                                                    ELSE status[t]]
  /\ UNCHANGED <<limit, runningTasks, paused, stopped, blockchain, loader,
                 queued>>

Next ==
  \/ \E t \in Tasks : Queue(t) \/ Settle(t)
  \/ BlockchainReady \/ Resume \/ Stop \/ BlockchainStopped \/ End

Spec == Init /\ [][Next]_vars

(***************************************************************************)
(* Fairness: the event loop runs every reaction that is ready; API methods *)
(* settle; initialization and shutdown, once begun, finish.  Nothing       *)
(* obliges a client to call an API method or to disconnect.                *)
(***************************************************************************)
Fairness ==
  /\ \A t \in Tasks : WF_vars(Settle(t))
  /\ WF_vars(BlockchainReady)
  /\ WF_vars(Resume)
  /\ WF_vars(BlockchainStopped)
  /\ WF_vars(End)

FairSpec == Spec /\ Fairness

-----------------------------------------------------------------------------

Running == {t \in Tasks : status[t] = "running"}

(***************************************************************************)
(* At most limit requests are processed at a time, and the counter that    *)
(* decides it is the number of tasks that really are in flight, whatever   *)
(* the interleaving of queue, settle, resume and stop.                     *)
(***************************************************************************)
WithinLimit ==
  /\ runningTasks = Cardinality(Running)
  /\ limit > 0 => runningTasks <= limit

(***************************************************************************)
(* No lost wake-up: a task is left pending only while the coordinator is   *)
(* paused or every slot is taken.                                          *)
(***************************************************************************)
NoIdleCapacity ==
  ~paused /\ pending # <<>> => limit > 0 /\ runningTasks = limit

\* As many requests are processed as may be, and no more.
KeepsToLimit == WithinLimit /\ NoIdleCapacity

(***************************************************************************)
(* FIFO: the pending tasks are always the most recently queued ones, so no *)
(* task starts, or is rejected by end(), before one queued earlier.        *)
(***************************************************************************)
StartsInOrder ==
  pending = SubSeq(queued, Len(queued) - Len(pending) + 1, Len(queued))

(***************************************************************************)
(* stop() is irreversible (request-coordinator.ts:84-86): no task starts   *)
(* after it, not when a running task settles and not when the loader, late *)
(* with its resume(), finds the provider ready.                            *)
(***************************************************************************)
NothingStartsAfterStop ==
  [][stopped => Running' \subseteq Running]_vars

(***************************************************************************)
(* Every request is answered: it runs and settles, or is rejected.         *)
(***************************************************************************)
Answered ==
  \A t \in Tasks : status[t] \in {"pending", "running"}
                     ~> status[t] \in {"settled", "rejected"}

===========================================================================
